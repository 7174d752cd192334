-------------------------------- MODULE SCmd --------------------------------
(***************************************************************************)
(* S-commands: cdvdman_sendSCmd and cdvdman_writeSCmd talk to the          *)
(* mechacon, the controller of the clock, the identity and the power of    *)
(* the console, through a few registers that hold one command at a time.   *)
(* cdvdman_scmdsema serialises the threads that do.                        *)
(***************************************************************************)
EXTENDS Integers, Sequences

CONSTANTS
  ScmdThreads,
  ScmdCalls,       \* what each thread may call, see Sends
  RetryLimit,      \* retries of a command while the mechacon is busy (2500)
  MaxLeftover      \* bound: bytes of an answer nobody has read

ASSUME ScmdAssumption ==
  /\ ScmdCalls \in [ScmdThreads -> SUBSET {"sceCdRI", "sceCdReadClock", "sceCdRC", "sceCdRM", "sceCdPowerOff",
                                           "sceCdApplySCmd"}]
  /\ RetryLimit \in Nat /\ MaxLeftover \in Nat

VARIABLES
  boot,            \* the mechacon when cdvdman is loaded: "free", "busy" or "hung" with a command of another
  newer,           \* it is newer than sceCdRM knows
  queue,           \* cdvdman_scmdsema, first come first served: its holder, then those who wait
  mechacon,        \* busy; the command, its parameters; answer: the bytes SDATAOUT will give
  sc,              \* where each thread is
  sv               \* its locals; sent: history, how often the command was sent

scmdvars == <<boot, newer, queue, mechacon, sc, sv>>

\* What a call sends: the command, its parameter bytes, the size of the
\* answer it has room for.
Send(cmd, in, size) == [cmd |-> cmd, in |-> in, size |-> size]
Sends(call) ==
  CASE call = "sceCdRI" -> <<Send(18, <<>>, 9)>>
    [] call = "sceCdReadClock" -> <<Send(8, <<>>, 8)>>
    [] call = "sceCdRC" -> <<Send(8, <<>>, 8)>>
    [] call = "sceCdRM" -> <<Send(3, <<0>>, 4), Send(23, <<0>>, 9), Send(23, <<8>>, 9)>>
    [] call = "sceCdPowerOff" -> <<Send(15, <<>>, 1)>>
    [] call = "sceCdApplySCmd" -> <<Send(5, <<1, 2>>, 16)>>

\* The answer of the mechacon (external).
AnswerBytes(cmd) ==
  CASE cmd = 18 -> 9 [] cmd = 8 -> 8 [] cmd = 3 -> 4 [] cmd = 23 -> 9 [] cmd = 15 -> 1 [] cmd = 5 -> 2
Answered(cmd, in) == [j \in 1 .. AnswerBytes(cmd) |-> <<cmd, in, j>>]

Foreign == 0
NoCommand == [call |-> "none", i |-> 1, retries |-> 0, k |-> 0, rdbuf |-> <<>>, sent |-> 0, outs |-> <<>>]

ScmdInit ==
  /\ boot \in {"free", "busy", "hung"}
  /\ newer \in BOOLEAN
  /\ queue = <<>>
  /\ \E n \in 0 .. MaxLeftover :
       mechacon = [busy |-> boot # "free", cmd |-> Foreign, in |-> <<>>, answer |-> [j \in 1 .. n |-> <<Foreign, <<>>, j>>]]
  /\ sc = [t \in ScmdThreads |-> "idle"]
  /\ sv = [t \in ScmdThreads |-> NoCommand]

Now(t) == Sends(sv[t].call)[sv[t].i]
From(t, here) == sc[t] = here
Next1(t, there) == sc' = [sc EXCEPT ![t] = there]

-----------------------------------------------------------------------------
\* The command ends: its answer can be read.
MechaconEnds ==
  /\ mechacon.busy /\ ~(boot = "hung" /\ mechacon.cmd = Foreign)
  /\ mechacon' = [busy |-> FALSE, cmd |-> Foreign, in |-> <<>>,
                  answer |-> mechacon.answer \o IF mechacon.cmd = Foreign THEN <<>>
                                                ELSE Answered(mechacon.cmd, mechacon.in)]
  /\ UNCHANGED <<boot, newer, queue, sc, sv>>

\* A call of one of the functions.
ScmdCall(t) == \E call \in ScmdCalls[t] :
  /\ From(t, "idle") /\ Next1(t, "wait")
  /\ sv' = [sv EXCEPT ![t].call = call]
  /\ UNCHANGED <<boot, newer, queue, mechacon>>

-----------------------------------------------------------------------------
(***************************************************************************)
(* cdvdman_writeSCmd.                                                      *)
(***************************************************************************)
\* WaitSema(cdvdman_scmdsema); the thread goes on as its first in line.
ScmdWait(t) ==
  /\ From(t, "wait") /\ Next1(t, "test")
  /\ queue' = Append(queue, t)
  /\ UNCHANGED <<boot, newer, mechacon, sv>>
Holder(t) == queue # <<>> /\ Head(queue) = t
SignalScmd == queue' = Tail(queue)

\* Mutant: the semaphore is not given back when the mechacon is busy.
BusyKeeps(t) ==
  /\ From(t, "test") /\ Holder(t)
  /\ Next1(t, IF mechacon.busy THEN "delay" ELSE "flush") /\ UNCHANGED queue
  /\ UNCHANGED <<boot, newer, mechacon, sv>>
\* Return 0 when it is busy.
ScmdTest(t) ==
  /\ From(t, "test") /\ Holder(t)
  /\ \/ mechacon.busy /\ Next1(t, "delay") /\ SignalScmd
     \/ ~mechacon.busy /\ Next1(t, "flush") /\ UNCHANGED queue
  /\ UNCHANGED <<boot, newer, mechacon, sv>>

\* Mutant: what an earlier command has left is not read away.
FlushNot(t) ==
  /\ From(t, "flush") /\ Next1(t, "params")
  /\ UNCHANGED <<boot, newer, queue, mechacon, sv>>
\* What an earlier command has left is read away, byte by byte.
ScmdFlush(t) ==
  /\ From(t, "flush")
  /\ \/ mechacon.answer # <<>> /\ mechacon' = [mechacon EXCEPT !.answer = Tail(@)] /\ UNCHANGED sc
     \/ mechacon.answer = <<>> /\ Next1(t, "params") /\ UNCHANGED mechacon
  /\ UNCHANGED <<boot, newer, queue, sv>>

\* The parameters, byte by byte, then the command.
ScmdParam(t) ==
  /\ From(t, "params") /\ sv[t].k < Len(Now(t).in)
  /\ mechacon' = [mechacon EXCEPT !.in = Append(@, Now(t).in[sv[t].k + 1])]
  /\ sv' = [sv EXCEPT ![t].k = @ + 1]
  /\ UNCHANGED <<boot, newer, queue, sc>>
ScmdStart(t) ==
  /\ From(t, "params") /\ sv[t].k = Len(Now(t).in)
  /\ Next1(t, "poll")
  /\ mechacon' = [mechacon EXCEPT !.busy = TRUE, !.cmd = Now(t).cmd]
  /\ sv' = [sv EXCEPT ![t].sent = @ + 1]
  /\ UNCHANGED <<boot, newer, queue>>

\* Wait for its end, and read the answer into rdbuf.
ScmdPoll(t) ==
  /\ From(t, "poll") /\ ~mechacon.busy /\ Next1(t, "read")
  /\ UNCHANGED <<boot, newer, queue, mechacon, sv>>
ScmdRead(t) ==
  /\ From(t, "read") /\ mechacon.answer # <<>>
  /\ sv' = [sv EXCEPT ![t].rdbuf = Append(@, Head(mechacon.answer))]
  /\ mechacon' = [mechacon EXCEPT !.answer = Tail(@)]
  /\ UNCHANGED <<boot, newer, queue, sc>>

Given(t) == [sent |-> sv[t].sent,
             data |-> SubSeq(sv[t].rdbuf, 1, IF Now(t).size > Len(sv[t].rdbuf) THEN Len(sv[t].rdbuf)
                                             ELSE Now(t).size)]
\* The caller gets as much of it as there is and as it has room for.
ScmdCopy(t) ==
  /\ From(t, "read") /\ mechacon.answer = <<>>
  /\ Next1(t, "done") /\ SignalScmd
  /\ sv' = [sv EXCEPT ![t].outs = Append(@, Given(t))]
  /\ UNCHANGED <<boot, newer, mechacon>>

-----------------------------------------------------------------------------
\* cdvdman_sendSCmd: try again, and give up in the end, with the same
\* result and the caller's memory as it was.
ScmdRetry(t) ==
  /\ From(t, "delay")
  /\ \/ /\ sv[t].retries < RetryLimit /\ Next1(t, "wait")
        /\ sv' = [sv EXCEPT ![t].retries = @ + 1]
     \/ /\ sv[t].retries = RetryLimit /\ Next1(t, "done")
        /\ sv' = [sv EXCEPT ![t].outs = Append(@, Given(t))]
  /\ UNCHANGED <<boot, newer, queue, mechacon>>

\* sceCdRM leaves the other commands out when the first one's answer, or
\* the stack where there is none, is a version it does not know.
Ends(t) ==
  \/ sv[t].i = Len(Sends(sv[t].call))
  \/ sv[t].i = 1 /\ (newer \/ sv[t].sent = 0)
More(t) == sv[t].i < Len(Sends(sv[t].call)) /\ (sv[t].i > 1 \/ ~newer \/ sv[t].sent = 0)
ScmdDone(t) ==
  /\ From(t, "done")
  /\ \/ Ends(t) /\ Next1(t, "return") /\ UNCHANGED sv
     \/ /\ More(t) /\ Next1(t, "wait")
        /\ sv' = [sv EXCEPT ![t] = [NoCommand EXCEPT !.call = sv[t].call, !.i = sv[t].i + 1, !.outs = sv[t].outs]]
  /\ UNCHANGED <<boot, newer, queue, mechacon>>
ScmdReturn(t) ==
  /\ From(t, "return") /\ Next1(t, "idle")
  /\ sv' = [sv EXCEPT ![t] = NoCommand]
  /\ UNCHANGED <<boot, newer, queue, mechacon>>

InScmd(t) ==
  \/ ScmdWait(t) \/ ScmdTest(t) \/ ScmdFlush(t) \/ ScmdParam(t) \/ ScmdStart(t) \/ ScmdPoll(t)
  \/ ScmdRead(t) \/ ScmdCopy(t) \/ ScmdRetry(t) \/ ScmdDone(t) \/ ScmdReturn(t)

ScmdNext == MechaconEnds \/ \E t \in ScmdThreads : ScmdCall(t) \/ InScmd(t)

-----------------------------------------------------------------------------
\* A call hands out the answers of its own commands with its own parameters,
\* in their order, each sent once, whoever else calls and whatever was left
\* in the registers.  It goes without only when cdvdman found the mechacon
\* occupied on loading: no caller ever meets another caller's command.
AnswersOwn ==
  \A t \in ScmdThreads : \A i \in DOMAIN sv[t].outs :
    LET out == sv[t].outs[i]
        q == Sends(sv[t].call)[i]
        own == Answered(q.cmd, q.in)
    IN  \/ out.sent = 1 /\ out.data = IF q.size < Len(own) THEN SubSeq(own, 1, q.size) ELSE own
        \/ out.sent = 0 /\ out.data = <<>> /\ boot # "free"

\* Every S-command returns, also when the mechacon hangs in a command of
\* another: the thread that finds it busy lets the others try, and none tries
\* for ever.
CommandsReturn == \A t \in ScmdThreads : sc[t] # "idle" ~> sc[t] = "idle"
=============================================================================
