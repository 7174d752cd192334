---------------------------- MODULE DevicesProofs ----------------------------
(***************************************************************************)
(* What the hardware below the read path does for its callers, for any     *)
(* threads, calls and sizes: proofs about the mechacon and its S-commands, *)
(* the block device glue, the client of a file server, and the USB mass    *)
(* storage driver.                                                         *)
(***************************************************************************)
EXTENDS Devices, SequenceTheorems, TLAPS

\* A step of a build is a step of its mechacon, or leaves it alone.
LEMMA ScmdSteps == [DevNext]_devvars => [ScmdNext]_scmdvars
  BY DEF DevNext, InUsb, InHdd, InSmb, InBdm, InMechacon, devvars, scmdvars

-----------------------------------------------------------------------------
(***************************************************************************)
(* S-commands: what a command is, and what the mechacon answers.           *)
(***************************************************************************)
Commands == [cmd: Nat \ {Foreign}, in: Seq(Nat), size: Nat]
CallNames == {"sceCdRI", "sceCdReadClock", "sceCdRC", "sceCdRM", "sceCdPowerOff", "sceCdApplySCmd"}
AnswerByte == Nat \X Seq(Nat) \X Nat

\* Each function sends one command or several.
LEMMA SendsTyped ==
  ASSUME NEW call \in CallNames
  PROVE  Sends(call) \in Seq(Commands) /\ Len(Sends(call)) \in Nat \ {0}
<1>1. <<>> \in Seq(Nat) /\ <<0>> \in Seq(Nat) /\ <<8>> \in Seq(Nat) /\ <<1, 2>> \in Seq(Nat)
  OBVIOUS
<1> USE DEF Send, Commands, Foreign
<1>2. CASE call = "sceCdRI"
  <2>1. Send(18, <<>>, 9) \in Commands BY <1>1
  <2>2. Sends(call) = <<Send(18, <<>>, 9)>> BY <1>2 DEF Sends
  <2> HIDE DEF Send, Commands
  <2> QED BY <2>1, <2>2
<1>3. CASE call = "sceCdReadClock" \/ call = "sceCdRC"
  <2>1. Send(8, <<>>, 8) \in Commands BY <1>1
  <2>2. Sends(call) = <<Send(8, <<>>, 8)>> BY <1>3 DEF Sends
  <2> HIDE DEF Send, Commands
  <2> QED BY <2>1, <2>2
<1>4. CASE call = "sceCdRM"
  <2>1. Send(3, <<0>>, 4) \in Commands BY <1>1
  <2>2. Send(23, <<0>>, 9) \in Commands BY <1>1
  <2>3. Send(23, <<8>>, 9) \in Commands BY <1>1
  <2>4. Sends(call) = <<Send(3, <<0>>, 4), Send(23, <<0>>, 9), Send(23, <<8>>, 9)>>
    BY <1>4 DEF Sends
  <2> HIDE DEF Send, Commands
  <2> QED BY <2>1, <2>2, <2>3, <2>4
<1>5. CASE call = "sceCdPowerOff"
  <2>1. Send(15, <<>>, 1) \in Commands BY <1>1
  <2>2. Sends(call) = <<Send(15, <<>>, 1)>> BY <1>5 DEF Sends
  <2> HIDE DEF Send, Commands
  <2> QED BY <2>1, <2>2
<1>6. CASE call = "sceCdApplySCmd"
  <2>1. Send(5, <<1, 2>>, 16) \in Commands BY <1>1
  <2>2. Sends(call) = <<Send(5, <<1, 2>>, 16)>> BY <1>6 DEF Sends
  <2> HIDE DEF Send, Commands
  <2> QED BY <2>1, <2>2
<1> QED BY <1>2, <1>3, <1>4, <1>5, <1>6 DEF CallNames

\* Every command sent is one the mechacon answers with so many bytes.
LEMMA AnswerTyped ==
  ASSUME NEW call \in CallNames, NEW i \in 1 .. Len(Sends(call))
  PROVE  LET q == Sends(call)[i]
         IN  AnswerBytes(q.cmd) \in Nat /\ Answered(q.cmd, q.in) \in Seq(AnswerByte)
<1>a. Sends(call)[i] \in Commands BY SendsTyped
<1>1. AnswerBytes(Sends(call)[i].cmd) \in Nat
  <2>1. CASE call = "sceCdRM"
    <3>1. Sends(call) = <<Send(3, <<0>>, 4), Send(23, <<0>>, 9), Send(23, <<8>>, 9)>>
      BY <2>1 DEF Sends
    <3>2. Sends(call)[i].cmd \in {3, 23} BY <3>1 DEF Send
    <3> QED BY <3>2 DEF AnswerBytes
  <2>2. CASE call # "sceCdRM"
    <3>1. Sends(call)[i].cmd \in {18, 8, 15, 5}
      <4>1. CASE call = "sceCdRI" BY <4>1 DEF Sends, Send
      <4>2. CASE call = "sceCdReadClock" \/ call = "sceCdRC" BY <4>2 DEF Sends, Send
      <4>3. CASE call = "sceCdPowerOff" BY <4>3 DEF Sends, Send
      <4>4. CASE call = "sceCdApplySCmd" BY <4>4 DEF Sends, Send
      <4> QED BY <2>2, <4>1, <4>2, <4>3, <4>4 DEF CallNames
    <3> QED BY <3>1 DEF AnswerBytes
  <2> QED BY <2>1, <2>2
<1> QED BY <1>a, <1>1 DEF Answered, Commands, AnswerByte

-----------------------------------------------------------------------------
(***************************************************************************)
(* The inductive invariant of the S-commands.                              *)
(***************************************************************************)
Serving == {"flush", "params", "poll", "read"}
InLine == Serving \cup {"test"}
ScmdPlaces == InLine \cup {"idle", "wait", "delay", "done", "return"}
ScmdOut == [sent: Nat, data: Seq(AnswerByte)]
ScmdLocals == [call: CallNames \cup {"none"}, i: Nat \ {0}, retries: Nat, k: Nat,
               rdbuf: Seq(AnswerByte), sent: Nat, outs: Seq(ScmdOut)]

MechaconStates == [busy: BOOLEAN, cmd: Nat, in: Seq(Nat), answer: Seq(AnswerByte)]

ScmdTypes ==
  /\ boot \in {"free", "busy", "hung"} /\ newer \in BOOLEAN
  /\ queue \in Seq(ScmdThreads)
  /\ mechacon \in MechaconStates
  /\ sc \in [ScmdThreads -> ScmdPlaces]
  /\ sv \in [ScmdThreads -> ScmdLocals]

\* cdvdman_scmdsema: a thread is in line once, and only the first is served.
LineInv ==
  /\ \A i, j \in 1 .. Len(queue) : queue[i] = queue[j] => i = j
  /\ \A i \in 1 .. Len(queue) : sc[queue[i]] \in InLine
  /\ \A t \in ScmdThreads : sc[t] \in Serving => Len(queue) > 0 /\ queue[1] = t

\* The mechacon while nobody is served: busy only with what it was busy with
\* when cdvdman was loaded.
UnservedInv ==
  (\A t \in ScmdThreads : sc[t] \notin Serving) =>
    mechacon.in = <<>> /\ (mechacon.busy => mechacon.cmd = Foreign /\ boot # "free")

\* The mechacon while thread t is served: it has got the parameters sent so
\* far and nothing else, and gives the answer to them.
Owned(t) == Answered(Now(t).cmd, Now(t).in)
ServedInv(t) ==
  /\ sc[t] = "flush" => ~mechacon.busy /\ mechacon.in = <<>>
  /\ sc[t] = "params" =>
       /\ ~mechacon.busy /\ mechacon.answer = <<>>
       /\ Len(mechacon.in) = sv[t].k /\ sv[t].k <= Len(Now(t).in)
       /\ \A j \in 1 .. sv[t].k : mechacon.in[j] = Now(t).in[j]
  /\ sc[t] = "poll" /\ mechacon.busy =>
       mechacon.cmd = Now(t).cmd /\ mechacon.in = Now(t).in /\ mechacon.answer = <<>>
  /\ sc[t] = "poll" /\ ~mechacon.busy => mechacon.in = <<>> /\ mechacon.answer = Owned(t)
  /\ sc[t] = "read" =>
       /\ ~mechacon.busy /\ mechacon.in = <<>>
       /\ Len(sv[t].rdbuf) + Len(mechacon.answer) = Len(Owned(t))
       /\ \A j \in 1 .. Len(sv[t].rdbuf) : sv[t].rdbuf[j] = Owned(t)[j]
       /\ \A j \in 1 .. Len(mechacon.answer) : mechacon.answer[j] = Owned(t)[Len(sv[t].rdbuf) + j]

\* A thread's locals: which of its commands it is at, and how far.
ScmdLocalInv(t) ==
  /\ sc[t] = "idle" => sv[t] = NoCommand
  /\ sc[t] # "idle" => sv[t].call \in CallNames /\ sv[t].i \in 1 .. Len(Sends(sv[t].call))
  /\ sc[t] \in {"wait", "test", "delay", "flush"} => sv[t].k = 0
  /\ sc[t] \in {"wait", "test", "delay", "flush", "params"} => sv[t].sent = 0 /\ sv[t].rdbuf = <<>>
  /\ sc[t] = "poll" => sv[t].sent = 1 /\ sv[t].rdbuf = <<>>
  /\ sc[t] = "read" => sv[t].sent = 1
  /\ sc[t] = "delay" => boot # "free"
  /\ Len(sv[t].outs) = IF sc[t] \in {"done", "return"} THEN sv[t].i ELSE sv[t].i - 1

\* What a command has handed out is its own answer, or nothing at all.
OutOwn(call, i, out) ==
  LET q == Sends(call)[i]
      own == Answered(q.cmd, q.in)
  IN  \/ out.sent = 1 /\ out.data = IF q.size < Len(own) THEN SubSeq(own, 1, q.size) ELSE own
      \/ out.sent = 0 /\ out.data = <<>> /\ boot # "free"
OutsOwn(t) == \A i \in 1 .. Len(sv[t].outs) : OutOwn(sv[t].call, i, sv[t].outs[i])

ThreadInv(t) == ServedInv(t) /\ ScmdLocalInv(t) /\ OutsOwn(t)
ScmdInv == ScmdTypes /\ LineInv /\ UnservedInv /\ \A t \in ScmdThreads : ThreadInv(t)

\* It states that what is handed out is a call's own.
LEMMA ScmdInvAnswersOwn == ScmdInv => AnswersOwn
<1> SUFFICES ASSUME ScmdInv, NEW t \in ScmdThreads, NEW i \in DOMAIN sv[t].outs
             PROVE  OutOwn(sv[t].call, i, sv[t].outs[i])
  BY DEF AnswersOwn, OutOwn
<1>1. sv[t].outs \in Seq(ScmdOut) BY DEF ScmdInv, ScmdTypes, ScmdLocals
<1>2. i \in 1 .. Len(sv[t].outs) BY <1>1
<1> QED BY <1>2 DEF ScmdInv, ThreadInv, OutsOwn

\* Nobody has called when cdvdman is loaded.
LEMMA ScmdInitInv == DevInit => ScmdInv
<1> SUFFICES ASSUME ScmdInit PROVE ScmdInv BY DEF DevInit
<1>1. PICK n \in 0 .. MaxLeftover :
        mechacon = [busy |-> boot # "free", cmd |-> Foreign, in |-> <<>>,
                    answer |-> [j \in 1 .. n |-> <<Foreign, <<>>, j>>]]
  BY DEF ScmdInit
<1>2. [j \in 1 .. n |-> <<Foreign, <<>>, j>>] \in Seq(AnswerByte)
  <2>1. n \in Nat /\ <<>> \in Seq(Nat) BY ScmdAssumption
  <2>2. ASSUME NEW e \in Seq(Nat), NEW j \in 1 .. n PROVE <<Foreign, e, j>> \in AnswerByte
    BY <2>1 DEF AnswerByte, Foreign
  <2>3. [j \in 1 .. n |-> <<Foreign, <<>>, j>>] \in [1 .. n -> AnswerByte] BY <2>1, <2>2
  <2> QED BY <2>1, <2>3
<1>3. NoCommand \in ScmdLocals /\ NoCommand.i = 1 /\ NoCommand.outs = <<>>
  BY DEF NoCommand, ScmdLocals
<1>4. ScmdTypes
  BY <1>1, <1>2, <1>3 DEF ScmdInit, ScmdTypes, MechaconStates, ScmdPlaces, InLine, Serving, Foreign
<1>5. LineInv BY DEF ScmdInit, LineInv, Serving
<1>7. UnservedInv BY <1>1 DEF UnservedInv
<1>6. ASSUME NEW t \in ScmdThreads PROVE ThreadInv(t)
  BY <1>3 DEF ScmdInit, ThreadInv, ServedInv, ScmdLocalInv, OutsOwn
<1> QED BY <1>4, <1>5, <1>6, <1>7 DEF ScmdInv

\* The state of the others' threads is theirs alone.
OthersScmd(t) ==
  /\ UNCHANGED <<boot, newer>>
  /\ \A u \in ScmdThreads \ {t} : sc'[u] = sc[u] /\ sv'[u] = sv[u]

\* A step of thread t keeps the invariant if it keeps t's part and the line's,
\* and touches the mechacon only while t is served.
LEMMA ScmdKept ==
  ASSUME ScmdInv, NEW t \in ScmdThreads, OthersScmd(t), ScmdTypes', LineInv', UnservedInv', ThreadInv(t)',
         mechacon' = mechacon \/ sc[t] \in Serving
  PROVE  ScmdInv'
<1> SUFFICES ASSUME NEW u \in ScmdThreads, u # t PROVE ThreadInv(u)' BY DEF ScmdInv
<1>1. sc'[u] = sc[u] /\ sv'[u] = sv[u] /\ boot' = boot BY DEF OthersScmd
<1>2. ThreadInv(u) BY DEF ScmdInv
<1>3. ServedInv(u)'
  <2>1. CASE mechacon' = mechacon
    <3>1. Now(u)' = Now(u) BY <1>1 DEF Now
    <3>2. Owned(u)' = Owned(u) BY <1>1, <3>1 DEF Owned
    <3> QED BY ZenonT(30), <1>1, <1>2, <2>1, <3>1, <3>2 DEF ThreadInv, ServedInv
  <2>2. CASE sc[t] \in Serving
    <3>1. sc[u] \notin Serving BY <2>2 DEF ScmdInv, LineInv
    <3> QED BY <1>1, <3>1 DEF ServedInv, Serving
  <2> QED BY <2>1, <2>2
<1>4. ScmdLocalInv(u)' BY <1>1, <1>2 DEF ThreadInv, ScmdLocalInv
<1>5. OutsOwn(u)' BY <1>1, <1>2 DEF ThreadInv, OutsOwn, OutOwn
<1> QED BY <1>3, <1>4, <1>5 DEF ThreadInv

\* It keeps the line's part if it does not leave the line.
LEMMA LineKept ==
  ASSUME ScmdInv, NEW t \in ScmdThreads, OthersScmd(t), queue' = queue,
         sc[t] \in InLine => sc'[t] \in InLine,
         sc'[t] \in Serving => Len(queue) > 0 /\ queue[1] = t
  PROVE  LineInv'
<1>1. queue \in Seq(ScmdThreads) BY DEF ScmdInv, ScmdTypes
<1> QED BY <1>1 DEF ScmdInv, LineInv, OthersScmd

\* The first in line leaves it, no longer served.
LEMMA LineLeft ==
  ASSUME ScmdInv, NEW t \in ScmdThreads, OthersScmd(t), Len(queue) > 0, queue[1] = t,
         queue' = Tail(queue), sc'[t] \notin Serving
  PROVE  LineInv' /\ queue' \in Seq(ScmdThreads)
<1>1. queue \in Seq(ScmdThreads) /\ queue # <<>> BY DEF ScmdInv, ScmdTypes
<1>2. /\ queue' \in Seq(ScmdThreads) /\ Len(queue') = Len(queue) - 1
      /\ \A i \in 1 .. Len(queue') : queue'[i] = queue[i + 1]
  BY <1>1, HeadTailProperties
<1>3. \A i \in 1 .. Len(queue') : i + 1 \in 1 .. Len(queue) /\ i + 1 # 1 /\ queue[i + 1] # t
  BY <1>1, <1>2 DEF ScmdInv, LineInv
<1>4. \A i, j \in 1 .. Len(queue') : queue'[i] = queue'[j] => i = j
  BY <1>2, <1>3 DEF ScmdInv, LineInv
<1>5. \A i \in 1 .. Len(queue') : sc'[queue'[i]] \in InLine
  BY <1>1, <1>2, <1>3 DEF ScmdInv, LineInv, OthersScmd
<1>6. \A u \in ScmdThreads : sc'[u] \notin Serving BY DEF ScmdInv, LineInv, OthersScmd
<1> QED BY <1>2, <1>4, <1>5, <1>6 DEF LineInv

\* A thread that is in a call is at a command of it, which the mechacon
\* answers.
LEMMA CommandTyped ==
  ASSUME ScmdInv, NEW t \in ScmdThreads, sc[t] # "idle"
  PROVE  Now(t) \in Commands /\ Owned(t) \in Seq(AnswerByte) /\ sv[t] \in ScmdLocals
<1>1. sv[t].call \in CallNames /\ sv[t].i \in 1 .. Len(Sends(sv[t].call)) /\ sv[t] \in ScmdLocals
  BY DEF ScmdInv, ScmdTypes, ThreadInv, ScmdLocalInv
<1>2. Sends(sv[t].call) \in Seq(Commands) BY <1>1, SendsTyped
<1>3. Sends(sv[t].call)[sv[t].i] \in Commands BY <1>1, <1>2
<1> QED BY <1>1, <1>3, AnswerTyped DEF Now, Owned

\* The steps that do not touch the mechacon: a call, its wait for the
\* semaphore, the test, the retry, the next command, the return.
LEMMA ScmdCallKeeps ==
  ASSUME ScmdInv, NEW t \in ScmdThreads, ScmdCall(t)
  PROVE  ScmdInv'
<1> USE DEF From, Next1
<1>a. ScmdTypes /\ ThreadInv(t) BY DEF ScmdInv
<1>1. PICK call \in ScmdCalls[t] : sv' = [sv EXCEPT ![t].call = call] BY DEF ScmdCall
<1>2. call \in CallNames BY ScmdAssumption DEF CallNames
<1>3. sc[t] = "idle" /\ sc' = [sc EXCEPT ![t] = "wait"] /\ UNCHANGED <<boot, newer, queue, mechacon>>
  BY DEF ScmdCall
<1>4. sv[t] = NoCommand /\ sv[t] \in ScmdLocals BY <1>a, <1>3 DEF ThreadInv, ScmdLocalInv, ScmdTypes
<1>5. sc'[t] = "wait" /\ sv'[t] = [NoCommand EXCEPT !.call = call]
  BY <1>a, <1>1, <1>3, <1>4 DEF ScmdTypes, MechaconStates
<1>6. OthersScmd(t) BY <1>a, <1>1, <1>3 DEF ScmdTypes, MechaconStates, OthersScmd
<1>7. ScmdTypes'
  <2>1. [sv[t] EXCEPT !.call = call] \in ScmdLocals BY <1>2, <1>4 DEF ScmdLocals
  <2> QED BY <1>a, <1>1, <1>3, <2>1 DEF ScmdTypes, ScmdPlaces
<1>8. LineInv' BY <1>3, <1>5, <1>6, LineKept DEF InLine, Serving
<1>9. UnservedInv' BY <1>a, <1>3, <1>5 DEF ScmdInv, UnservedInv, ScmdTypes, Serving
<1>10. ThreadInv(t)'
  <2>1. Len(Sends(call)) \in Nat \ {0} BY <1>2, SendsTyped
  <2> QED BY <1>2, <1>5, <2>1 DEF ThreadInv, ServedInv, ScmdLocalInv, OutsOwn, NoCommand
<1> QED BY <1>3, <1>6, <1>7, <1>8, <1>9, <1>10, ScmdKept

\* WaitSema ...
LEMMA ScmdWaitKeeps ==
  ASSUME ScmdInv, NEW t \in ScmdThreads, ScmdWait(t)
  PROVE  ScmdInv'
<1>a. ScmdTypes /\ ThreadInv(t) BY DEF ScmdInv
<1>1. /\ sc[t] = "wait" /\ sc' = [sc EXCEPT ![t] = "test"] /\ queue' = Append(queue, t)
      /\ UNCHANGED <<boot, newer, mechacon, sv>>
  BY DEF ScmdWait, From, Next1
<1>2. OthersScmd(t) /\ sc'[t] = "test" BY <1>a, <1>1 DEF ScmdTypes, MechaconStates, OthersScmd
<1>3. ScmdTypes' BY <1>a, <1>1 DEF ScmdTypes, MechaconStates, ScmdPlaces, InLine
<1>4. LineInv'
  <2>1. queue \in Seq(ScmdThreads) BY <1>a DEF ScmdTypes, MechaconStates
  <2>2. /\ Len(queue') = Len(queue) + 1 /\ queue'[Len(queue) + 1] = t
        /\ \A i \in 1 .. Len(queue) : queue'[i] = queue[i]
    BY <1>1, <2>1, AppendProperties
  <2>3. \A i \in 1 .. Len(queue) : queue[i] # t
    BY <1>1 DEF ScmdInv, LineInv, InLine, Serving
  <2> QED BY <1>2, <2>1, <2>2, <2>3 DEF ScmdInv, LineInv, OthersScmd, InLine, Serving
<1>5. UnservedInv' BY <1>1, <1>2 DEF ScmdInv, UnservedInv, OthersScmd, Serving
<1>6. ThreadInv(t)' BY <1>a, <1>1, <1>2 DEF ThreadInv, ServedInv, ScmdLocalInv, OutsOwn, OutOwn
<1> QED BY <1>1, <1>2, <1>3, <1>4, <1>5, <1>6, ScmdKept

\* ... and the test: the mechacon can only be busy with another's command.
LEMMA ScmdTestKeeps ==
  ASSUME ScmdInv, NEW t \in ScmdThreads, ScmdTest(t)
  PROVE  ScmdInv'
<1>a. ScmdTypes /\ ThreadInv(t) BY DEF ScmdInv
<1>1. /\ sc[t] = "test" /\ queue # <<>> /\ Head(queue) = t
      /\ UNCHANGED <<boot, newer, mechacon, sv>>
      /\ \/ mechacon.busy /\ sc' = [sc EXCEPT ![t] = "delay"] /\ queue' = Tail(queue)
         \/ ~mechacon.busy /\ sc' = [sc EXCEPT ![t] = "flush"] /\ queue' = queue
  BY DEF ScmdTest, From, Next1, Holder, SignalScmd
<1>2. queue \in Seq(ScmdThreads) /\ Len(queue) > 0 /\ queue[1] = t
  BY <1>a, <1>1 DEF ScmdTypes, MechaconStates
<1>3. OthersScmd(t) BY <1>a, <1>1 DEF ScmdTypes, MechaconStates, OthersScmd
<1>4. \A u \in ScmdThreads : sc[u] \notin Serving
  BY <1>1, <1>2 DEF ScmdInv, LineInv, Serving
<1>5. CASE mechacon.busy
  <2>1. sc'[t] = "delay" /\ queue' = Tail(queue) BY <1>a, <1>1, <1>5 DEF ScmdTypes, MechaconStates
  <2>2. LineInv' /\ queue' \in Seq(ScmdThreads)
    BY <1>2, <1>3, <2>1, LineLeft DEF Serving
  <2>3. ScmdTypes' BY <1>a, <1>1, <1>5, <2>2 DEF ScmdTypes, MechaconStates, ScmdPlaces
  <2>4. boot # "free" /\ UnservedInv'
    BY <1>1, <1>4, <1>5 DEF ScmdInv, UnservedInv
  <2>5. ThreadInv(t)'
    BY <1>a, <1>1, <2>1, <2>4 DEF ThreadInv, ServedInv, ScmdLocalInv, OutsOwn, OutOwn
  <2> QED BY <1>1, <1>3, <2>2, <2>3, <2>4, <2>5, ScmdKept
<1>6. CASE ~mechacon.busy
  <2>1. sc'[t] = "flush" /\ queue' = queue BY <1>a, <1>1, <1>6 DEF ScmdTypes, MechaconStates
  <2>2. LineInv' BY <1>2, <1>3, <2>1, LineKept DEF InLine, Serving
  <2>3. ScmdTypes' BY <1>a, <1>1, <1>6 DEF ScmdTypes, MechaconStates, ScmdPlaces, InLine, Serving
  <2>4. mechacon.in = <<>> BY <1>4 DEF ScmdInv, UnservedInv
  <2>5. UnservedInv' BY <1>1, <2>4, <1>6 DEF UnservedInv
  <2>6. ThreadInv(t)'
    BY <1>a, <1>1, <1>6, <2>1, <2>4 DEF ThreadInv, ServedInv, ScmdLocalInv, OutsOwn, OutOwn
  <2> QED BY <1>1, <1>3, <2>2, <2>3, <2>5, <2>6, ScmdKept
<1> QED BY <1>5, <1>6

\* A step of a thread that is served and goes on being served.
LEMMA ServedKeeps ==
  ASSUME ScmdInv, NEW t \in ScmdThreads, OthersScmd(t), sc[t] \in Serving, sc'[t] \in Serving,
         queue' = queue, ScmdTypes', ThreadInv(t)'
  PROVE  ScmdInv'
<1>1. Len(queue) > 0 /\ queue[1] = t BY DEF ScmdInv, LineInv
<1>2. LineInv' BY <1>1, LineKept DEF InLine
<1>3. UnservedInv' BY DEF UnservedInv
<1> QED BY <1>2, <1>3, ScmdKept

\* An assignment to one of a thread's locals.
LEMMA ScmdLocalsUpdated ==
  ASSUME NEW v \in ScmdLocals
  PROVE  /\ \A n \in Nat : /\ [v EXCEPT !.k = n] \in ScmdLocals
                           /\ [v EXCEPT !.sent = n] \in ScmdLocals
                           /\ [v EXCEPT !.retries = n] \in ScmdLocals
         /\ \A b \in Seq(AnswerByte) : [v EXCEPT !.rdbuf = b] \in ScmdLocals
         /\ \A o \in Seq(ScmdOut) : [v EXCEPT !.outs = o] \in ScmdLocals
  BY DEF ScmdLocals

\* The types of a step of thread t that changes its locals and the mechacon.
LEMMA ScmdTypesKept ==
  ASSUME ScmdTypes, NEW t \in ScmdThreads, NEW v \in ScmdLocals, NEW p \in ScmdPlaces,
         sc' = [sc EXCEPT ![t] = p], sv' = [sv EXCEPT ![t] = v], mechacon' \in MechaconStates,
         UNCHANGED <<boot, newer, queue>>
  PROVE  ScmdTypes' /\ OthersScmd(t) /\ sc'[t] = p /\ sv'[t] = v
  BY DEF ScmdTypes, MechaconStates, OthersScmd

\* What an earlier command left is read away, to the last byte.
LEMMA ScmdFlushKeeps ==
  ASSUME ScmdInv, NEW t \in ScmdThreads, ScmdFlush(t)
  PROVE  ScmdInv'
<1>a. ScmdTypes /\ ThreadInv(t) BY DEF ScmdInv
<1>1. sc[t] = "flush" /\ UNCHANGED <<boot, newer, queue, sv>> BY DEF ScmdFlush, From
<1>b. ~mechacon.busy /\ mechacon.in = <<>> /\ sv[t].k = 0
  BY <1>a, <1>1 DEF ThreadInv, ServedInv, ScmdLocalInv
<1>2. CASE mechacon.answer # <<>> /\ mechacon' = [mechacon EXCEPT !.answer = Tail(@)] /\ UNCHANGED sc
  <2>1. Tail(mechacon.answer) \in Seq(AnswerByte)
    BY <1>a, <1>2, HeadTailProperties DEF ScmdTypes, MechaconStates
  <2>2. ScmdTypes' /\ OthersScmd(t) BY <1>a, <1>1, <1>2, <2>1 DEF ScmdTypes, MechaconStates, OthersScmd
  <2>3. ThreadInv(t)'
    BY <1>a, <1>1, <1>2, <1>b DEF ThreadInv, ServedInv, ScmdLocalInv, OutsOwn, OutOwn, ScmdTypes
  <2> QED BY <1>1, <1>2, <2>2, <2>3, ServedKeeps DEF Serving
<1>3. CASE mechacon.answer = <<>> /\ Next1(t, "params") /\ UNCHANGED mechacon
  <2>1. sc'[t] = "params" BY <1>a, <1>3 DEF Next1, ScmdTypes
  <2>2. ScmdTypes' /\ OthersScmd(t)
    BY <1>a, <1>1, <1>3 DEF Next1, ScmdTypes, OthersScmd, ScmdPlaces, InLine, Serving
  <2>3. Len(Now(t).in) \in Nat BY <1>1, CommandTyped DEF Commands
  <2>4. ThreadInv(t)'
    BY <1>a, <1>1, <1>3, <1>b, <2>1, <2>3 DEF ThreadInv, ServedInv, ScmdLocalInv, OutsOwn, OutOwn, Now
  <2> QED BY <1>1, <2>1, <2>2, <2>4, ServedKeeps DEF Serving
<1> QED BY <1>2, <1>3 DEF ScmdFlush

\* The parameters follow one by one ...
LEMMA ScmdParamKeeps ==
  ASSUME ScmdInv, NEW t \in ScmdThreads, ScmdParam(t)
  PROVE  ScmdInv'
<1>a. ScmdTypes /\ ThreadInv(t) BY DEF ScmdInv
<1>1. /\ sc[t] = "params" /\ sv[t].k < Len(Now(t).in)
      /\ mechacon' = [mechacon EXCEPT !.in = Append(@, Now(t).in[sv[t].k + 1])]
      /\ sv' = [sv EXCEPT ![t].k = @ + 1]
      /\ UNCHANGED <<boot, newer, queue, sc>>
  BY DEF ScmdParam, From
<1>2. Now(t).in \in Seq(Nat) /\ sv[t] \in ScmdLocals BY <1>1, CommandTyped DEF Commands
<1>3. sv[t].k \in Nat /\ Now(t).in[sv[t].k + 1] \in Nat
  <2>1. sv[t].k \in Nat /\ Len(Now(t).in) \in Nat BY <1>2 DEF ScmdLocals
  <2>2. sv[t].k + 1 \in 1 .. Len(Now(t).in) BY <1>1, <2>1
  <2> QED BY <1>2, <2>1, <2>2, ElementOfSeq
<1>4. /\ mechacon'.in \in Seq(Nat) /\ Len(mechacon'.in) = Len(mechacon.in) + 1
      /\ \A i \in 1 .. Len(mechacon.in) : mechacon'.in[i] = mechacon.in[i]
      /\ mechacon'.in[Len(mechacon.in) + 1] = Now(t).in[sv[t].k + 1]
  BY <1>a, <1>1, <1>3, AppendProperties DEF ScmdTypes, MechaconStates
<1>5. sv'[t] = [sv[t] EXCEPT !.k = sv[t].k + 1] BY <1>a, <1>1 DEF ScmdTypes, MechaconStates
<1>6. ScmdTypes' /\ OthersScmd(t)
  <2>0. sv[t].k + 1 \in Nat BY <1>3
  <2>1. [sv[t] EXCEPT !.k = sv[t].k + 1] \in ScmdLocals BY <1>2, <2>0, ScmdLocalsUpdated
  <2>2. mechacon' \in MechaconStates BY <1>a, <1>1, <1>4 DEF ScmdTypes, MechaconStates
  <2>3. sc[t] \in ScmdPlaces /\ sc' = [sc EXCEPT ![t] = sc[t]] BY <1>a, <1>1 DEF ScmdTypes, MechaconStates
  <2> QED BY <1>a, <1>1, <2>1, <2>2, <2>3, ScmdTypesKept
<1>7. Now(t)' = Now(t) BY <1>2, <1>5 DEF Now, ScmdLocals
<1>8. ServedInv(t)'
  <2>1. ~mechacon'.busy /\ mechacon'.answer = <<>>
    BY <1>a, <1>1 DEF ThreadInv, ServedInv, ScmdTypes
  <2>2. Len(mechacon.in) = sv[t].k /\ \A j \in 1 .. sv[t].k : mechacon.in[j] = Now(t).in[j]
    BY <1>a, <1>1 DEF ThreadInv, ServedInv
  <2>3. sv'[t].k = sv[t].k + 1 BY <1>2, <1>5 DEF ScmdLocals
  <2>4. ASSUME NEW j \in 1 .. sv[t].k + 1 PROVE mechacon'.in[j] = Now(t).in[j]
    <3>1. sv[t].k \in Nat BY <1>3
    <3>2. CASE j = sv[t].k + 1 BY <1>4, <2>2, <3>2
    <3>3. CASE j # sv[t].k + 1
      <4>1. j \in 1 .. sv[t].k BY <3>1, <3>3
      <4> QED BY <1>4, <2>2, <4>1
    <3> QED BY <3>2, <3>3
  <2>5. sv[t].k + 1 <= Len(Now(t).in) BY <1>1, <1>2, <1>3
  <2> QED BY <1>1, <1>4, <1>7, <2>1, <2>2, <2>3, <2>4, <2>5 DEF ServedInv
<1>9. ThreadInv(t)'
  <2>1. sv'[t].call = sv[t].call /\ sv'[t].i = sv[t].i /\ sv'[t].outs = sv[t].outs /\ sc'[t] = sc[t]
    BY <1>a, <1>1, <1>2, <1>5 DEF ScmdLocals, ScmdTypes
  <2>2. ScmdLocalInv(t)'
    <3>1. sv'[t].sent = sv[t].sent BY <1>2, <1>5 DEF ScmdLocals
    <3>2. sv'[t].rdbuf = sv[t].rdbuf \/ sc[t] = "read" BY <1>1, <1>2, <1>5 DEF ScmdLocals
    <3>3. sc[t] \in {"params", "read"} /\ ScmdLocalInv(t) BY <1>a, <1>1 DEF ThreadInv
    <3> QED BY <2>1, <3>1, <3>2, <3>3 DEF ScmdLocalInv
  <2>3. OutsOwn(t)'
    <3>1. OutsOwn(t) BY <1>a DEF ThreadInv
    <3>2. boot' = boot BY <1>6 DEF OthersScmd
    <3>3. \A i \in 1 .. Len(sv[t].outs) : OutOwn(sv[t].call, i, sv[t].outs[i])'
      BY <2>1, <3>1, <3>2 DEF OutsOwn, OutOwn
    <3> QED BY <2>1, <3>3 DEF OutsOwn
  <2> QED BY <1>8, <2>2, <2>3 DEF ThreadInv
<1> QED BY <1>1, <1>6, <1>9, ServedKeeps DEF Serving

\* ... until the mechacon has them all, and the command starts it.
LEMMA ScmdStartKeeps ==
  ASSUME ScmdInv, NEW t \in ScmdThreads, ScmdStart(t)
  PROVE  ScmdInv'
<1>a. ScmdTypes /\ ThreadInv(t) BY DEF ScmdInv
<1>1. /\ sc[t] = "params" /\ sv[t].k = Len(Now(t).in)
      /\ mechacon' = [mechacon EXCEPT !.busy = TRUE, !.cmd = Now(t).cmd]
      /\ sv' = [sv EXCEPT ![t].sent = @ + 1]
      /\ sc' = [sc EXCEPT ![t] = "poll"]
      /\ UNCHANGED <<boot, newer, queue>>
  BY DEF ScmdStart, From, Next1
<1>2. /\ Now(t) \in Commands /\ sv[t] \in ScmdLocals BY <1>1, CommandTyped
<1>3. mechacon.in = Now(t).in
  <2>0. mechacon.in \in Seq(Nat) BY <1>a DEF ScmdTypes, MechaconStates
  <2>1. /\ Len(mechacon.in) = Len(Now(t).in)
        /\ \A j \in 1 .. Len(mechacon.in) : mechacon.in[j] = Now(t).in[j]
    BY <1>a, <1>1 DEF ThreadInv, ServedInv
  <2> QED BY <1>2, <2>0, <2>1, SeqEqual DEF Commands
<1>4. sv[t].sent = 0 /\ mechacon.answer = <<>> /\ sv[t].rdbuf = <<>>
  BY <1>a, <1>1 DEF ThreadInv, ServedInv, ScmdLocalInv
<1>5. sc'[t] = "poll" /\ sv'[t] = [sv[t] EXCEPT !.sent = 1] BY <1>a, <1>1, <1>4 DEF ScmdTypes, MechaconStates
<1>6. ScmdTypes' /\ OthersScmd(t)
  <2>1. [sv[t] EXCEPT !.sent = 1] \in ScmdLocals BY <1>2, ScmdLocalsUpdated
  <2>2. mechacon' \in MechaconStates
    BY <1>a, <1>1, <1>2 DEF ScmdTypes, MechaconStates, Commands
  <2>3. sv' = [sv EXCEPT ![t] = [sv[t] EXCEPT !.sent = 1]] BY <1>1, <1>4
  <2>4. "poll" \in ScmdPlaces BY DEF ScmdPlaces, InLine, Serving
  <2> QED BY <1>a, <1>1, <2>1, <2>2, <2>3, <2>4, ScmdTypesKept
<1>7. Now(t)' = Now(t) BY <1>2, <1>5 DEF Now, ScmdLocals
<1>8. ServedInv(t)'
  <2>1. /\ mechacon'.busy /\ mechacon'.cmd = Now(t).cmd /\ mechacon'.in = Now(t).in
        /\ mechacon'.answer = <<>>
    BY <1>a, <1>1, <1>3, <1>4 DEF ScmdTypes, MechaconStates
  <2> QED BY <1>5, <1>7, <2>1 DEF ServedInv
<1>9. ThreadInv(t)'
  BY <1>a, <1>1, <1>2, <1>4, <1>5, <1>8 DEF ThreadInv, ScmdLocalInv, OutsOwn, OutOwn, ScmdLocals
<1> QED BY <1>1, <1>5, <1>6, <1>9, ServedKeeps DEF Serving

\* Once it is ready its answer is read ...
LEMMA ScmdPollKeeps ==
  ASSUME ScmdInv, NEW t \in ScmdThreads, ScmdPoll(t)
  PROVE  ScmdInv'
<1>a. ScmdTypes /\ ThreadInv(t) BY DEF ScmdInv
<1>1. /\ sc[t] = "poll" /\ ~mechacon.busy /\ sc' = [sc EXCEPT ![t] = "read"]
      /\ UNCHANGED <<boot, newer, queue, mechacon, sv>>
  BY DEF ScmdPoll, From, Next1
<1>2. sc'[t] = "read" /\ OthersScmd(t) BY <1>a, <1>1 DEF ScmdTypes, MechaconStates, OthersScmd
<1>3. ScmdTypes' BY <1>a, <1>1 DEF ScmdTypes, MechaconStates, ScmdPlaces, InLine, Serving
<1>4. /\ mechacon.answer = Owned(t) /\ mechacon.in = <<>> /\ sv[t].rdbuf = <<>>
      /\ Owned(t) \in Seq(AnswerByte)
  BY <1>a, <1>1, CommandTyped DEF ThreadInv, ServedInv, ScmdLocalInv
<1>5. Owned(t)' = Owned(t) BY <1>1 DEF Owned, Now
<1>6. ServedInv(t)' BY <1>1, <1>2, <1>4, <1>5 DEF ServedInv
<1>7. ThreadInv(t)' BY <1>a, <1>1, <1>2, <1>6 DEF ThreadInv, ScmdLocalInv, OutsOwn, OutOwn
<1> QED BY <1>1, <1>2, <1>3, <1>7, ServedKeeps DEF Serving

\* ... byte by byte.
LEMMA ScmdReadKeeps ==
  ASSUME ScmdInv, NEW t \in ScmdThreads, ScmdRead(t)
  PROVE  ScmdInv'
<1>a. ScmdTypes /\ ThreadInv(t) BY DEF ScmdInv
<1>1. /\ sc[t] = "read" /\ mechacon.answer # <<>>
      /\ sv' = [sv EXCEPT ![t].rdbuf = Append(@, Head(mechacon.answer))]
      /\ mechacon' = [mechacon EXCEPT !.answer = Tail(@)]
      /\ UNCHANGED <<boot, newer, queue, sc>>
  BY DEF ScmdRead, From
<1> DEFINE ans == mechacon.answer
           rd == sv[t].rdbuf
           rd2 == Append(rd, Head(ans))
<1>2. ans \in Seq(AnswerByte) /\ rd \in Seq(AnswerByte) /\ sv[t] \in ScmdLocals
      /\ Owned(t) \in Seq(AnswerByte)
  BY <1>a, <1>1, CommandTyped DEF ScmdTypes, MechaconStates, ScmdLocals
<1>3. /\ Head(ans) \in AnswerByte /\ Head(ans) = ans[1] /\ Tail(ans) \in Seq(AnswerByte)
      /\ Len(Tail(ans)) = Len(ans) - 1 /\ Len(ans) > 0
      /\ \A i \in 1 .. Len(Tail(ans)) : Tail(ans)[i] = ans[i + 1]
  BY <1>1, <1>2, HeadTailProperties
<1>4. /\ rd2 \in Seq(AnswerByte) /\ Len(rd2) = Len(rd) + 1
      /\ \A i \in 1 .. Len(rd) : rd2[i] = rd[i]
      /\ rd2[Len(rd) + 1] = ans[1]
  BY <1>2, <1>3, AppendProperties
<1>5. sv'[t] = [sv[t] EXCEPT !.rdbuf = rd2] /\ mechacon' = [mechacon EXCEPT !.answer = Tail(ans)]
  BY <1>a, <1>1 DEF ScmdTypes, MechaconStates
<1>6. ScmdTypes' /\ OthersScmd(t)
  <2>1. [sv[t] EXCEPT !.rdbuf = rd2] \in ScmdLocals BY <1>2, <1>4, ScmdLocalsUpdated
  <2>2. mechacon' \in MechaconStates BY <1>a, <1>3, <1>5 DEF ScmdTypes, MechaconStates
  <2>3. sc[t] \in ScmdPlaces /\ sc' = [sc EXCEPT ![t] = sc[t]] BY <1>a, <1>1 DEF ScmdTypes, MechaconStates
  <2>4. sv' = [sv EXCEPT ![t] = [sv[t] EXCEPT !.rdbuf = rd2]] BY <1>1
  <2> HIDE DEF rd2
  <2> QED BY <1>a, <1>1, <2>1, <2>2, <2>3, <2>4, ScmdTypesKept
<1>7. Owned(t)' = Owned(t) BY <1>2, <1>5 DEF Owned, Now, ScmdLocals
<1>8. ServedInv(t)'
  <2>1. /\ ~mechacon.busy /\ mechacon.in = <<>>
        /\ Len(rd) + Len(ans) = Len(Owned(t))
        /\ \A j \in 1 .. Len(rd) : rd[j] = Owned(t)[j]
        /\ \A j \in 1 .. Len(ans) : ans[j] = Owned(t)[Len(rd) + j]
    BY <1>a, <1>1 DEF ThreadInv, ServedInv
  <2>2. /\ ~mechacon'.busy /\ mechacon'.in = <<>> /\ mechacon'.answer = Tail(ans)
        /\ sv'[t].rdbuf = rd2
    BY <1>a, <1>2, <1>5, <2>1 DEF ScmdTypes, MechaconStates, ScmdLocals
  <2> HIDE DEF ans, rd, rd2
  <2>3. Len(rd) \in Nat /\ Len(ans) \in Nat /\ Len(rd2) + Len(Tail(ans)) = Len(Owned(t))
    BY <1>2, <1>3, <1>4, <2>1
  <2>4. \A j \in 1 .. Len(rd2) : rd2[j] = Owned(t)[j]
    <3>1. ans[1] = Owned(t)[Len(rd) + 1] BY <1>3, <2>1, <2>3
    <3> QED BY <1>4, <2>1, <2>3, <3>1
  <2>5. ASSUME NEW j \in 1 .. Len(Tail(ans)) PROVE Tail(ans)[j] = Owned(t)[Len(rd2) + j]
    <3>1. j + 1 \in 1 .. Len(ans) /\ Tail(ans)[j] = ans[j + 1] BY <1>3, <2>3
    <3>2. ans[j + 1] = Owned(t)[Len(rd) + (j + 1)] BY <2>1, <3>1
    <3>3. Len(rd) + (j + 1) = Len(rd2) + j BY <1>4, <2>3
    <3> QED BY <3>1, <3>2, <3>3
  <2> QED BY <1>1, <1>7, <2>2, <2>3, <2>4, <2>5 DEF ServedInv
<1>9. ThreadInv(t)'
  <2>1. sv'[t].call = sv[t].call /\ sv'[t].i = sv[t].i /\ sv'[t].outs = sv[t].outs /\ sc'[t] = sc[t]
    BY <1>a, <1>1, <1>2, <1>5 DEF ScmdLocals, ScmdTypes
  <2>2. ScmdLocalInv(t)'
    <3>1. sv'[t].sent = sv[t].sent BY <1>2, <1>5 DEF ScmdLocals
    <3>2. sv'[t].rdbuf = sv[t].rdbuf \/ sc[t] = "read" BY <1>1, <1>2, <1>5 DEF ScmdLocals
    <3>3. sc[t] \in {"params", "read"} /\ ScmdLocalInv(t) BY <1>a, <1>1 DEF ThreadInv
    <3> QED BY <2>1, <3>1, <3>2, <3>3 DEF ScmdLocalInv
  <2>3. OutsOwn(t)'
    <3>1. OutsOwn(t) BY <1>a DEF ThreadInv
    <3>2. boot' = boot BY <1>6 DEF OthersScmd
    <3>3. \A i \in 1 .. Len(sv[t].outs) : OutOwn(sv[t].call, i, sv[t].outs[i])'
      BY <2>1, <3>1, <3>2 DEF OutsOwn, OutOwn
    <3> QED BY <2>1, <3>3 DEF OutsOwn
  <2> QED BY <1>8, <2>2, <2>3 DEF ThreadInv
<1> QED BY <1>1, <1>6, <1>9, ServedKeeps DEF Serving

\* What the caller gets is appended to what its call has handed out.
LEMMA OutAppended ==
  ASSUME ScmdInv, NEW t \in ScmdThreads, sc[t] \notin {"idle", "done", "return"},
         NEW out \in ScmdOut, OutOwn(sv[t].call, sv[t].i, out),
         sc'[t] = "done", sv'[t] = [sv[t] EXCEPT !.outs = Append(sv[t].outs, out)],
         UNCHANGED <<boot, newer>>
  PROVE  ThreadInv(t)'
<1> DEFINE outs == sv[t].outs
<1>1. sv[t] \in ScmdLocals BY CommandTyped
<1>2. outs \in Seq(ScmdOut) /\ Len(outs) = sv[t].i - 1 /\ sv[t].i \in Nat
  BY <1>1 DEF ScmdInv, ThreadInv, ScmdLocalInv, ScmdLocals
<1>3. /\ Len(Append(outs, out)) = sv[t].i
      /\ \A i \in 1 .. sv[t].i - 1 : Append(outs, out)[i] = outs[i]
      /\ Append(outs, out)[sv[t].i] = out
  <2>1. Len(outs) + 1 = sv[t].i BY <1>2
  <2> HIDE DEF outs
  <2> QED BY <1>2, <2>1, AppendProperties
<1>4. /\ sv'[t].call = sv[t].call /\ sv'[t].i = sv[t].i /\ sv'[t].outs = Append(outs, out)
  BY <1>1 DEF ScmdLocals
<1>5. OutsOwn(t)'
  <2>1. ASSUME NEW i \in 1 .. sv[t].i PROVE OutOwn(sv[t].call, i, Append(outs, out)[i])
    <3>1. CASE i = sv[t].i BY <1>3, <3>1
    <3>2. CASE i # sv[t].i
      <4>1. i \in 1 .. Len(outs) BY <1>2, <3>2
      <4>2. OutOwn(sv[t].call, i, outs[i]) BY <4>1 DEF ScmdInv, ThreadInv, OutsOwn
      <4> QED BY <1>2, <1>3, <4>1, <4>2
    <3> QED BY <3>1, <3>2
  <2> QED BY <1>3, <1>4, <2>1 DEF OutsOwn, OutOwn
<1>6. ScmdLocalInv(t)' BY <1>3, <1>4 DEF ScmdInv, ThreadInv, ScmdLocalInv
<1>7. ServedInv(t)' BY DEF ServedInv
<1> QED BY <1>5, <1>6, <1>7 DEF ThreadInv

\* The answer, or as much of it as the caller has room for, is handed out,
\* and the semaphore given back.
LEMMA ScmdCopyKeeps ==
  ASSUME ScmdInv, NEW t \in ScmdThreads, ScmdCopy(t)
  PROVE  ScmdInv'
<1>a. ScmdTypes /\ ThreadInv(t) BY DEF ScmdInv
<1>1. /\ sc[t] = "read" /\ mechacon.answer = <<>>
      /\ sc' = [sc EXCEPT ![t] = "done"] /\ queue' = Tail(queue)
      /\ sv' = [sv EXCEPT ![t].outs = Append(@, Given(t))]
      /\ UNCHANGED <<boot, newer, mechacon>>
  BY DEF ScmdCopy, From, Next1, SignalScmd
<1>2. /\ Now(t) \in Commands /\ Owned(t) \in Seq(AnswerByte) /\ sv[t] \in ScmdLocals
      /\ sv[t].rdbuf \in Seq(AnswerByte) /\ sv[t].outs \in Seq(ScmdOut)
  BY <1>1, CommandTyped DEF ScmdLocals
<1>3. sv[t].rdbuf = Owned(t)
  <2>1. /\ Len(sv[t].rdbuf) + Len(mechacon.answer) = Len(Owned(t))
        /\ \A j \in 1 .. Len(sv[t].rdbuf) : sv[t].rdbuf[j] = Owned(t)[j]
    BY <1>a, <1>1 DEF ThreadInv, ServedInv
  <2>2. Len(sv[t].rdbuf) = Len(Owned(t)) BY <1>1, <1>2, <2>1
  <2> QED BY <1>2, <2>1, <2>2, SeqEqual
<1>4. Given(t) \in ScmdOut /\ OutOwn(sv[t].call, sv[t].i, Given(t))
  <2> DEFINE own == Owned(t)
             size == Now(t).size
  <2>1. Given(t) = [sent |-> 1, data |-> SubSeq(own, 1, IF size > Len(own) THEN Len(own) ELSE size)]
    <3>1. sv[t].sent = 1 BY <1>a, <1>1 DEF ThreadInv, ScmdLocalInv
    <3> QED BY <1>3, <3>1 DEF Given
  <2>2. size \in Nat /\ Len(own) \in Nat /\ own \in Seq(AnswerByte) BY <1>2 DEF Commands
  <2>3. SubSeq(own, 1, Len(own)) = own BY <2>2, SubSeqFull
  <2>4. OutOwn(sv[t].call, sv[t].i, Given(t))
        <=> \/ Given(t).sent = 1 /\ Given(t).data = IF size < Len(own) THEN SubSeq(own, 1, size) ELSE own
            \/ Given(t).sent = 0 /\ Given(t).data = <<>> /\ boot # "free"
    BY DEF OutOwn, Owned, Now
  <2> HIDE DEF own, size
  <2>5. SubSeq(own, 1, IF size > Len(own) THEN Len(own) ELSE size)
          = IF size < Len(own) THEN SubSeq(own, 1, size) ELSE own
    BY <2>2, <2>3
  <2>6. Given(t).data \in Seq(AnswerByte) /\ Given(t).sent = 1
    <3>1. CASE size < Len(own)
      <4>1. \A i \in 1 .. size : own[i] \in AnswerByte BY <2>2, <3>1
      <4>2. SubSeq(own, 1, size) \in Seq(AnswerByte) BY <2>2, <4>1, SubSeqProperties
      <4> QED BY <2>1, <2>5, <3>1, <4>2
    <3>2. CASE ~(size < Len(own)) BY <2>1, <2>2, <2>5, <3>2
    <3> QED BY <3>1, <3>2
  <2>7. Given(t) \in ScmdOut
    <3>1. PICK d : Given(t) = [sent |-> 1, data |-> d] BY <2>1
    <3>2. d \in Seq(AnswerByte) BY <2>6, <3>1
    <3> QED BY <3>1, <3>2 DEF ScmdOut
  <2>8. Given(t).data = IF size < Len(own) THEN SubSeq(own, 1, size) ELSE own
    <3>1. \A d : Given(t) = [sent |-> 1, data |-> d] => Given(t).data = d OBVIOUS
    <3>2. Given(t).data = SubSeq(own, 1, IF size > Len(own) THEN Len(own) ELSE size)
      BY <2>1, <3>1, Zenon
    <3> QED BY <2>5, <3>2, Zenon
  <2> QED BY <2>4, <2>6, <2>7, <2>8
<1>5. Append(sv[t].outs, Given(t)) \in Seq(ScmdOut) BY <1>2, <1>4, AppendProperties
<1>6. [sv[t] EXCEPT !.outs = Append(sv[t].outs, Given(t))] \in ScmdLocals
  BY <1>2, <1>5, ScmdLocalsUpdated
<1>7. /\ sc'[t] = "done" /\ sv'[t] = [sv[t] EXCEPT !.outs = Append(sv[t].outs, Given(t))]
      /\ OthersScmd(t)
  BY <1>a, <1>1 DEF ScmdTypes, OthersScmd
<1>8. Len(queue) > 0 /\ queue[1] = t BY <1>1 DEF ScmdInv, LineInv, Serving
<1>9. LineInv' /\ queue' \in Seq(ScmdThreads) BY <1>1, <1>7, <1>8, LineLeft DEF Serving
<1>10. ScmdTypes' BY <1>a, <1>1, <1>6, <1>9 DEF ScmdTypes, ScmdPlaces
<1>11. UnservedInv' BY <1>a, <1>1 DEF UnservedInv, ThreadInv, ServedInv
<1>12. ThreadInv(t)' BY <1>1, <1>4, <1>7, OutAppended
<1> QED BY <1>1, <1>7, <1>9, <1>10, <1>11, <1>12, ScmdKept

\* A thread that found the mechacon busy tries again, or gives up with
\* nothing.
LEMMA ScmdRetryKeeps ==
  ASSUME ScmdInv, NEW t \in ScmdThreads, ScmdRetry(t)
  PROVE  ScmdInv'
<1>a. ScmdTypes /\ ThreadInv(t) BY DEF ScmdInv
<1>1. sc[t] = "delay" /\ UNCHANGED <<boot, newer, queue, mechacon>> BY DEF ScmdRetry, From
<1>2. /\ sv[t] \in ScmdLocals /\ sv[t].outs \in Seq(ScmdOut) /\ sv[t].retries \in Nat
      /\ sv[t].sent = 0 /\ sv[t].rdbuf = <<>> /\ boot # "free" /\ Now(t) \in Commands
  BY <1>a, <1>1, CommandTyped DEF ThreadInv, ScmdLocalInv, ScmdLocals
<1>3. UnservedInv' BY <1>1 DEF ScmdRetry, Next1, ScmdInv, UnservedInv, ScmdTypes, Serving
<1>4. ASSUME sv[t].retries < RetryLimit, Next1(t, "wait"), sv' = [sv EXCEPT ![t].retries = @ + 1]
      PROVE  ScmdInv'
  <2>1. /\ sv' = [sv EXCEPT ![t] = [sv[t] EXCEPT !.retries = sv[t].retries + 1]]
        /\ [sv[t] EXCEPT !.retries = sv[t].retries + 1] \in ScmdLocals
    <3>1. sv[t].retries + 1 \in Nat BY <1>2
    <3> QED BY <1>2, <1>4, <3>1, ScmdLocalsUpdated
  <2>2. "wait" \in ScmdPlaces /\ mechacon' \in MechaconStates BY <1>a, <1>1 DEF ScmdPlaces, ScmdTypes
  <2>3. /\ ScmdTypes' /\ OthersScmd(t) /\ sc'[t] = "wait"
        /\ sv'[t] = [sv[t] EXCEPT !.retries = sv[t].retries + 1]
    BY <1>a, <1>1, <1>4, <2>1, <2>2, ScmdTypesKept DEF Next1
  <2>4. LineInv' BY <1>1, <2>3, LineKept DEF InLine, Serving
  <2>5. ThreadInv(t)'
    BY <1>a, <1>1, <1>2, <2>3 DEF ThreadInv, ServedInv, ScmdLocalInv, OutsOwn, OutOwn, ScmdLocals
  <2> QED BY <1>1, <1>3, <2>3, <2>4, <2>5, ScmdKept
<1>5. ASSUME Next1(t, "done"), sv' = [sv EXCEPT ![t].outs = Append(@, Given(t))]
      PROVE  ScmdInv'
  <2>1. Given(t) = [sent |-> 0, data |-> <<>>]
    <3>1. (IF Now(t).size > Len(<<>>) THEN Len(<<>>) ELSE Now(t).size) = 0
      BY <1>2 DEF Commands
    <3>2. SubSeq(<<>>, 1, 0) = <<>> BY SubSeqEmpty
    <3> QED BY <1>2, <3>1, <3>2 DEF Given
  <2>2. Given(t) \in ScmdOut /\ OutOwn(sv[t].call, sv[t].i, Given(t))
    BY <1>2, <2>1 DEF ScmdOut, OutOwn
  <2>3. /\ sv' = [sv EXCEPT ![t] = [sv[t] EXCEPT !.outs = Append(sv[t].outs, Given(t))]]
        /\ [sv[t] EXCEPT !.outs = Append(sv[t].outs, Given(t))] \in ScmdLocals
    BY <1>2, <1>5, <2>2, ScmdLocalsUpdated, AppendProperties
  <2>4. "done" \in ScmdPlaces /\ mechacon' \in MechaconStates BY <1>a, <1>1 DEF ScmdPlaces, ScmdTypes
  <2>5. /\ ScmdTypes' /\ OthersScmd(t) /\ sc'[t] = "done"
        /\ sv'[t] = [sv[t] EXCEPT !.outs = Append(sv[t].outs, Given(t))]
    BY <1>a, <1>1, <1>5, <2>3, <2>4, ScmdTypesKept DEF Next1
  <2>6. LineInv' BY <1>1, <2>5, LineKept DEF InLine, Serving
  <2>7. ThreadInv(t)' BY <1>1, <2>2, <2>5, OutAppended
  <2> QED BY <1>1, <1>3, <2>5, <2>6, <2>7, ScmdKept
<1> QED BY <1>4, <1>5 DEF ScmdRetry

\* The next command of the call starts with fresh locals ...
LEMMA ScmdDoneKeeps ==
  ASSUME ScmdInv, NEW t \in ScmdThreads, ScmdDone(t)
  PROVE  ScmdInv'
<1>a. ScmdTypes /\ ThreadInv(t) BY DEF ScmdInv
<1>1. sc[t] = "done" /\ UNCHANGED <<boot, newer, queue, mechacon>> BY DEF ScmdDone, From
<1>2. /\ sv[t] \in ScmdLocals /\ sv[t].i \in Nat \ {0} /\ sv[t].outs \in Seq(ScmdOut)
      /\ sv[t].call \in CallNames /\ Len(sv[t].outs) = sv[t].i
  BY <1>a, <1>1, CommandTyped DEF ThreadInv, ScmdLocalInv, ScmdLocals
<1>3. UnservedInv' BY <1>1 DEF ScmdDone, Next1, ScmdInv, UnservedInv, ScmdTypes, Serving
<1>4. mechacon' \in MechaconStates /\ "return" \in ScmdPlaces /\ "wait" \in ScmdPlaces
  BY <1>a, <1>1 DEF ScmdPlaces, ScmdTypes
<1>5. CASE Ends(t) /\ Next1(t, "return") /\ UNCHANGED sv
  <2>1. sv' = [sv EXCEPT ![t] = sv[t]] BY <1>a, <1>5 DEF ScmdTypes
  <2>2. ScmdTypes' /\ OthersScmd(t) /\ sc'[t] = "return" /\ sv'[t] = sv[t]
    BY <1>a, <1>1, <1>2, <1>4, <1>5, <2>1, ScmdTypesKept DEF Next1
  <2>3. LineInv' BY <1>1, <2>2, LineKept DEF InLine, Serving
  <2>4. ThreadInv(t)'
    BY <1>a, <1>1, <2>2 DEF ThreadInv, ServedInv, ScmdLocalInv, OutsOwn, OutOwn
  <2> QED BY <1>1, <1>3, <2>2, <2>3, <2>4, ScmdKept
<1>6. CASE /\ More(t) /\ Next1(t, "wait")
           /\ sv' = [sv EXCEPT ![t] = [NoCommand EXCEPT !.call = sv[t].call, !.i = sv[t].i + 1, !.outs = sv[t].outs]]
  <2> DEFINE v == [NoCommand EXCEPT !.call = sv[t].call, !.i = sv[t].i + 1, !.outs = sv[t].outs]
  <2>1. /\ NoCommand \in ScmdLocals /\ NoCommand.k = 0 /\ NoCommand.rdbuf = <<>> /\ NoCommand.sent = 0
        /\ sv[t].i + 1 \in Nat \ {0}
    BY <1>2 DEF NoCommand, ScmdLocals
  <2>2. v \in ScmdLocals BY <1>2, <2>1 DEF ScmdLocals
  <2>3. /\ v.call = sv[t].call /\ v.i = sv[t].i + 1 /\ v.k = 0 /\ v.rdbuf = <<>> /\ v.sent = 0
        /\ v.outs = sv[t].outs
    BY <2>1 DEF ScmdLocals
  <2> HIDE DEF v
  <2>4. ScmdTypes' /\ OthersScmd(t) /\ sc'[t] = "wait" /\ sv'[t] = v
    BY <1>a, <1>1, <1>4, <1>6, <2>2, ScmdTypesKept DEF Next1, v
  <2>5. LineInv' BY <1>1, <2>4, LineKept DEF InLine, Serving
  <2>6. sv[t].i + 1 \in 1 .. Len(Sends(sv[t].call))
    <3>1. Len(Sends(sv[t].call)) \in Nat BY <1>2, SendsTyped
    <3> QED BY <1>2, <1>6, <3>1 DEF More
  <2>7. ScmdLocalInv(t)' BY SMTT(30), <1>2, <2>3, <2>4, <2>6 DEF ScmdLocalInv
  <2>8. ServedInv(t)' BY <2>4 DEF ServedInv
  <2>9. OutsOwn(t)' BY <1>a, <1>1, <2>3, <2>4 DEF ThreadInv, OutsOwn, OutOwn
  <2> QED BY <1>1, <1>3, <2>4, <2>5, <2>7, <2>8, <2>9, ScmdKept DEF ThreadInv
<1> QED BY <1>5, <1>6 DEF ScmdDone

\* ... and a call leaves none behind.
LEMMA ScmdReturnKeeps ==
  ASSUME ScmdInv, NEW t \in ScmdThreads, ScmdReturn(t)
  PROVE  ScmdInv'
<1>a. ScmdTypes /\ ThreadInv(t) BY DEF ScmdInv
<1>1. /\ sc[t] = "return" /\ sc' = [sc EXCEPT ![t] = "idle"] /\ sv' = [sv EXCEPT ![t] = NoCommand]
      /\ UNCHANGED <<boot, newer, queue, mechacon>>
  BY DEF ScmdReturn, From, Next1
<1>2. NoCommand \in ScmdLocals /\ NoCommand.i = 1 /\ NoCommand.outs = <<>>
  BY DEF NoCommand, ScmdLocals
<1>3. mechacon' \in MechaconStates /\ "idle" \in ScmdPlaces BY <1>a, <1>1 DEF ScmdPlaces, ScmdTypes
<1>4. ScmdTypes' /\ OthersScmd(t) /\ sc'[t] = "idle" /\ sv'[t] = NoCommand
  BY <1>a, <1>1, <1>2, <1>3, ScmdTypesKept
<1>5. LineInv' BY <1>1, <1>4, LineKept DEF InLine, Serving
<1>6. UnservedInv' BY <1>1 DEF ScmdInv, UnservedInv, ScmdTypes, Serving
<1>7. ThreadInv(t)' BY <1>2, <1>4 DEF ThreadInv, ServedInv, ScmdLocalInv, OutsOwn
<1> QED BY <1>1, <1>4, <1>5, <1>6, <1>7, ScmdKept

\* The mechacon ends the command of the one thread that is served, or the one
\* it was busy with when cdvdman was loaded.
LEMMA MechaconEndsKeeps ==
  ASSUME ScmdInv, MechaconEnds
  PROVE  ScmdInv'
<1>a. ScmdTypes BY DEF ScmdInv
<1> DEFINE got == IF mechacon.cmd = Foreign THEN <<>> ELSE Answered(mechacon.cmd, mechacon.in)
<1>1. /\ mechacon.busy /\ UNCHANGED <<boot, newer, queue, sc, sv>>
      /\ mechacon' = [busy |-> FALSE, cmd |-> Foreign, in |-> <<>>, answer |-> mechacon.answer \o got]
  BY DEF MechaconEnds
<1>2. /\ ~mechacon'.busy /\ mechacon'.in = <<>> /\ mechacon'.answer = mechacon.answer \o got
  BY <1>1
<1>3. mechacon.answer \in Seq(AnswerByte) BY <1>a DEF ScmdTypes, MechaconStates
<1>4. LineInv' BY <1>1 DEF ScmdInv, LineInv
<1>5. UnservedInv' BY <1>2 DEF UnservedInv
<1>6. CASE \E t \in ScmdThreads : sc[t] \in Serving
  <2>1. PICK t \in ScmdThreads : sc[t] \in Serving BY <1>6
  <2>2. \A u \in ScmdThreads : u # t => sc[u] \notin Serving BY <2>1 DEF ScmdInv, LineInv
  <2>3. sc[t] = "poll" BY <1>1, <2>1 DEF ScmdInv, ThreadInv, ServedInv, Serving
  <2>4. mechacon.cmd = Now(t).cmd /\ mechacon.in = Now(t).in /\ mechacon.answer = <<>>
    BY <1>1, <2>3 DEF ScmdInv, ThreadInv, ServedInv
  <2>5. Now(t).cmd # Foreign /\ Owned(t) \in Seq(AnswerByte) BY <2>3, CommandTyped DEF Commands
  <2>6. got = Owned(t) BY <2>4, <2>5 DEF Owned
  <2>7. mechacon'.answer = Owned(t)
    BY <1>2, <2>4, <2>5, <2>6, ConcatEmptySeq
  <2>8. ScmdTypes'
    <3>1. mechacon' = [busy |-> FALSE, cmd |-> Foreign, in |-> <<>>, answer |-> Owned(t)]
      BY <1>1, <1>2, <2>7
    <3>2. mechacon' \in MechaconStates BY <2>5, <3>1 DEF MechaconStates, Foreign
    <3> QED BY <1>a, <1>1, <3>2 DEF ScmdTypes
  <2>9. ASSUME NEW u \in ScmdThreads PROVE ServedInv(u)'
    <3>1. CASE u = t
      <4>1. Owned(u)' = Owned(u) BY <1>1 DEF Owned, Now
      <4> QED BY <1>1, <1>2, <2>3, <2>7, <3>1, <4>1 DEF ServedInv
    <3>2. CASE u # t
      <4>1. sc'[u] \notin Serving BY <1>1, <2>2, <3>2
      <4> QED BY <4>1 DEF ServedInv, Serving
    <3> QED BY <3>1, <3>2
  <2>10. \A u \in ScmdThreads : ScmdLocalInv(u)' /\ OutsOwn(u)'
    BY <1>1 DEF ScmdInv, ThreadInv, ScmdLocalInv, OutsOwn, OutOwn
  <2> QED BY <1>4, <1>5, <2>8, <2>9, <2>10 DEF ScmdInv, ThreadInv
<1>7. CASE \A t \in ScmdThreads : sc[t] \notin Serving
  <2>1. got = <<>> BY <1>1, <1>7 DEF ScmdInv, UnservedInv
  <2>2. mechacon'.answer = mechacon.answer BY <1>2, <1>3, <2>1, ConcatEmptySeq
  <2>3. ScmdTypes'
    <3>1. mechacon' = [busy |-> FALSE, cmd |-> Foreign, in |-> <<>>, answer |-> mechacon.answer]
      BY <1>1, <1>2, <2>2
    <3>2. mechacon' \in MechaconStates BY <1>3, <3>1 DEF MechaconStates, Foreign
    <3> QED BY <1>a, <1>1, <3>2 DEF ScmdTypes
  <2>4. \A u \in ScmdThreads : ServedInv(u)' BY <1>1, <1>7 DEF ServedInv, Serving
  <2>5. \A u \in ScmdThreads : ScmdLocalInv(u)' /\ OutsOwn(u)'
    BY <1>1 DEF ScmdInv, ThreadInv, ScmdLocalInv, OutsOwn, OutOwn
  <2> QED BY <1>4, <1>5, <2>3, <2>4, <2>5 DEF ScmdInv, ThreadInv
<1> QED BY <1>6, <1>7

\* Every step of a build keeps it.
LEMMA ScmdInvStep == ScmdInv /\ [DevNext]_devvars => ScmdInv'
<1> SUFFICES ASSUME ScmdInv, [ScmdNext]_scmdvars PROVE ScmdInv' BY ScmdSteps
<1>1. ASSUME NEW t \in ScmdThreads, ScmdCall(t) \/ InScmd(t) PROVE ScmdInv'
  BY <1>1, ScmdCallKeeps, ScmdWaitKeeps, ScmdTestKeeps, ScmdFlushKeeps, ScmdParamKeeps, ScmdStartKeeps,
     ScmdPollKeeps, ScmdReadKeeps, ScmdCopyKeeps, ScmdRetryKeeps, ScmdDoneKeeps, ScmdReturnKeeps DEF InScmd
<1>2. CASE UNCHANGED scmdvars
  <2>1. ScmdTypes' /\ LineInv' /\ UnservedInv'
    BY <1>2 DEF scmdvars, ScmdInv, ScmdTypes, LineInv, UnservedInv
  <2>2. ASSUME NEW t \in ScmdThreads PROVE ThreadInv(t)'
    <3>1. ServedInv(t)' BY <1>2 DEF scmdvars, ScmdInv, ThreadInv, ServedInv, Owned, Now
    <3>2. ScmdLocalInv(t)' BY <1>2 DEF scmdvars, ScmdInv, ThreadInv, ScmdLocalInv
    <3>3. OutsOwn(t)' BY <1>2 DEF scmdvars, ScmdInv, ThreadInv, OutsOwn, OutOwn
    <3> QED BY <3>1, <3>2, <3>3 DEF ThreadInv
  <2> QED BY <2>1, <2>2 DEF ScmdInv
<1> QED BY <1>1, <1>2, MechaconEndsKeeps DEF ScmdNext

\* Each S-command hands out the answer of its own command, for any number of
\* threads, retries and bytes left over; it goes without only when cdvdman
\* found the mechacon occupied on loading.
THEOREM CommandsAnswerOwn == DevSpec => []AnswersOwn
<1> QED BY ScmdInitInv, ScmdInvStep, ScmdInvAnswersOwn, PTL DEF DevSpec

-----------------------------------------------------------------------------
(***************************************************************************)
(* The block device: a step of a build is a step of Bdm or leaves it alone.*)
(***************************************************************************)
LEMMA BdmSteps == [DevNext]_devvars => [BdmNext]_bdmvars
  BY DEF DevNext, InUsb, InHdd, InSmb, InBdm, InMechacon, devvars, bdmvars

\* A CD sector is a whole number of the device's sectors, or is shorter than
\* one: the sectors of both are powers of two.
SectorsDivide ==
  \A d \in Bds : BdUnits[d] > SectorUnits \/ \E k \in Nat : SectorUnits = k * BdUnits[d]

BdmPlaces == {"init", "idle", "read", "return", "crashed"}
BdmTypes ==
  /\ g_bd_sectors_per_sector \in Nat
  /\ g_bd \in Bds \cup {NULL} /\ adding \in Bds \cup {NULL} /\ plugged \subseteq Bds
  /\ bat \in BdmPlaces
  /\ bcall \in BdmReads \cup {NoBdmCall} /\ bsector \in Nat /\ bcount \in Nat
  /\ DOMAIN bmem = 0 .. BdmMem * SectorUnits - 1

\* The pointer is cleared when its device goes, and its size is the device's
\* as soon as bdm_connect_bd is done.
PointerValid ==
  /\ adding # NULL => g_bd = adding
  /\ g_bd # NULL => g_bd \in plugged
  /\ g_bd # NULL /\ adding = NULL => g_bd_sectors_per_sector = SectorUnits \div BdUnits[g_bd]

\* Between its address and its end, a read that meets none of the limits has
\* its device, with the size the address was computed with.
ReadHasDevice ==
  bat \in {"read", "return"} /\ ~wrong =>
    g_bd # NULL /\ adding = NULL /\ g_bd_sectors_per_sector # 0
AddressFits ==
  bat = "read" /\ ~wrong =>
    /\ bcall \in BdmReads
    /\ bsector = BdLba + bcall.lsn * g_bd_sectors_per_sector
    /\ bcount = bcall.n * g_bd_sectors_per_sector
NothingYet == bat \in {"idle", "read", "init"} => \A u \in DOMAIN bmem : bmem[u] = Empty
SectorsCame ==
  bat = "return" /\ ~wrong =>
    \A u \in DOMAIN bmem :
      bmem[u] = IF u < bcall.n * SectorUnits
                  THEN <<g_bd, BdLba * BdUnits[g_bd] + bcall.lsn * SectorUnits + u>> ELSE Empty
BdmInv == BdmTypes /\ PointerValid /\ ReadHasDevice /\ AddressFits /\ NothingYet /\ SectorsCame

\* The start.
LEMMA BdmInitInv == DevSpec => BdmInv
<1> SUFFICES ASSUME BdmInit PROVE BdmInv BY DEF DevSpec, DevInit
<1>1. BdmTypes BY BdmAssumption DEF BdmInit, BdmTypes, BdmPlaces
<1>2. PointerValid /\ ReadHasDevice /\ AddressFits /\ SectorsCame
  BY DEF BdmInit, PointerValid, ReadHasDevice, AddressFits, SectorsCame
<1>3. NothingYet BY DEF BdmInit, NothingYet
<1> QED BY <1>1, <1>2, <1>3 DEF BdmInv

\* Another thread's connections do not touch a read that has its device: a
\* device is only stored when there is none.
LEMMA BdmPlugKeeps == BdmInv /\ BdmPlug => BdmInv'
<1> SUFFICES ASSUME BdmInv, BdmPlug PROVE BdmInv' OBVIOUS
<1>a. /\ BdmTypes /\ PointerValid /\ ReadHasDevice /\ AddressFits /\ NothingYet /\ SectorsCame
  BY DEF BdmInv
<1>b. UNCHANGED <<bat, bcall, bsector, bcount, bmem>>
  BY DEF BdmPlug, bdm_connect_bd, ConnectSize, bdm_disconnect_bd
<1>c. NULL \notin Bds /\ (\A d \in Bds : BdUnits[d] \in Nat \ {0}) /\ SectorUnits \in Nat
  BY BdmAssumption
<1>1. NothingYet' BY <1>a, <1>b DEF NothingYet
<1>2. BdmTypes' /\ PointerValid'
  <2>1. CASE bdm_connect_bd
    <3>1. BdmTypes' BY <1>a, <1>b, <2>1 DEF bdm_connect_bd, BdmTypes
    <3>2. PointerValid' BY <1>a, <1>b, <1>c, <2>1 DEF bdm_connect_bd, PointerValid, BdmTypes
    <3> QED BY <3>1, <3>2
  <2>2. CASE ConnectSize
    <3>1. adding \in Bds BY <1>a, <2>2 DEF ConnectSize, BdmTypes
    <3>2. SectorUnits \div BdUnits[adding] \in Nat BY <1>c, <3>1, SMT
    <3>3. BdmTypes' BY <1>a, <1>b, <2>2, <3>2 DEF ConnectSize, BdmTypes
    <3>4. PointerValid' BY <1>a, <2>2 DEF ConnectSize, PointerValid
    <3> QED BY <3>3, <3>4
  <2>3. CASE bdm_disconnect_bd
    <3>1. BdmTypes' BY <1>a, <1>b, <2>3 DEF bdm_disconnect_bd, BdmTypes
    <3>2. PointerValid' BY <1>a, <2>3 DEF bdm_disconnect_bd, PointerValid
    <3> QED BY <3>1, <3>2
  <2> QED BY <2>1, <2>2, <2>3 DEF BdmPlug
<1>3. bat \in {"read", "return"} /\ ~wrong' =>
        ~wrong /\ UNCHANGED <<g_bd, g_bd_sectors_per_sector, adding>>
  BY <1>a DEF BdmPlug, bdm_connect_bd, ConnectSize, bdm_disconnect_bd, ReadHasDevice
<1>4. ReadHasDevice' BY <1>a, <1>b, <1>3 DEF ReadHasDevice
<1>5. AddressFits' BY <1>a, <1>b, <1>3 DEF AddressFits
<1>6. SectorsCame' BY <1>a, <1>b, <1>3 DEF SectorsCame
<1> QED BY <1>1, <1>2, <1>4, <1>5, <1>6 DEF BdmInv

\* The address of a read.
LEMMA BdmAddressKeeps == BdmInv /\ BdmReadSectors => BdmInv'
<1> SUFFICES ASSUME BdmInv, BdmReadSectors PROVE BdmInv' OBVIOUS
<1>a. BdmTypes /\ PointerValid /\ NothingYet BY DEF BdmInv
<1>1. PICK r \in BdmReads :
        /\ bat = "idle" /\ bat' = "read" /\ bcall' = r
        /\ bsector' = BdLba + r.lsn * g_bd_sectors_per_sector
        /\ bcount' = (r.n * g_bd_sectors_per_sector) % CountMod
        /\ wrong' = (g_bd = NULL \/ adding # NULL \/ g_bd_sectors_per_sector = 0
                       \/ r.n * g_bd_sectors_per_sector >= CountMod)
        /\ UNCHANGED <<g_bd, g_bd_sectors_per_sector, plugged, adding, bmem, plugs>>
  BY Zenon DEF BdmReadSectors
<1>2. r.lsn \in Nat /\ r.n \in Nat /\ BdLba \in Nat /\ CountMod \in Nat \ {0}
  BY BdmAssumption
<1>g. g_bd_sectors_per_sector \in Nat BY <1>a DEF BdmTypes
<1>3. r.lsn * g_bd_sectors_per_sector \in Nat /\ r.n * g_bd_sectors_per_sector \in Nat
  BY <1>2, <1>g
<1>4. bsector' \in Nat /\ bcount' \in Nat BY <1>1, <1>2, <1>3
<1>5. BdmTypes'
  <2>1. bat' \in BdmPlaces /\ bcall' \in BdmReads \cup {NoBdmCall} BY <1>1 DEF BdmPlaces
  <2>2. UNCHANGED <<g_bd, g_bd_sectors_per_sector, plugged, adding, bmem>> BY <1>1
  <2> QED BY <1>a, <1>4, <2>1, <2>2 DEF BdmTypes
<1>6. PointerValid' BY <1>a, <1>1 DEF PointerValid
<1>7. NothingYet' BY <1>a, <1>1 DEF NothingYet
<1>8. ReadHasDevice' BY <1>1 DEF ReadHasDevice
<1>9. AddressFits'
  <2> SUFFICES ASSUME ~wrong' PROVE AddressFits' BY DEF AddressFits
  <2>0. ~(r.n * g_bd_sectors_per_sector >= CountMod) BY <1>1, Zenon
  <2>1. r.n * g_bd_sectors_per_sector < CountMod BY <2>0, <1>2, <1>3
  <2>2. bcount' = r.n * g_bd_sectors_per_sector BY <1>1, <1>2, <1>3, <2>1
  <2> QED BY <1>1, <2>2 DEF AddressFits
<1>10. SectorsCame' BY <1>1 DEF SectorsCame
<1> QED BY <1>5, <1>6, <1>7, <1>8, <1>9, <1>10 DEF BdmInv

\* A product of a whole number of device sectors.
LEMMA WholeSectors ==
  ASSUME SectorsDivide, NEW d \in Bds, SectorUnits \div BdUnits[d] # 0
  PROVE  (SectorUnits \div BdUnits[d]) * BdUnits[d] = SectorUnits
<1>1. SectorUnits \in Nat \ {0} /\ BdUnits[d] \in Nat \ {0} BY BdmAssumption
<1>2. BdUnits[d] > SectorUnits => SectorUnits \div BdUnits[d] = 0 BY <1>1
<1>3. PICK k \in Nat : SectorUnits = k * BdUnits[d] BY <1>1, <1>2 DEF SectorsDivide
<1>4. SectorUnits \div BdUnits[d] = k BY <1>1, <1>3
<1> QED BY <1>3, <1>4

\* The read takes its units from the device the address was computed for.
LEMMA BdmReadKeeps == SectorsDivide /\ BdmInv /\ BdmRead => BdmInv'
<1> SUFFICES ASSUME SectorsDivide, BdmInv, BdmRead PROVE BdmInv' OBVIOUS
<1>a. BdmTypes /\ PointerValid /\ ReadHasDevice /\ AddressFits /\ NothingYet BY DEF BdmInv
<1>b. UNCHANGED <<g_bd, g_bd_sectors_per_sector, plugged, adding, bcall, bsector, bcount, wrong>>
  BY DEF BdmRead
<1>c. bat = "read" /\ bat' = IF g_bd = NULL THEN "crashed" ELSE "return" BY DEF BdmRead
<1>1. BdmTypes'
  <2>1. DOMAIN bmem' = DOMAIN bmem BY DEF BdmRead
  <2>2. bat' \in BdmPlaces BY <1>c DEF BdmPlaces
  <2> QED BY <1>a, <1>b, <2>1, <2>2 DEF BdmTypes
<1>2. PointerValid' BY <1>a, <1>b DEF PointerValid
<1>3. ReadHasDevice' BY <1>a, <1>b, <1>c DEF ReadHasDevice
<1>4. AddressFits' /\ NothingYet' BY <1>c DEF AddressFits, NothingYet
<1>5. SectorsCame'
  <2> SUFFICES ASSUME ~wrong', NEW u \in DOMAIN bmem
               PROVE  bmem'[u] = IF u < bcall.n * SectorUnits
                                   THEN <<g_bd, BdLba * BdUnits[g_bd] + bcall.lsn * SectorUnits + u>> ELSE Empty
    <3>1. DOMAIN bmem' = DOMAIN bmem BY DEF BdmRead
    <3> QED BY <3>1, <1>b DEF SectorsCame
  <2>1. g_bd # NULL /\ adding = NULL /\ g_bd_sectors_per_sector # 0 BY <1>a, <1>b, <1>c DEF ReadHasDevice
  <2>2. g_bd \in Bds BY <1>a, <2>1 DEF BdmTypes
  <2>3. g_bd_sectors_per_sector * BdUnits[g_bd] = SectorUnits
    BY <1>a, <2>1, <2>2, WholeSectors DEF PointerValid
  <2>4. bcall \in BdmReads /\ bsector = BdLba + bcall.lsn * g_bd_sectors_per_sector
          /\ bcount = bcall.n * g_bd_sectors_per_sector
    BY <1>a, <1>b, <1>c DEF AddressFits
  <2>5. bcall.lsn \in Nat /\ bcall.n \in Nat /\ BdLba \in Nat /\ SectorUnits \in Nat
          /\ BdUnits[g_bd] \in Nat
    BY <2>2, <2>4, BdmAssumption
  <2>g. g_bd_sectors_per_sector \in Nat BY <1>a DEF BdmTypes
  <2>6. bcount * BdUnits[g_bd] = bcall.n * SectorUnits
    <3>1. (bcall.n * g_bd_sectors_per_sector) * BdUnits[g_bd]
            = bcall.n * (g_bd_sectors_per_sector * BdUnits[g_bd]) BY <2>5, <2>g
    <3> QED BY <2>3, <2>4, <3>1
  <2>7. bsector * BdUnits[g_bd] = BdLba * BdUnits[g_bd] + bcall.lsn * SectorUnits
    <3>1. (BdLba + bcall.lsn * g_bd_sectors_per_sector) * BdUnits[g_bd]
            = BdLba * BdUnits[g_bd] + bcall.lsn * (g_bd_sectors_per_sector * BdUnits[g_bd]) BY <2>5, <2>g
    <3> QED BY <2>3, <2>4, <3>1
  <2>8. bmem'[u] = IF u < bcount * BdUnits[g_bd]
                     THEN <<g_bd, bsector * BdUnits[g_bd] + u>> ELSE bmem[u]
    BY <2>1 DEF BdmRead
  <2>9. bmem[u] = Empty BY <1>a, <1>c DEF NothingYet
  <2> QED BY <2>6, <2>7, <2>8, <2>9
<1> QED BY <1>1, <1>2, <1>3, <1>4, <1>5 DEF BdmInv

\* Every step of a build keeps it.
LEMMA BdmInvStep == SectorsDivide /\ BdmInv /\ [DevNext]_devvars => BdmInv'
<1> SUFFICES ASSUME SectorsDivide, BdmInv, [BdmNext]_bdmvars PROVE BdmInv' BY BdmSteps
<1>a. BdmTypes /\ PointerValid /\ ReadHasDevice /\ AddressFits /\ NothingYet /\ SectorsCame
  BY DEF BdmInv
<1>1. CASE BdmFSInit
  <2>1. UNCHANGED <<g_bd, g_bd_sectors_per_sector, plugged, adding, bcall, bsector, bcount, bmem, wrong>>
    BY <1>1 DEF BdmFSInit
  <2>2. bat = "init" /\ bat' = "idle" BY <1>1 DEF BdmFSInit
  <2>3. BdmTypes' BY <1>a, <2>1, <2>2 DEF BdmTypes, BdmPlaces
  <2>4. PointerValid' BY <1>a, <2>1 DEF PointerValid
  <2>5. ReadHasDevice' /\ AddressFits' /\ SectorsCame' BY <2>2 DEF ReadHasDevice, AddressFits, SectorsCame
  <2>6. NothingYet' BY <1>a, <2>1, <2>2 DEF NothingYet
  <2> QED BY <2>3, <2>4, <2>5, <2>6 DEF BdmInv
<1>2. CASE BdmReturned
  <2>1. UNCHANGED <<g_bd, g_bd_sectors_per_sector, plugged, adding, wrong>> BY <1>2 DEF BdmReturned
  <2>2. bat' = "idle" /\ bcall' = NoBdmCall /\ bsector' = 0 /\ bcount' = 0
          /\ bmem' = [u \in DOMAIN bmem |-> Empty]
    BY <1>2 DEF BdmReturned
  <2>3. BdmTypes' BY <1>a, <2>1, <2>2 DEF BdmTypes, BdmPlaces
  <2>4. PointerValid' BY <1>a, <2>1 DEF PointerValid
  <2>5. ReadHasDevice' /\ AddressFits' /\ SectorsCame' BY <2>2 DEF ReadHasDevice, AddressFits, SectorsCame
  <2>6. NothingYet' BY <2>2 DEF NothingYet
  <2> QED BY <2>3, <2>4, <2>5, <2>6 DEF BdmInv
<1>3. CASE UNCHANGED bdmvars
  BY <1>a, <1>3 DEF bdmvars, BdmInv, BdmTypes, PointerValid, ReadHasDevice, AddressFits, NothingYet, SectorsCame
<1> QED BY <1>1, <1>2, <1>3, BdmPlugKeeps, BdmAddressKeeps, BdmReadKeeps DEF BdmNext, BdmThread

\* A read that meets none of the limits of device-bdm.c returns the sectors
\* asked for, from one device, for any devices whose sectors divide a CD
\* sector (or are larger, which is one of the limits).
THEOREM BlockReadsDeliver == ASSUME SectorsDivide PROVE DevSpec => []BdmDelivers
<1>1. SectorsDivide OBVIOUS
<1>2. BdmInv => BdmDelivers
  BY DEF BdmInv, BdmTypes, PointerValid, ReadHasDevice, SectorsCame, BdmDelivers
<1> QED BY <1>1, <1>2, BdmInitInv, BdmInvStep, PTL DEF DevSpec

-----------------------------------------------------------------------------
(***************************************************************************)
(* The file server: messages, and how they arrive.                         *)
(***************************************************************************)
\* A step of a build is a step of its file server, or leaves it alone.
LEMMA SmbSteps == [DevNext]_devvars => [SmbNext]_smbvars
  BY DEF DevNext, InUsb, InHdd, InSmb, InBdm, InMechacon, devvars, smbvars

Statuses == {"OK", "LOGON_FAILURE", "ERROR"}
Headers == [t: {"hdr"}, status: Statuses, id: Nat, size: Nat]
DataCells == {Data(v) : v \in Int}
Cells == {KeepAlive} \cup Headers \cup DataCells

LoginStages == {"negotiate", "session", "tree", "open"}
LoginRequests == [kind: LoginStages, auth: {"NTLM", "LM"}, uid: Nat, tid: Nat, i: 1 .. NumParts]
ReadRequests == [kind: {"read"}, fid: Nat, uid: Nat, tid: Nat, off: Nat, n: Nat]

\* A reply: a header that tells its size, and the data.
Message(R) ==
  /\ R \in Seq(Cells) /\ Len(R) >= 1
  /\ R[1] \in Headers /\ R[1].size = Len(R)
  /\ \A j \in 2 .. Len(R) : R[j] \in DataCells

\* A keep-alive, a header and data are told apart.
LEMMA CellsDiffer == KeepAlive \notin Headers /\ KeepAlive \notin DataCells /\ Headers \cap DataCells = {}
<1>1. \A c \in Headers : c.t = "hdr" BY DEF Headers
<1>2. \A c \in DataCells : c.t = "data" BY DEF DataCells, Data
<1>3. KeepAlive.t = "keepalive" BY DEF KeepAlive
<1> QED BY <1>1, <1>2, <1>3

\* Cells of a message are no keep-alives.
LEMMA MessageCells ==
  ASSUME NEW R, Message(R), NEW j \in 1 .. Len(R)
  PROVE  R[j] # KeepAlive
  BY CellsDiffer DEF Message

\* A reply of the server is a message: its header, then the data.
LEMMA ReplyIs ==
  ASSUME NEW status \in Statuses, NEW id \in Nat, NEW data \in Seq(DataCells)
  PROVE  LET R == Reply(status, id, data)
         IN  /\ Message(R) /\ Len(R) = 1 + Len(data)
             /\ R[1].status = status /\ R[1].id = id
             /\ \A j \in 1 .. Len(data) : R[j + 1] = data[j]
<1> DEFINE hd == [t |-> "hdr", status |-> status, id |-> id, size |-> 1 + Len(data)]
           R == <<hd>> \o data
<1>1. Len(data) \in Nat BY LenProperties
<1>2. hd \in Headers /\ hd.size = 1 + Len(data) /\ hd.status = status /\ hd.id = id BY <1>1 DEF Headers
<1>3. <<hd>> \in Seq(Cells) /\ Len(<<hd>>) = 1 /\ <<hd>>[1] = hd BY <1>2 DEF Cells
<1>4. data \in Seq(Cells) BY SeqMonotonic DEF Cells
<1> HIDE DEF hd
<1>5. /\ R \in Seq(Cells) /\ Len(R) = 1 + Len(data)
      /\ \A i \in 1 .. 1 + Len(data) : R[i] = IF i <= 1 THEN <<hd>>[i] ELSE data[i - 1]
  BY <1>3, <1>4, ConcatProperties
<1> HIDE DEF R
<1>6. R[1] = hd BY <1>1, <1>3, <1>5
<1>7. \A j \in 1 .. Len(data) : R[j + 1] = data[j] BY <1>1, <1>5
<1>8. \A j \in 2 .. Len(R) : R[j] \in DataCells
  <2> SUFFICES ASSUME NEW j \in 2 .. Len(R) PROVE R[j] \in DataCells OBVIOUS
  <2>1. j - 1 \in 1 .. Len(data) /\ j = (j - 1) + 1 BY <1>1, <1>5
  <2>2. data[j - 1] \in DataCells BY <2>1, ElementOfSeq
  <2> QED BY <1>7, <2>1, <2>2
<1>9. Message(R) BY <1>1, <1>2, <1>5, <1>6, <1>8 DEF Message
<1>10. Reply(status, id, data) = R BY DEF Reply, R, hd
<1> QED BY <1>2, <1>5, <1>6, <1>7, <1>9, <1>10

ErrorReply == Reply("ERROR", 0, <<>>)

\* An error is a header and nothing else.
LEMMA ErrorReplyIs == Message(ErrorReply) /\ Len(ErrorReply) = 1
<1>1. <<>> \in Seq(DataCells) /\ Len(<<>>) = 0 BY EmptySeq
<1>2. "ERROR" \in Statuses /\ 0 \in Nat BY DEF Statuses
<1>3. Message(ErrorReply) /\ Len(ErrorReply) = 1 + Len(<<>>)
  BY <1>1, <1>2, ReplyIs, Zenon DEF ErrorReply
<1> QED BY <1>1, <1>3

\* What a file holds at the place of a read.
FileSectors(off, n) == IF off >= PartSectors THEN 0 ELSE IF off + n > PartSectors THEN PartSectors - off ELSE n

\* The data of a read are the sectors of the file at its place.
LEMMA FileDataIs ==
  ASSUME NEW fid \in Nat, NEW off \in Nat, NEW n \in Nat
  PROVE  /\ FileData(fid, off, n) \in Seq(DataCells)
         /\ Len(FileData(fid, off, n)) = FileSectors(off, n) /\ FileSectors(off, n) \in 0 .. n
         /\ \A j \in 1 .. FileSectors(off, n) :
              FileData(fid, off, n)[j] = Data((fid - 1) * PartSectors + off + j - 1)
<1> DEFINE k == FileSectors(off, n)
           c(j) == (fid - 1) * PartSectors + off + j - 1
           D == [j \in 1 .. k |-> Data(c(j))]
<1>1. PartSectors \in Nat BY PartsAssumption
<1>2. k \in 0 .. n /\ k \in Nat BY <1>1 DEF FileSectors
<1>3. \A j \in 1 .. k : c(j) \in Int BY <1>1
<1>4. D = FileData(fid, off, n) BY DEF FileData, FileSectors
<1> HIDE DEF k, c
<1>5. \A j \in 1 .. k : Data(c(j)) \in DataCells BY <1>3 DEF DataCells
<1>6. D \in Seq(DataCells) BY <1>2, <1>5
<1>7. Len(D) = k /\ \A j \in 1 .. k : D[j] = Data(c(j)) BY <1>2
<1> QED BY <1>2, <1>4, <1>6, <1>7 DEF k, c

\* The answer to a request of the login is a message,
LEMMA LoginAnswer ==
  ASSUME NEW q \in LoginRequests
  PROVE  Message(Answer(q))
<1>1. <<>> \in Seq(DataCells) /\ <<Data(0)>> \in Seq(DataCells) BY DEF DataCells
<1>2. \A s \in Statuses, id \in Nat : Message(Reply(s, id, <<>>)) /\ Message(Reply(s, id, <<Data(0)>>))
  BY <1>1, ReplyIs
<1>3. q.kind \in LoginStages /\ q.i \in Nat BY PartsAssumption DEF LoginRequests
<1> QED BY <1>2, <1>3 DEF Answer, LoginStages, Statuses

\* and so is the answer to a read, with no more data than it asks for.
LEMMA ReadAnswer ==
  ASSUME NEW q \in ReadRequests
  PROVE  Message(Answer(q)) /\ Len(Answer(q)) <= 1 + q.n
<1>1. q.fid \in Nat /\ q.off \in Nat /\ q.n \in Nat /\ q.kind = "read" BY DEF ReadRequests
<1>2. FileData(q.fid, q.off, q.n) \in Seq(DataCells) /\ Len(FileData(q.fid, q.off, q.n)) \in 0 .. q.n
  <2>1. /\ FileData(q.fid, q.off, q.n) \in Seq(DataCells)
        /\ Len(FileData(q.fid, q.off, q.n)) = FileSectors(q.off, q.n) /\ FileSectors(q.off, q.n) \in 0 .. q.n
    BY <1>1, FileDataIs, Zenon
  <2> QED BY <2>1
<1>3. CASE q.uid = 1 /\ q.tid = 1 /\ q.fid > 0
  <2>1. Answer(q) = Reply("OK", 0, FileData(q.fid, q.off, q.n)) BY <1>1, <1>3 DEF Answer
  <2> QED BY <1>1, <1>2, <2>1, ReplyIs DEF Statuses
<1>4. CASE ~(q.uid = 1 /\ q.tid = 1 /\ q.fid > 0)
  <2>1. Answer(q) = ErrorReply BY <1>1, <1>4 DEF Answer, ErrorReply
  <2> QED BY <1>1, <2>1, ErrorReplyIs
<1> QED BY <1>3, <1>4
-----------------------------------------------------------------------------
(***************************************************************************)
(* The reads of the parts.                                                 *)
(***************************************************************************)
\* The size of a part.
LEMMA PartSizeIs == PartSize \in Nat \ {0} /\ PartSectors <= PartSize /\ LsnMod \in Nat \ {0}
<1>1. NumParts \in Nat \ {0} /\ PartSectors \in Nat \ {0} /\ LsnMod \in Nat BY PartsAssumption
<1>2. NumParts * PartSectors >= PartSectors /\ NumParts * PartSectors \in Nat BY <1>1, Z3
<1>3. LsnMod > NumParts * PartSectors BY PartsAssumption
<1> QED BY <1>1, <1>2, <1>3 DEF PartSize

\* Where a sector lies among the parts.
LEMMA InPart ==
  ASSUME NEW P \in Nat \ {0}, NEW x \in Nat
  PROVE  x \div P \in Nat /\ (x \div P) * P <= x /\ x < (x \div P + 1) * P /\ x % P = x - (x \div P) * P
<1>1. x = (x \div P) * P + (x % P) OBVIOUS
<1>2. x \div P \in Nat OBVIOUS
<1>3. x % P \in 0 .. P - 1 OBVIOUS
<1> DEFINE d == x \div P
           e == x % P
<1>4. d \in Nat /\ e \in 0 .. P - 1 /\ x = d * P + e BY <1>1, <1>2, <1>3
<1> HIDE DEF d, e
<1>5. d * P \in Nat /\ (d + 1) * P = d * P + P BY <1>4, Z3
<1>6. d * P <= x /\ x < (d + 1) * P /\ e = x - d * P BY <1>4, <1>5
<1> QED BY <1>4, <1>6 DEF d, e

\* Multiples of the size of a part keep their order.
LEMMA PartTimes ==
  ASSUME NEW P \in Nat, NEW i \in Nat, NEW j \in Nat
  PROVE  i * P \in Nat /\ (i <= j => i * P <= j * P)
  BY Z3

ReadJobs == [part: 1 .. NumParts, lsn: Nat, n: Nat, p: Nat]

\* The first and the last part a call comes to, and where it ends.
LEMMA PartsOf ==
  ASSUME NEW lsn \in Nat, NEW n \in Nat
  PROVE  /\ PartOf(lsn) \in Nat /\ LBound(PartOf(lsn)) <= lsn /\ lsn < UBound(PartOf(lsn))
         /\ PartOf(lsn + n) \in Nat /\ LBound(PartOf(lsn + n)) <= lsn + n /\ lsn + n < UBound(PartOf(lsn + n))
         /\ LastPart(lsn, n) \in Int /\ LastPart(lsn, n) < NumParts /\ LastPart(lsn, n) <= PartOf(lsn + n)
         /\ PartOf(lsn) <= PartOf(lsn + n)
<1>1. PartSize \in Nat \ {0} /\ NumParts \in Nat \ {0} BY PartSizeIs, PartsAssumption
<1>2. PartOf(lsn) \in Nat /\ LBound(PartOf(lsn)) <= lsn /\ lsn < UBound(PartOf(lsn))
  BY <1>1, InPart DEF PartOf, LBound, UBound
<1>3. PartOf(lsn + n) \in Nat /\ LBound(PartOf(lsn + n)) <= lsn + n /\ lsn + n < UBound(PartOf(lsn + n))
  <2>1. lsn + n \in Nat OBVIOUS
  <2> QED BY <1>1, <2>1, InPart DEF PartOf, LBound, UBound
<1>4. LastPart(lsn, n) \in Int /\ LastPart(lsn, n) < NumParts /\ LastPart(lsn, n) <= PartOf(lsn + n)
  BY <1>1, <1>3 DEF LastPart
<1>5. PartOf(lsn) <= PartOf(lsn + n)
  <2> DEFINE d == PartOf(lsn)
             e == PartOf(lsn + n)
  <2>1. d \in Nat /\ e \in Nat /\ d * PartSize <= lsn /\ lsn + n < (e + 1) * PartSize
    BY <1>2, <1>3 DEF LBound, UBound
  <2> HIDE DEF d, e
  <2>2. CASE d <= e BY <2>2 DEF d, e
  <2>3. CASE e + 1 <= d
    <3>1. (e + 1) * PartSize <= d * PartSize BY <1>1, <2>1, <2>3, PartTimes
    <3>2. d * PartSize \in Nat /\ (e + 1) * PartSize \in Nat BY <1>1, <2>1, PartTimes
    <3> QED BY <2>1, <3>1, <3>2
  <2> QED BY <2>1, <2>2, <2>3
<1> QED BY <1>2, <1>3, <1>4, <1>5

\* Where the read of a part begins and ends.
ReadFrom(lsn, i) == IF i = PartOf(lsn) THEN lsn ELSE LBound(i)
ReadTo(lsn, n, i) == IF i = PartOf(lsn + n) THEN lsn + n ELSE UBound(i)

\* A read of a part lies within the part and within the call.
LEMMA ReadSpans ==
  ASSUME NEW lsn \in Nat, NEW n \in Nat, NEW i \in PartOf(lsn) .. LastPart(lsn, n)
  PROVE  /\ i \in Nat /\ i < NumParts /\ i <= PartOf(lsn + n)
         /\ LBound(i) \in Nat /\ UBound(i) \in Nat /\ LBound(i) <= UBound(i)
         /\ ReadFrom(lsn, i) \in Nat /\ lsn <= ReadFrom(lsn, i) /\ LBound(i) <= ReadFrom(lsn, i)
         /\ ReadTo(lsn, n, i) \in Nat /\ ReadTo(lsn, n, i) <= lsn + n /\ ReadTo(lsn, n, i) <= UBound(i)
         /\ ReadFrom(lsn, i) <= ReadTo(lsn, n, i)
<1> DEFINE f == PartOf(lsn)
           e == PartOf(lsn + n)
           lst == LastPart(lsn, n)
<1>1. PartSize \in Nat \ {0} /\ NumParts \in Nat \ {0} BY PartSizeIs, PartsAssumption
<1>2. /\ f \in Nat /\ LBound(f) <= lsn /\ lsn < UBound(f)
      /\ e \in Nat /\ LBound(e) <= lsn + n /\ lsn + n < UBound(e)
      /\ lst \in Int /\ lst < NumParts /\ lst <= e /\ i \in f .. lst
  BY PartsOf
<1> HIDE DEF f, e, lst
<1>3. i \in Nat /\ i < NumParts /\ f <= i /\ i <= e BY <1>1, <1>2
<1>4. \A a, b \in Nat : LBound(a) \in Nat /\ UBound(a) \in Nat /\ LBound(a) <= UBound(a)
                        /\ (a + 1 <= b => UBound(a) <= LBound(b))
  <2> SUFFICES ASSUME NEW a \in Nat, NEW b \in Nat
               PROVE  LBound(a) \in Nat /\ UBound(a) \in Nat /\ LBound(a) <= UBound(a)
                      /\ (a + 1 <= b => UBound(a) <= LBound(b))
    OBVIOUS
  <2>1. a + 1 \in Nat /\ PartSize \in Nat BY <1>1
  <2>2. a * PartSize \in Nat /\ (a + 1) * PartSize \in Nat BY <2>1, PartTimes
  <2>3. a * PartSize <= (a + 1) * PartSize BY <2>1, PartTimes
  <2>4. a + 1 <= b => (a + 1) * PartSize <= b * PartSize BY <2>1, PartTimes
  <2> QED BY <2>2, <2>3, <2>4 DEF LBound, UBound
<1>5. ReadFrom(lsn, i) \in Nat /\ lsn <= ReadFrom(lsn, i) /\ LBound(i) <= ReadFrom(lsn, i)
  <2>1. CASE i = f BY <1>2, <2>1 DEF ReadFrom, f
  <2>2. CASE i # f
    <3>1. f + 1 <= i BY <1>2, <1>3, <2>2
    <3>2. ReadFrom(lsn, i) = LBound(i) BY <2>2 DEF ReadFrom, f
    <3>3. LBound(i) \in Nat /\ UBound(f) \in Nat /\ UBound(f) <= LBound(i) BY <1>2, <1>3, <1>4, <3>1
    <3> QED BY <1>2, <3>2, <3>3
  <2> QED BY <2>1, <2>2
<1>6. ReadTo(lsn, n, i) \in Nat /\ ReadTo(lsn, n, i) <= lsn + n /\ ReadTo(lsn, n, i) <= UBound(i)
  <2>1. CASE i = e BY <1>2, <1>3, <1>4, <2>1 DEF ReadTo, e
  <2>2. CASE i # e
    <3>1. i + 1 <= e BY <1>2, <1>3, <2>2
    <3>2. ReadTo(lsn, n, i) = UBound(i) BY <2>2 DEF ReadTo, e
    <3>3. LBound(e) \in Nat /\ UBound(i) \in Nat /\ UBound(i) <= LBound(e) BY <1>2, <1>3, <1>4, <3>1
    <3> QED BY <1>2, <3>2, <3>3
  <2> QED BY <2>1, <2>2
<1>7. ReadFrom(lsn, i) <= ReadTo(lsn, n, i)
  <2>1. LBound(i) \in Nat /\ UBound(i) \in Nat /\ LBound(i) <= UBound(i) BY <1>3, <1>4
  <2>2. ReadFrom(lsn, i) = (IF i = f THEN lsn ELSE LBound(i)) BY DEF ReadFrom, f
  <2>3. ReadTo(lsn, n, i) = (IF i = e THEN lsn + n ELSE UBound(i)) BY DEF ReadTo, e
  <2>4. i = f => lsn < UBound(i) BY <1>2
  <2>5. i = e => LBound(i) <= lsn + n BY <1>2
  <2> QED BY <2>1, <2>2, <2>3, <2>4, <2>5
<1>8. LBound(i) \in Nat /\ UBound(i) \in Nat /\ LBound(i) <= UBound(i) BY <1>3, <1>4
<1>9. i <= PartOf(lsn + n) BY <1>3 DEF e
<1> QED BY <1>3, <1>5, <1>6, <1>7, <1>8, <1>9

\* The fields of the read of a part.
LEMMA ReadOfPartIs ==
  ASSUME NEW lsn \in Nat, NEW n \in Nat, NEW i \in PartOf(lsn) .. LastPart(lsn, n)
  PROVE  /\ ReadOfPart(lsn, n, i) \in ReadJobs
         /\ ReadOfPart(lsn, n, i).part = i + 1
         /\ ReadOfPart(lsn, n, i).lsn = (lsn - i * PartSectors) % LsnMod
         /\ ReadOfPart(lsn, n, i).p = ReadFrom(lsn, i) - lsn
         /\ ReadOfPart(lsn, n, i).n = ReadTo(lsn, n, i) - ReadFrom(lsn, i)
<1> DEFINE a == ReadFrom(lsn, i)
           b == ReadTo(lsn, n, i)
           from == (lsn - i * PartSectors) % LsnMod
<1>1. ReadOfPart(lsn, n, i) = [part |-> i + 1, lsn |-> from, n |-> b - a, p |-> a - lsn]
  BY DEF ReadOfPart, ReadFrom, ReadTo
<1>2. i \in Nat /\ i < NumParts /\ a \in Nat /\ lsn <= a /\ b \in Nat /\ a <= b BY ReadSpans
<1>3. from \in Nat
  <2>1. PartSectors \in Nat /\ LsnMod \in Nat \ {0} BY PartSizeIs, PartsAssumption
  <2>2. i * PartSectors \in Nat BY <1>2, <2>1, PartTimes
  <2> QED BY <2>1, <2>2
<1>4. NumParts \in Nat BY PartsAssumption
<1> HIDE DEF a, b, from
<1>5. i + 1 \in 1 .. NumParts /\ b - a \in Nat /\ a - lsn \in Nat BY <1>2, <1>4
<1>6. ReadOfPart(lsn, n, i) \in ReadJobs BY <1>1, <1>3, <1>5 DEF ReadJobs
<1>7. /\ ReadOfPart(lsn, n, i).part = i + 1 /\ ReadOfPart(lsn, n, i).lsn = from
      /\ ReadOfPart(lsn, n, i).p = a - lsn /\ ReadOfPart(lsn, n, i).n = b - a
  BY <1>1
<1> QED BY <1>6, <1>7 DEF a, b, from

\* The reads of a call, one by one.
LEMMA PartReadsAre ==
  ASSUME NEW lsn \in Nat, NEW n \in Nat
  PROVE  /\ PartReads(lsn, n) \in Seq(ReadJobs)
         /\ LastPart(lsn, n) >= PartOf(lsn) => Len(PartReads(lsn, n)) = LastPart(lsn, n) - PartOf(lsn) + 1
         /\ \A j \in 1 .. Len(PartReads(lsn, n)) :
               /\ PartOf(lsn) + j - 1 \in PartOf(lsn) .. LastPart(lsn, n)
               /\ PartReads(lsn, n)[j] = ReadOfPart(lsn, n, PartOf(lsn) + j - 1)
<1> DEFINE f == PartOf(lsn)
           lst == LastPart(lsn, n)
           ln == lst - f + 1
           rd(i) == ReadOfPart(lsn, n, i)
           R == [j \in 1 .. ln |-> rd(f + j - 1)]
<1>1. f \in Nat /\ lst \in Int BY PartsOf
<1>2. \A i \in f .. lst : rd(i) \in ReadJobs BY ReadOfPartIs
<1>3. R = PartReads(lsn, n) BY DEF PartReads
<1> HIDE DEF f, lst, rd
<1>4. ln \in Int BY <1>1
<1>5. \A j \in 1 .. ln : f + j - 1 \in f .. lst BY <1>1
<1> HIDE DEF ln
<1>6. R \in Seq(ReadJobs) /\ Len(R) = (IF ln > 0 THEN ln ELSE 0)
  <2>1. \A j \in 1 .. ln : rd(f + j - 1) \in ReadJobs BY <1>2, <1>5
  <2>2. CASE ln > 0 BY <1>4, <2>1, <2>2
  <2>3. CASE ~(ln > 0)
    <3>1. 1 .. ln = {} BY <1>4, <2>3
    <3>2. R = <<>> BY <3>1
    <3> QED BY <2>3, <3>2, EmptySeq
  <2> QED BY <2>2, <2>3
<1>7. \A j \in 1 .. Len(R) : f + j - 1 \in f .. lst /\ R[j] = rd(f + j - 1)
  <2> SUFFICES ASSUME NEW j \in 1 .. Len(R) PROVE f + j - 1 \in f .. lst /\ R[j] = rd(f + j - 1) OBVIOUS
  <2>a. Len(R) = (IF ln > 0 THEN ln ELSE 0) BY <1>6
  <2> HIDE DEF R
  <2>1. j \in 1 .. ln BY <1>4, <2>a
  <2> USE DEF R
  <2>2. R[j] = rd(f + j - 1) BY <2>1
  <2> QED BY <1>5, <2>1, <2>2
<1>8. lst >= f => Len(R) = lst - f + 1
  <2>1. Len(R) = (IF ln > 0 THEN ln ELSE 0) BY <1>6
  <2> HIDE DEF R
  <2> QED BY <1>1, <2>1 DEF ln
<1> HIDE DEF R
<1> QED BY <1>3, <1>6, <1>7, <1>8 DEF f, lst, rd

\* The reads stay within what was asked for.
LEMMA PartReadsTyped ==
  ASSUME NEW lsn \in Nat, NEW n \in Nat
  PROVE  /\ PartReads(lsn, n) \in Seq(ReadJobs)
         /\ \A j \in 1 .. Len(PartReads(lsn, n)) : PartReads(lsn, n)[j].p + PartReads(lsn, n)[j].n <= n
<1> SUFFICES ASSUME NEW j \in 1 .. Len(PartReads(lsn, n))
             PROVE  PartReads(lsn, n)[j].p + PartReads(lsn, n)[j].n <= n
  BY PartReadsAre
<1> DEFINE i == PartOf(lsn) + j - 1
<1>1. i \in PartOf(lsn) .. LastPart(lsn, n) /\ PartReads(lsn, n)[j] = ReadOfPart(lsn, n, i) BY PartReadsAre
<1> HIDE DEF i
<1>2. /\ ReadOfPart(lsn, n, i).p = ReadFrom(lsn, i) - lsn
      /\ ReadOfPart(lsn, n, i).n = ReadTo(lsn, n, i) - ReadFrom(lsn, i)
  BY <1>1, ReadOfPartIs
<1>3. ReadFrom(lsn, i) \in Nat /\ ReadTo(lsn, n, i) \in Nat /\ ReadTo(lsn, n, i) <= lsn + n BY <1>1, ReadSpans
<1> QED BY <1>1, <1>2, <1>3
-----------------------------------------------------------------------------
(***************************************************************************)
(* Requests and replies in step.                                           *)
(***************************************************************************)
SmbPlaces == {"connect", "send", "reply", "fragment", "check", "idle", "part", "chunk", "head", "rest", "return",
              "spin"}
SmbLocals ==
  [stage: LoginStages, auth: {"NTLM", "LM"}, i: 1 .. NumParts, reads: Seq(ReadJobs), off: Nat, left: Nat,
   part: 1 .. NumParts, p: Nat, got: Nat, want: Nat]
SmbTypes ==
  /\ server \in {"share", "user", "lm"} /\ conn \in {"none", "up", "lost"}
  /\ spoilt \in {"none", "call", "all"}
  /\ sat \in SmbPlaces /\ smy \in SmbLocals
  /\ UID \in Nat /\ TID \in Nat /\ FIDs \in [1 .. NumParts -> Nat] /\ RR \in [uid: Nat, tid: Nat]
  /\ SMB_buf \in [from: {"own", "reply"}, status: Statuses, id: Nat]
  /\ net \in Seq(Cells)
  /\ scall \in {NoRead} \cup SmbReads /\ smem \in [0 .. SmbMem - 1 -> Int]

\* The request of the thread, and the reply it may get: the answer, or an
\* error in its place, which spoils the call.
LoginRequest == [kind |-> smy.stage, auth |-> smy.auth, uid |-> UID, tid |-> TID, i |-> smy.i]
ReadRequest ==
  [kind |-> "read", fid |-> FIDs[smy.part], uid |-> RR.uid, tid |-> RR.tid, off |-> smy.off, n |-> ChunkSectors]
Request == IF Login THEN LoginRequest ELSE ReadRequest
Expected(R) ==
  \/ R = Answer(Request)
  \/ R = ErrorReply /\ spoilt # "none" /\ (Login => spoilt = "all")
Replies == {Answer(Request), ErrorReply}

\* The net holds h keep-alives, then what follows the first g cells of R (all
\* of it, unless the connection broke), then keep-alives.
Coming(R, h, g) ==
  /\ conn = "up" => h + (Len(R) - g) <= Len(net)
  /\ \A j \in 1 .. Len(net) : net[j] = IF h < j /\ j <= h + (Len(R) - g) THEN R[g + (j - h)] ELSE KeepAlive
OnlyKeepAlives == \A j \in 1 .. Len(net) : net[j] = KeepAlive

Awaited == \E R \in Replies, h \in Nat : Expected(R) /\ Coming(R, h, 0)
Rest == \E R \in Replies : Expected(R) /\ smy.want = Len(R) /\ smy.got \in 1 .. Len(R) /\ Coming(R, 0, smy.got)

Asking == {"reply", "head"}
Receiving == {"fragment", "rest"}
NetInv ==
  /\ sat \in Asking => \/ (srv = Request /\ conn = "up" /\ OnlyKeepAlives)
                      \/ (srv = NoRequest /\ Awaited)
  /\ sat \notin Asking => srv = NoRequest
  /\ sat \in Receiving => Rest
  /\ sat \notin Asking \cup Receiving \cup {"spin"} => OnlyKeepAlives
  /\ conn = "lost" => spoilt = "all"
  /\ conn = "none" <=> sat = "connect"
  /\ sat = "spin" => conn = "lost"

\* The request of the thread is well formed.
LEMMA RequestTyped ==
  ASSUME SmbTypes
  PROVE  LoginRequest \in LoginRequests /\ ReadRequest \in ReadRequests
<1>1. smy \in SmbLocals /\ UID \in Nat /\ TID \in Nat /\ RR \in [uid: Nat, tid: Nat] BY DEF SmbTypes
<1>2. LoginRequest \in LoginRequests BY <1>1 DEF LoginRequest, LoginRequests, SmbLocals
<1>3. FIDs[smy.part] \in Nat /\ smy.off \in Nat /\ smy.left \in Nat BY <1>1 DEF SmbTypes, SmbLocals
<1>4. ChunkSectors \in Nat BY <1>3, SmbAssumption DEF ChunkSectors
<1>5. ReadRequest \in ReadRequests BY <1>1, <1>3, <1>4 DEF ReadRequest, ReadRequests
<1> QED BY <1>2, <1>5

\* Every reply it may get is a message that fits.
LEMMA RepliesAre ==
  ASSUME SmbTypes, NEW R \in Replies
  PROVE  Message(R) /\ (~Login => Len(R) <= 1 + ChunkSectors)
<1>1. CASE R = ErrorReply
  <2>1. smy.left \in Nat BY DEF SmbTypes, SmbLocals
  <2>2. ChunkSectors \in Nat BY <2>1, SmbAssumption DEF ChunkSectors
  <2> QED BY <1>1, <2>2, ErrorReplyIs
<1>2. CASE R = Answer(Request) /\ Login
  <2>1. R = Answer(LoginRequest) BY <1>2 DEF Request
  <2> QED BY <1>2, <2>1, RequestTyped, LoginAnswer
<1>3. CASE R = Answer(Request) /\ ~Login
  <2>1. R = Answer(ReadRequest) BY <1>3 DEF Request
  <2>2. ReadRequest.n = ChunkSectors BY DEF ReadRequest
  <2> QED BY <1>3, <2>1, <2>2, RequestTyped, ReadAnswer
<1> QED BY <1>1, <1>2, <1>3 DEF Replies

\* A step that leaves the request alone.
SameRequest ==
  /\ UNCHANGED <<server, UID, TID, FIDs, RR>> /\ Login' = Login
  /\ smy'.stage = smy.stage /\ smy'.auth = smy.auth /\ smy'.i = smy.i
  /\ smy'.part = smy.part /\ smy'.off = smy.off /\ smy'.left = smy.left
\* Such a step leaves the replies alone too.
LEMMA SameReplies ==
  ASSUME SameRequest
  PROVE  Request' = Request /\ Answer(Request)' = Answer(Request) /\ Replies' = Replies
<1>1. LoginRequest' = LoginRequest BY DEF SameRequest, LoginRequest
<1>2. ReadRequest' = ReadRequest BY DEF SameRequest, ReadRequest, ChunkSectors
<1>3. Request' = Request BY <1>1, <1>2 DEF Request, SameRequest
<1>4. server' = server BY DEF SameRequest
<1>5. Answer(Request)' = Answer(Request) BY <1>3, <1>4 DEF Answer
<1>6. ErrorReply' = ErrorReply BY DEF ErrorReply, Reply
<1> QED BY <1>3, <1>5, <1>6 DEF Replies

\* What is left after k cells.
LEMMA NetAfter ==
  ASSUME net \in Seq(Cells), NEW k \in 1 .. Len(net), Received(k)
  PROVE  net' \in Seq(Cells) /\ Len(net') = Len(net) - k /\ \A j \in 1 .. Len(net') : net'[j] = net[j + k]
<1>1. Len(net) \in Nat BY LenProperties
<1>2. net' = SubSeq(net, k + 1, Len(net)) BY DEF Received
<1>3. \A i \in k + 1 .. Len(net) : net[i] \in Cells BY <1>1, ElementOfSeq
<1>4. k \in Int /\ k + 1 \in Int BY <1>1
<1>5. /\ SubSeq(net, k + 1, Len(net)) \in Seq(Cells)
      /\ Len(SubSeq(net, k + 1, Len(net))) = IF k + 1 <= Len(net) THEN Len(net) - (k + 1) + 1 ELSE 0
      /\ \A i \in 1 .. Len(net) - (k + 1) + 1 : SubSeq(net, k + 1, Len(net))[i] = net[(k + 1) + i - 1]
  BY <1>1, <1>3, <1>4, SubSeqProperties
<1>6. Len(net') = Len(net) - k BY <1>1, <1>2, <1>5
<1>7. \A j \in Int : (k + 1) + j - 1 = j + k BY <1>4
<1> QED BY <1>1, <1>2, <1>4, <1>5, <1>6, <1>7

\* A keep-alive is received, and nothing else with it;
LEMMA ReceivesKeepAlive ==
  ASSUME net \in Seq(Cells), NEW k \in 1 .. Len(net), Received(k), conn' = conn, net[1] = KeepAlive,
         NEW R, Message(R), NEW h \in Nat, NEW g \in 0 .. Len(R) - 1, Coming(R, h, g)
  PROVE  k = 1 /\ h >= 1 /\ Coming(R, h - 1, g)'
<1>1. Len(net) \in Nat /\ Len(R) \in Nat BY LenProperties DEF Message
<1>2. k = 1 BY <1>1 DEF Received, Arrived
<1>3. h >= 1
  <2> SUFFICES ASSUME h = 0 PROVE FALSE OBVIOUS
  <2>1. net[1] = R[g + 1] BY <1>1 DEF Coming
  <2>2. g + 1 \in 1 .. Len(R) BY <1>1
  <2> QED BY <2>1, <2>2, MessageCells
<1>5. Len(net') = Len(net) - 1 /\ \A j \in 1 .. Len(net') : net'[j] = net[j + 1]
  BY <1>2, NetAfter
<1>6. conn' = "up" => (h - 1) + (Len(R) - g) <= Len(net') BY <1>1, <1>5 DEF Coming
<1>7. ASSUME NEW j \in 1 .. Len(net')
      PROVE  net'[j] = IF h - 1 < j /\ j <= (h - 1) + (Len(R) - g) THEN R[g + (j - (h - 1))] ELSE KeepAlive
  <2>1. j + 1 \in 1 .. Len(net) /\ net'[j] = net[j + 1] BY <1>1, <1>5
  <2>2. net[j + 1] = IF h < j + 1 /\ j + 1 <= h + (Len(R) - g) THEN R[g + ((j + 1) - h)] ELSE KeepAlive
    BY <2>1 DEF Coming
  <2>3. g + ((j + 1) - h) = g + (j - (h - 1)) OBVIOUS
  <2> QED BY <1>1, <2>1, <2>2, <2>3
<1> QED BY <1>2, <1>3, <1>6, <1>7 DEF Coming

\* or a piece of the reply, and no keep-alive.
LEMMA ReceivesPiece ==
  ASSUME net \in Seq(Cells), NEW k \in 1 .. Len(net), Received(k), conn' = conn, net[1] # KeepAlive,
         NEW R, Message(R), NEW h \in Nat, NEW g \in 0 .. Len(R) - 1, Coming(R, h, g)
  PROVE  /\ h = 0 /\ g + k <= Len(R) /\ Coming(R, 0, g + k)'
         /\ \A j \in 1 .. k : net[j] = R[g + j]
<1>1. Len(net) \in Nat /\ Len(R) \in Nat BY LenProperties DEF Message
<1>2. h = 0 BY <1>1 DEF Coming
<1>3. g + k <= Len(R)
  <2> SUFFICES ASSUME k > Len(R) - g PROVE FALSE BY <1>1
  <2>1. k # 1 BY <1>1
  <2>2. net[k] # KeepAlive BY <2>1 DEF Received, Arrived
  <2> QED BY <1>1, <1>2, <2>2 DEF Coming
<1>4. \A j \in 1 .. k : net[j] = R[g + j] BY <1>1, <1>2, <1>3 DEF Coming
<1>6. Len(net') = Len(net) - k /\ \A j \in 1 .. Len(net') : net'[j] = net[j + k] BY NetAfter
<1>7. conn' = "up" => 0 + (Len(R) - (g + k)) <= Len(net') BY <1>1, <1>2, <1>6 DEF Coming
<1>8. ASSUME NEW j \in 1 .. Len(net')
      PROVE  net'[j] = IF 0 < j /\ j <= 0 + (Len(R) - (g + k)) THEN R[(g + k) + (j - 0)] ELSE KeepAlive
  <2>1. j + k \in 1 .. Len(net) /\ net'[j] = net[j + k] BY <1>1, <1>6
  <2>2. net[j + k] = IF j + k <= Len(R) - g THEN R[g + (j + k)] ELSE KeepAlive
    BY <1>1, <1>2, <2>1 DEF Coming
  <2>3. g + (j + k) = (g + k) + (j - 0) OBVIOUS
  <2> QED BY <1>1, <2>1, <2>2, <2>3
<1> QED BY <1>2, <1>3, <1>4, <1>7, <1>8 DEF Coming

\* Receiving from a net that holds keep-alives leaves nothing else.
LEMMA ReceivesIdle ==
  ASSUME net \in Seq(Cells), NEW k \in 1 .. Len(net), Received(k), OnlyKeepAlives
  PROVE  OnlyKeepAlives'
<1>1. Len(net) \in Nat /\ Len(net') = Len(net) - k /\ \A j \in 1 .. Len(net') : net'[j] = net[j + k]
  BY NetAfter
<1>2. \A j \in 1 .. Len(net') : j + k \in 1 .. Len(net) BY <1>1
<1> QED BY <1>1, <1>2 DEF OnlyKeepAlives

\* Nothing is left of a reply that has been received to its end.
LEMMA AllReceived ==
  ASSUME NEW R, Message(R), Coming(R, 0, Len(R))
  PROVE  OnlyKeepAlives
<1>1. Len(R) \in Nat BY LenProperties DEF Message
<1> QED BY <1>1 DEF Coming, OnlyKeepAlives

\* A reply is put on the net behind the keep-alives,
LEMMA ReplyComes ==
  ASSUME net \in Seq(Cells), OnlyKeepAlives, NEW R, Message(R), net' = net \o R, NEW h, h = Len(net)
  PROVE  net' \in Seq(Cells) /\ Coming(R, h, 0)'
<1>1. Len(net) \in Nat /\ Len(R) \in Nat /\ R \in Seq(Cells) BY LenProperties DEF Message
<1>2. /\ net' \in Seq(Cells) /\ Len(net') = Len(net) + Len(R)
      /\ \A i \in 1 .. Len(net) + Len(R) : net'[i] = IF i <= Len(net) THEN net[i] ELSE R[i - Len(net)]
  BY <1>1, ConcatProperties
<1>3. ASSUME NEW j \in 1 .. Len(net')
      PROVE  net'[j] = IF h < j /\ j <= h + (Len(R) - 0) THEN R[0 + (j - h)] ELSE KeepAlive
  BY <1>1, <1>2 DEF OnlyKeepAlives
<1>4. h + (Len(R) - 0) <= Len(net') BY <1>1, <1>2
<1> QED BY <1>2, <1>3, <1>4 DEF Coming

\* a keep-alive behind the reply.
LEMMA KeepAliveComes ==
  ASSUME net \in Seq(Cells), net' = Append(net, KeepAlive), conn = "up"
  PROVE  /\ net' \in Seq(Cells)
         /\ OnlyKeepAlives => OnlyKeepAlives'
         /\ \A R, h, g : Message(R) /\ h \in Nat /\ g \in 0 .. Len(R) /\ Coming(R, h, g) => Coming(R, h, g)'
<1>1. Len(net) \in Nat BY LenProperties
<1>2. KeepAlive \in Cells BY DEF Cells
<1>3. /\ net' \in Seq(Cells) /\ Len(net') = Len(net) + 1
      /\ \A i \in 1 .. Len(net) : net'[i] = net[i] /\ net'[Len(net) + 1] = KeepAlive
  BY <1>2, AppendProperties
<1>4. net'[Len(net) + 1] = KeepAlive BY <1>2, AppendProperties
<1>5. OnlyKeepAlives => OnlyKeepAlives' BY <1>1, <1>3, <1>4 DEF OnlyKeepAlives
<1>6. ASSUME NEW R, NEW h, NEW g, Message(R), h \in Nat, g \in 0 .. Len(R), Coming(R, h, g)
      PROVE  Coming(R, h, g)'
  <2>1. Len(R) \in Nat BY <1>6, LenProperties DEF Message
  <2>2. h + (Len(R) - g) <= Len(net) BY <1>6 DEF Coming
  <2>3. ASSUME NEW j \in 1 .. Len(net')
        PROVE  net'[j] = IF h < j /\ j <= h + (Len(R) - g) THEN R[g + (j - h)] ELSE KeepAlive
    <3>1. CASE j = Len(net) + 1 BY <1>1, <1>4, <1>6, <2>1, <2>2, <3>1
    <3>2. CASE j \in 1 .. Len(net) BY <1>3, <1>6, <3>2 DEF Coming
    <3> QED BY <1>1, <1>3, <3>1, <3>2
  <2>4. h + (Len(R) - g) <= Len(net') BY <1>1, <1>3, <1>6, <2>1, <2>2
  <2> QED BY <2>3, <2>4 DEF Coming
<1> QED BY <1>3, <1>5, <1>6

\* When the connection breaks, a part of it arrives.
LEMMA NetBroken ==
  ASSUME net \in Seq(Cells), NEW k \in 0 .. Len(net), net' = SubSeq(net, 1, k), conn' = "lost"
  PROVE  /\ net' \in Seq(Cells)
         /\ OnlyKeepAlives => OnlyKeepAlives'
         /\ \A R, h, g : Coming(R, h, g) => Coming(R, h, g)'
<1>1. Len(net) \in Nat BY LenProperties
<1>2. /\ SubSeq(net, 1, k) \in Seq(Cells) /\ Len(SubSeq(net, 1, k)) = k
      /\ \A i \in 1 .. k : SubSeq(net, 1, k)[i] = net[i]
  <2>1. \A i \in 1 .. k : net[i] \in Cells BY <1>1, ElementOfSeq
  <2>2. /\ SubSeq(net, 1, k) \in Seq(Cells)
        /\ Len(SubSeq(net, 1, k)) = IF 1 <= k THEN k - 1 + 1 ELSE 0
        /\ \A i \in 1 .. k - 1 + 1 : SubSeq(net, 1, k)[i] = net[1 + i - 1]
    BY <1>1, <2>1, SubSeqProperties
  <2>3. \A i \in 1 .. k : 1 + i - 1 = i OBVIOUS
  <2> QED BY <1>1, <2>2, <2>3
<1>3. Len(net') = k /\ k <= Len(net) /\ \A i \in 1 .. k : net'[i] = net[i] BY <1>1, <1>2
<1>4. OnlyKeepAlives => OnlyKeepAlives' BY <1>1, <1>3 DEF OnlyKeepAlives
<1>5. ASSUME NEW R, NEW h, NEW g, Coming(R, h, g) PROVE Coming(R, h, g)'
  <2>1. conn' # "up" OBVIOUS
  <2>2. \A j \in 1 .. Len(net') :
          net'[j] = IF h < j /\ j <= h + (Len(R) - g) THEN R[g + (j - h)] ELSE KeepAlive
    BY <1>1, <1>3, <1>5 DEF Coming
  <2> QED BY <2>1, <2>2 DEF Coming
<1> QED BY <1>2, <1>4, <1>5

-----------------------------------------------------------------------------
SmbInv == SmbTypes /\ NetInv

\* The locals of a new call,
LEMMA StartTyped == Start \in SmbLocals
<1>1. 1 \in 1 .. NumParts BY PartsAssumption
<1> QED BY <1>1 DEF Start, SmbLocals, LoginStages

\* and of a new request of the login, are well formed.
LEMMA AtLogin ==
  ASSUME NEW l \in SmbLocals, NEW stage \in LoginStages, NEW auth \in {"NTLM", "LM"}, NEW i \in 1 .. NumParts
  PROVE  [l EXCEPT !.stage = stage, !.auth = auth, !.i = i] \in SmbLocals
  BY DEF SmbLocals

\* The numbers of a call.
LEMMA SmbCallTyped ==
  ASSUME scall \in {NoRead} \cup SmbReads
  PROVE  scall.lsn \in Nat /\ scall.n \in 0 .. SmbMem /\ SmbMem \in Nat
  BY SmbAssumption DEF NoRead

\* The client begins with nothing asked and nothing on the net.
LEMMA SmbInitInv ==
  ASSUME SmbInit
  PROVE  SmbInv
<1>1. SmbTypes
  <2>1. server \in {"share", "user", "lm"} /\ conn \in {"none", "up", "lost"} BY DEF SmbInit
  <2>2. spoilt \in {"none", "call", "all"} /\ sat \in SmbPlaces /\ smy = Start BY DEF SmbInit, SmbPlaces
  <2>3. UID \in Nat /\ TID \in Nat /\ FIDs \in [1 .. NumParts -> Nat] /\ RR \in [uid: Nat, tid: Nat] BY DEF SmbInit
  <2>4. SMB_buf \in [from: {"own", "reply"}, status: Statuses, id: Nat] BY DEF SmbInit, Own, Statuses
  <2>5. net \in Seq(Cells) /\ scall \in {NoRead} \cup SmbReads /\ smem \in [0 .. SmbMem - 1 -> Int]
    BY DEF SmbInit, Nothing
  <2> QED BY <2>1, <2>2, <2>3, <2>4, <2>5, StartTyped DEF SmbTypes
<1>2. OnlyKeepAlives BY DEF SmbInit, OnlyKeepAlives
<1>3. NetInv BY <1>2 DEF SmbInit, NetInv, Asking, Receiving
<1> QED BY <1>1, <1>3 DEF SmbInv

\* Steps that take nothing from the net, and after which nothing is awaited.
LEMMA QuietKeeps ==
  ASSUME SmbInv, srv = NoRequest, OnlyKeepAlives, UNCHANGED <<srv, net, conn>>, conn # "none",
         spoilt = "all" => spoilt' = "all",
         sat' \notin Asking \cup Receiving \cup {"spin", "connect"}
  PROVE  NetInv'
<1>1. OnlyKeepAlives' BY DEF OnlyKeepAlives
<1> QED BY <1>1 DEF SmbInv, NetInv

\* Nothing is awaited where a thread asks for nothing.
LEMMA Quiet ==
  ASSUME SmbInv, sat \notin Asking \cup Receiving \cup {"spin", "connect"}
  PROVE  srv = NoRequest /\ OnlyKeepAlives /\ conn # "none"
  BY DEF SmbInv, NetInv

\* The connection is opened.
LEMMA OpenTCPSessionKeeps ==
  ASSUME SmbInv, OpenTCPSession
  PROVE  SmbInv'
<1>1. /\ sat = "connect" /\ sat' = "send" /\ conn' = "up"
      /\ UNCHANGED <<server, srv, net, SMB_buf, ids, smy, scall, smem, spoilt>>
  BY DEF OpenTCPSession
<1>2. SmbTypes' BY <1>1 DEF SmbInv, SmbTypes, SmbPlaces, ids
<1>3. OnlyKeepAlives' BY <1>1 DEF SmbInv, NetInv, OnlyKeepAlives, Asking, Receiving
<1>4. srv' = NoRequest BY <1>1 DEF SmbInv, NetInv, Asking
<1>5. NetInv' BY <1>1, <1>3, <1>4 DEF NetInv, Asking, Receiving
<1> QED BY <1>2, <1>5 DEF SmbInv

\* On a lost connection a request is followed by no more than what had
\* arrived: by nothing.
LEMMA NothingAwaited ==
  ASSUME net' \in Seq(Cells), conn' = "lost", spoilt' = "all", OnlyKeepAlives'
  PROVE  Awaited'
<1>1. PICK h \in Nat : h = Len(net') BY LenProperties
<1>2. PICK R : R = ErrorReply OBVIOUS
<1>3. ErrorReply' = ErrorReply BY DEF ErrorReply, Reply
<1>4. Coming(R, h, 0)'
  <2>1. \A j \in 1 .. Len(net') : net'[j] = KeepAlive /\ ~(h < j) BY <1>1 DEF OnlyKeepAlives
  <2>2. conn' # "up" OBVIOUS
  <2> QED BY <2>1, <2>2 DEF Coming
<1>5. Expected(R)' BY <1>2, <1>3 DEF Expected
<1>6. R \in Replies' BY <1>2, <1>3 DEF Replies
<1> QED BY <1>4, <1>5, <1>6 DEF Awaited

\* What may be expected stays so while the request does.
LEMMA ExpectedKept ==
  ASSUME SameRequest, NEW R \in Replies, Expected(R), spoilt # "none" => spoilt' # "none",
         spoilt = "all" => spoilt' = "all"
  PROVE  R \in Replies' /\ Expected(R)' /\ Request' = Request
<1>1. Request' = Request /\ Answer(Request)' = Answer(Request) /\ Replies' = Replies BY SameReplies
<1>2. Login' = Login BY DEF SameRequest
<1>3. ErrorReply' = ErrorReply BY DEF ErrorReply, Reply
<1> QED BY <1>1, <1>2, <1>3 DEF Expected

\* Steps of the server and of the network: the thread stays where it is.
ThreadStays == UNCHANGED <<server, SMB_buf, ids, sat, smy, scall, smem>>

\* They leave the request alone,
LEMMA ThreadStaysSame ==
  ASSUME ThreadStays
  PROVE  SameRequest
<1>1. Login' = Login BY DEF ThreadStays, Login
<1> QED BY <1>1 DEF ThreadStays, SameRequest, ids

\* and the types.
LEMMA ThreadStaysTypes ==
  ASSUME SmbTypes, ThreadStays, conn' \in {"none", "up", "lost"}, spoilt' \in {"none", "call", "all"},
         net' \in Seq(Cells)
  PROVE  SmbTypes'
  BY DEF SmbTypes, ThreadStays, ids

\* The server answers what is asked, or reports an error.
LEMMA ServerAnswersKeeps ==
  ASSUME SmbInv, ServerAnswers
  PROVE  SmbInv'
<1>a. SmbTypes /\ NetInv BY DEF SmbInv
<1>1. srv # NoRequest /\ srv' = NoRequest /\ ThreadStays /\ conn' = conn BY DEF ServerAnswers, ThreadStays
<1>2. sat \in Asking /\ srv = Request /\ conn = "up" /\ OnlyKeepAlives BY <1>a, <1>1 DEF NetInv
<1>3. SameRequest /\ sat' = sat BY <1>1, ThreadStaysSame DEF ThreadStays
<1>4. PICK R \in Replies :
        /\ net' = net \o R
        /\ Expected(R)'
        /\ spoilt' \in {"none", "call", "all"} /\ (spoilt = "all" => spoilt' = "all")
  <2>0. Request' = Request /\ Answer(Request)' = Answer(Request) /\ Login' = Login
    BY <1>3, SameReplies DEF SameRequest
  <2>1. CASE net' = net \o Answer(srv) /\ UNCHANGED <<spoilt, sfaults>>
    <3>1. net' = net \o Answer(Request) BY <1>2, <2>1
    <3>2. Answer(Request) = Answer(Request)' BY <2>0
    <3>3. \A R \in Replies : R = Answer(Request) => Expected(R)' BY <3>2 DEF Expected
    <3> QED BY <1>a, <2>1, <3>1, <3>3 DEF Replies, SmbTypes
  <2>2. CASE net' = net \o Reply("ERROR", 0, <<>>) /\ SmbFault(IF Login THEN "all" ELSE "call")
    <3>1. net' = net \o ErrorReply /\ ErrorReply' = ErrorReply BY <2>2 DEF ErrorReply, Reply
    <3>2. spoilt' \in {"call", "all"} /\ (spoilt = "all" => spoilt' = "all") /\ (Login => spoilt' = "all")
      BY <2>2 DEF SmbFault
    <3>3. \A R \in Replies : R = ErrorReply => Expected(R)' BY <2>0, <3>1, <3>2 DEF Expected
    <3> QED BY <3>1, <3>2, <3>3 DEF Replies
  <2> QED BY <2>1, <2>2 DEF ServerAnswers
<1>5. PICK h \in Nat : h = Len(net) BY <1>a, LenProperties DEF SmbTypes
<1>6. Message(R) BY <1>a, RepliesAre
<1>7. net' \in Seq(Cells) /\ Coming(R, h, 0)' BY <1>a, <1>2, <1>4, <1>5, <1>6, ReplyComes DEF SmbTypes
<1>8. SmbTypes' BY <1>a, <1>1, <1>4, <1>7, ThreadStaysTypes DEF SmbTypes
<1>9. Awaited'
  <2>1. R \in Replies' BY <1>3, SameReplies
  <2> QED BY <1>4, <1>5, <1>7, <2>1 DEF Awaited
<1>10. NetInv' BY <1>a, <1>1, <1>2, <1>3, <1>9 DEF NetInv, Asking, Receiving
<1> QED BY <1>8, <1>10 DEF SmbInv

\* A keep-alive changes nothing of it.
LEMMA ServerKeepsAliveKeeps ==
  ASSUME SmbInv, ServerKeepsAlive
  PROVE  SmbInv'
<1>a. SmbTypes /\ NetInv BY DEF SmbInv
<1>1. conn = "up" /\ net' = Append(net, KeepAlive) /\ ThreadStays /\ UNCHANGED <<conn, srv, spoilt>>
  BY DEF ServerKeepsAlive, ThreadStays
<1>2. SameRequest /\ sat' = sat BY <1>1, ThreadStaysSame DEF ThreadStays
<1>3. /\ net' \in Seq(Cells)
      /\ OnlyKeepAlives => OnlyKeepAlives'
      /\ \A R, h, g : Message(R) /\ h \in Nat /\ g \in 0 .. Len(R) /\ Coming(R, h, g) => Coming(R, h, g)'
  BY <1>a, <1>1, KeepAliveComes DEF SmbTypes
<1>4. \A R \in Replies : Message(R) /\ Len(R) \in Nat /\ (Expected(R) => R \in Replies' /\ Expected(R)')
  <2>1. \A R \in Replies : Message(R) BY <1>a, RepliesAre
  <2>2. \A R \in Replies : Len(R) \in Nat BY <2>1, LenProperties DEF Message
  <2>3. \A R \in Replies : Expected(R) => R \in Replies' /\ Expected(R)' BY <1>1, <1>2, ExpectedKept
  <2> QED BY <2>1, <2>2, <2>3
<1>5. Awaited => Awaited'
  <2> SUFFICES ASSUME NEW R \in Replies, NEW h \in Nat, Expected(R), Coming(R, h, 0) PROVE Awaited'
    BY DEF Awaited
  <2>1. Coming(R, h, 0)' BY <1>3, <1>4
  <2> QED BY <1>4, <2>1 DEF Awaited
<1>6. Rest => Rest'
  <2> SUFFICES ASSUME NEW R \in Replies, Expected(R), smy.want = Len(R), smy.got \in 1 .. Len(R),
                      Coming(R, 0, smy.got)
               PROVE  Rest'
    BY DEF Rest
  <2>1. PICK g : g = smy.got OBVIOUS
  <2>2. Coming(R, 0, g)' BY <1>3, <1>4, <2>1
  <2>3. smy' = smy BY <1>1 DEF ThreadStays
  <2> QED BY <1>4, <2>1, <2>2, <2>3 DEF Rest
<1>7. Request' = Request BY <1>2, SameReplies
<1>8. NetInv'
  <2>1. sat' = sat /\ srv' = srv /\ conn' = conn /\ spoilt' = spoilt BY <1>1, <1>2
  <2> QED BY <1>a, <1>3, <1>5, <1>6, <1>7, <2>1 DEF NetInv
<1>9. SmbTypes' BY <1>a, <1>1, <1>3, ThreadStaysTypes DEF SmbTypes
<1> QED BY <1>8, <1>9 DEF SmbInv

\* When the connection is lost, what is on its way arrives in part, and the
\* request is not answered.
LEMMA ConnectionLostKeeps ==
  ASSUME SmbInv, ConnectionLost
  PROVE  SmbInv'
<1>a. SmbTypes /\ NetInv BY DEF SmbInv
<1>1. conn = "up" /\ conn' = "lost" /\ ThreadStays /\ srv' = NoRequest /\ spoilt' = "all"
  BY DEF ConnectionLost, ThreadStays, SmbFault
<1>2. SameRequest /\ sat' = sat BY <1>1, ThreadStaysSame DEF ThreadStays
<1>3. PICK k \in 0 .. Len(net) : net' = SubSeq(net, 1, k) BY DEF ConnectionLost
<1>4. /\ net' \in Seq(Cells)
      /\ OnlyKeepAlives => OnlyKeepAlives'
      /\ \A R, h, g : Coming(R, h, g) => Coming(R, h, g)'
  BY <1>a, <1>1, <1>3, NetBroken DEF SmbTypes
<1>5. \A R \in Replies : Expected(R) => R \in Replies' /\ Expected(R)' BY <1>1, <1>2, ExpectedKept
<1>6. Awaited => Awaited' BY <1>4, <1>5 DEF Awaited
<1>7. Rest => Rest'
  <2> SUFFICES ASSUME NEW R \in Replies, Expected(R), smy.want = Len(R), smy.got \in 1 .. Len(R),
                      Coming(R, 0, smy.got)
               PROVE  Rest'
    BY DEF Rest
  <2>1. PICK g : g = smy.got OBVIOUS
  <2>2. Coming(R, 0, g)' BY <1>4, <2>1
  <2>3. smy' = smy BY <1>1 DEF ThreadStays
  <2> QED BY <1>5, <2>1, <2>2, <2>3 DEF Rest
<1>8. OnlyKeepAlives => Awaited' BY <1>1, <1>4, NothingAwaited
<1>9. NetInv'
  <2>1. sat \in Asking => Awaited' BY <1>a, <1>6, <1>8 DEF NetInv
  <2>2. sat \in Receiving => Rest' BY <1>a, <1>7 DEF NetInv
  <2>3. sat \notin Asking \cup Receiving \cup {"spin"} => OnlyKeepAlives' BY <1>a, <1>4 DEF NetInv
  <2>4. sat # "connect" BY <1>a, <1>1 DEF NetInv
  <2> QED BY <1>1, <1>2, <2>1, <2>2, <2>3, <2>4 DEF NetInv
<1>10. SmbTypes' BY <1>a, <1>1, <1>4, ThreadStaysTypes
<1> QED BY <1>9, <1>10 DEF SmbInv

\* A request is sent, and then awaited; on a lost connection, nothing is.
LEMMA AskedKeeps ==
  ASSUME SmbInv, srv = NoRequest, OnlyKeepAlives, conn # "none", UNCHANGED <<net, conn, spoilt>>, SmbTypes',
         sat' \in Asking, srv' = IF conn = "up" THEN Request' ELSE NoRequest
  PROVE  NetInv'
<1>a. SmbTypes /\ NetInv BY DEF SmbInv
<1>1. OnlyKeepAlives' /\ net' \in Seq(Cells) BY <1>a DEF OnlyKeepAlives, SmbTypes
<1>2. CASE conn = "up" BY <1>1, <1>2 DEF NetInv, Asking, Receiving
<1>3. CASE conn = "lost"
  <2>1. spoilt' = "all" BY <1>a, <1>3 DEF NetInv
  <2>2. Awaited' BY <1>1, <1>3, <2>1, NothingAwaited
  <2> QED BY <1>3, <2>1, <2>2 DEF NetInv, Asking, Receiving
<1> QED BY <1>a, <1>2, <1>3 DEF SmbTypes

\* A request of the login is sent.
LEMMA SessionSendKeeps ==
  ASSUME SmbInv, SessionSend
  PROVE  SmbInv'
<1>a. SmbTypes /\ NetInv BY DEF SmbInv
<1>1. /\ sat = "send" /\ sat' = IF conn = "up" THEN "reply" ELSE "check"
      /\ SMB_buf' = Own /\ UNCHANGED <<server, conn, net, UID, TID, FIDs, RR, smy, scall, smem, spoilt>>
      /\ srv' = IF conn = "up" THEN LoginRequest ELSE NoRequest
  BY DEF SessionSend, Sent, LoginRequest, ids
<1>2. srv = NoRequest /\ OnlyKeepAlives /\ conn # "none" BY <1>1, Quiet DEF Asking, Receiving
<1>3. Own \in [from: {"own", "reply"}, status: Statuses, id: Nat] BY DEF Own, Statuses
<1>4. SmbTypes' BY <1>a, <1>1, <1>3 DEF SmbTypes, SmbPlaces
<1>5. CASE conn = "up"
  <2>1. Login' BY <1>1, <1>5 DEF Login
  <2>2. LoginRequest' = LoginRequest BY <1>1 DEF LoginRequest
  <2>3. srv' = Request' BY <1>1, <1>5, <2>1, <2>2 DEF Request
  <2>4. NetInv' BY <1>1, <1>2, <1>4, <1>5, <2>3, AskedKeeps DEF Asking
  <2> QED BY <1>4, <2>4 DEF SmbInv
<1>6. CASE conn # "up"
  <2>1. srv' = srv /\ sat' = "check" BY <1>1, <1>2, <1>6
  <2>2. NetInv' BY <1>1, <1>2, <2>1, QuietKeeps DEF Asking, Receiving
  <2> QED BY <1>4, <2>2 DEF SmbInv
<1> QED BY <1>5, <1>6

\* The head of the reply, once nothing but the reply can be on the net.
LEMMA HeadOfReply ==
  ASSUME SmbInv, sat \in Asking, NEW k \in 1 .. Len(net), Received(k), conn' = conn, net[1] # KeepAlive
  PROVE  /\ srv = NoRequest
         /\ \E R \in Replies :
              /\ Expected(R) /\ Message(R) /\ R[1] = net[1] /\ net[1] \in Headers /\ net[1].size = Len(R)
              /\ k \in 1 .. Len(R) /\ Coming(R, 0, k)' /\ \A j \in 1 .. k : net[j] = R[j]
<1>a. SmbTypes /\ NetInv BY DEF SmbInv
<1>1. Len(net) \in Nat BY <1>a, LenProperties DEF SmbTypes
<1>2. ~OnlyKeepAlives BY <1>1 DEF OnlyKeepAlives
<1>3. srv = NoRequest /\ Awaited BY <1>a, <1>2 DEF NetInv
<1>4. PICK R \in Replies, h \in Nat : Expected(R) /\ Coming(R, h, 0) BY <1>3 DEF Awaited
<1>5. Message(R) BY <1>a, RepliesAre
<1>6. Len(R) \in Nat /\ 0 \in 0 .. Len(R) - 1 BY <1>5, LenProperties DEF Message
<1>7. /\ h = 0 /\ 0 + k <= Len(R) /\ Coming(R, 0, 0 + k)'
      /\ \A j \in 1 .. k : net[j] = R[0 + j]
  BY <1>a, <1>4, <1>5, <1>6, ReceivesPiece DEF SmbTypes
<1>8. 0 + k = k /\ \A j \in 1 .. k : 0 + j = j OBVIOUS
<1>9. Coming(R, 0, k)' BY <1>7, <1>8
<1>10. \A j \in 1 .. k : net[j] = R[j] BY <1>7, <1>8
<1>11. k \in 1 .. Len(R) /\ R[1] = net[1] BY <1>6, <1>7, <1>8, <1>10
<1> QED BY <1>3, <1>4, <1>5, <1>9, <1>10, <1>11 DEF Message

\* A keep-alive before it is dropped.
LEMMA KeepAliveDropped ==
  ASSUME SmbInv, sat \in Asking, NEW k \in 1 .. Len(net), Received(k), net[1] = KeepAlive,
         SameRequest, sat' = sat, UNCHANGED <<srv, conn, spoilt>>
  PROVE  NetInv'
<1>a. SmbTypes /\ NetInv BY DEF SmbInv
<1>1. Request' = Request BY SameReplies
<1>2. CASE srv = Request /\ conn = "up" /\ OnlyKeepAlives
  <2>1. OnlyKeepAlives' BY <1>a, <1>2, ReceivesIdle DEF SmbTypes
  <2> QED BY <1>a, <1>1, <1>2, <2>1 DEF NetInv, Asking, Receiving
<1>3. CASE srv = NoRequest /\ Awaited
  <2>1. PICK R \in Replies, h \in Nat : Expected(R) /\ Coming(R, h, 0) BY <1>3 DEF Awaited
  <2>2. Message(R) BY <1>a, RepliesAre
  <2>3. 0 \in 0 .. Len(R) - 1 BY <2>2, LenProperties DEF Message
  <2>4. h >= 1 /\ Coming(R, h - 1, 0)' BY <1>a, <2>1, <2>2, <2>3, ReceivesKeepAlive DEF SmbTypes
  <2>5. PICK m \in Nat : m = h - 1 BY <2>4
  <2>6. Coming(R, m, 0)' BY <2>4, <2>5
  <2>7. R \in Replies' /\ Expected(R)' BY <2>1, ExpectedKept
  <2>8. Awaited' BY <2>6, <2>7 DEF Awaited
  <2> QED BY <1>a, <1>3, <2>8 DEF NetInv, Asking, Receiving
<1> QED BY <1>a, <1>2, <1>3 DEF NetInv

\* The rest of a reply, of which some is to come.
LEMMA PieceOfReply ==
  ASSUME SmbInv, sat \in Receiving, NEW k \in 1 .. Len(net), Received(k), conn' = conn, smy.got < smy.want
  PROVE  \E R \in Replies :
           /\ Expected(R) /\ Message(R) /\ smy.want = Len(R) /\ smy.got \in 1 .. Len(R)
           /\ smy.got + k \in 1 .. Len(R)
           /\ \A g : g = smy.got + k => Coming(R, 0, g)'
           /\ \A j \in 1 .. k : net[j] = R[smy.got + j]
<1>a. SmbTypes /\ NetInv BY DEF SmbInv
<1>1. PICK R \in Replies : Expected(R) /\ smy.want = Len(R) /\ smy.got \in 1 .. Len(R) /\ Coming(R, 0, smy.got)
  BY <1>a DEF NetInv, Rest
<1>2. Message(R) /\ Len(R) \in Nat /\ Len(net) \in Nat
  BY <1>a, RepliesAre, LenProperties DEF Message, SmbTypes
<1>3. PICK g \in 0 .. Len(R) - 1 : g = smy.got BY <1>1, <1>2
<1>4. Coming(R, 0, g) BY <1>1, <1>3
<1>5. net[1] # KeepAlive
  <2>1. net[1] = R[g + 1] BY <1>2, <1>4 DEF Coming
  <2>2. g + 1 \in 1 .. Len(R) BY <1>2
  <2> QED BY <1>2, <2>1, <2>2, MessageCells
<1>6. g + k <= Len(R) /\ Coming(R, 0, g + k)' /\ \A j \in 1 .. k : net[j] = R[g + j]
  BY <1>a, <1>2, <1>4, <1>5, ReceivesPiece DEF SmbTypes
<1>7. smy.got + k \in 1 .. Len(R) BY <1>1, <1>2, <1>3, <1>6
<1>8. \A j \in 1 .. k : net[j] = R[smy.got + j] BY <1>3, <1>6
<1>9. \A x : x = smy.got + k => Coming(R, 0, x)' BY <1>3, <1>6
<1> QED BY <1>1, <1>2, <1>7, <1>8, <1>9

\* Nothing is left of it when all has come.
LEMMA RestReceived ==
  ASSUME SmbInv, sat \in Receiving, smy.got >= smy.want
  PROVE  OnlyKeepAlives /\ srv = NoRequest
<1>a. SmbTypes /\ NetInv BY DEF SmbInv
<1>1. PICK R \in Replies : smy.want = Len(R) /\ smy.got \in 1 .. Len(R) /\ Coming(R, 0, smy.got)
  BY <1>a DEF NetInv, Rest
<1>2. Message(R) /\ Len(R) \in Nat BY <1>a, RepliesAre, LenProperties DEF Message
<1>3. smy.got = Len(R) BY <1>1, <1>2
<1>4. OnlyKeepAlives BY <1>1, <1>2, <1>3, AllReceived
<1> QED BY <1>a, <1>4 DEF NetInv, Asking, Receiving

\* What a thread that receives has got of the reply.
LEMMA ReceivingKeeps ==
  ASSUME SmbInv, SameRequest, sat' \in Receiving, UNCHANGED <<conn, spoilt>>, conn # "none", srv' = NoRequest,
         NEW R \in Replies, Expected(R), smy'.want = Len(R), smy'.got \in 1 .. Len(R),
         NEW g, g = smy'.got, Coming(R, 0, g)'
  PROVE  NetInv'
<1>1. R \in Replies' /\ Expected(R)' BY ExpectedKept
<1>2. Rest' BY <1>1 DEF Rest
<1> QED BY <1>2 DEF SmbInv, NetInv, Receiving, Asking

\* After a head: its size, and what came with it.
LEMMA HeadTypes ==
  ASSUME NEW l \in SmbLocals, NEW c \in Headers, NEW k \in Nat
  PROVE  /\ [l EXCEPT !.got = k, !.want = c.size] \in SmbLocals
         /\ [from |-> "reply", status |-> c.status, id |-> c.id]
              \in [from: {"own", "reply"}, status: Statuses, id: Nat]
<1>1. c.size \in Nat /\ c.status \in Statuses /\ c.id \in Nat BY DEF Headers
<1>2. [l EXCEPT !.got = k, !.want = c.size] \in SmbLocals BY <1>1 DEF SmbLocals
<1> QED BY <1>1, <1>2

\* The head of its reply is received, and with it some of the reply;
LEMMA ReplyHeadKeeps ==
  ASSUME SmbInv, ReplyHead
  PROVE  SmbInv'
<1>a. SmbTypes /\ NetInv BY DEF SmbInv
<1>0. sat = "reply" /\ UNCHANGED <<server, conn, srv, UID, TID, FIDs, RR, scall, smem, spoilt>>
  BY Zenon DEF ReplyHead, ids
<1>1. /\ sat = "reply" /\ UNCHANGED <<server, conn, srv, UID, TID, FIDs, RR, scall, smem, spoilt>>
      /\ conn # "none" /\ sat \in Asking
  BY <1>0, <1>a DEF NetInv, Asking
<1>2. Len(net) \in Nat BY <1>a, LenProperties DEF SmbTypes
<1>3. ASSUME NEW k \in 1 .. Len(net), Received(k), net[1] = KeepAlive, UNCHANGED <<sat, smy, SMB_buf>>
      PROVE  SmbInv'
  <2>1. SameRequest BY <1>1, <1>3 DEF SameRequest, Login
  <2>2. NetInv' BY <1>1, <1>3, <2>1, KeepAliveDropped
  <2>3. net' \in Seq(Cells) BY <1>a, <1>3, NetAfter DEF SmbTypes
  <2>4. SmbTypes' BY <1>a, <1>1, <1>3, <2>3 DEF SmbTypes
  <2> QED BY <2>2, <2>4 DEF SmbInv
<1>4. ASSUME NEW k \in 1 .. Len(net), Received(k), net[1] # KeepAlive, sat' = "fragment",
             smy' = [smy EXCEPT !.got = k, !.want = net[1].size],
             SMB_buf' = [from |-> "reply", status |-> net[1].status, id |-> net[1].id]
      PROVE  SmbInv'
  <2>1. PICK R \in Replies :
          /\ Expected(R) /\ Message(R) /\ net[1] \in Headers /\ net[1].size = Len(R)
          /\ k \in 1 .. Len(R) /\ Coming(R, 0, k)'
    BY <1>1, <1>4, HeadOfReply
  <2>2. smy'.got = k /\ smy'.want = Len(R) /\ smy \in SmbLocals BY <1>a, <1>4, <2>1 DEF SmbTypes, SmbLocals
  <2>3. SameRequest BY <1>1, <1>4, <2>2 DEF SameRequest, Login, SmbLocals
  <2>4. srv' = NoRequest BY <1>1, <1>4, HeadOfReply
  <2>5. NetInv' BY <1>1, <1>4, <2>1, <2>2, <2>3, <2>4, ReceivingKeeps DEF Receiving
  <2>6. net' \in Seq(Cells) BY <1>a, <1>4, NetAfter DEF SmbTypes
  <2>7. k \in Nat OBVIOUS
  <2>8. smy' \in SmbLocals /\ SMB_buf' \in [from: {"own", "reply"}, status: Statuses, id: Nat]
    <3>1. PICK c \in Headers : c = net[1] BY <2>1
    <3>2. /\ [smy EXCEPT !.got = k, !.want = c.size] \in SmbLocals
          /\ [from |-> "reply", status |-> c.status, id |-> c.id]
               \in [from: {"own", "reply"}, status: Statuses, id: Nat]
      BY <2>2, <2>7, HeadTypes, Zenon
    <3> QED BY <1>4, <3>1, <3>2, Zenon
  <2>9. SmbTypes' BY <1>a, <1>1, <1>4, <2>6, <2>8 DEF SmbTypes, SmbPlaces
  <2> QED BY <2>5, <2>9 DEF SmbInv
<1>5. ASSUME NothingComes, sat' = "check", UNCHANGED <<net, smy, SMB_buf>>
      PROVE  SmbInv'
  <2>1. OnlyKeepAlives BY <1>2, <1>5 DEF NothingComes, OnlyKeepAlives
  <2>2. srv = NoRequest BY <1>a, <1>1, <1>5 DEF NothingComes, NetInv
  <2>3. NetInv' BY <1>1, <1>5, <2>1, <2>2, QuietKeeps DEF Asking, Receiving
  <2>4. SmbTypes' BY <1>a, <1>1, <1>5 DEF SmbTypes, SmbPlaces
  <2> QED BY <2>3, <2>4 DEF SmbInv
<1>6. \/ \E k \in 1 .. Len(net) :
            /\ Received(k)
            /\ IF net[1] = KeepAlive THEN UNCHANGED <<sat, smy, SMB_buf>>
               ELSE /\ sat' = "fragment"
                    /\ smy' = [smy EXCEPT !.got = k, !.want = net[1].size]
                    /\ SMB_buf' = [from |-> "reply", status |-> net[1].status, id |-> net[1].id]
      \/ NothingComes /\ sat' = "check" /\ UNCHANGED <<net, smy, SMB_buf>>
  BY Zenon DEF ReplyHead
<1>7. ASSUME NEW k \in 1 .. Len(net), Received(k),
             IF net[1] = KeepAlive THEN UNCHANGED <<sat, smy, SMB_buf>>
             ELSE /\ sat' = "fragment"
                  /\ smy' = [smy EXCEPT !.got = k, !.want = net[1].size]
                  /\ SMB_buf' = [from |-> "reply", status |-> net[1].status, id |-> net[1].id]
      PROVE  SmbInv'
  <2>1. CASE net[1] = KeepAlive BY <1>3, <1>7, <2>1, Zenon
  <2>2. CASE net[1] # KeepAlive BY <1>4, <1>7, <2>2, Zenon
  <2> QED BY <2>1, <2>2
<1> QED BY <1>5, <1>6, <1>7, Zenon

\* the fragments are.
LEMMA ReplyFragmentKeeps ==
  ASSUME SmbInv, ReplyFragment
  PROVE  SmbInv'
<1>a. SmbTypes /\ NetInv BY DEF SmbInv
<1>1. /\ sat = "fragment" /\ UNCHANGED <<server, conn, srv, SMB_buf, UID, TID, FIDs, RR, scall, smem, spoilt>>
      /\ conn # "none" /\ sat \in Receiving /\ srv = NoRequest /\ smy \in SmbLocals
  BY <1>a DEF ReplyFragment, NetInv, ids, Asking, Receiving, SmbTypes
<1>2. ASSUME smy.got < smy.want, NEW k \in 1 .. Len(net), Received(k), smy' = [smy EXCEPT !.got = @ + k],
             sat' = sat
      PROVE  SmbInv'
  <2>1. PICK R \in Replies :
          /\ Expected(R) /\ smy.want = Len(R) /\ smy.got + k \in 1 .. Len(R)
          /\ \A g : g = smy.got + k => Coming(R, 0, g)'
    BY <1>1, <1>2, PieceOfReply
  <2>2. smy.got + k \in Nat BY <1>1 DEF SmbLocals
  <2>3. /\ smy' \in SmbLocals /\ smy'.got = smy.got + k /\ smy'.want = smy.want
        /\ smy'.stage = smy.stage /\ smy'.auth = smy.auth /\ smy'.i = smy.i
        /\ smy'.part = smy.part /\ smy'.off = smy.off /\ smy'.left = smy.left
    BY <1>1, <1>2, <2>2 DEF SmbLocals
  <2>4. SameRequest BY <1>1, <1>2, <2>3 DEF SameRequest, Login
  <2>5. PICK g : g = smy'.got OBVIOUS
  <2>6. Coming(R, 0, g)' BY <2>1, <2>3, <2>5
  <2>7. NetInv' BY <1>1, <1>2, <2>1, <2>3, <2>4, <2>5, <2>6, ReceivingKeeps
  <2>8. net' \in Seq(Cells) BY <1>a, <1>2, NetAfter DEF SmbTypes
  <2>9. SmbTypes' BY <1>a, <1>1, <1>2, <2>3, <2>8 DEF SmbTypes
  <2> QED BY <2>7, <2>9 DEF SmbInv
<1>3. ASSUME OnlyKeepAlives, sat' = "check", UNCHANGED <<net, smy>> PROVE SmbInv'
  <2>1. NetInv' BY <1>1, <1>3, QuietKeeps DEF Asking, Receiving
  <2>2. SmbTypes' BY <1>a, <1>1, <1>3 DEF SmbTypes, SmbPlaces
  <2> QED BY <2>1, <2>2 DEF SmbInv
<1>4. NothingComes => OnlyKeepAlives BY DEF NothingComes, OnlyKeepAlives
<1>5. smy.got >= smy.want => OnlyKeepAlives BY <1>1, RestReceived
<1>6. \A k \in 1 .. Len(net) :
        smy.got < smy.want /\ Received(k) /\ smy' = [smy EXCEPT !.got = @ + k] /\ sat' = sat => SmbInv'
  BY <1>2
<1> QED BY <1>3, <1>4, <1>5, <1>6, Zenon DEF ReplyFragment

\* What a step of the login does to the numbers the client has.
LEMMA SessionCheckIs ==
  ASSUME SmbTypes, SessionCheck
  PROVE  /\ sat = "check" /\ sat' \in {"send", "idle"} /\ smy' \in SmbLocals
         /\ UNCHANGED <<server, conn, srv, net, SMB_buf, scall, smem, spoilt>>
         /\ UID' \in Nat /\ TID' \in Nat /\ FIDs' \in [1 .. NumParts -> Nat] /\ RR' \in [uid: Nat, tid: Nat]
<1>1. sat = "check" /\ UNCHANGED <<server, conn, srv, net, SMB_buf, scall, smem, spoilt>> BY DEF SessionCheck
<1>2. smy \in SmbLocals /\ smy.i \in 1 .. NumParts /\ SMB_buf.id \in Nat /\ NumParts \in Nat \ {0}
  BY PartsAssumption DEF SmbTypes, SmbLocals
<1>3. ASSUME NEW stage \in LoginStages, NEW auth \in {"NTLM", "LM"}, NEW i \in 1 .. NumParts, To(stage, auth, i)
      PROVE  sat' = "send" /\ smy' \in SmbLocals
  <2>1. [Start EXCEPT !.stage = stage, !.auth = auth, !.i = i] \in SmbLocals BY StartTyped, AtLogin, Zenon
  <2> QED BY <1>3, <2>1, Zenon DEF To
<1>4. 1 \in 1 .. NumParts /\ {"negotiate", "session", "tree", "open"} = LoginStages BY <1>2 DEF LoginStages
<1>5. CASE NegotiateChecked
  <2>1. sat' = "send" /\ smy' \in SmbLocals BY <1>3, <1>4, <1>5 DEF NegotiateChecked
  <2> QED BY <1>1, <1>5, <2>1 DEF NegotiateChecked, SmbTypes, ids
<1>6. CASE smb_SessionSetupAndX
  <2>1. sat' = "send" /\ smy' \in SmbLocals BY <1>3, <1>4, <1>6 DEF smb_SessionSetupAndX
  <2>2. UID' \in {UID, SMB_buf.id} BY <1>6 DEF smb_SessionSetupAndX
  <2> QED BY <1>1, <1>2, <1>6, <2>1, <2>2 DEF smb_SessionSetupAndX, SmbTypes
<1>7. CASE smb_TreeConnectAndX
  <2>1. sat' = "send" /\ smy' \in SmbLocals BY <1>3, <1>4, <1>7 DEF smb_TreeConnectAndX
  <2>2. TID' \in {TID, SMB_buf.id} BY <1>7 DEF smb_TreeConnectAndX
  <2> QED BY <1>1, <1>2, <1>7, <2>1, <2>2 DEF smb_TreeConnectAndX, SmbTypes
<1>8. CASE smb_OpenAndX
  <2>1. sat' \in {"send", "idle"} /\ smy' \in SmbLocals
    <3>1. ASSUME smy.i < NumParts, To("open", "NTLM", smy.i + 1) PROVE sat' = "send" /\ smy' \in SmbLocals
      <4>1. smy.i + 1 \in 1 .. NumParts BY <1>2, <3>1
      <4> QED BY <1>3, <1>4, <3>1, <4>1
    <3>2. Opened => sat' = "idle" /\ smy' \in SmbLocals BY StartTyped DEF Opened
    <3> QED BY <1>8, <3>1, <3>2 DEF smb_OpenAndX
  <2>2. UNCHANGED <<UID, TID>> /\ UID \in Nat /\ TID \in Nat /\ RR \in [uid: Nat, tid: Nat]
    BY <1>8 DEF smb_OpenAndX, SmbTypes
  <2>3. FIDs' = [FIDs EXCEPT ![smy.i] = SMB_buf.id] \/ FIDs' = FIDs BY <1>8 DEF smb_OpenAndX
  <2>4. FIDs' \in [1 .. NumParts -> Nat] BY <1>2, <2>3 DEF SmbTypes
  <2>5. RR' = [uid |-> UID, tid |-> TID] \/ RR' = RR BY <1>8 DEF smb_OpenAndX
  <2>6. RR' \in [uid: Nat, tid: Nat] BY <2>2, <2>5
  <2> QED BY <1>1, <2>1, <2>2, <2>4, <2>6
<1> QED BY <1>5, <1>6, <1>7, <1>8 DEF SessionCheck

\* What was received is looked at.
LEMMA SessionCheckKeeps ==
  ASSUME SmbInv, SessionCheck
  PROVE  SmbInv'
<1>a. SmbTypes /\ NetInv BY DEF SmbInv
<1>1. /\ sat = "check" /\ sat' \in {"send", "idle"} /\ smy' \in SmbLocals
      /\ UNCHANGED <<server, conn, srv, net, SMB_buf, scall, smem, spoilt>>
      /\ UID' \in Nat /\ TID' \in Nat /\ FIDs' \in [1 .. NumParts -> Nat] /\ RR' \in [uid: Nat, tid: Nat]
  BY <1>a, SessionCheckIs
<1>2. SmbTypes' BY <1>a, <1>1 DEF SmbTypes, SmbPlaces
<1>3. srv = NoRequest /\ OnlyKeepAlives /\ conn # "none" BY <1>1, Quiet DEF Asking, Receiving
<1>4. NetInv' BY <1>1, <1>3, QuietKeeps DEF Asking, Receiving
<1> QED BY <1>2, <1>4 DEF SmbInv

\* A call begins,
LEMMA SmbReadSectorsKeeps ==
  ASSUME SmbInv, SmbReadSectors
  PROVE  SmbInv'
<1>a. SmbTypes BY DEF SmbInv
<1>1. PICK r \in SmbReads :
        /\ sat = "idle" /\ sat' = "part" /\ scall' = r
        /\ smy' = [Start EXCEPT !.reads = PartReads(r.lsn, r.n)]
        /\ spoilt' = IF spoilt = "call" THEN "none" ELSE spoilt
        /\ UNCHANGED <<server, conn, srv, net, SMB_buf, UID, TID, FIDs, RR, smem>>
  BY Zenon DEF SmbReadSectors, ids
<1>2. smy' \in SmbLocals
  <2>1. r.lsn \in Nat /\ r.n \in Nat BY SmbAssumption
  <2>2. PICK q \in Seq(ReadJobs) : q = PartReads(r.lsn, r.n) BY <2>1, PartReadsTyped
  <2>3. \A l \in SmbLocals : [l EXCEPT !.reads = q] \in SmbLocals BY DEF SmbLocals
  <2>4. [Start EXCEPT !.reads = q] \in SmbLocals BY <2>3, StartTyped, Zenon
  <2> QED BY <1>1, <2>2, <2>4, Zenon
<1>3. SmbTypes' BY <1>a, <1>1, <1>2 DEF SmbTypes, SmbPlaces
<1>4. srv = NoRequest /\ OnlyKeepAlives /\ conn # "none" BY <1>1, Quiet DEF Asking, Receiving
<1>5. NetInv' BY <1>1, <1>4, QuietKeeps DEF Asking, Receiving
<1> QED BY <1>3, <1>5 DEF SmbInv

\* What a call does with the next of its reads.
LEMMA NextPartIs ==
  ASSUME SmbTypes, NextPart
  PROVE  /\ sat = "part" /\ sat' = "chunk" /\ smy.reads # <<>> /\ smy' \in SmbLocals
         /\ smy'.reads = Tail(smy.reads) /\ Head(smy.reads) \in ReadJobs
         /\ smy'.part = Head(smy.reads).part /\ smy'.off = Head(smy.reads).lsn
         /\ smy'.left = Head(smy.reads).n /\ smy'.p = Head(smy.reads).p
         /\ UNCHANGED <<server, conn, srv, net, SMB_buf, UID, TID, FIDs, RR, scall, smem, spoilt>>
<1>1. /\ sat = "part" /\ sat' = "chunk" /\ smy.reads # <<>>
      /\ UNCHANGED <<server, conn, srv, net, SMB_buf, UID, TID, FIDs, RR, scall, smem, spoilt>>
  BY Zenon DEF NextPart, ids
<1>2. smy \in SmbLocals /\ smy.reads \in Seq(ReadJobs) BY DEF SmbTypes, SmbLocals
<1>3. PICK r \in ReadJobs : r = Head(smy.reads) BY <1>1, <1>2, HeadTailProperties
<1>4. PICK q \in Seq(ReadJobs) : q = Tail(smy.reads) BY <1>1, <1>2, HeadTailProperties
<1>5. smy' = [smy EXCEPT !.reads = q, !.part = r.part, !.off = r.lsn, !.left = r.n, !.p = r.p]
  BY <1>3, <1>4 DEF NextPart
<1>6. r.part \in 1 .. NumParts /\ r.lsn \in Nat /\ r.n \in Nat /\ r.p \in Nat BY DEF ReadJobs
<1>7. /\ smy' \in SmbLocals /\ smy'.reads = q /\ smy'.part = r.part /\ smy'.off = r.lsn /\ smy'.left = r.n
      /\ smy'.p = r.p
  BY <1>2, <1>5, <1>6 DEF SmbLocals
<1> QED BY <1>1, <1>3, <1>4, <1>7

\* goes on with the next part,
LEMMA NextPartKeeps ==
  ASSUME SmbInv, NextPart
  PROVE  SmbInv'
<1>a. SmbTypes BY DEF SmbInv
<1>1. /\ sat = "part" /\ sat' = "chunk" /\ smy' \in SmbLocals
      /\ UNCHANGED <<server, conn, srv, net, SMB_buf, UID, TID, FIDs, RR, scall, smem, spoilt>>
  BY <1>a, NextPartIs
<1>2. SmbTypes' BY <1>a, <1>1 DEF SmbTypes, SmbPlaces
<1>3. srv = NoRequest /\ OnlyKeepAlives /\ conn # "none" BY <1>1, Quiet DEF Asking, Receiving
<1>4. NetInv' BY <1>1, <1>3, QuietKeeps DEF Asking, Receiving
<1> QED BY <1>2, <1>4 DEF SmbInv

\* and ends.
LEMMA SmbReturnKeeps ==
  ASSUME SmbInv, SmbReturn \/ SmbReturned
  PROVE  SmbInv'
<1>a. SmbTypes BY DEF SmbInv
<1>1. CASE SmbReturn
  <2>1. SmbTypes' BY <1>a, <1>1 DEF SmbReturn, SmbTypes, SmbPlaces, ids
  <2>2. sat = "part" BY <1>1 DEF SmbReturn
  <2>3. srv = NoRequest /\ OnlyKeepAlives /\ conn # "none" BY <2>2, Quiet DEF Asking, Receiving
  <2>4. NetInv' BY <1>1, <2>3, QuietKeeps DEF SmbReturn, Asking, Receiving
  <2> QED BY <2>1, <2>4 DEF SmbInv
<1>2. CASE SmbReturned
  <2>1. smem' \in [0 .. SmbMem - 1 -> Int] BY <1>a, <1>2 DEF SmbReturned, SmbTypes, Nothing
  <2>2. /\ sat = "return" /\ sat' = "idle" /\ scall' = NoRead /\ smy' \in SmbLocals
        /\ UNCHANGED <<server, conn, srv, net, SMB_buf, UID, TID, FIDs, RR, spoilt>>
    BY <1>2, StartTyped DEF SmbReturned, ids
  <2>3. SmbTypes' BY <1>a, <2>1, <2>2 DEF SmbTypes, SmbPlaces
  <2>4. srv = NoRequest /\ OnlyKeepAlives /\ conn # "none" BY <2>2, Quiet DEF Asking, Receiving
  <2>5. NetInv' BY <2>2, <2>4, QuietKeeps DEF Asking, Receiving
  <2> QED BY <2>3, <2>5 DEF SmbInv
<1> QED BY <1>1, <1>2

\* A read is sent, or the part has been read.
LEMMA ReadSendKeeps ==
  ASSUME SmbInv, ReadSend
  PROVE  SmbInv'
<1>a. SmbTypes BY DEF SmbInv
<1>1. sat = "chunk" /\ UNCHANGED <<server, conn, net, SMB_buf, UID, TID, FIDs, RR, smy, scall, smem, spoilt>>
  BY DEF ReadSend, ids
<1>2. srv = NoRequest /\ OnlyKeepAlives /\ conn # "none" BY <1>1, Quiet DEF Asking, Receiving
<1>3. CASE smy.left = 0
  <2>1. sat' = "part" /\ srv' = srv BY <1>3 DEF ReadSend
  <2>2. SmbTypes' BY <1>a, <1>1, <2>1 DEF SmbTypes, SmbPlaces
  <2>3. NetInv' BY <1>1, <1>2, <2>1, QuietKeeps DEF Asking, Receiving
  <2> QED BY <2>2, <2>3 DEF SmbInv
<1>4. CASE smy.left # 0
  <2>1. sat' = "head" /\ srv' = IF conn = "up" THEN ReadRequest ELSE NoRequest
    BY <1>4 DEF ReadSend, Sent, ReadRequest
  <2>2. SmbTypes' BY <1>a, <1>1, <2>1 DEF SmbTypes, SmbPlaces
  <2>3. ~Login' BY <2>1 DEF Login
  <2>4. ReadRequest' = ReadRequest BY <1>1 DEF ReadRequest, ChunkSectors
  <2>5. srv' = IF conn = "up" THEN Request' ELSE NoRequest BY <2>1, <2>3, <2>4 DEF Request
  <2>6. NetInv' BY <1>1, <1>2, <2>1, <2>2, <2>5, AskedKeeps DEF Asking
  <2> QED BY <2>2, <2>6 DEF SmbInv
<1> QED BY <1>3, <1>4

\* Cells of data that are received are copied, ...
LEMMA PieceCopied ==
  ASSUME net \in Seq(Cells), smem \in [0 .. SmbMem - 1 -> Int], NEW f \in 1 .. 2, NEW k \in 1 .. Len(net),
         NEW p \in Int, \A j \in f .. k : net[j] \in DataCells, Copied(p, SubSeq(net, f, k))
  PROVE  /\ smem' \in [0 .. SmbMem - 1 -> Int]
         /\ \A s \in 0 .. SmbMem - 1 :
              smem'[s] = IF s - p + f \in f .. k THEN net[s - p + f].v ELSE smem[s]
<1>1. Len(net) \in Nat BY LenProperties
<1> DEFINE c == SubSeq(net, f, k)
           n == k - f + 1
<1>2. n \in Nat BY <1>1
<1>3. DOMAIN c = 1 .. n /\ \A j \in 1 .. n : c[j] = net[j + f - 1]
  <2>1. \A i \in f .. k : net[i] \in Cells BY <1>1, ElementOfSeq
  <2>2. /\ c \in Seq(Cells) /\ Len(c) = IF f <= k THEN k - f + 1 ELSE 0
        /\ \A i \in 1 .. k - f + 1 : c[i] = net[f + i - 1]
    <3>1. f \in Int /\ k \in Int BY <1>1
    <3> QED BY <2>1, <3>1, SubSeqProperties
  <2>3. Len(c) = n BY <1>1, <2>2
  <2> HIDE DEF c
  <2>4. DOMAIN c = 1 .. n BY <2>2, <2>3, LenProperties
  <2>5. ASSUME NEW j \in 1 .. n PROVE c[j] = net[j + f - 1]
    <3>1. f + j - 1 = j + f - 1 OBVIOUS
    <3> QED BY <2>2, <3>1
  <2> QED BY <2>4, <2>5
<1>4. \A x \in DataCells : x.v \in Int BY DEF DataCells, Data
<1>5. DOMAIN smem = 0 .. SmbMem - 1 OBVIOUS
<1>6. smem' = [s \in 0 .. SmbMem - 1 |-> IF s - p + 1 \in 1 .. n THEN c[s - p + 1].v ELSE smem[s]]
  BY <1>3, <1>5 DEF Copied
<1> HIDE DEF c, n
<1>7. ASSUME NEW s \in 0 .. SmbMem - 1
      PROVE  /\ smem'[s] = IF s - p + f \in f .. k THEN net[s - p + f].v ELSE smem[s]
             /\ smem'[s] \in Int
  <2>1. smem'[s] = IF s - p + 1 \in 1 .. n THEN c[s - p + 1].v ELSE smem[s] BY <1>6
  <2>2. s \in Int OBVIOUS
  <2>3. s - p + 1 \in 1 .. n <=> s - p + f \in f .. k BY <1>1, <2>2 DEF n
  <2>4. CASE s - p + 1 \in 1 .. n
    <3>1. c[s - p + 1] = net[(s - p + 1) + f - 1] BY <1>3, <2>4
    <3>2. (s - p + 1) + f - 1 = s - p + f BY <2>2
    <3>3. net[s - p + f] \in DataCells BY <2>3, <2>4
    <3>4. smem'[s] = net[s - p + f].v BY <2>1, <2>4, <3>1, <3>2
    <3> QED BY <1>4, <2>3, <2>4, <3>3, <3>4
  <2>5. CASE s - p + 1 \notin 1 .. n BY <2>1, <2>3, <2>5
  <2> QED BY <2>4, <2>5
<1>8. smem' \in [0 .. SmbMem - 1 -> Int]
  <2>1. smem' = [s \in 0 .. SmbMem - 1 |-> smem'[s]] BY <1>6
  <2> QED BY <1>7, <2>1
<1> QED BY <1>7, <1>8

\* ... those from g + 1 to h of a reply to the place they are of.
Took(R, g, h) ==
  /\ smem' \in [0 .. SmbMem - 1 -> Int]
  /\ \A s \in 0 .. SmbMem - 1 : smem'[s] = IF s - smy.p + 2 \in g + 1 .. h THEN R[s - smy.p + 2].v ELSE smem[s]

\* The head of a read's reply: a keep-alive, the end of the connection, or the
\* first k cells of the reply.
HeadDropped ==
  /\ UNCHANGED <<sat, smy, smem, SMB_buf>>
  /\ \E k \in 1 .. Len(net) : Received(k) /\ net[1] = KeepAlive
HeadLost == sat' = "spin" /\ conn = "lost" /\ UNCHANGED <<net, smy, smem, SMB_buf>>
Counted(k, n) == smy' = [smy EXCEPT !.got = k, !.want = n]
HeadOf(R, k) ==
  /\ Received(k) /\ Expected(R) /\ Message(R) /\ Len(R) \in Nat /\ k \in 1 .. Len(R)
  /\ Coming(R, 0, k)'
  /\ Counted(k, Len(R)) /\ Took(R, 1, k)
HeadTaken ==
  /\ sat' = "rest" /\ srv = NoRequest
  /\ SMB_buf' \in [from: {"own", "reply"}, status: Statuses, id: Nat]
  /\ \E k \in 1 .. Len(net), R \in Replies : HeadOf(R, k)

\* What smb_ReadFile does with the first piece of the reply.
LEMMA ReadHeadIs ==
  ASSUME SmbInv, ReadHead
  PROVE  /\ sat = "head" /\ UNCHANGED <<server, conn, srv, UID, TID, FIDs, RR, scall, spoilt>>
         /\ HeadDropped \/ HeadLost \/ HeadTaken
<1>a. SmbTypes /\ NetInv BY DEF SmbInv
<1>1. sat = "head" /\ UNCHANGED <<server, conn, srv, UID, TID, FIDs, RR, scall, spoilt>>
  BY Zenon DEF ReadHead, ids
<1>2. sat \in Asking BY <1>1 DEF Asking
<1>3. ASSUME NEW k \in 1 .. Len(net), Received(k), net[1] # KeepAlive, sat' = "rest",
             smy' = [smy EXCEPT !.got = k, !.want = net[1].size],
             SMB_buf' = [from |-> "reply", status |-> net[1].status, id |-> net[1].id],
             Copied(smy.p, SubSeq(net, 2, k))
      PROVE  HeadTaken
  <2>1. PICK R \in Replies :
          /\ Expected(R) /\ Message(R) /\ net[1] \in Headers /\ net[1].size = Len(R)
          /\ k \in 1 .. Len(R) /\ Coming(R, 0, k)' /\ \A j \in 1 .. k : net[j] = R[j]
    BY <1>1, <1>2, <1>3, HeadOfReply
  <2>2. srv = NoRequest BY <1>1, <1>2, <1>3, HeadOfReply
  <2>3. Len(R) \in Nat /\ \A j \in 2 .. Len(R) : R[j] \in DataCells BY <2>1, LenProperties DEF Message
  <2>4. \A j \in 2 .. k : net[j] \in DataCells BY <2>1, <2>3
  <2>5. smy.p \in Int /\ smy \in SmbLocals BY <1>a DEF SmbTypes, SmbLocals
  <2>6. /\ smem' \in [0 .. SmbMem - 1 -> Int]
        /\ \A s \in 0 .. SmbMem - 1 :
             smem'[s] = IF s - smy.p + 2 \in 2 .. k THEN net[s - smy.p + 2].v ELSE smem[s]
    <3>1. PICK p \in Int : p = smy.p BY <2>5
    <3>2. net \in Seq(Cells) /\ smem \in [0 .. SmbMem - 1 -> Int] BY <1>a DEF SmbTypes
    <3>3. Copied(p, SubSeq(net, 2, k)) BY <1>3, <3>1, Zenon
    <3>4. /\ smem' \in [0 .. SmbMem - 1 -> Int]
          /\ \A s \in 0 .. SmbMem - 1 : smem'[s] = IF s - p + 2 \in 2 .. k THEN net[s - p + 2].v ELSE smem[s]
      BY <2>4, <3>2, <3>3, PieceCopied
    <3> QED BY <3>1, <3>4
  <2>7. Took(R, 1, k)
    <3>1. ASSUME NEW s \in 0 .. SmbMem - 1
          PROVE  smem'[s] = IF s - smy.p + 2 \in 1 + 1 .. k THEN R[s - smy.p + 2].v ELSE smem[s]
      <4>1. smem'[s] = IF s - smy.p + 2 \in 2 .. k THEN net[s - smy.p + 2].v ELSE smem[s] BY <2>6
      <4>2. s - smy.p + 2 \in 2 .. k => net[s - smy.p + 2] = R[s - smy.p + 2] BY <2>1
      <4> QED BY <4>1, <4>2
    <3> QED BY <2>6, <3>1 DEF Took
  <2>8. PICK c \in Headers : c = net[1] BY <2>1
  <2>9. [from |-> "reply", status |-> c.status, id |-> c.id] \in [from: {"own", "reply"}, status: Statuses, id: Nat]
    <3>1. 0 \in Nat OBVIOUS
    <3> QED BY <2>5, <3>1, HeadTypes, Zenon
  <2>10. SMB_buf' \in [from: {"own", "reply"}, status: Statuses, id: Nat] BY <1>3, <2>8, <2>9, Zenon
  <2>11. Counted(k, Len(R)) BY <1>3, <2>1, Zenon DEF Counted
  <2>12. HeadOf(R, k) BY <1>3, <2>1, <2>3, <2>7, <2>11, Zenon DEF HeadOf
  <2> QED BY <1>3, <2>2, <2>10, <2>12, Zenon DEF HeadTaken
<1>4. \/ \E k \in 1 .. 1 + ChunkSectors :
            /\ Received(k)
            /\ IF net[1] = KeepAlive THEN UNCHANGED <<sat, smy, smem, SMB_buf>>
               ELSE /\ sat' = "rest"
                    /\ smy' = [smy EXCEPT !.got = k, !.want = net[1].size]
                    /\ SMB_buf' = [from |-> "reply", status |-> net[1].status, id |-> net[1].id]
                    /\ Copied(smy.p, SubSeq(net, 2, k))
      \/ NothingComes /\ sat' = "spin" /\ UNCHANGED <<net, smy, smem, SMB_buf>>
  BY Zenon DEF ReadHead
<1>5. \A k : Received(k) => k \in 1 .. Len(net) BY DEF Received, Arrived
<1>6. NothingComes /\ sat' = "spin" /\ UNCHANGED <<net, smy, smem, SMB_buf>> => HeadLost
  BY DEF NothingComes, HeadLost
<1>7. ASSUME NEW k, Received(k),
             IF net[1] = KeepAlive THEN UNCHANGED <<sat, smy, smem, SMB_buf>>
             ELSE /\ sat' = "rest"
                  /\ smy' = [smy EXCEPT !.got = k, !.want = net[1].size]
                  /\ SMB_buf' = [from |-> "reply", status |-> net[1].status, id |-> net[1].id]
                  /\ Copied(smy.p, SubSeq(net, 2, k))
      PROVE  HeadDropped \/ HeadTaken
  <2>1. k \in 1 .. Len(net) BY <1>5, <1>7
  <2>2. CASE net[1] = KeepAlive BY <1>7, <2>1, <2>2, Zenon DEF HeadDropped
  <2>3. CASE net[1] # KeepAlive BY <1>3, <1>7, <2>1, <2>3, Zenon
  <2> QED BY <2>2, <2>3
<1> QED BY <1>1, <1>4, <1>6, <1>7, Zenon

\* The head of a read's reply is received.
LEMMA ReadHeadKeeps ==
  ASSUME SmbInv, ReadHead
  PROVE  SmbInv'
<1>a. SmbTypes /\ NetInv BY DEF SmbInv
<1>1. sat = "head" /\ UNCHANGED <<server, conn, srv, UID, TID, FIDs, RR, scall, spoilt>> BY ReadHeadIs
<1>2. sat \in Asking /\ conn # "none" BY <1>a, <1>1 DEF Asking, NetInv
<1>3. CASE HeadDropped
  <2>1. UNCHANGED <<sat, smy, smem, SMB_buf>> BY <1>3 DEF HeadDropped
  <2>2. PICK k \in 1 .. Len(net) : Received(k) /\ net[1] = KeepAlive BY <1>3 DEF HeadDropped
  <2>3. SameRequest BY <1>1, <2>1 DEF SameRequest, Login
  <2>4. NetInv' BY <1>1, <1>2, <2>1, <2>2, <2>3, KeepAliveDropped
  <2>5. net' \in Seq(Cells) BY <1>a, <2>2, NetAfter DEF SmbTypes
  <2>6. SmbTypes' BY <1>a, <1>1, <2>1, <2>5 DEF SmbTypes
  <2> QED BY <2>4, <2>6 DEF SmbInv
<1>4. CASE HeadLost
  <2>1. SmbTypes' BY <1>a, <1>1, <1>4 DEF HeadLost, SmbTypes, SmbPlaces
  <2>2. srv = NoRequest BY <1>a, <1>1, <1>4 DEF HeadLost, NetInv, Asking
  <2>3. NetInv' BY <1>a, <1>1, <1>4, <2>2 DEF HeadLost, NetInv, Asking, Receiving
  <2> QED BY <2>1, <2>3 DEF SmbInv
<1>5. CASE HeadTaken
  <2>1. PICK k \in 1 .. Len(net), R \in Replies : HeadOf(R, k) BY <1>5 DEF HeadTaken
  <2>2. sat' = "rest" /\ srv = NoRequest /\ SMB_buf' \in [from: {"own", "reply"}, status: Statuses, id: Nat]
    BY <1>5 DEF HeadTaken
  <2>3. PICK n \in Nat : n = Len(R) BY <2>1 DEF HeadOf
  <2>4. smy' = [smy EXCEPT !.got = k, !.want = n] BY <2>1, <2>3 DEF HeadOf, Counted
  <2>5. k \in 1 .. n /\ k \in Nat BY <2>1, <2>3 DEF HeadOf
  <2>6. smy \in SmbLocals BY <1>a DEF SmbTypes
  <2>7. /\ smy' \in SmbLocals /\ smy'.got = k /\ smy'.want = n
        /\ smy'.stage = smy.stage /\ smy'.auth = smy.auth /\ smy'.i = smy.i
        /\ smy'.part = smy.part /\ smy'.off = smy.off /\ smy'.left = smy.left
    BY <2>4, <2>5, <2>6 DEF SmbLocals
  <2>8. SameRequest BY <1>1, <2>2, <2>7 DEF SameRequest, Login
  <2>9. Expected(R) /\ Coming(R, 0, k)' /\ Received(k) BY <2>1 DEF HeadOf
  <2>10. NetInv' BY <1>1, <1>2, <2>2, <2>3, <2>5, <2>7, <2>8, <2>9, ReceivingKeeps DEF Receiving
  <2>11. net' \in Seq(Cells) BY <1>a, <2>9, NetAfter DEF SmbTypes
  <2>12. smem' \in [0 .. SmbMem - 1 -> Int] BY <2>1 DEF HeadOf, Took
  <2>13. SmbTypes' BY <1>a, <1>1, <2>2, <2>7, <2>11, <2>12 DEF SmbTypes, SmbPlaces
  <2> QED BY <2>10, <2>13 DEF SmbInv
<1> QED BY <1>3, <1>4, <1>5, ReadHeadIs

\* The rest of a read's reply: a piece of it, the end of the connection, or
\* nothing, when all of it has come.
PieceOf(R, g, h) ==
  /\ Expected(R) /\ Message(R) /\ smy.want = Len(R) /\ g \in 1 .. Len(R) /\ h \in 1 .. Len(R) /\ g <= h
  /\ g = smy.got /\ Coming(R, 0, h)' /\ Took(R, g, h) /\ Counted(h, Len(R))
PieceTaken ==
  /\ sat' = "rest"
  /\ \E k \in 1 .. Len(net) : Received(k)
  /\ \E R \in Replies : \E g, h \in Nat : PieceOf(R, g, h)
PieceLost == sat' = "spin" /\ conn = "lost" /\ UNCHANGED <<net, smy, smem>>
Whole ==
  /\ sat' = "chunk" /\ smy.got >= smy.want /\ UNCHANGED <<net, smem>>
  /\ smy' = [smy EXCEPT !.p = @ + ChunkSectors, !.off = @ + ChunkSectors, !.left = @ - ChunkSectors]

\* What it does with the pieces that follow.
LEMMA ReadRestIs ==
  ASSUME SmbInv, ReadRest
  PROVE  /\ sat = "rest" /\ UNCHANGED <<server, conn, srv, SMB_buf, UID, TID, FIDs, RR, scall, spoilt>>
         /\ PieceTaken \/ PieceLost \/ Whole
<1>a. SmbTypes /\ NetInv BY DEF SmbInv
<1>1. sat = "rest" /\ UNCHANGED <<server, conn, srv, SMB_buf, UID, TID, FIDs, RR, scall, spoilt>>
  BY Zenon DEF ReadRest, ids
<1>2. sat \in Receiving /\ smy \in SmbLocals BY <1>a, <1>1 DEF Receiving, SmbTypes
<1>3. ASSUME NEW k, smy.got < smy.want, Received(k), Copied(smy.p + smy.got - 1, SubSeq(net, 1, k)),
             smy' = [smy EXCEPT !.got = @ + k], sat' = sat
      PROVE  PieceTaken
  <2>0. k \in 1 .. Len(net) BY <1>3 DEF Received, Arrived
  <2>1. PICK R \in Replies :
          /\ Expected(R) /\ Message(R) /\ smy.want = Len(R) /\ smy.got \in 1 .. Len(R)
          /\ smy.got + k \in 1 .. Len(R)
          /\ \A g : g = smy.got + k => Coming(R, 0, g)'
          /\ \A j \in 1 .. k : net[j] = R[smy.got + j]
    BY <1>1, <1>2, <1>3, <2>0, PieceOfReply
  <2>2. Len(R) \in Nat /\ Len(net) \in Nat /\ \A j \in 2 .. Len(R) : R[j] \in DataCells
    BY <1>a, <2>1, LenProperties DEF Message, SmbTypes
  <2>3. PICK g \in Nat : g = smy.got BY <1>2 DEF SmbLocals
  <2>4. PICK h \in Nat : h = g + k BY <2>0, <2>2
  <2>5. g \in 1 .. Len(R) /\ h \in 1 .. Len(R) /\ g <= h /\ Coming(R, 0, h)'
    <3>1. g \in 1 .. Len(R) /\ h \in 1 .. Len(R) BY <2>1, <2>3, <2>4
    <3>2. Coming(R, 0, h)' BY <2>1, <2>3, <2>4
    <3>3. g <= h BY <2>0, <2>2, <2>4
    <3> QED BY <3>1, <3>2, <3>3
  <2>6. \A j \in 1 .. k : net[j] = R[g + j] /\ net[j] \in DataCells
    <3>1. \A j \in 1 .. k : net[j] = R[g + j] BY <2>1, <2>3
    <3>2. \A j \in 1 .. k : g + j \in 2 .. Len(R) BY <2>0, <2>2, <2>4, <2>5
    <3> QED BY <2>2, <3>1, <3>2
  <2>7. Took(R, g, h)
    <3>1. PICK p \in Int : p = smy.p BY <1>2 DEF SmbLocals
    <3>2. PICK q \in Int : q = p + g - 1 BY <3>1
    <3>3. Copied(q, SubSeq(net, 1, k)) BY <1>3, <2>3, <3>1, <3>2
    <3>4. /\ smem' \in [0 .. SmbMem - 1 -> Int]
          /\ \A s \in 0 .. SmbMem - 1 : smem'[s] = IF s - q + 1 \in 1 .. k THEN net[s - q + 1].v ELSE smem[s]
      BY <1>a, <2>0, <2>6, <3>3, PieceCopied DEF SmbTypes
    <3>5. ASSUME NEW s \in 0 .. SmbMem - 1
          PROVE  smem'[s] = IF s - p + 2 \in g + 1 .. h THEN R[s - p + 2].v ELSE smem[s]
      <4>1. s \in Int /\ k \in Nat BY <2>0, <2>2
      <4>2. g + (s - q + 1) = s - p + 2 /\ (s - q + 1 \in 1 .. k <=> s - p + 2 \in g + 1 .. h)
        BY <2>4, <3>2, <4>1
      <4>3. s - q + 1 \in 1 .. k => net[s - q + 1] = R[s - p + 2] BY <2>6, <4>2
      <4> QED BY <3>4, <4>2, <4>3
    <3> QED BY <3>1, <3>4, <3>5 DEF Took
  <2>8. Counted(h, Len(R))
    <3>1. smy' = [smy EXCEPT !.got = h] BY <1>3, <2>3, <2>4
    <3>2. \A l \in SmbLocals : \A n \in Nat : n = l.want => [l EXCEPT !.got = h, !.want = n] = [l EXCEPT !.got = h]
      BY DEF SmbLocals
    <3>3. PICK n \in Nat : n = Len(R) BY <2>2
    <3>4. n = smy.want BY <2>1, <3>3
    <3>5. [smy EXCEPT !.got = h, !.want = n] = [smy EXCEPT !.got = h] BY <1>2, <3>2, <3>4, Zenon
    <3> QED BY <3>1, <3>3, <3>5, Zenon DEF Counted
  <2>9. PieceOf(R, g, h) BY <2>1, <2>3, <2>5, <2>7, <2>8, Zenon DEF PieceOf
  <2> QED BY <1>1, <1>3, <2>0, <2>9, Zenon DEF PieceTaken
<1>4. \/ /\ smy.got < smy.want
         /\ \E k \in 1 .. smy.want - smy.got :
              Received(k) /\ Copied(smy.p + smy.got - 1, SubSeq(net, 1, k)) /\ smy' = [smy EXCEPT !.got = @ + k]
         /\ UNCHANGED sat
      \/ smy.got < smy.want /\ NothingComes /\ sat' = "spin" /\ UNCHANGED <<net, smy, smem>>
      \/ /\ smy.got >= smy.want /\ sat' = "chunk"
         /\ smy' = [smy EXCEPT !.p = @ + ChunkSectors, !.off = @ + ChunkSectors, !.left = @ - ChunkSectors]
         /\ UNCHANGED <<net, smem>>
  BY Zenon DEF ReadRest
<1>5. NothingComes /\ sat' = "spin" /\ UNCHANGED <<net, smy, smem>> => PieceLost
  BY DEF NothingComes, PieceLost
<1>6. /\ smy.got >= smy.want /\ sat' = "chunk"
      /\ smy' = [smy EXCEPT !.p = @ + ChunkSectors, !.off = @ + ChunkSectors, !.left = @ - ChunkSectors]
      /\ UNCHANGED <<net, smem>>
      => Whole
  BY Zenon DEF Whole
<1> QED BY <1>1, <1>3, <1>4, <1>5, <1>6, Zenon

\* The rest of a read's reply is received.
LEMMA ReadRestKeeps ==
  ASSUME SmbInv, ReadRest
  PROVE  SmbInv'
<1>a. SmbTypes /\ NetInv BY DEF SmbInv
<1>1. sat = "rest" /\ UNCHANGED <<server, conn, srv, SMB_buf, UID, TID, FIDs, RR, scall, spoilt>>
  BY ReadRestIs
<1>2. sat \in Receiving /\ conn # "none" /\ srv = NoRequest /\ smy \in SmbLocals
  BY <1>a, <1>1 DEF Asking, Receiving, NetInv, SmbTypes
<1>3. CASE PieceTaken
  <2>1. PICK k \in 1 .. Len(net) : Received(k) BY <1>3 DEF PieceTaken
  <2>2. PICK R \in Replies, g \in Nat, h \in Nat : PieceOf(R, g, h) BY <1>3 DEF PieceTaken
  <2>3. sat' = "rest" BY <1>3 DEF PieceTaken
  <2>4. PICK n : n = Len(R) OBVIOUS
  <2>5. smy' = [smy EXCEPT !.got = h, !.want = n] BY <2>2, <2>4 DEF PieceOf, Counted
  <2>6. h \in 1 .. n /\ n \in Nat BY <2>2, <2>4, LenProperties DEF PieceOf, Message
  <2>7. /\ smy' \in SmbLocals /\ smy'.got = h /\ smy'.want = n
        /\ smy'.stage = smy.stage /\ smy'.auth = smy.auth /\ smy'.i = smy.i
        /\ smy'.part = smy.part /\ smy'.off = smy.off /\ smy'.left = smy.left
    BY <1>2, <2>5, <2>6 DEF SmbLocals
  <2>8. SameRequest BY <1>1, <2>3, <2>7 DEF SameRequest, Login
  <2>9. Expected(R) /\ Coming(R, 0, h)' BY <2>2 DEF PieceOf
  <2>10. NetInv' BY <1>1, <1>2, <2>3, <2>4, <2>6, <2>7, <2>8, <2>9, ReceivingKeeps
  <2>11. net' \in Seq(Cells) BY <1>a, <2>1, NetAfter DEF SmbTypes
  <2>12. smem' \in [0 .. SmbMem - 1 -> Int] BY <2>2 DEF PieceOf, Took
  <2>13. SmbTypes' BY <1>a, <1>1, <2>3, <2>7, <2>11, <2>12 DEF SmbTypes
  <2> QED BY <2>10, <2>13 DEF SmbInv
<1>4. CASE PieceLost
  <2>1. SmbTypes' BY <1>a, <1>1, <1>4 DEF PieceLost, SmbTypes, SmbPlaces
  <2>2. NetInv' BY <1>a, <1>1, <1>2, <1>4 DEF PieceLost, NetInv, Asking, Receiving
  <2> QED BY <2>1, <2>2 DEF SmbInv
<1>5. CASE Whole
  <2>1. sat' = "chunk" /\ UNCHANGED <<net, smem>> /\ smy.got >= smy.want BY <1>5 DEF Whole
  <2>2. OnlyKeepAlives BY <1>2, <2>1, RestReceived
  <2>3. NetInv' BY <1>1, <1>2, <2>1, <2>2, QuietKeeps DEF Asking, Receiving
  <2>4. smy' \in SmbLocals
    <3>1. smy.left \in Nat /\ smy.p \in Nat /\ smy.off \in Nat BY <1>2 DEF SmbLocals
    <3>2. PICK c \in Nat : c = ChunkSectors /\ c <= smy.left BY <3>1, SmbAssumption DEF ChunkSectors
    <3>3. smy' = [smy EXCEPT !.p = @ + c, !.off = @ + c, !.left = @ - c] BY <1>5, <3>2, Zenon DEF Whole
    <3>4. smy.p + c \in Nat /\ smy.off + c \in Nat /\ smy.left - c \in Nat BY <3>1, <3>2
    <3>5. \A l \in SmbLocals, p \in Nat, off \in Nat, left \in Nat :
            [l EXCEPT !.p = p, !.off = off, !.left = left] \in SmbLocals
      BY DEF SmbLocals
    <3>6. [smy EXCEPT !.p = smy.p + c, !.off = smy.off + c, !.left = smy.left - c] \in SmbLocals
      BY <1>2, <3>4, <3>5, Zenon
    <3> QED BY <3>3, <3>6, Zenon
  <2>5. SmbTypes' BY <1>a, <1>1, <2>1, <2>4 DEF SmbTypes, SmbPlaces
  <2> QED BY <2>3, <2>5 DEF SmbInv
<1> QED BY <1>3, <1>4, <1>5, ReadRestIs

\* Nothing happens.
LEMMA SmbStutterKeeps ==
  ASSUME SmbInv, UNCHANGED smbvars
  PROVE  SmbInv'
<1>1. SmbTypes' BY DEF SmbInv, SmbTypes, smbvars
<1>2. SameRequest BY DEF smbvars, SameRequest, Login
<1>3. SmbTypes /\ NetInv /\ UNCHANGED <<sat, srv, net, conn, spoilt, smy>> BY DEF SmbInv, smbvars
<1>4. Request' = Request BY <1>2, SameReplies
<1>5. \A R \in Replies : Expected(R) => R \in Replies' /\ Expected(R)' BY <1>2, <1>3, ExpectedKept
<1>6. \A R, h, g : Coming(R, h, g) => Coming(R, h, g)' BY <1>3 DEF Coming
<1>7. OnlyKeepAlives => OnlyKeepAlives' BY <1>3 DEF OnlyKeepAlives
<1>8. Awaited => Awaited' BY <1>5, <1>6 DEF Awaited
<1>9. Rest => Rest'
  <2> SUFFICES ASSUME NEW R \in Replies, Expected(R), smy.want = Len(R), smy.got \in 1 .. Len(R),
                      Coming(R, 0, smy.got)
               PROVE  Rest'
    BY DEF Rest
  <2>1. PICK g : g = smy.got OBVIOUS
  <2>2. Coming(R, 0, g)' BY <1>6, <2>1
  <2> QED BY <1>3, <1>5, <2>1, <2>2 DEF Rest
<1>10. NetInv' BY <1>3, <1>4, <1>7, <1>8, <1>9 DEF NetInv
<1> QED BY <1>1, <1>10 DEF SmbInv

\* SmbInv is inductive.
LEMMA SmbStepKeeps ==
  ASSUME SmbInv, [SmbNext]_smbvars
  PROVE  SmbInv'
<1>1. CASE SmbServer
  BY <1>1, ServerAnswersKeeps, ServerKeepsAliveKeeps, ConnectionLostKeeps DEF SmbServer
<1>2. CASE SmbThread
  BY <1>2, OpenTCPSessionKeeps, SessionSendKeeps, ReplyHeadKeeps, ReplyFragmentKeeps, SessionCheckKeeps,
     NextPartKeeps, SmbReturnKeeps, ReadSendKeeps, ReadHeadKeeps, ReadRestKeeps
  DEF SmbThread
<1>3. CASE SmbReadSectors BY <1>3, SmbReadSectorsKeeps
<1>4. CASE UNCHANGED smbvars BY <1>4, SmbStutterKeeps
<1> QED BY <1>1, <1>2, <1>3, <1>4 DEF SmbNext

\* Requests and replies stay in step: when a request is sent, and between
\* calls, nothing of an earlier reply is left on the connection.
THEOREM RepliesInStep == DevSpec => []InStep
<1>1. DevInit => SmbInv BY SmbInitInv DEF DevInit
<1>2. SmbInv /\ [DevNext]_devvars => SmbInv' BY SmbSteps, SmbStepKeeps
<1>3. SmbInv => InStep
  <2> SUFFICES ASSUME SmbInv, sat \in {"send", "chunk", "part", "idle", "return"}
               PROVE  srv = NoRequest /\ \A j \in DOMAIN net : net[j] = KeepAlive
    BY DEF InStep
  <2>1. srv = NoRequest /\ OnlyKeepAlives BY Quiet DEF Asking, Receiving
  <2>2. DOMAIN net = 1 .. Len(net) BY LenProperties DEF SmbInv, SmbTypes
  <2> QED BY <2>1, <2>2 DEF OnlyKeepAlives
<1> QED BY <1>1, <1>2, <1>3, PTL DEF DevSpec

-----------------------------------------------------------------------------
(***************************************************************************)
(* What a call delivers: the reads of the parts, one after another, cover  *)
(* what is asked for.                                                      *)
(***************************************************************************)
\* The read of a part brings the sectors before the border, b of the call's,
\* from where they are in its file, if it begins before it.
JobOk(lsn, b, r) ==
  r.p < b => /\ r.lsn + (r.part - 1) * PartSectors = lsn + r.p
             /\ r.lsn + (b - r.p) <= PartSectors
             /\ b <= r.p + r.n
JobsOk(lsn, b, reads) == \A j \in 1 .. Len(reads) : JobOk(lsn, b, reads[j])

\* How many of a call's sectors come before the border.
LEMMA BeforeBorderTyped ==
  ASSUME NEW lsn \in Nat, NEW n \in Nat
  PROVE  BeforeBorder(lsn, n) \in Nat /\ BeforeBorder(lsn, n) <= n
<1>1. PartSectors \in Nat \ {0} BY PartsAssumption
<1>2. PICK m \in Nat : m = lsn % PartSectors /\ m < PartSectors
  <2>1. \A P \in Nat \ {0} : lsn % P \in 0 .. P - 1 OBVIOUS
  <2> QED BY <1>1, <2>1
<1> QED BY <1>1, <1>2 DEF BeforeBorder

\* They lie in the part of the first.
LEMMA FirstPart ==
  ASSUME NEW lsn \in Nat, NEW n \in Nat, BeforeBorder(lsn, n) > 0
  PROVE  /\ PartOf(lsn) < NumParts /\ PartOf(lsn) * PartSectors \in Nat /\ PartOf(lsn) * PartSectors <= lsn
         /\ lsn + BeforeBorder(lsn, n) - PartOf(lsn) * PartSectors <= PartSectors
         /\ lsn + BeforeBorder(lsn, n) <= UBound(PartOf(lsn)) /\ lsn < LsnMod
<1> DEFINE f == PartOf(lsn)
           b == BeforeBorder(lsn, n)
<1>1. PartSectors \in Nat \ {0} /\ NumParts \in Nat \ {0} /\ PartSize \in Nat \ {0} /\ PartSectors <= PartSize
  BY PartSizeIs, PartsAssumption
<1>2. f \in Nat /\ f * PartSize <= lsn /\ lsn < (f + 1) * PartSize BY PartsOf DEF LBound, UBound
<1>3. lsn % PartSize = lsn - f * PartSize BY <1>1, InPart DEF PartOf
<1>4. lsn < NumParts * PartSectors
  <2>1. NumParts * PartSectors \in Nat BY <1>1, PartTimes
  <2> QED BY <2>1 DEF BeforeBorder
<1>5. b \in Nat /\ (lsn % PartSectors) + b <= PartSectors
  <2>1. b \in Nat BY BeforeBorderTyped
  <2>2. PICK m \in Nat : m = lsn % PartSectors
    <3>1. \A P \in Nat \ {0} : lsn % P \in Nat OBVIOUS
    <3> QED BY <1>1, <3>1
  <2>3. b = IF m + n <= PartSectors THEN n ELSE PartSectors - m BY <1>4, <2>2 DEF BeforeBorder
  <2> QED BY <1>1, <2>1, <2>2, <2>3
<1>6. lsn < LsnMod
  <2>1. LsnMod > NumParts * PartSectors /\ NumParts * PartSectors \in Nat /\ LsnMod \in Nat
    BY <1>1, PartsAssumption, PartTimes
  <2> QED BY <1>4, <2>1
<1> HIDE DEF f, b
<1>7. f * PartSize \in Nat /\ (f + 1) * PartSize = f * PartSize + PartSize BY <1>1, <1>2, Z3
<1>8. /\ f < NumParts /\ f * PartSectors \in Nat /\ f * PartSectors <= lsn
      /\ lsn + b - f * PartSectors <= PartSectors /\ lsn + b <= (f + 1) * PartSize
  <2>1. CASE NumParts = 1
    <3>1. lsn < PartSectors /\ lsn < PartSize BY <1>1, <1>4, <2>1
    <3>2. f = 0
      <4> SUFFICES ASSUME 1 <= f PROVE FALSE BY <1>2
      <4>1. 1 * PartSize <= f * PartSize BY <1>1, <1>2, PartTimes
      <4> QED BY <1>1, <1>2, <1>7, <3>1, <4>1
    <3>3. lsn % PartSectors = lsn
      <4>1. \A P \in Nat \ {0} : lsn < P => lsn % P = lsn BY SMTT(30)
      <4> QED BY <1>1, <3>1, <4>1
    <3>4. lsn + b <= PartSectors BY <1>5, <3>3
    <3>5. f * PartSectors = 0 /\ (f + 1) * PartSize = PartSize BY <1>1, <3>2
    <3> QED BY <1>1, <1>5, <2>1, <3>2, <3>4, <3>5
  <2>2. CASE NumParts > 1
    <3>1. PartSize = PartSectors BY <2>2 DEF PartSize
    <3>2. lsn - f * PartSize + b <= PartSize BY <1>3, <1>5, <3>1
    <3>3. f < NumParts
      <4> SUFFICES ASSUME NumParts <= f PROVE FALSE BY <1>1, <1>2
      <4>1. NumParts * PartSize <= f * PartSize BY <1>1, <1>2, PartTimes
      <4>2. NumParts * PartSize \in Nat BY <1>1, PartTimes
      <4>3. lsn < NumParts * PartSize BY <1>4, <3>1
      <4> QED BY <1>2, <1>7, <4>1, <4>2, <4>3
    <3>4. f * PartSectors = f * PartSize BY <3>1
    <3>5. lsn + b <= (f + 1) * PartSize BY <1>1, <1>5, <1>7, <3>2
    <3>6. lsn + b - f * PartSectors <= PartSectors BY <1>5, <1>7, <3>1, <3>2, <3>4
    <3> QED BY <1>2, <1>7, <3>3, <3>4, <3>5, <3>6
  <2> QED BY <1>1, <2>1, <2>2
<1> QED BY <1>6, <1>8 DEF UBound, f, b

\* The first read of a call brings them, the others what comes after.
LEMMA PartReadsOk ==
  ASSUME NEW lsn \in Nat, NEW n \in Nat
  PROVE  LET R == PartReads(lsn, n)
             b == BeforeBorder(lsn, n)
         IN  JobsOk(lsn, b, R) /\ (b > 0 => R # <<>> /\ R[1].p = 0)
<1> DEFINE R == PartReads(lsn, n)
           b == BeforeBorder(lsn, n)
           f == PartOf(lsn)
           lst == LastPart(lsn, n)
<1>1. b \in Nat /\ b <= n BY BeforeBorderTyped
<1>2. R \in Seq(ReadJobs) /\ (lst >= f => Len(R) = lst - f + 1)
      /\ \A j \in 1 .. Len(R) : f + j - 1 \in f .. lst /\ R[j] = ReadOfPart(lsn, n, f + j - 1)
  BY PartReadsAre
<1>3. \A j \in 1 .. Len(R) : R[j] \in ReadJobs BY <1>2, ElementOfSeq
<1>4. CASE b = 0
  <2>1. \A j \in 1 .. Len(R) : JobOk(lsn, b, R[j]) BY <1>3, <1>4 DEF JobOk, ReadJobs
  <2> QED BY <1>4, <2>1 DEF JobsOk
<1>5. CASE b > 0
  <2>1. /\ f < NumParts /\ f * PartSectors \in Nat /\ f * PartSectors <= lsn
        /\ lsn + b - f * PartSectors <= PartSectors /\ lsn + b <= UBound(f) /\ lsn < LsnMod
    BY <1>5, FirstPart
  <2>2. f \in Nat /\ NumParts \in Nat /\ f <= PartOf(lsn + n) /\ PartOf(lsn + n) \in Nat
        /\ lst = (IF PartOf(lsn + n) < NumParts THEN PartOf(lsn + n) ELSE NumParts - 1)
        /\ PartSectors \in Nat \ {0} /\ PartSize \in Nat \ {0} /\ LsnMod \in Nat \ {0}
    BY PartsOf, PartSizeIs, PartsAssumption DEF LastPart
  <2>3. ReadFrom(lsn, f) = lsn BY DEF ReadFrom
  <2>4. ReadTo(lsn, n, f) >= lsn + b BY <1>1, <2>1 DEF ReadTo
  <2> HIDE DEF R, b, f, lst
  <2>5. lst >= f /\ f \in f .. lst /\ lst \in Nat BY <2>1, <2>2
  <2>6. JobOk(lsn, b, ReadOfPart(lsn, n, f)) /\ ReadOfPart(lsn, n, f).p = 0
    <3>1. PICK r \in ReadJobs :
            /\ r = ReadOfPart(lsn, n, f) /\ r.part = f + 1 /\ r.lsn = (lsn - f * PartSectors) % LsnMod
            /\ r.p = ReadFrom(lsn, f) - lsn /\ r.n = ReadTo(lsn, n, f) - ReadFrom(lsn, f)
      <4>1. f \in PartOf(lsn) .. LastPart(lsn, n) BY <2>5 DEF f, lst
      <4> QED BY <4>1, ReadOfPartIs
    <3>2. ReadTo(lsn, n, f) \in Nat
      <4>1. f \in PartOf(lsn) .. LastPart(lsn, n) BY <2>5 DEF f, lst
      <4> QED BY <4>1, ReadSpans
    <3>3. PICK x \in Nat : x = f * PartSectors /\ x <= lsn BY <2>1
    <3>4. r.lsn = lsn - x
      <4>1. \A M \in Nat \ {0}, y \in Nat : y < M => y % M = y BY SMTT(30)
      <4>2. lsn - x \in Nat /\ lsn - x < LsnMod BY <2>1, <2>2, <3>3
      <4> QED BY <2>2, <3>1, <3>3, <4>1, <4>2
    <3>5. r.p = 0 /\ r.n = ReadTo(lsn, n, f) - lsn BY <2>3, <3>1
    <3>6. r.part - 1 = f BY <2>2, <3>1
    <3>7. r.lsn + (r.part - 1) * PartSectors = lsn + r.p BY <3>3, <3>4, <3>5, <3>6
    <3>8. r.lsn + (b - r.p) <= PartSectors BY <1>1, <2>1, <2>2, <3>3, <3>4, <3>5
    <3>9. b <= r.p + r.n BY <1>1, <2>4, <3>2, <3>5
    <3> QED BY <3>1, <3>5, <3>7, <3>8, <3>9 DEF JobOk
  <2>7. ASSUME NEW i \in f .. lst, i # f PROVE JobOk(lsn, b, ReadOfPart(lsn, n, i))
    <3>1. i \in PartOf(lsn) .. LastPart(lsn, n) BY DEF f, lst
    <3>2. ReadOfPart(lsn, n, i).p = ReadFrom(lsn, i) - lsn BY <3>1, ReadOfPartIs
    <3>3. ReadFrom(lsn, i) = LBound(i) BY <2>7 DEF ReadFrom, f
    <3>4. f + 1 \in Nat /\ i \in Nat /\ f + 1 <= i BY <2>2, <2>5, <2>7
    <3>5. (f + 1) * PartSize <= i * PartSize /\ (f + 1) * PartSize \in Nat /\ i * PartSize \in Nat
      BY <2>2, <3>4, PartTimes
    <3>6. lsn + b <= LBound(i) /\ LBound(i) \in Nat BY <1>1, <2>1, <3>5 DEF UBound, LBound
    <3>7. ~(ReadOfPart(lsn, n, i).p < b) BY <1>1, <3>2, <3>3, <3>6
    <3> QED BY <3>7 DEF JobOk
  <2>8. JobsOk(lsn, b, R)
    <3> SUFFICES ASSUME NEW j \in 1 .. Len(R) PROVE JobOk(lsn, b, R[j]) BY DEF JobsOk
    <3>1. PICK i \in f .. lst : i = f + j - 1 /\ R[j] = ReadOfPart(lsn, n, i) BY <1>2
    <3> QED BY <2>6, <2>7, <3>1
  <2>9. R # <<>> /\ R[1].p = 0
    <3>1. Len(R) >= 1 BY <1>2, <2>2, <2>5
    <3>2. R[1] = ReadOfPart(lsn, n, f + 1 - 1) /\ R # <<>> BY <1>2, <2>2, <2>5, <3>1
    <3>3. f + 1 - 1 = f BY <2>2
    <3> QED BY <2>6, <3>2, <3>3
  <2> QED BY <2>8, <2>9 DEF R, b
<1> QED BY <1>1, <1>4, <1>5

\* A call that stays within the image and within a part: where it ends.
LEMMA CallWithinPart ==
  ASSUME NEW lsn \in Nat, NEW n \in Nat \ {0}, lsn + n <= NumParts * PartSectors, WithinPart(lsn, n)
  PROVE  /\ PartOf(lsn) < NumParts /\ PartOf(lsn) * PartSectors \in Nat /\ PartOf(lsn) * PartSectors <= lsn
         /\ lsn + n <= UBound(PartOf(lsn)) /\ lsn + n - PartOf(lsn) * PartSectors <= PartSectors
         /\ PartOf(lsn + n) \in {PartOf(lsn), PartOf(lsn) + 1}
         /\ PartOf(lsn + n) = PartOf(lsn) + 1 => lsn + n = LBound(PartOf(lsn) + 1)
<1> DEFINE f == PartOf(lsn)
           e == PartOf(lsn + n)
<1>1. PartSectors \in Nat \ {0} /\ NumParts \in Nat \ {0} /\ PartSize \in Nat \ {0} /\ PartSectors <= PartSize
  BY PartSizeIs, PartsAssumption
<1>2. f \in Nat /\ e \in Nat /\ f <= e /\ f * PartSize <= lsn /\ lsn < (f + 1) * PartSize /\ e * PartSize <= lsn + n
  BY PartsOf DEF LBound, UBound
<1>3. lsn % PartSize = lsn - f * PartSize BY <1>1, InPart DEF PartOf
<1> HIDE DEF f, e
<1>4. f * PartSize \in Nat /\ (f + 1) * PartSize = f * PartSize + PartSize BY <1>1, <1>2, Z3
<1>5. /\ f < NumParts /\ f * PartSectors \in Nat /\ f * PartSectors <= lsn
      /\ lsn + n <= (f + 1) * PartSize /\ lsn + n - f * PartSectors <= PartSectors
  <2>1. CASE NumParts = 1
    <3>1. lsn + n <= PartSectors BY <1>1, <2>1
    <3>2. lsn < PartSize BY <1>1, <3>1
    <3>3. f = 0
      <4> SUFFICES ASSUME 1 <= f PROVE FALSE BY <1>2
      <4>1. 1 * PartSize <= f * PartSize BY <1>1, <1>2, PartTimes
      <4> QED BY <1>1, <1>2, <1>4, <3>2, <4>1
    <3>4. f * PartSectors = 0 /\ (f + 1) * PartSize = PartSize BY <1>1, <3>3
    <3> QED BY <1>1, <2>1, <3>1, <3>3, <3>4
  <2>2. CASE NumParts > 1
    <3>1. PartSize = PartSectors BY <2>2 DEF PartSize
    <3>2. (lsn % PartSectors) + n <= PartSectors BY <1>1, <2>2 DEF WithinPart
    <3>3. lsn - f * PartSize + n <= PartSize BY <1>3, <3>1, <3>2
    <3>4. f < NumParts
      <4> SUFFICES ASSUME NumParts <= f PROVE FALSE BY <1>1, <1>2
      <4>1. NumParts * PartSize <= f * PartSize BY <1>1, <1>2, PartTimes
      <4>2. NumParts * PartSize \in Nat BY <1>1, PartTimes
      <4>3. lsn + n <= NumParts * PartSize BY <3>1
      <4> QED BY <1>2, <1>4, <4>1, <4>2, <4>3
    <3>5. f * PartSectors = f * PartSize BY <3>1
    <3>6. lsn + n <= (f + 1) * PartSize BY <1>1, <1>4, <3>3
    <3>7. lsn + n - f * PartSectors <= PartSectors BY <1>4, <3>1, <3>3, <3>5
    <3> QED BY <1>2, <1>4, <3>4, <3>5, <3>6, <3>7
  <2> QED BY <1>1, <2>1, <2>2
<1>6. e \in {f, f + 1}
  <2> SUFFICES ASSUME f + 2 <= e PROVE FALSE BY <1>2
  <2>1. f + 2 \in Nat /\ (f + 2) * PartSize <= e * PartSize BY <1>1, <1>2, PartTimes
  <2>2. (f + 2) * PartSize = f * PartSize + PartSize + PartSize BY <1>1, <1>2, Z3
  <2>3. e * PartSize \in Nat BY <1>1, <1>2, PartTimes
  <2> QED BY <1>1, <1>2, <1>4, <1>5, <2>1, <2>2, <2>3
<1>7. e = f + 1 => lsn + n = (f + 1) * PartSize
  <2>1. e = f + 1 => (f + 1) * PartSize <= lsn + n BY <1>2
  <2>2. (f + 1) * PartSize \in Nat BY <1>1, <1>4
  <2> QED BY <1>5, <2>1, <2>2
<1> QED BY <1>5, <1>6, <1>7 DEF UBound, LBound, f, e

\* The reads of a call: those of the part it lies in, then, if it ends at the
\* border of the part, none of the next.
LEMMA CallReads ==
  ASSUME NEW c, c.lsn \in Nat, c.n \in Nat \ {0}, c.lsn + c.n <= NumParts * PartSectors,
         WithinPart(c.lsn, c.n)
  PROVE  LET f == PartOf(c.lsn)
             R == PartReads(c.lsn, c.n)
         IN  /\ f \in Nat /\ f < NumParts /\ f * PartSectors \in Nat /\ f * PartSectors <= c.lsn
             /\ c.lsn + c.n - f * PartSectors <= PartSectors
             /\ R \in Seq(ReadJobs) /\ Len(R) \in {1, 2}
             /\ R[1].part = f + 1 /\ R[1].lsn = c.lsn - f * PartSectors /\ R[1].p = 0 /\ R[1].n = c.n
             /\ Len(R) = 2 => /\ NumParts > 1 /\ c.lsn + c.n = (f + 1) * PartSectors
                              /\ R[2].lsn = (c.lsn - (f + 1) * PartSectors) % LsnMod
                              /\ R[2].p = c.n /\ R[2].n = 0
<1> DEFINE f == PartOf(c.lsn)
           e == PartOf(c.lsn + c.n)
           lst == LastPart(c.lsn, c.n)
           R == PartReads(c.lsn, c.n)
           a == ReadOfPart(c.lsn, c.n, f)
           b == ReadOfPart(c.lsn, c.n, f + 1)
<1>0. c.lsn \in Nat /\ c.n \in Nat \ {0} OBVIOUS
<1>1. /\ f < NumParts /\ f * PartSectors \in Nat /\ f * PartSectors <= c.lsn
      /\ c.lsn + c.n <= UBound(f) /\ c.lsn + c.n - f * PartSectors <= PartSectors
      /\ e \in {f, f + 1} /\ (e = f + 1 => c.lsn + c.n = LBound(f + 1))
  BY <1>0, CallWithinPart
<1>2. f \in Nat /\ NumParts \in Nat /\ lst = (IF e < NumParts THEN e ELSE NumParts - 1)
      /\ PartSectors \in Nat /\ LsnMod \in Nat \ {0}
  BY <1>0, PartsOf, PartSizeIs, PartsAssumption DEF LastPart
<1>3. lst \in {f, f + 1} /\ (lst = f + 1 => e = f + 1 /\ f + 1 < NumParts) BY <1>1, <1>2
<1>4. LBound(f + 1) = UBound(f) BY DEF LBound, UBound
<1>5. ReadFrom(c.lsn, f) = c.lsn BY DEF ReadFrom
<1>6. ReadTo(c.lsn, c.n, f) = c.lsn + c.n
  <2>1. ReadTo(c.lsn, c.n, f) = IF f = e THEN c.lsn + c.n ELSE UBound(f) BY DEF ReadTo
  <2> QED BY <1>1, <1>4, <2>1
<1>7. lst = f + 1 => ReadFrom(c.lsn, f + 1) = c.lsn + c.n /\ ReadTo(c.lsn, c.n, f + 1) = c.lsn + c.n
  <2>1. f + 1 # f BY <1>2
  <2>2. ReadFrom(c.lsn, f + 1) = LBound(f + 1) BY <2>1 DEF ReadFrom
  <2>3. e = f + 1 => ReadTo(c.lsn, c.n, f + 1) = c.lsn + c.n BY DEF ReadTo
  <2> QED BY <1>1, <1>3, <2>2, <2>3
<1>8. f \in f .. lst /\ (lst = f + 1 => f + 1 \in f .. lst) BY <1>2, <1>3
<1>9. a.part = f + 1 /\ a.lsn = (c.lsn - f * PartSectors) % LsnMod /\ a.p = c.lsn - c.lsn
      /\ a.n = (c.lsn + c.n) - c.lsn
  BY <1>0, <1>5, <1>6, <1>8, ReadOfPartIs
<1>10. lst = f + 1 => /\ b.lsn = (c.lsn - (f + 1) * PartSectors) % LsnMod
                      /\ b.p = (c.lsn + c.n) - c.lsn /\ b.n = (c.lsn + c.n) - (c.lsn + c.n)
  BY <1>0, <1>7, <1>8, ReadOfPartIs
<1>11. /\ Len(R) = lst - f + 1 /\ R \in Seq(ReadJobs)
       /\ \A j \in 1 .. Len(R) : R[j] = ReadOfPart(c.lsn, c.n, f + j - 1)
  <2>1. lst >= f BY <1>2, <1>3
  <2> QED BY <1>0, <2>1, PartReadsAre
<1>12. lst = f + 1 => NumParts > 1 /\ c.lsn + c.n = (f + 1) * PartSectors
  <2> SUFFICES ASSUME lst = f + 1 PROVE NumParts > 1 /\ c.lsn + c.n = (f + 1) * PartSectors OBVIOUS
  <2>1. NumParts > 1 BY <1>2, <1>3
  <2>2. PartSize = PartSectors BY <2>1 DEF PartSize
  <2>3. c.lsn + c.n = (f + 1) * PartSize BY <1>1, <1>3 DEF LBound
  <2> QED BY <2>1, <2>2, <2>3
<1> HIDE DEF f, e, lst, R
<1>13. a.p = 0 /\ a.n = c.n /\ (lst = f + 1 => b.p = c.n /\ b.n = 0) BY <1>0, <1>9, <1>10
<1>14. a.lsn = c.lsn - f * PartSectors
  <2> DEFINE x == f * PartSectors
  <2>1. x \in Nat /\ x <= c.lsn BY <1>1
  <2>2. c.lsn < LsnMod
    <3>1. LsnMod > NumParts * PartSectors /\ NumParts * PartSectors \in Nat BY <1>2, PartsAssumption, PartTimes
    <3> QED BY <1>0, <1>2, <3>1
  <2> HIDE DEF x
  <2>3. (c.lsn - x) % LsnMod = c.lsn - x BY <1>0, <1>2, <2>1, <2>2, SMTT(30)
  <2> QED BY <1>9, <2>3 DEF x
<1>15. R[1] = a /\ (lst = f + 1 => R[2] = b) /\ Len(R) = IF lst = f THEN 1 ELSE 2
  <2>1. Len(R) = IF lst = f THEN 1 ELSE 2 BY <1>2, <1>3, <1>11
  <2>2. R[1] = ReadOfPart(c.lsn, c.n, f + 1 - 1) BY <1>11, <2>1
  <2>3. lst = f + 1 => R[2] = ReadOfPart(c.lsn, c.n, f + 2 - 1) BY <1>2, <1>11, <2>1
  <2>4. f + 1 - 1 = f /\ f + 2 - 1 = f + 1 BY <1>2
  <2> QED BY <2>1, <2>2, <2>3, <2>4
<1> HIDE DEF a, b
<1>16. Len(R) \in {1, 2} /\ (Len(R) = 2 => lst = f + 1) BY <1>3, <1>15
<1>17. R[1].part = f + 1 /\ R[1].lsn = c.lsn - f * PartSectors /\ R[1].p = 0 /\ R[1].n = c.n
  BY <1>9, <1>13, <1>14, <1>15
<1>18. Len(R) = 2 => R[2].lsn = (c.lsn - (f + 1) * PartSectors) % LsnMod /\ R[2].p = c.n /\ R[2].n = 0
  BY <1>10, <1>13, <1>15, <1>16
<1> QED BY <1>1, <1>2, <1>11, <1>12, <1>16, <1>17, <1>18 DEF f, R
-----------------------------------------------------------------------------
(***************************************************************************)
(* The numbers the login leaves: they are the server's, unless a fault     *)
(* fell on the login.                                                      *)
(***************************************************************************)
OneOne == [uid |-> 1, tid |-> 1]
LoggedIn ==
  /\ smy.stage = "tree" => UID = 1
  /\ smy.stage = "open" => /\ UID = 1 /\ TID = 1
                           /\ \A j \in 1 .. smy.i - 1 : FIDs[j] = j
                           /\ smy.i > 1 => RR = OneOne
AnswerHeld ==
  /\ SMB_buf.from = "reply"
  /\ SMB_buf.status = Answer(LoginRequest)[1].status /\ SMB_buf.id = Answer(LoginRequest)[1].id
Ready == RR = OneOne /\ \A i \in 1 .. NumParts : FIDs[i] = i
LoginInv ==
  spoilt # "all" =>
    /\ Login => LoggedIn
    /\ sat \in {"fragment", "check"} => AnswerHeld
    /\ ~Login => Ready

\* What the server answers to a request that carries the numbers it gave.
LEMMA LoginAnswerIs ==
  ASSUME NEW q \in LoginRequests
  PROVE  LET hd == Answer(q)[1]
         IN  /\ q.kind = "negotiate" => hd.status = "OK"
             /\ q.kind = "session" =>
                  IF server = "lm" /\ q.auth = "NTLM" THEN hd.status = "LOGON_FAILURE"
                  ELSE hd.status = "OK" /\ hd.id = 1
             /\ q.kind = "tree" /\ q.uid = 1 => hd.status = "OK" /\ hd.id = 1
             /\ q.kind = "open" /\ q.uid = 1 /\ q.tid = 1 => hd.status = "OK" /\ hd.id = q.i
<1>1. <<>> \in Seq(DataCells) /\ <<Data(0)>> \in Seq(DataCells) BY DEF DataCells
<1>2. \A s \in Statuses, id \in Nat :
        /\ Reply(s, id, <<>>)[1].status = s
        /\ Reply(s, id, <<Data(0)>>)[1].status = s /\ Reply(s, id, <<Data(0)>>)[1].id = id
  <2>1. \A s \in Statuses, id \in Nat, data \in Seq(DataCells) :
          Reply(s, id, data)[1].status = s /\ Reply(s, id, data)[1].id = id
    <3> SUFFICES ASSUME NEW s \in Statuses, NEW id \in Nat, NEW data \in Seq(DataCells)
                 PROVE  Reply(s, id, data)[1].status = s /\ Reply(s, id, data)[1].id = id
      OBVIOUS
    <3> QED BY ReplyIs
  <2>2. PICK none \in Seq(DataCells), one \in Seq(DataCells) : none = <<>> /\ one = <<Data(0)>> BY <1>1
  <2>3. \A s \in Statuses, id \in Nat :
          Reply(s, id, none)[1].status = s /\ Reply(s, id, one)[1].status = s /\ Reply(s, id, one)[1].id = id
    BY <2>1
  <2> QED BY <2>2, <2>3, Zenon
<1>3. q.kind \in LoginStages /\ q.i \in Nat BY PartsAssumption DEF LoginRequests
<1>4. CASE q.kind = "negotiate"
  <2>1. Answer(q) = Reply("OK", 0, <<Data(0)>>) BY <1>4 DEF Answer
  <2> QED BY <1>2, <1>4, <2>1 DEF Statuses
<1>5. CASE q.kind = "session"
  <2>1. Answer(q) = IF server = "lm" /\ q.auth = "NTLM" THEN Reply("LOGON_FAILURE", 0, <<>>)
                    ELSE Reply("OK", 1, <<Data(0)>>)
    BY <1>5 DEF Answer
  <2> QED BY <1>2, <1>5, <2>1 DEF Statuses
<1>6. CASE q.kind = "tree"
  <2>1. q.uid = 1 => Answer(q) = Reply("OK", 1, <<Data(0)>>) BY <1>6 DEF Answer
  <2> QED BY <1>2, <1>6, <2>1 DEF Statuses
<1>7. CASE q.kind = "open"
  <2>1. q.uid = 1 /\ q.tid = 1 => Answer(q) = Reply("OK", q.i, <<Data(0)>>) BY <1>7 DEF Answer
  <2> QED BY <1>2, <1>3, <1>7, <2>1 DEF Statuses
<1> QED BY <1>3, <1>4, <1>5, <1>6, <1>7 DEF LoginStages

\* Steps that leave the login, or what it left, alone.
LEMMA LoginKept ==
  ASSUME LoginInv, SameRequest, spoilt' # "all" => spoilt # "all",
         spoilt' # "all" /\ sat' \in {"fragment", "check"} =>
           sat \in {"fragment", "check"} /\ SMB_buf' = SMB_buf
  PROVE  LoginInv'
<1>1. /\ UNCHANGED <<server, UID, TID, FIDs, RR>> /\ Login' = Login
      /\ smy'.stage = smy.stage /\ smy'.auth = smy.auth /\ smy'.i = smy.i
  BY DEF SameRequest
<1>2. LoginRequest' = LoginRequest BY <1>1 DEF LoginRequest
<1>3. Answer(LoginRequest)' = Answer(LoginRequest) BY <1>1, <1>2 DEF Answer
<1>4. LoggedIn' = LoggedIn BY <1>1 DEF LoggedIn
<1>5. Ready' = Ready BY <1>1 DEF Ready
<1>6. SMB_buf' = SMB_buf => AnswerHeld' = AnswerHeld BY <1>3 DEF AnswerHeld
<1> QED BY <1>1, <1>4, <1>5, <1>6 DEF LoginInv

\* Reading leaves the numbers of the login alone.
LEMMA ReadyKept ==
  ASSUME LoginInv, ~Login, sat' \notin {"fragment", "check"}, ~Login', UNCHANGED <<FIDs, RR>>,
         spoilt' # "all" => spoilt # "all"
  PROVE  LoginInv'
<1>1. Ready' = Ready BY DEF Ready
<1> QED BY <1>1 DEF LoginInv

\* Where a step of the login goes on.
LEMMA AtStage ==
  ASSUME NEW stage, NEW auth, NEW i, To(stage, auth, i)
  PROVE  sat' = "send" /\ smy'.stage = stage /\ smy'.i = i
  BY DEF To, Start

\* The answer is checked: the numbers it carries are taken.
LEMMA SessionCheckLogsIn ==
  ASSUME SmbTypes, LoginInv, SessionCheck
  PROVE  LoginInv'
<1>1. /\ sat = "check" /\ sat' \in {"send", "idle"} /\ UNCHANGED <<server, spoilt, SMB_buf>>
  BY SessionCheckIs
<1> SUFFICES ASSUME spoilt # "all" PROVE LoginInv'
  BY <1>1 DEF LoginInv
<1>2. LoggedIn /\ AnswerHeld BY <1>1 DEF LoginInv, Login
<1> DEFINE q == LoginRequest
<1>3. q \in LoginRequests BY RequestTyped
<1>4. q.kind = smy.stage /\ q.auth = smy.auth /\ q.uid = UID /\ q.tid = TID /\ q.i = smy.i
  BY DEF LoginRequest
<1>5. /\ smy.stage = "session" =>
           IF server = "lm" /\ smy.auth = "NTLM" THEN SMB_buf.status = "LOGON_FAILURE"
           ELSE SMB_buf.status = "OK" /\ SMB_buf.id = 1
      /\ smy.stage = "tree" => SMB_buf.status = "OK" /\ SMB_buf.id = 1
      /\ smy.stage = "open" => SMB_buf.status = "OK" /\ SMB_buf.id = smy.i
  <2> HIDE DEF q
  <2>1. SMB_buf.status = Answer(q)[1].status /\ SMB_buf.id = Answer(q)[1].id
    BY <1>2 DEF AnswerHeld, q
  <2> QED BY <1>2, <1>3, <1>4, <2>1, LoginAnswerIs DEF LoggedIn
<1> HIDE DEF q
<1>6. sat' \notin {"fragment", "check"} /\ (sat' = "send" => Login') BY <1>1 DEF Login
<1>7. ASSUME sat' = "send", LoggedIn' PROVE LoginInv' BY <1>6, <1>7 DEF LoginInv
<1>8. CASE NegotiateChecked
  <2>1. sat' = "send" /\ smy'.stage \in {"session", "negotiate"} BY <1>8, AtStage DEF NegotiateChecked
  <2>2. LoggedIn' BY <2>1 DEF LoggedIn
  <2> QED BY <1>7, <2>1, <2>2
<1>9. CASE smb_SessionSetupAndX
  <2>1. smy.stage = "session" BY <1>9 DEF smb_SessionSetupAndX
  <2>2. CASE server # "share" /\ SMB_buf.status = "LOGON_FAILURE" /\ smy.auth = "NTLM"
    <3>1. To("session", "LM", 1) BY <1>9, <2>2 DEF smb_SessionSetupAndX
    <3>2. sat' = "send" /\ smy'.stage = "session" BY <3>1, AtStage
    <3>3. LoggedIn' BY <3>2 DEF LoggedIn
    <3> QED BY <1>7, <3>2, <3>3
  <2>3. CASE ~(server # "share" /\ SMB_buf.status = "LOGON_FAILURE" /\ smy.auth = "NTLM")
    <3>1. SMB_buf.status = "OK" /\ SMB_buf.id = 1 BY <1>5, <2>1, <2>3
    <3>2. To("tree", "NTLM", 1) /\ UID' = 1 BY <1>9, <2>3, <3>1 DEF smb_SessionSetupAndX
    <3>3. sat' = "send" /\ smy'.stage = "tree" BY <3>2, AtStage
    <3>4. LoggedIn' BY <3>2, <3>3 DEF LoggedIn
    <3> QED BY <1>7, <3>3, <3>4
  <2> QED BY <2>2, <2>3
<1>10. CASE smb_TreeConnectAndX
  <2>1. smy.stage = "tree" /\ To("open", "NTLM", 1) /\ UID' = UID BY <1>10 DEF smb_TreeConnectAndX
  <2>2. TID' = 1 BY <1>5, <1>10, <2>1 DEF smb_TreeConnectAndX
  <2>3. UID' = 1 BY <1>2, <2>1 DEF LoggedIn
  <2>4. sat' = "send" /\ smy'.stage = "open" /\ smy'.i = 1 BY <2>1, AtStage
  <2>5. \A j \in 1 .. smy'.i - 1 : FIDs'[j] = j BY <2>4
  <2>6. LoggedIn' BY <2>2, <2>3, <2>4, <2>5 DEF LoggedIn
  <2> QED BY <1>7, <2>4, <2>6
<1>11. CASE smb_OpenAndX
  <2>1. /\ smy.stage = "open" /\ UNCHANGED <<UID, TID>>
        /\ IF smy.i < NumParts THEN To("open", "NTLM", smy.i + 1) ELSE Opened
    BY <1>11 DEF smb_OpenAndX
  <2>2. SMB_buf.status = "OK" /\ SMB_buf.id = smy.i BY <1>5, <2>1
  <2>3. FIDs' = [FIDs EXCEPT ![smy.i] = smy.i] /\ RR' = [uid |-> UID, tid |-> TID]
    BY <1>11, <2>2 DEF smb_OpenAndX
  <2>4. UID = 1 /\ TID = 1 /\ \A j \in 1 .. smy.i - 1 : FIDs[j] = j BY <1>2, <2>1 DEF LoggedIn
  <2>5. RR' = OneOne BY <2>3, <2>4 DEF OneOne
  <2>6. smy.i \in 1 .. NumParts /\ FIDs \in [1 .. NumParts -> Nat] /\ NumParts \in Nat
    BY PartsAssumption DEF SmbTypes, SmbLocals
  <2>7. \A j \in 1 .. smy.i : FIDs'[j] = j BY <2>3, <2>4, <2>6
  <2>8. CASE smy.i < NumParts
    <3>1. sat' = "send" /\ smy'.stage = "open" /\ smy'.i = smy.i + 1 BY <2>1, <2>8, AtStage
    <3>2. \A j \in 1 .. smy'.i - 1 : FIDs'[j] = j BY <2>6, <2>7, <3>1
    <3>3. LoggedIn' BY <2>1, <2>4, <2>5, <3>1, <3>2 DEF LoggedIn
    <3> QED BY <1>7, <3>1, <3>3
  <2>9. CASE ~(smy.i < NumParts)
    <3>1. sat' = "idle" BY <2>1, <2>9 DEF Opened
    <3>2. smy.i = NumParts BY <2>6, <2>9
    <3>3. Ready' BY <2>5, <2>7, <3>2 DEF Ready
    <3>4. ~Login' BY <3>1 DEF Login
    <3> QED BY <1>6, <3>3, <3>4 DEF LoginInv
  <2> QED BY <2>8, <2>9
<1> QED BY <1>8, <1>9, <1>10, <1>11 DEF SessionCheck
\* The head of the answer to a request of the login.
LEMMA ReplyHeadAnswers ==
  ASSUME SmbInv, LoginInv, ReplyHead
  PROVE  LoginInv'
<1>a. SmbTypes /\ NetInv BY DEF SmbInv
<1>1. sat = "reply" /\ UNCHANGED <<server, conn, UID, TID, FIDs, RR, spoilt>> BY Zenon DEF ReplyHead, ids
<1>2. sat \in Asking /\ Login BY <1>1 DEF Asking, Login
<1>3. ASSUME UNCHANGED <<sat, smy>> PROVE LoginInv'
  <2>1. SameRequest BY <1>1, <1>3 DEF SameRequest, Login
  <2> QED BY <1>1, <1>3, <2>1, LoginKept
<1>4. ASSUME NEW k \in 1 .. Len(net), Received(k), net[1] # KeepAlive, sat' = "fragment",
             smy' = [smy EXCEPT !.got = k, !.want = net[1].size],
             SMB_buf' = [from |-> "reply", status |-> net[1].status, id |-> net[1].id]
      PROVE  LoginInv'
  <2> SUFFICES ASSUME spoilt # "all" PROVE LoginInv' BY <1>1 DEF LoginInv
  <2>1. PICK R \in Replies : Expected(R) /\ R[1] = net[1] BY <1>1, <1>2, <1>4, HeadOfReply
  <2>2. R = Answer(LoginRequest) BY <1>2, <2>1 DEF Expected, Request
  <2>3. /\ smy'.stage = smy.stage /\ smy'.auth = smy.auth /\ smy'.i = smy.i
    BY <1>a, <1>4 DEF SmbTypes, SmbLocals
  <2>4. LoginRequest' = LoginRequest BY <1>1, <2>3 DEF LoginRequest
  <2>5. Answer(LoginRequest)' = Answer(LoginRequest) BY <1>1, <2>4 DEF Answer
  <2>6. PICK c : c = Answer(LoginRequest)[1] OBVIOUS
  <2>7. net[1] = c BY <2>1, <2>2, <2>6
  <2>8. SMB_buf' = [from |-> "reply", status |-> c.status, id |-> c.id] BY <1>4, <2>7
  <2>9. AnswerHeld' BY <2>5, <2>6, <2>8 DEF AnswerHeld
  <2>10. LoggedIn BY <1>2 DEF LoginInv
  <2>11. LoggedIn' BY <1>1, <2>3, <2>10 DEF LoggedIn
  <2>12. Login' BY <1>4 DEF Login
  <2> QED BY <2>9, <2>11, <2>12 DEF LoginInv
<1>5. ASSUME NothingComes PROVE LoginInv'
  <2>1. spoilt' = "all" BY <1>a, <1>1, <1>5 DEF NothingComes, NetInv
  <2> QED BY <2>1 DEF LoginInv
<1>6. \/ \E k \in 1 .. Len(net) :
            /\ Received(k)
            /\ IF net[1] = KeepAlive THEN UNCHANGED <<sat, smy, SMB_buf>>
               ELSE /\ sat' = "fragment"
                    /\ smy' = [smy EXCEPT !.got = k, !.want = net[1].size]
                    /\ SMB_buf' = [from |-> "reply", status |-> net[1].status, id |-> net[1].id]
      \/ NothingComes
  BY Zenon DEF ReplyHead
<1>7. ASSUME NEW k \in 1 .. Len(net), Received(k),
             IF net[1] = KeepAlive THEN UNCHANGED <<sat, smy, SMB_buf>>
             ELSE /\ sat' = "fragment"
                  /\ smy' = [smy EXCEPT !.got = k, !.want = net[1].size]
                  /\ SMB_buf' = [from |-> "reply", status |-> net[1].status, id |-> net[1].id]
      PROVE  LoginInv'
  <2>1. CASE net[1] = KeepAlive BY <1>3, <1>7, <2>1, Zenon
  <2>2. CASE net[1] # KeepAlive BY <1>4, <1>7, <2>2, Zenon
  <2> QED BY <2>1, <2>2
<1> QED BY <1>5, <1>6, <1>7, Zenon

\* Its fragments change nothing of it.
LEMMA ReplyFragmentAnswers ==
  ASSUME SmbTypes, LoginInv, ReplyFragment
  PROVE  LoginInv'
<1>1. sat = "fragment" /\ sat' \in {"fragment", "check"}
      /\ UNCHANGED <<server, UID, TID, FIDs, RR, SMB_buf, spoilt>>
  BY Zenon DEF ReplyFragment, ids
<1>2. smy'.stage = smy.stage /\ smy'.auth = smy.auth /\ smy'.i = smy.i
      /\ smy'.part = smy.part /\ smy'.off = smy.off /\ smy'.left = smy.left
  <2>1. smy' = smy \/ \E k \in Int : smy' = [smy EXCEPT !.got = @ + k] BY DEF ReplyFragment
  <2> QED BY <2>1 DEF SmbTypes, SmbLocals
<1>3. SameRequest BY <1>1, <1>2 DEF SameRequest, Login
<1> QED BY <1>1, <1>3, LoginKept

\* LoginInv is inductive.
LEMMA LoginStepKeeps ==
  ASSUME SmbInv, LoginInv, [SmbNext]_smbvars
  PROVE  LoginInv'
<1>a. SmbTypes /\ NetInv BY DEF SmbInv
<1>1. CASE SmbServer
  <2>1. ThreadStays /\ (spoilt' # "all" => spoilt # "all")
    BY <1>1 DEF SmbServer, ServerAnswers, ServerKeepsAlive, ConnectionLost, ThreadStays, SmbFault
  <2> QED BY <2>1, ThreadStaysSame, LoginKept DEF ThreadStays
<1>2. CASE OpenTCPSession
  <2>1. SameRequest BY <1>2 DEF OpenTCPSession, SameRequest, Login, ids
  <2> QED BY <1>2, <2>1, LoginKept DEF OpenTCPSession
<1>3. CASE SessionSend
  <2>1. SameRequest BY <1>3 DEF SessionSend, SameRequest, Login, ids
  <2>2. spoilt' # "all" => conn = "up" BY <1>a, <1>3 DEF SessionSend, NetInv, SmbTypes
  <2> QED BY <1>3, <2>1, <2>2, LoginKept DEF SessionSend
<1>4. CASE ReplyHead BY <1>4, ReplyHeadAnswers
<1>5. CASE ReplyFragment BY <1>a, <1>5, ReplyFragmentAnswers
<1>6. CASE SessionCheck BY <1>a, <1>6, SessionCheckLogsIn
<1>7. ASSUME sat \in {"idle", "part", "chunk", "head", "rest", "return"},
             sat' \in {"idle", "part", "chunk", "head", "rest", "return", "spin"},
             UNCHANGED <<FIDs, RR>>, spoilt' # "all" => spoilt # "all"
      PROVE  LoginInv'
  <2>1. ~Login /\ ~Login' /\ sat' \notin {"fragment", "check"} BY <1>7 DEF Login
  <2> QED BY <1>7, <2>1, ReadyKept
<1>8. CASE NextPart BY <1>7, <1>8 DEF NextPart, ids
<1>9. CASE SmbReturn \/ SmbReturned BY <1>7, <1>9 DEF SmbReturn, SmbReturned, ids
<1>10. CASE ReadSend BY <1>7, <1>10 DEF ReadSend, ids
<1>11. CASE ReadHead
  <2>1. sat = "head" /\ sat' \in {"head", "rest", "spin"} /\ UNCHANGED <<FIDs, RR, spoilt>>
    BY <1>11, ReadHeadIs DEF HeadDropped, HeadLost, HeadTaken
  <2> QED BY <1>7, <2>1
<1>12. CASE ReadRest
  <2>1. sat = "rest" /\ sat' \in {"rest", "spin", "chunk"} /\ UNCHANGED <<FIDs, RR, spoilt>>
    BY <1>12, ReadRestIs DEF PieceTaken, PieceLost, Whole
  <2> QED BY <1>7, <2>1
<1>13. CASE SmbReadSectors BY <1>7, <1>13 DEF SmbReadSectors, ids
<1>14. CASE UNCHANGED smbvars
  <2>1. SameRequest BY <1>14 DEF smbvars, SameRequest, Login
  <2> QED BY <1>14, <2>1, LoginKept DEF smbvars
<1> QED
  BY <1>1, <1>2, <1>3, <1>4, <1>5, <1>6, <1>8, <1>9, <1>10, <1>11, <1>12, <1>13, <1>14
  DEF SmbNext, SmbThread
-----------------------------------------------------------------------------
(***************************************************************************)
(* What the caller's memory holds.                                         *)
(***************************************************************************)
ReadPlaces == {"chunk", "head", "rest"}
\* Sectors of the call that come before the border; of its first k, those are
\* there.
Border == BeforeBorder(scall.lsn, scall.n)
Filled(k) == \A s \in 0 .. k - 1 : s < Border => smem[s] = scall.lsn + s
\* Nothing is written outside of what is asked for.
WritesInv ==
  /\ sat = "idle" \/ Login => scall = NoRead
  /\ \A s \in scall.n .. SmbMem - 1 : smem[s] = Nothing
  /\ sat \in {"part"} \cup ReadPlaces => \A j \in 1 .. Len(smy.reads) : smy.reads[j].p + smy.reads[j].n <= scall.n
  /\ sat \in ReadPlaces => smy.p + smy.left <= scall.n
\* What is still to be read before the border is at the place on the disc that
\* it belongs to, and what comes before that is there.
AtPlace ==
  smy.p < Border => /\ smy.off + (smy.part - 1) * PartSectors = scall.lsn + smy.p
                    /\ smy.off + (Border - smy.p) <= PartSectors
                    /\ Border <= smy.p + smy.left
ContentInv ==
  spoilt = "none" =>
    /\ sat \in {"part"} \cup ReadPlaces => JobsOk(scall.lsn, Border, smy.reads)
    /\ sat = "part" => Filled(Border) \/ (smy.reads # <<>> /\ smy.reads[1].p = 0)
    /\ sat \in ReadPlaces => AtPlace /\ Filled(smy.p)
    /\ sat \in {"head", "rest"} => smy.left > 0
    /\ sat = "rest" => Filled(smy.p + smy.got - 1)
    /\ sat = "return" => Filled(Border)
DeliveryInv == WritesInv /\ ContentInv

\* How many sectors come before the border.
LEMMA BorderTyped ==
  ASSUME SmbTypes
  PROVE  Border \in Nat /\ scall.lsn \in Nat /\ scall.n \in Nat
<1>1. scall.lsn \in Nat /\ scall.n \in Nat BY SmbCallTyped DEF SmbTypes
<1> QED BY <1>1, BeforeBorderTyped DEF Border

\* When all of them are there, any number is.
LEMMA AllFilled ==
  ASSUME SmbTypes, Filled(Border), NEW k \in Nat
  PROVE  Filled(k)
<1>1. Border \in Nat BY BorderTyped
<1> SUFFICES ASSUME NEW s \in 0 .. k - 1, s < Border PROVE smem[s] = scall.lsn + s BY DEF Filled
<1>2. s \in 0 .. Border - 1 BY <1>1
<1> QED BY <1>2 DEF Filled

\* Nothing is read at first.
LEMMA DeliveryInit ==
  ASSUME SmbInit
  PROVE  DeliveryInv
<1>1. sat = "connect" /\ scall = NoRead /\ smem = [s \in 0 .. SmbMem - 1 |-> Nothing] BY DEF SmbInit
<1>2. \A s \in scall.n .. SmbMem - 1 : smem[s] = Nothing BY <1>1, SmbAssumption DEF NoRead
<1> QED BY <1>1, <1>2 DEF DeliveryInv, WritesInv, ContentInv, ReadPlaces

\* Steps of others.
LEMMA DeliveryKept ==
  ASSUME DeliveryInv, UNCHANGED <<sat, smy, scall, smem>>, spoilt' = "none" => spoilt = "none"
  PROVE  DeliveryInv'
<1>1. Login' = Login BY DEF Login
<1>2. WritesInv' BY <1>1 DEF DeliveryInv, WritesInv
<1>3. Border' = Border BY DEF Border
<1>4. \A k : Filled(k)' = Filled(k) BY <1>3 DEF Filled
<1>5. AtPlace' = AtPlace BY <1>3 DEF AtPlace
<1>6. Filled(Border)' = Filled(Border) BY <1>3 DEF Filled
<1>7. ContentInv' BY <1>3, <1>4, <1>5, <1>6 DEF DeliveryInv, ContentInv
<1> QED BY <1>2, <1>7 DEF DeliveryInv

\* Where there is no call, or none any more.
LEMMA NoCallKeeps ==
  ASSUME DeliveryInv, UNCHANGED <<scall, smem>>, scall = NoRead, sat' \notin {"part", "return"} \cup ReadPlaces
  PROVE  DeliveryInv'
<1>1. WritesInv' BY DEF DeliveryInv, WritesInv
<1>2. ContentInv' BY DEF DeliveryInv, ContentInv, ReadPlaces
<1> QED BY <1>1, <1>2 DEF DeliveryInv

\* A call begins with the reads of its parts.
LEMMA CallBegins ==
  ASSUME SmbTypes, DeliveryInv, SmbReadSectors
  PROVE  DeliveryInv'
<1>1. PICK r \in SmbReads :
        /\ sat = "idle" /\ sat' = "part" /\ scall' = r
        /\ smy' = [Start EXCEPT !.reads = PartReads(r.lsn, r.n)]
        /\ UNCHANGED smem
  BY Zenon DEF SmbReadSectors
<1>2. r.lsn \in Nat /\ r.n \in 1 .. SmbMem /\ r.n \in Nat /\ SmbMem \in Nat
  BY SmbAssumption
<1>3. PICK q \in Seq(ReadJobs) : q = PartReads(r.lsn, r.n) BY <1>2, PartReadsTyped
<1>4. smy'.reads = q BY <1>1, <1>3 DEF Start
<1>5. \A j \in 1 .. Len(q) : q[j].p + q[j].n <= r.n BY <1>2, <1>3, PartReadsTyped
<1>6. PICK b \in Nat :
        b = BeforeBorder(r.lsn, r.n) /\ JobsOk(r.lsn, b, q) /\ (b > 0 => q # <<>> /\ q[1].p = 0)
  BY <1>2, <1>3, BeforeBorderTyped, PartReadsOk
<1>7. \A s \in 0 .. SmbMem - 1 : smem[s] = Nothing BY <1>1 DEF DeliveryInv, WritesInv, NoRead
<1>8. \A s \in scall'.n .. SmbMem - 1 : smem'[s] = Nothing BY <1>1, <1>2, <1>7
<1>9. WritesInv'
  <2>1. ~Login' /\ sat' # "idle" /\ sat' \notin ReadPlaces BY <1>1 DEF Login, ReadPlaces
  <2> QED BY <1>1, <1>4, <1>5, <1>8, <2>1 DEF WritesInv
<1>10. ContentInv'
  <2>1. Border' = b /\ scall'.lsn = r.lsn BY <1>1, <1>6 DEF Border
  <2>2. b = 0 => Filled(Border)' BY <2>1 DEF Filled
  <2> QED BY <1>1, <1>4, <1>6, <2>1, <2>2 DEF ContentInv, ReadPlaces
<1> QED BY <1>9, <1>10 DEF DeliveryInv

\* Its next read is the first of those left.
LEMMA NextPartDelivers ==
  ASSUME SmbTypes, DeliveryInv, NextPart
  PROVE  DeliveryInv'
<1>1. /\ sat = "part" /\ sat' = "chunk" /\ smy.reads # <<>> /\ smy.reads \in Seq(ReadJobs)
      /\ UNCHANGED <<scall, smem, spoilt>>
  BY NextPartIs DEF SmbTypes, SmbLocals
<1>2. PICK Q \in Seq(ReadJobs) : Q = smy.reads BY <1>1
<1>3. PICK T \in Seq(ReadJobs) : T = Tail(Q) BY <1>1, <1>2, HeadTailProperties
<1>4. Len(Q) \in Nat /\ Len(Q) >= 1 /\ Len(T) = Len(Q) - 1 /\ \A j \in 1 .. Len(T) : T[j] = Q[j + 1]
  <2>1. Len(Q) \in Nat /\ Len(Q) # 0 BY <1>1, <1>2, EmptySeq, LenProperties
  <2> QED BY <1>1, <1>2, <1>3, <2>1, HeadTailProperties
<1>5. PICK r \in ReadJobs : r = Q[1] BY <1>4, ElementOfSeq
<1>6. /\ smy'.reads = T /\ smy'.part = r.part /\ smy'.off = r.lsn /\ smy'.left = r.n /\ smy'.p = r.p
  <2>1. Head(Q) = r BY <1>1, <1>2, <1>5, HeadTailProperties
  <2> QED BY <1>2, <1>3, <2>1, NextPartIs
<1>7. PICK c : c = scall OBVIOUS
<1>8. \A j \in 1 .. Len(Q) : Q[j].p + Q[j].n <= c.n BY <1>1, <1>2, <1>7 DEF DeliveryInv, WritesInv
<1>9. WritesInv'
  <2>1. r.p + r.n <= c.n BY <1>4, <1>5, <1>8
  <2>2. ASSUME NEW j \in 1 .. Len(T) PROVE T[j].p + T[j].n <= c.n
    <3>1. j + 1 \in 1 .. Len(Q) /\ T[j] = Q[j + 1] BY <1>4
    <3> QED BY <1>8, <3>1
  <2>3. ~Login' /\ sat' # "idle" BY <1>1 DEF Login
  <2>4. \A s \in scall.n .. SmbMem - 1 : smem[s] = Nothing BY DEF DeliveryInv, WritesInv
  <2> QED BY <1>1, <1>6, <1>7, <2>1, <2>2, <2>3, <2>4 DEF WritesInv
<1>10. ContentInv'
  <2> SUFFICES ASSUME spoilt' = "none" PROVE ContentInv' BY DEF ContentInv
  <2>1. /\ JobsOk(c.lsn, Border, Q) /\ (Filled(Border) \/ Q[1].p = 0)
    BY <1>1, <1>2, <1>7 DEF DeliveryInv, ContentInv
  <2>2. JobsOk(c.lsn, Border, T)
    <3> SUFFICES ASSUME NEW j \in 1 .. Len(T) PROVE JobOk(c.lsn, Border, T[j]) BY DEF JobsOk
    <3>1. j + 1 \in 1 .. Len(Q) /\ T[j] = Q[j + 1] BY <1>4
    <3> QED BY <2>1, <3>1 DEF JobsOk
  <2>3. JobOk(c.lsn, Border, r)
    <3>1. 1 \in 1 .. Len(Q) BY <1>4
    <3> QED BY <1>5, <2>1, <3>1 DEF JobsOk
  <2>4. Filled(r.p)
    <3>1. CASE Filled(Border)
      <4>1. r.p \in Nat BY DEF ReadJobs
      <4> QED BY <3>1, <4>1, AllFilled
    <3>2. CASE Q[1].p = 0
      <4>1. r.p = 0 BY <1>5, <3>2
      <4> QED BY <4>1 DEF Filled
    <3> QED BY <2>1, <3>1, <3>2
  <2>5. Border' = Border BY <1>1 DEF Border
  <2>6. Filled(r.p)' BY <1>1, <2>4, <2>5 DEF Filled
  <2>7. AtPlace' BY <1>1, <1>6, <1>7, <2>3, <2>5 DEF AtPlace, JobOk
  <2> QED BY <1>1, <1>6, <1>7, <2>2, <2>5, <2>6, <2>7 DEF ContentInv, ReadPlaces
<1> QED BY <1>9, <1>10 DEF DeliveryInv

\* When no read is left all is there.
LEMMA ReturnDelivers ==
  ASSUME SmbTypes, DeliveryInv, SmbReturn \/ SmbReturned
  PROVE  DeliveryInv'
<1>1. CASE SmbReturn
  <2>1. sat = "part" /\ sat' = "return" /\ smy.reads = <<>> /\ UNCHANGED <<smy, scall, smem, spoilt>>
    BY <1>1 DEF SmbReturn
  <2>2. spoilt = "none" => Filled(Border) BY <2>1 DEF DeliveryInv, ContentInv
  <2>3. spoilt = "none" => Filled(Border)' BY <2>1, <2>2 DEF Filled, Border
  <2>4. ~Login' BY <2>1 DEF Login
  <2> QED BY <2>1, <2>3, <2>4 DEF DeliveryInv, WritesInv, ContentInv, ReadPlaces
<1>2. CASE SmbReturned
  <2>1. sat' = "idle" /\ scall' = NoRead /\ smem' = [s \in 0 .. SmbMem - 1 |-> Nothing]
    BY <1>2 DEF SmbReturned, SmbTypes
  <2>2. \A s \in scall'.n .. SmbMem - 1 : smem'[s] = Nothing BY <2>1, SmbAssumption DEF NoRead
  <2>3. ~Login' BY <2>1 DEF Login
  <2> QED BY <2>1, <2>2, <2>3 DEF DeliveryInv, WritesInv, ContentInv, ReadPlaces
<1> QED BY <1>1, <1>2

\* A request asks for the next sectors, or the part has been read.
LEMMA SendDelivers ==
  ASSUME SmbTypes, DeliveryInv, ReadSend
  PROVE  DeliveryInv'
<1>1. /\ sat = "chunk" /\ UNCHANGED <<smy, scall, smem, spoilt>> /\ smy.left \in Nat /\ smy.p \in Nat
      /\ sat' = IF smy.left = 0 THEN "part" ELSE "head"
  BY DEF ReadSend, SmbTypes, SmbLocals
<1>2. WritesInv'
  <2>1. ~Login' BY <1>1 DEF Login
  <2> QED BY <1>1, <2>1 DEF DeliveryInv, WritesInv, ReadPlaces
<1>3. ContentInv'
  <2> SUFFICES ASSUME spoilt = "none" PROVE ContentInv' BY <1>1 DEF ContentInv
  <2>1. JobsOk(scall.lsn, Border, smy.reads) /\ AtPlace /\ Filled(smy.p)
    BY <1>1 DEF DeliveryInv, ContentInv, ReadPlaces
  <2>2. Border' = Border BY <1>1 DEF Border
  <2>3. Filled(smy.p)' BY <1>1, <2>1, <2>2 DEF Filled
  <2>4. AtPlace' BY <1>1, <2>1, <2>2 DEF AtPlace
  <2>5. CASE smy.left = 0
    <3>1. Border \in Nat BY BorderTyped
    <3>2. Border <= smy.p BY <1>1, <2>1, <2>5, <3>1 DEF AtPlace
    <3>3. Filled(Border)
      <4>1. \A s \in 0 .. Border - 1 : s \in 0 .. smy.p - 1 BY <1>1, <3>1, <3>2
      <4> QED BY <2>1, <4>1 DEF Filled
    <3>4. Filled(Border)' BY <1>1, <2>2, <3>3 DEF Filled
    <3> QED BY <1>1, <2>1, <2>2, <2>5, <3>4 DEF ContentInv, ReadPlaces
  <2>6. CASE smy.left # 0 BY <1>1, <2>1, <2>2, <2>3, <2>4, <2>6 DEF ContentInv, ReadPlaces
  <2> QED BY <2>5, <2>6
<1> QED BY <1>2, <1>3 DEF DeliveryInv

\* The size of a request.
LEMMA ChunkIs ==
  ASSUME SmbTypes
  PROVE  ChunkSectors \in Nat /\ ChunkSectors <= smy.left /\ (smy.left > 0 => ChunkSectors > 0)
<1>1. smy.left \in Nat BY DEF SmbTypes, SmbLocals
<1> QED BY <1>1, SmbAssumption DEF ChunkSectors

\* What the server answers to a read: what belongs there, all of it up to the
\* border.
LEMMA ReadAnswerIs ==
  ASSUME SmbTypes, Ready, AtPlace, smy.left > 0, smy.p < Border
  PROVE  LET R == Answer(ReadRequest)
         IN  /\ \A j \in 2 .. Len(R) : R[j].v = scall.lsn + smy.p + j - 2
             /\ smy.p + ChunkSectors <= Border => Len(R) = 1 + ChunkSectors
             /\ Border < smy.p + ChunkSectors => smy.p + Len(R) - 1 >= Border
<1>1. /\ smy.part \in 1 .. NumParts /\ smy.part \in Nat /\ smy.off \in Nat /\ smy.left \in Nat /\ smy.p \in Nat
      /\ scall.lsn \in Nat /\ PartSectors \in Nat /\ Border \in Nat
  <2>1. smy \in SmbLocals /\ NumParts \in Nat /\ PartSectors \in Nat BY PartsAssumption DEF SmbTypes
  <2> QED BY <2>1, BorderTyped DEF SmbLocals
<1>2. ChunkSectors \in Nat /\ ChunkSectors <= smy.left /\ ChunkSectors > 0 BY ChunkIs
<1>3. ReadRequest = [kind |-> "read", fid |-> smy.part, uid |-> 1, tid |-> 1, off |-> smy.off, n |-> ChunkSectors]
  BY <1>1 DEF ReadRequest, Ready, OneOne
<1>4. PICK fid \in Nat, off \in Nat, n \in Nat : fid = smy.part /\ off = smy.off /\ n = ChunkSectors
  BY <1>1, <1>2
<1>5. Answer(ReadRequest) = Reply("OK", 0, FileData(fid, off, n)) BY <1>1, <1>3, <1>4 DEF Answer
<1>6. off + (fid - 1) * PartSectors = scall.lsn + smy.p /\ off + (Border - smy.p) <= PartSectors
  BY <1>4 DEF AtPlace
<1>7. PICK k \in Nat : k = FileSectors(off, n)
  BY <1>1, <1>4 DEF FileSectors
<1>8. /\ smy.p + n <= Border => k = n
      /\ Border < smy.p + n => smy.p + k >= Border
  BY <1>1, <1>2, <1>4, <1>6, <1>7 DEF FileSectors
<1>9. PICK D \in Seq(DataCells) :
        D = FileData(fid, off, n) /\ Len(D) = k
        /\ \A j \in 1 .. k : D[j] = Data((fid - 1) * PartSectors + off + j - 1)
  <2>1. /\ FileData(fid, off, n) \in Seq(DataCells)
        /\ Len(FileData(fid, off, n)) = FileSectors(off, n)
        /\ \A j \in 1 .. FileSectors(off, n) :
             FileData(fid, off, n)[j] = Data((fid - 1) * PartSectors + off + j - 1)
    BY FileDataIs, Zenon
  <2> QED BY <1>7, <2>1, Zenon
<1>10. PICK R : R = Answer(ReadRequest) OBVIOUS
<1>11. Len(R) = 1 + k /\ \A j \in 1 .. k : R[j + 1] = D[j]
  <2>1. R = Reply("OK", 0, D) BY <1>5, <1>9, <1>10
  <2>2. "OK" \in Statuses BY DEF Statuses
  <2>3. Len(Reply("OK", 0, D)) = 1 + Len(D) /\ \A j \in 1 .. Len(D) : Reply("OK", 0, D)[j + 1] = D[j]
    BY <2>2, ReplyIs
  <2> QED BY <1>9, <2>1, <2>3, Zenon
<1>12. ASSUME NEW j \in 2 .. Len(R) PROVE R[j].v = scall.lsn + smy.p + j - 2
  <2>1. j - 1 \in 1 .. k /\ (j - 1) + 1 = j BY <1>11
  <2>2. R[j] = D[j - 1] BY <1>11, <2>1
  <2>3. D[j - 1].v = (fid - 1) * PartSectors + off + (j - 1) - 1 BY <1>9, <2>1 DEF Data
  <2>4. PICK m \in Int : m = (fid - 1) * PartSectors BY <1>1
  <2> QED BY <1>1, <1>6, <2>1, <2>2, <2>3, <2>4
<1>13. Len(R) = 1 + k BY <1>11
<1> QED BY <1>1, <1>2, <1>4, <1>8, <1>10, <1>12, <1>13

\* Cells of a reply are copied.
LEMMA TookDelivers ==
  ASSUME SmbTypes, DeliveryInv, spoilt # "all" => Ready, sat \in {"head", "rest"}, sat' = "rest",
         UNCHANGED <<scall, spoilt>>,
         NEW R \in Replies, Expected(R), NEW g \in Nat, NEW h \in Nat, g >= 1, g <= h, h <= Len(R),
         sat = "rest" => g = smy.got, sat = "head" => g = 1,
         Took(R, g, h), Counted(h, Len(R))
  PROVE  DeliveryInv'
<1>1. ~Login BY DEF Login
<1>2. /\ smy.p \in Nat /\ smy.left \in Nat /\ scall.n \in 0 .. SmbMem /\ scall.lsn \in Nat /\ SmbMem \in Nat
      /\ smy \in SmbLocals
  BY SmbCallTyped DEF SmbTypes, SmbLocals
<1>3. ChunkSectors \in Nat /\ ChunkSectors <= smy.left BY ChunkIs
<1>4. Len(R) \in Nat /\ Len(R) <= 1 + ChunkSectors BY <1>1, RepliesAre, LenProperties DEF Message
<1>5. smy.p + smy.left <= scall.n BY DEF DeliveryInv, WritesInv, ReadPlaces
<1>6. PICK p \in Nat, c \in Nat, lsn \in Nat : p = smy.p /\ c = ChunkSectors /\ lsn = scall.lsn BY <1>2, <1>3
<1>7. p + c <= scall.n BY <1>2, <1>3, <1>5, <1>6
<1>8. \A s \in 0 .. SmbMem - 1 : smem'[s] = IF s - p + 2 \in g + 1 .. h THEN R[s - p + 2].v ELSE smem[s]
  BY <1>6 DEF Took
<1>9. /\ smy'.got = h /\ smy'.reads = smy.reads /\ smy'.part = smy.part /\ smy'.off = smy.off
      /\ smy'.left = smy.left /\ smy'.p = smy.p
  <2>1. PICK n : n = Len(R) OBVIOUS
  <2>2. smy' = [smy EXCEPT !.got = h, !.want = n] BY <2>1 DEF Counted
  <2> QED BY <1>2, <2>2 DEF SmbLocals
<1>10. WritesInv'
  <2>1. ASSUME NEW s \in scall.n .. SmbMem - 1 PROVE smem'[s] = Nothing
    <3>1. s \in 0 .. SmbMem - 1 BY <1>2, <2>1
    <3>2. s - p + 2 \notin g + 1 .. h
      <4>1. PICK m \in Nat : m = scall.n /\ p + c <= m /\ m <= s BY <1>2, <1>7
      <4>2. h <= 1 + c BY <1>4, <1>6
      <4> QED BY <3>1, <4>1, <4>2
    <3>3. smem'[s] = smem[s] BY <1>8, <3>1, <3>2
    <3> QED BY <3>3 DEF DeliveryInv, WritesInv
  <2>2. ~Login' BY DEF Login
  <2> QED BY <1>9, <2>1, <2>2 DEF DeliveryInv, WritesInv, ReadPlaces
<1>11. ContentInv'
  <2> SUFFICES ASSUME spoilt = "none" PROVE ContentInv' BY DEF ContentInv
  <2>1. /\ JobsOk(scall.lsn, Border, smy.reads) /\ AtPlace
        /\ Filled(p) /\ smy.left > 0 /\ (sat = "rest" => Filled(p + smy.got - 1))
    BY <1>6 DEF DeliveryInv, ContentInv, ReadPlaces
  <2>2. R = Answer(ReadRequest) BY <1>1 DEF Expected, Request
  <2>3. PICK b \in Nat : b = Border BY BorderTyped
  <2>4. p < b => \A j \in 2 .. Len(R) : R[j].v = lsn + p + j - 2 BY <1>6, <2>1, <2>2, <2>3, ReadAnswerIs
  <2>5. \A s \in 0 .. p + g - 2 : s < b => smem[s] = lsn + s
    <3>1. Filled(p + g - 1)
      <4>1. CASE sat = "rest" BY <2>1, <4>1
      <4>2. CASE sat = "head"
        <5>1. p + g - 1 = p BY <4>2
        <5> QED BY <2>1, <5>1
      <4> QED BY <4>1, <4>2
    <3>2. (p + g - 1) - 1 = p + g - 2 OBVIOUS
    <3> QED BY <1>6, <2>3, <3>1, <3>2 DEF Filled
  <2>6. ASSUME NEW s \in 0 .. p + h - 2, s < b PROVE smem'[s] = lsn + s
    <3>1. s \in Int /\ s \in 0 .. SmbMem - 1 BY <1>2, <1>4, <1>6, <1>7
    <3>2. CASE s - p + 2 \in g + 1 .. h
      <4>1. s - p + 2 \in 2 .. Len(R) BY <1>4, <3>1, <3>2
      <4>2. p < b BY <2>6, <3>1, <3>2
      <4>3. R[s - p + 2].v = lsn + p + (s - p + 2) - 2 BY <2>4, <4>1, <4>2
      <4>4. smem'[s] = R[s - p + 2].v BY <1>8, <3>1, <3>2
      <4> QED BY <3>1, <4>3, <4>4
    <3>3. CASE s - p + 2 \notin g + 1 .. h
      <4>1. s \in 0 .. p + g - 2 BY <3>1, <3>3
      <4>2. smem'[s] = smem[s] BY <1>8, <3>1, <3>3
      <4> QED BY <2>5, <2>6, <4>1, <4>2
    <3> QED BY <3>2, <3>3
  <2>7. Filled(p + h - 1)' /\ Filled(p)'
    <3>1. scall'.lsn = lsn /\ Border' = b BY <1>6, <2>3 DEF Border
    <3>2. \A s \in 0 .. (p + h - 1) - 1 : s < b => smem'[s] = scall'.lsn + s BY <2>6, <3>1
    <3>3. \A s \in 0 .. p - 1 : s < b => smem'[s] = scall'.lsn + s
      <4>1. \A s \in 0 .. p - 1 : s \in 0 .. p + h - 2 OBVIOUS
      <4> QED BY <2>6, <3>1, <4>1
    <3> QED BY <3>1, <3>2, <3>3 DEF Filled
  <2>8. Filled(smy.p + smy.got - 1)' /\ Filled(smy.p)' BY <1>6, <1>9, <2>7
  <2>9. Border' = Border BY DEF Border
  <2>10. AtPlace' BY <1>9, <2>1, <2>9 DEF AtPlace
  <2> QED BY <1>9, <2>1, <2>8, <2>9, <2>10 DEF ContentInv, ReadPlaces
<1> QED BY <1>10, <1>11 DEF DeliveryInv

\* The connection is lost.
LEMMA SpinDelivers ==
  ASSUME SmbInv, DeliveryInv, conn = "lost", sat' = "spin", UNCHANGED <<scall, smem, spoilt>>
  PROVE  DeliveryInv'
<1>1. spoilt' # "none" BY DEF SmbInv, NetInv
<1>2. ~Login' BY DEF Login
<1>3. WritesInv' BY <1>2 DEF DeliveryInv, WritesInv, ReadPlaces
<1> QED BY <1>1, <1>3 DEF DeliveryInv, ContentInv

\* The head of the reply, and the data that came with it.
LEMMA ReadHeadDelivers ==
  ASSUME SmbInv, DeliveryInv, LoginInv, ReadHead
  PROVE  DeliveryInv'
<1>a. SmbTypes BY DEF SmbInv
<1>1. sat = "head" /\ UNCHANGED <<conn, scall, spoilt>> BY ReadHeadIs
<1>2. CASE HeadDropped BY <1>1, <1>2, DeliveryKept DEF HeadDropped
<1>3. CASE HeadLost BY <1>1, <1>3, SpinDelivers DEF HeadLost
<1>4. CASE HeadTaken
  <2>1. PICK k \in 1 .. Len(net), R \in Replies : HeadOf(R, k) BY <1>4 DEF HeadTaken
  <2>2. Expected(R) /\ Len(R) \in Nat /\ k \in 1 .. Len(R) /\ Took(R, 1, k) /\ Counted(k, Len(R))
    BY <2>1 DEF HeadOf
  <2>3. k \in Nat /\ 1 <= k /\ k <= Len(R) BY <2>2
  <2>4. sat' = "rest" BY <1>4 DEF HeadTaken
  <2>5. spoilt # "all" => Ready BY <1>1 DEF LoginInv, Login
  <2> QED BY <1>a, <1>1, <2>2, <2>3, <2>4, <2>5, TookDelivers
<1> QED BY <1>2, <1>3, <1>4, ReadHeadIs

\* The reply has come: what was asked for before the border is there.
LEMMA WholeDelivers ==
  ASSUME SmbInv, DeliveryInv, LoginInv, sat = "rest", UNCHANGED <<scall, spoilt>>, Whole
  PROVE  DeliveryInv'
<1>a. SmbTypes BY DEF SmbInv
<1>0. ~Login BY DEF Login
<1>1. /\ smy.p \in Nat /\ smy.left \in Nat /\ smy.off \in Nat /\ smy.got \in Nat /\ smy \in SmbLocals
      /\ scall.n \in Nat
  <2>1. smy \in SmbLocals /\ scall \in {NoRead} \cup SmbReads BY <1>a DEF SmbTypes
  <2>2. scall.n \in Nat BY <2>1, SmbCallTyped
  <2>3. smy.p \in Nat /\ smy.left \in Nat /\ smy.off \in Nat /\ smy.got \in Nat BY <2>1 DEF SmbLocals
  <2> QED BY <2>1, <2>2, <2>3
<1>2. PICK c \in Nat : c = ChunkSectors /\ c <= smy.left BY <1>a, ChunkIs
<1>3. /\ sat' = "chunk" /\ UNCHANGED smem /\ smy.got >= smy.want
      /\ smy' = [smy EXCEPT !.p = @ + c, !.off = @ + c, !.left = @ - c]
  BY <1>2, Zenon DEF Whole
<1>4. /\ smy'.p = smy.p + c /\ smy'.off = smy.off + c /\ smy'.left = smy.left - c
      /\ smy'.reads = smy.reads /\ smy'.part = smy.part
  BY <1>1, <1>3 DEF SmbLocals
<1>5. smy'.p + smy'.left = smy.p + smy.left BY <1>1, <1>2, <1>4
<1>6. WritesInv'
  <2>1. ~Login' BY <1>3 DEF Login
  <2> QED BY <1>3, <1>4, <1>5, <2>1 DEF DeliveryInv, WritesInv, ReadPlaces
<1>7. ContentInv'
  <2> SUFFICES ASSUME spoilt = "none" PROVE ContentInv' BY DEF ContentInv
  <2>1. /\ JobsOk(scall.lsn, Border, smy.reads) /\ AtPlace /\ Filled(smy.p)
        /\ smy.left > 0 /\ Filled(smy.p + smy.got - 1)
    BY DEF DeliveryInv, ContentInv, ReadPlaces
  <2>2. PICK R \in Replies : Expected(R) /\ smy.want = Len(R) BY DEF SmbInv, NetInv, Receiving, Rest
  <2>3. R = Answer(ReadRequest) BY <1>0, <2>2 DEF Expected, Request
  <2>4. Ready BY <1>0 DEF LoginInv
  <2>5. Border \in Nat BY <1>a, BorderTyped
  <2>6. smy.want \in Nat
    <3>1. Message(R) BY <1>a, RepliesAre
    <3> QED BY <2>2, <3>1, LenProperties DEF Message
  <2>7. ASSUME smy.p < Border
        PROVE  smy.p + c <= smy.p + smy.got - 1 \/ Border <= smy.p + smy.got - 1
    <3>1. /\ smy.p + c <= Border => smy.want = 1 + c
          /\ Border < smy.p + c => smy.p + smy.want - 1 >= Border
      BY <1>a, <1>2, <2>1, <2>2, <2>3, <2>4, <2>7, ReadAnswerIs
    <3> QED BY <1>1, <1>2, <1>3, <2>5, <2>6, <3>1
  <2>8. Filled(smy.p + c)
    <3> SUFFICES ASSUME NEW s \in 0 .. (smy.p + c) - 1, s < Border PROVE smem[s] = scall.lsn + s BY DEF Filled
    <3>1. s \in 0 .. (smy.p + smy.got - 1) - 1 \/ s \in 0 .. smy.p - 1 BY <1>1, <1>2, <2>5, <2>7
    <3> QED BY <2>1, <3>1 DEF Filled
  <2>9. Border' = Border BY DEF Border
  <2>10. Filled(smy.p)'
    <3>1. \A s \in 0 .. smy'.p - 1 : s < Border => smem'[s] = scall'.lsn + s BY <1>3, <1>4, <2>8 DEF Filled
    <3> QED BY <2>9, <3>1 DEF Filled
  <2>11. AtPlace'
    <3> SUFFICES ASSUME smy'.p < Border
                 PROVE  /\ smy'.off + (smy'.part - 1) * PartSectors = scall'.lsn + smy'.p
                        /\ smy'.off + (Border - smy'.p) <= PartSectors
                        /\ Border <= smy'.p + smy'.left
      BY <2>9 DEF AtPlace
    <3>1. smy.p < Border BY <1>1, <1>4, <2>5
    <3>2. /\ smy.off + (smy.part - 1) * PartSectors = scall.lsn + smy.p
          /\ smy.off + (Border - smy.p) <= PartSectors
          /\ Border <= smy.p + smy.left
      BY <2>1, <3>1 DEF AtPlace
    <3>3. smy.part \in Nat /\ PartSectors \in Nat /\ scall.lsn \in Nat
      BY <1>a, SmbCallTyped, PartsAssumption DEF SmbTypes, SmbLocals
    <3>4. PICK m \in Int : m = (smy.part - 1) * PartSectors BY <3>3
    <3>5. smy.off + m = scall.lsn + smy.p BY <3>2, <3>4
    <3>6. (smy.off + c) + m = scall.lsn + (smy.p + c) BY <1>1, <3>3, <3>5
    <3>7. (smy.off + c) + (Border - (smy.p + c)) <= PartSectors BY <1>1, <2>5, <3>2, <3>3
    <3>8. Border <= (smy.p + c) + (smy.left - c) BY <1>1, <2>5, <3>2
    <3>9. (smy'.part - 1) * PartSectors = m BY <1>4, <3>4
    <3> QED BY <1>4, <3>6, <3>7, <3>8, <3>9
  <2> QED BY <1>3, <1>4, <2>1, <2>9, <2>10, <2>11 DEF ContentInv, ReadPlaces
<1> QED BY <1>6, <1>7 DEF DeliveryInv

\* The pieces that follow.
LEMMA ReadRestDelivers ==
  ASSUME SmbInv, DeliveryInv, LoginInv, ReadRest
  PROVE  DeliveryInv'
<1>a. SmbTypes BY DEF SmbInv
<1>1. sat = "rest" /\ UNCHANGED <<conn, scall, spoilt>> BY ReadRestIs
<1>2. CASE PieceTaken
  <2>1. PICK R \in Replies, g \in Nat, h \in Nat : PieceOf(R, g, h) BY <1>2 DEF PieceTaken
  <2>2. /\ Expected(R) /\ Message(R) /\ g \in 1 .. Len(R) /\ h \in 1 .. Len(R) /\ g <= h /\ g = smy.got
        /\ Took(R, g, h) /\ Counted(h, Len(R))
    BY <2>1 DEF PieceOf
  <2>3. g >= 1 /\ h <= Len(R) BY <2>2, LenProperties DEF Message
  <2>4. sat' = "rest" BY <1>2 DEF PieceTaken
  <2>5. spoilt # "all" => Ready BY <1>1 DEF LoginInv, Login
  <2> QED BY <1>a, <1>1, <2>2, <2>3, <2>4, <2>5, TookDelivers
<1>3. CASE PieceLost BY <1>1, <1>3, SpinDelivers DEF PieceLost
<1>4. CASE Whole BY <1>1, <1>4, WholeDelivers
<1> QED BY <1>2, <1>3, <1>4, ReadRestIs

\* DeliveryInv is inductive.
LEMMA DeliveryStep ==
  ASSUME SmbInv, LoginInv, DeliveryInv, [SmbNext]_smbvars
  PROVE  DeliveryInv'
<1>a. SmbTypes BY DEF SmbInv
<1>1. CASE SmbServer
  <2>1. UNCHANGED <<sat, smy, scall, smem>> /\ (spoilt' = "none" => spoilt = "none")
    BY <1>1 DEF SmbServer, ServerAnswers, ServerKeepsAlive, ConnectionLost, SmbFault
  <2> QED BY <2>1, DeliveryKept
<1>2. CASE OpenTCPSession \/ SessionSend \/ ReplyHead \/ ReplyFragment \/ SessionCheck
  <2>1. Login /\ UNCHANGED <<scall, smem>> /\ sat' \in {"send", "reply", "fragment", "check", "idle"}
    <3>1. CASE OpenTCPSession \/ SessionSend BY <3>1 DEF OpenTCPSession, SessionSend, Login
    <3>2. CASE ReplyHead
      <4>1. sat = "reply" /\ UNCHANGED <<scall, smem>> /\ sat' \in {sat, "fragment", "check"}
        BY <3>2, Zenon DEF ReplyHead
      <4> QED BY <4>1 DEF Login
    <3>3. CASE ReplyFragment
      <4>1. sat = "fragment" /\ UNCHANGED <<scall, smem>> /\ sat' \in {sat, "check"}
        BY <3>3, Zenon DEF ReplyFragment
      <4> QED BY <4>1 DEF Login
    <3>4. CASE SessionCheck BY <1>a, <3>4, SessionCheckIs DEF Login
    <3> QED BY <1>2, <3>1, <3>2, <3>3, <3>4
  <2>2. scall = NoRead BY <2>1 DEF DeliveryInv, WritesInv
  <2> QED BY <2>1, <2>2, NoCallKeeps DEF ReadPlaces
<1>3. CASE SmbReadSectors BY <1>a, <1>3, CallBegins
<1>4. CASE NextPart BY <1>a, <1>4, NextPartDelivers
<1>5. CASE SmbReturn \/ SmbReturned BY <1>a, <1>5, ReturnDelivers
<1>6. CASE ReadSend BY <1>a, <1>6, SendDelivers
<1>7. CASE ReadHead BY <1>7, ReadHeadDelivers
<1>8. CASE ReadRest BY <1>8, ReadRestDelivers
<1>9. CASE UNCHANGED smbvars BY <1>9, DeliveryKept DEF smbvars
<1> QED BY <1>1, <1>2, <1>3, <1>4, <1>5, <1>6, <1>7, <1>8, <1>9 DEF SmbNext, SmbThread

\* A read from the file server returns the disc's sectors that come before the
\* border of the part it begins in and before the end of the image, whatever
\* pieces the replies arrive in and whatever comes between them, unless a
\* fault spoilt it; and it never writes outside of what was asked for.
THEOREM FileServerDelivers == DevSpec => []SmbDelivers
<1> DEFINE Inv == SmbInv /\ LoginInv /\ DeliveryInv
<1>1. DevInit => Inv
  <2> SUFFICES ASSUME SmbInit PROVE Inv BY DEF DevInit
  <2>1. LoginInv
    <3>1. Login /\ smy.stage = "negotiate" /\ sat = "connect" BY DEF SmbInit, Login, Start
    <3> QED BY <3>1 DEF LoginInv, LoggedIn
  <2> QED BY <2>1, SmbInitInv, DeliveryInit
<1>2. Inv /\ [DevNext]_devvars => Inv'
  <2> SUFFICES ASSUME Inv, [DevNext]_devvars PROVE Inv' OBVIOUS
  <2>1. [SmbNext]_smbvars BY SmbSteps
  <2> QED BY <2>1, SmbStepKeeps, LoginStepKeeps, DeliveryStep
<1>3. Inv => SmbDelivers
  <2> SUFFICES ASSUME Inv PROVE SmbDelivers OBVIOUS
  <2>1. sat = "return" /\ spoilt = "none" => Filled(Border) BY DEF DeliveryInv, ContentInv
  <2>2. \A s \in scall.n .. SmbMem - 1 : smem[s] = Nothing BY DEF DeliveryInv, WritesInv
  <2>3. Border \in Nat BY BorderTyped DEF SmbInv
  <2> QED BY <2>1, <2>2, <2>3 DEF SmbDelivers, Filled, Border
<1> HIDE DEF Inv
<1> QED BY <1>1, <1>2, <1>3, PTL DEF DevSpec

-----------------------------------------------------------------------------
(***************************************************************************)
(* USB mass storage: a step of a build is a step of MassStor or leaves it  *)
(* alone.                                                                  *)
(***************************************************************************)
LEMMA MassSteps == [DevNext]_devvars => [MassNext]_massvars
  BY DEF DevNext, InUsb, InHdd, InSmb, InBdm, InMechacon, devvars, massvars

UsbPlaces == {"off", "send", "answer", "idle", "part", "next", "ra", "wait", "ahead", "copy", "return"}
Configuring == {"off", "send", "answer"}
ReadingDisc == {"ra", "wait", "ahead", "copy"}
Targets == {"none", "ra", "sector", "mem"}
UsbTransfers == [kind: {"control", "cbw", "data", "csw"}, to: Targets, p: Int, from: Int, n: Int]
UsbJobs == [sector: Int, count: Nat, to: Targets \ {"none"}, p: Int]
UsbLocals ==
  [call: {Idle.call} \cup Reads, reads: Seq(ReadJobs), left: Int, lba: Int, p: Int, job: UsbJobs,
   half: {"none", "first", "second"}, stage: Control \cup Scsi \cup {"none"}]
UsbDevices == [known: BOOLEAN, status: SUBSET {"DETECTED", "CONFIGURED"}, sectorSize: {0} \cup SectorSizes]
UsbCommands == [cmd_count: Int, cb: BOOLEAN, returnCode: {"OK", "ERR"}]
Buffers(n) == [0 .. n - 1 -> Int]
MassTypes ==
  /\ dev \in UsbDevices /\ ioSema \in {0, 1} /\ io_sem \in {0, 1}
  /\ ucmd \in UsbCommands /\ flight \in Seq(UsbTransfers)
  /\ ra \in [sector: Int, count: Nat, ptr: Nat, active: BOOLEAN]
  /\ last \in [sector: Int, count: Nat]
  /\ ra_buffer \in Buffers(SCSI_RA_SECTORS) /\ gSectorBuffer \in Buffers(2 * CdUnits)
  /\ mem \in Buffers(MaxN * CdUnits)
  /\ at \in UsbPlaces /\ my \in UsbLocals
  /\ hurt \in BOOLEAN

\* Where the thread is: the device is configured before anything is read, and
\* nothing is read while a read-ahead goes on.
PlaceInv ==
  /\ ~dev.known => at = "off"
  /\ at \in {"send", "answer"} => my.stage \in Control \cup Scsi
  /\ at \in Configuring => ra.count = 0
  /\ at \in Configuring \cup {"wait", "ahead"} => ~ra.active
  /\ at \notin Configuring => S \in SectorSizes

\* As many transfers as the command counts are in flight; the last one gives
\* the signal.
CountsDown(sema) ==
  /\ ucmd.cmd_count = Len(flight) /\ sema = (IF flight = <<>> THEN 1 ELSE 0)
  /\ \A k \in 1 .. Len(flight) : flight[k].kind # "control"

\* Each signal and each transfer in flight is that of the command waited for,
\* or of the read-ahead.
SignalInv ==
  /\ ucmd.returnCode = "OK"
  /\ at \notin {"answer", "wait"} =>
       /\ ioSema = 0
       /\ ra.active => CountsDown(io_sem) /\ ucmd.cb
       /\ ~ra.active => flight = <<>> /\ io_sem = 0
  /\ at \in {"answer", "wait"} => io_sem = 0
  /\ at = "answer" /\ my.stage \in Control =>
       \/ flight = <<Packet("control")>> /\ ioSema = 0
       \/ flight = <<>> /\ ioSema = 1
  /\ at = "wait" \/ (at = "answer" /\ my.stage \in Scsi) => CountsDown(ioSema) /\ ~ucmd.cb

MassInv == MassTypes /\ PlaceInv /\ (~hurt => SignalInv)

\* A sum times a number.
LEMMA TimesSum == ASSUME NEW a \in Int, NEW b \in Int, NEW c \in Int PROVE (a + b) * c = a * c + b * c
  BY Z3

\* One more, times a number.
LEMMA OneMoreTime == ASSUME NEW a \in Int, NEW c \in Int PROVE (a + 1) * c = a * c + c
  BY TimesSum

\* Products of three numbers.
LEMMA TimesTimes == ASSUME NEW a \in Int, NEW b \in Int, NEW c \in Int PROVE (a * b) * c = a * (b * c)
  BY Z3

\* The sizes the code counts in.
LEMMA MassSizes ==
  /\ CdUnits \in Nat \ {0} /\ MAX_SIZE \in Nat \ {0} /\ MaxN \in Nat
  /\ SCSI_RA_SECTORS \in Nat \ {0} /\ MAX_USB_SECTORS \in Nat \ {0}
  /\ \A s \in SectorSizes : s \in Nat \ {0}
  BY MassAssumption

\* A store into a buffer.
LEMMA StoredIs ==
  ASSUME NEW L \in Int, NEW m \in Buffers(L), NEW p \in Int, NEW s \in Seq(Int)
  PROVE  /\ Stored(m, p, s) \in Buffers(L)
         /\ \A u \in 0 .. L - 1 :
              Stored(m, p, s)[u] = IF p <= u /\ u < p + Len(s) THEN s[u - p + 1] ELSE m[u]
<1>1. DOMAIN m = 0 .. L - 1 /\ DOMAIN Stored(m, p, s) = 0 .. L - 1 BY DEF Buffers, Stored
<1>2. ASSUME NEW u \in 0 .. L - 1
      PROVE  /\ Stored(m, p, s)[u] = IF p <= u /\ u < p + Len(s) THEN s[u - p + 1] ELSE m[u]
             /\ Stored(m, p, s)[u] \in Int
  <2>1. Stored(m, p, s)[u] = IF u - p + 1 \in DOMAIN s THEN s[u - p + 1] ELSE m[u] BY <1>1 DEF Stored
  <2>2. DOMAIN s = 1 .. Len(s) /\ Len(s) \in Nat BY LenProperties
  <2>3. u - p + 1 \in DOMAIN s <=> p <= u /\ u < p + Len(s) BY <2>2
  <2>4. m[u] \in Int BY DEF Buffers
  <2>5. u - p + 1 \in DOMAIN s => s[u - p + 1] \in Int BY <2>2
  <2> QED BY <2>1, <2>3, <2>4, <2>5
<1>3. Stored(m, p, s) = [u \in 0 .. L - 1 |-> Stored(m, p, s)[u]] BY <1>1 DEF Stored
<1> QED BY <1>2, <1>3 DEF Buffers

\* Units of the device, and of a buffer.
LEMMA UnitsAre ==
  ASSUME NEW from \in Int, NEW n \in Int
  PROVE  /\ Units(from, n) \in Seq(Int) /\ Len(Units(from, n)) = IF n > 0 THEN n ELSE 0
         /\ \A i \in 1 .. n : Units(from, n)[i] = from + i - 1
<1>1. CASE n > 0 BY <1>1 DEF Units
<1>2. CASE ~(n > 0)
  <2>1. 1 .. n = {} BY <1>2
  <2>2. Units(from, n) = <<>> BY <2>1 DEF Units
  <2> QED BY <1>2, <2>1, <2>2, EmptySeq
<1> QED BY <1>1, <1>2

\* A part of a buffer has the buffer's units.
LEMMA PartIs ==
  ASSUME NEW L \in Int, NEW m \in Buffers(L), NEW p \in Int, NEW n \in Int
  PROVE  /\ Part(m, p, n) \in Seq(Int) /\ Len(Part(m, p, n)) = IF n > 0 THEN n ELSE 0
         /\ \A i \in 1 .. n : 0 <= p + i - 1 /\ p + i - 1 < L => Part(m, p, n)[i] = m[p + i - 1]
<1>1. DOMAIN m = 0 .. L - 1 BY DEF Buffers
<1> DEFINE x(i) == IF p + i - 1 \in DOMAIN m THEN m[p + i - 1] ELSE Junk
<1>2. ASSUME NEW i \in 1 .. n PROVE x(i) \in Int /\ (0 <= p + i - 1 /\ p + i - 1 < L => x(i) = m[p + i - 1])
  BY <1>1 DEF Buffers, Junk
<1>3. Part(m, p, n) = [i \in 1 .. n |-> x(i)] BY DEF Part
<1> HIDE DEF x
<1>4. CASE n > 0 BY <1>2, <1>3, <1>4
<1>5. CASE ~(n > 0)
  <2>1. 1 .. n = {} BY <1>5
  <2>2. Part(m, p, n) = <<>> BY <1>3, <2>1
  <2> QED BY <1>5, <2>1, <2>2, EmptySeq
<1> QED BY <1>4, <1>5

\* A transfer of a command stays within its place, and takes it there from the
\* same place of the device.
Within(want, t) ==
  /\ want.p <= t.p /\ t.p + t.n <= want.p + want.count * S /\ t.from + want.p = t.p + want.sector * S
\* The transfers of a command: none is a control transfer; those of the data
\* bring each of its units, and stay within it.
LEMMA TransfersAre ==
  ASSUME NEW want \in UsbJobs, S \in Nat
  PROVE  /\ Transfers(want) \in Seq(UsbTransfers) /\ Len(Transfers(want)) > 0
         /\ \A k \in 1 .. Len(Transfers(want)) :
              /\ Transfers(want)[k].kind # "control"
              /\ \/ Transfers(want)[k].to = "none"
                 \/ Transfers(want)[k].to = want.to /\ Within(want, Transfers(want)[k])
         /\ \A i \in Nat : i < want.count * S =>
              \E k \in 1 .. Len(Transfers(want)) :
                /\ Transfers(want)[k].to = want.to
                /\ Transfers(want)[k].p <= want.p + i /\ want.p + i < Transfers(want)[k].p + Transfers(want)[k].n
<1> DEFINE total == want.count * S
           from(i) == (i - 1) * MAX_SIZE
           n(i) == Least(MAX_SIZE, total - from(i))
           piece(i) == [kind |-> "data", to |-> want.to, p |-> want.p + from(i), from |-> want.sector * S + from(i),
                        n |-> n(i)]
           K == (total + MAX_SIZE - 1) \div MAX_SIZE
           P == [i \in 1 .. K |-> piece(i)]
           T == <<Packet("cbw")>> \o P \o <<Packet("csw")>>
<1>a. T = Transfers(want) BY DEF Transfers
<1>b. MAX_SIZE \in Nat \ {0} BY MassSizes
<1>c. want.to \in Targets \ {"none"} /\ want.p \in Int /\ want.sector \in Int /\ want.count \in Nat BY DEF UsbJobs
<1>d. total \in Nat /\ want.sector * S \in Int BY <1>c
<1>1. K \in Nat /\ \A i \in 1 .. K : from(i) \in Nat /\ from(i) < total
  <2>1. total + MAX_SIZE - 1 \in Nat BY <1>b, <1>d
  <2>2. K \in Nat /\ K * MAX_SIZE <= total + MAX_SIZE - 1 BY <1>b, <2>1, InPart
  <2> HIDE DEF K, total
  <2>3. ASSUME NEW i \in 1 .. K PROVE from(i) \in Nat /\ from(i) < total
    <3>1. i - 1 \in Nat /\ i \in Nat /\ i <= K BY <2>2
    <3>2. i * MAX_SIZE <= K * MAX_SIZE /\ i * MAX_SIZE \in Nat /\ K * MAX_SIZE \in Nat /\ (i - 1) * MAX_SIZE \in Nat
      BY <1>b, <2>2, <3>1, PartTimes
    <3>3. i * MAX_SIZE = (i - 1) * MAX_SIZE + MAX_SIZE
      <4>1. PICK j \in Nat : j = i - 1 /\ i = j + 1 BY <3>1
      <4>2. (j + 1) * MAX_SIZE = j * MAX_SIZE + MAX_SIZE BY <1>b, OneMoreTime
      <4> QED BY <4>1, <4>2
    <3> QED BY <1>b, <1>d, <2>2, <3>2, <3>3
  <2> QED BY <2>2, <2>3
<1>2. \A i \in Nat : i < total => i \div MAX_SIZE + 1 \in 1 .. K /\ from(i \div MAX_SIZE + 1) <= i
                                   /\ i < from(i \div MAX_SIZE + 1) + MAX_SIZE
  <2> SUFFICES ASSUME NEW i \in Nat, i < total
               PROVE  i \div MAX_SIZE + 1 \in 1 .. K /\ from(i \div MAX_SIZE + 1) <= i
                      /\ i < from(i \div MAX_SIZE + 1) + MAX_SIZE
    OBVIOUS
  <2>1. PICK q \in Nat : q = i \div MAX_SIZE /\ q * MAX_SIZE <= i /\ i < (q + 1) * MAX_SIZE BY <1>b, InPart
  <2>2. q * MAX_SIZE \in Nat /\ (q + 1) * MAX_SIZE = q * MAX_SIZE + MAX_SIZE BY <1>b, PartTimes, OneMoreTime
  <2>3. from(q + 1) = q * MAX_SIZE BY <2>1
  <2>4. q + 1 <= K
    <3>1. total + MAX_SIZE - 1 \in Nat BY <1>b, <1>d
    <3>2. K \in Nat /\ total + MAX_SIZE - 1 < (K + 1) * MAX_SIZE BY <1>b, <3>1, InPart
    <3> HIDE DEF K, total
    <3> SUFFICES ASSUME K <= q PROVE FALSE BY <2>1, <3>2
    <3>3. K * MAX_SIZE <= q * MAX_SIZE /\ K * MAX_SIZE \in Nat BY <1>b, <2>1, <3>2, PartTimes
    <3>4. (K + 1) * MAX_SIZE = K * MAX_SIZE + MAX_SIZE BY <1>b, <3>2, OneMoreTime
    <3> QED BY <1>b, <1>d, <2>1, <2>2, <3>2, <3>3, <3>4
  <2> HIDE DEF K, from, total
  <2> QED BY <1>1, <2>1, <2>2, <2>3, <2>4
<1> HIDE DEF K, total
<1>3. \A i \in 1 .. K : piece(i) \in UsbTransfers /\ Within(want, piece(i))
  <2> SUFFICES ASSUME NEW i \in 1 .. K PROVE piece(i) \in UsbTransfers /\ Within(want, piece(i)) OBVIOUS
  <2>1. from(i) \in Nat /\ from(i) < total BY <1>1
  <2> HIDE DEF from
  <2>2. n(i) \in Int /\ n(i) <= total - from(i) BY <1>b, <1>d, <2>1 DEF Least
  <2> HIDE DEF n
  <2>3. PICK m \in Int : m = want.sector * S BY <1>d
  <2>4. want.p + from(i) \in Int /\ m + from(i) \in Int BY <1>c, <2>1
  <2>5. piece(i) \in UsbTransfers BY <1>c, <2>2, <2>3, <2>4 DEF UsbTransfers
  <2>6. piece(i).p = want.p + from(i) /\ piece(i).n = n(i) /\ piece(i).from = m + from(i) BY <2>3
  <2> HIDE DEF piece
  <2>7. want.count * S = total BY DEF total
  <2> QED BY <1>c, <1>d, <2>1, <2>2, <2>3, <2>5, <2>6, <2>7 DEF Within
<1>4. \A i \in 1 .. K : piece(i).to = want.to /\ piece(i).kind = "data" /\ piece(i).p = want.p + from(i)
                        /\ piece(i).n = n(i)
  OBVIOUS
<1> HIDE DEF piece
<1>5. P \in Seq(UsbTransfers) /\ Len(P) = K /\ \A i \in 1 .. K : P[i] = piece(i)
  BY <1>1, <1>3
<1> HIDE DEF P
<1>6. \A w \in {"cbw", "csw"} : Packet(w) \in UsbTransfers /\ Packet(w).kind = w /\ Packet(w).to = "none"
  BY DEF Packet, UsbTransfers, Targets
<1>7. <<Packet("cbw")>> \in Seq(UsbTransfers) /\ <<Packet("csw")>> \in Seq(UsbTransfers) BY <1>6
<1>8. T \in Seq(UsbTransfers) /\ Len(T) = K + 2 /\ T[1] = Packet("cbw") /\ T[K + 2] = Packet("csw")
      /\ \A i \in 1 .. K : T[i + 1] = piece(i)
  <2> DEFINE H == <<Packet("cbw")>> \o P
  <2>1. T = H \o <<Packet("csw")>> OBVIOUS
  <2> HIDE DEF T
  <2>2. H \in Seq(UsbTransfers) /\ Len(H) = K + 1 /\ H[1] = Packet("cbw") /\ \A i \in 1 .. K : H[i + 1] = piece(i)
    BY <1>1, <1>5, <1>7
  <2> HIDE DEF H
  <2> QED BY <1>1, <1>7, <2>1, <2>2
<1> HIDE DEF T
<1>9. ASSUME NEW k \in 1 .. Len(T)
      PROVE  T[k].kind # "control" /\ (T[k].to = "none" \/ (T[k].to = want.to /\ Within(want, T[k])))
  <2>1. CASE k = 1 BY <1>6, <1>8, <2>1
  <2>2. CASE k = K + 2 BY <1>6, <1>8, <2>2
  <2>3. CASE k # 1 /\ k # K + 2
    <3>1. PICK i \in 1 .. K : k = i + 1
      <4>1. k - 1 \in 1 .. K /\ k = (k - 1) + 1 BY <1>1, <1>8, <2>3
      <4> QED BY <4>1
    <3> QED BY <1>3, <1>4, <1>8, <3>1
  <2> QED BY <2>1, <2>2, <2>3
<1>10. ASSUME NEW i \in Nat, i < total
       PROVE  \E k \in 1 .. Len(T) : T[k].to = want.to /\ T[k].p <= want.p + i /\ want.p + i < T[k].p + T[k].n
  <2> DEFINE j == i \div MAX_SIZE + 1
  <2>1. j \in 1 .. K /\ from(j) <= i /\ i < from(j) + MAX_SIZE /\ from(j) \in Nat BY <1>1, <1>2, <1>10
  <2> HIDE DEF j
  <2>2. T[j + 1] = piece(j) /\ j + 1 \in 1 .. Len(T) BY <1>1, <1>8, <2>1
  <2>3. piece(j).to = want.to /\ piece(j).p = want.p + from(j) /\ piece(j).n = n(j) BY <1>4, <2>1
  <2> HIDE DEF from
  <2>4. n(j) \in Int /\ i < from(j) + n(j) BY <1>b, <1>d, <1>10, <2>1 DEF Least
  <2> HIDE DEF n
  <2>5. want.p + from(j) <= want.p + i /\ want.p + i < want.p + from(j) + n(j) BY <1>c, <2>1, <2>4
  <2> QED BY <2>2, <2>3, <2>5
<1> QED BY <1>a, <1>8, <1>9, <1>10, <1>1 DEF total
-----------------------------------------------------------------------------
(***************************************************************************)
(* Each signal is taken by the wait it is for.                             *)
(***************************************************************************)
\* The locals between two calls.
LEMMA IdleTyped == Idle \in UsbLocals
<1>1. NoJob \in UsbJobs BY DEF NoJob, UsbJobs, Targets
<1>2. <<>> \in Seq(ReadJobs) OBVIOUS
<1> QED BY <1>1, <1>2 DEF Idle, UsbLocals

\* Before the device is found there are no transfers and no signals.
LEMMA MassInitInv == MassInit => MassInv
<1> SUFFICES ASSUME MassInit PROVE MassInv OBVIOUS
<1>1. \A n \in Int : Fresh(n) \in Buffers(n) BY DEF Fresh, Buffers, Junk
<1>2. /\ SCSI_RA_SECTORS \in Int /\ 2 * CdUnits \in Int /\ MaxN * CdUnits \in Int
  BY MassSizes
<1>3. /\ ra_buffer \in Buffers(SCSI_RA_SECTORS) /\ gSectorBuffer \in Buffers(2 * CdUnits)
      /\ mem \in Buffers(MaxN * CdUnits)
  BY <1>1, <1>2 DEF MassInit
<1>4. dev \in UsbDevices /\ ucmd \in UsbCommands BY DEF MassInit, UsbDevices, UsbCommands
<1>5. ra \in [sector: Int, count: Nat, ptr: Nat, active: BOOLEAN] /\ last \in [sector: Int, count: Nat]
  BY DEF MassInit, NoSector
<1>6. my \in UsbLocals BY IdleTyped DEF MassInit
<1>7. MassTypes
  <2>1. flight \in Seq(UsbTransfers) BY DEF MassInit
  <2>2. ioSema \in {0, 1} /\ io_sem \in {0, 1} /\ at \in UsbPlaces /\ hurt \in BOOLEAN BY DEF MassInit, UsbPlaces
  <2> QED BY <1>3, <1>4, <1>5, <1>6, <2>1, <2>2 DEF MassTypes
<1>8. PlaceInv BY DEF MassInit, PlaceInv, Configuring
<1>9. SignalInv BY DEF MassInit, SignalInv
<1> QED BY <1>7, <1>8, <1>9 DEF MassInv

\* What a step of the configuration does next.
LEMMA ContinueIs ==
  ASSUME MassTypes, my.stage \in Control \cup Scsi, NEW result \in {"OK", "ERR"}, Continue(result)
  PROVE  /\ at' \in {"off", "send", "idle"} /\ my' \in UsbLocals /\ dev' \in UsbDevices
         /\ at' = "send" => my'.stage \in Control \cup Scsi
         /\ at' = "idle" => dev'.sectorSize \in SectorSizes
         /\ dev'.known = dev.known
<1>1. PICK next \in Follows(my.stage, result) :
        CASE next = "release" -> at' = "off" /\ my' = Idle /\ dev' = [dev EXCEPT !.status = {}]
          [] next = "ready" ->
               at' = "idle" /\ my' = Idle /\ \E s \in SectorSizes : dev' = [dev EXCEPT !.sectorSize = s]
          [] OTHER ->
               /\ at' = "send" /\ my' = [my EXCEPT !.stage = next]
               /\ dev' = [dev EXCEPT !.status = IF next = "max_lun" THEN @ \cup {"CONFIGURED"} ELSE @]
  BY DEF Continue
<1>2. next \in Control \cup Scsi \cup {"release", "ready"}
  <2>1. my.stage \in Control \/ my.stage \in Scsi OBVIOUS
  <2>2. CASE my.stage \in Control BY <2>2, <1>1 DEF Control, Scsi, Follows
  <2>3. CASE my.stage \in Scsi BY <2>3, <1>1 DEF Control, Scsi, Follows
  <2> QED BY <2>1, <2>2, <2>3
<1>3. dev \in UsbDevices /\ my \in UsbLocals BY DEF MassTypes
<1>4. CASE next = "release"
  <2>1. at' = "off" /\ my' = Idle /\ dev' = [dev EXCEPT !.status = {}] BY <1>1, <1>4
  <2>2. dev' \in UsbDevices /\ dev'.known = dev.known BY <1>3, <2>1 DEF UsbDevices
  <2> QED BY <2>1, <2>2, IdleTyped
<1>5. CASE next = "ready"
  <2>1. at' = "idle" /\ my' = Idle BY <1>1, <1>5
  <2>2. PICK s \in SectorSizes : dev' = [dev EXCEPT !.sectorSize = s] BY <1>1, <1>5
  <2>3. dev' \in UsbDevices /\ dev'.sectorSize = s /\ dev'.known = dev.known BY <1>3, <2>2 DEF UsbDevices
  <2> QED BY <2>1, <2>3, IdleTyped
<1>6. CASE next \in Control \cup Scsi
  <2>0. next # "release" /\ next # "ready" BY <1>6 DEF Control, Scsi
  <2>1. /\ at' = "send" /\ my' = [my EXCEPT !.stage = next]
        /\ dev' = [dev EXCEPT !.status = IF next = "max_lun" THEN @ \cup {"CONFIGURED"} ELSE @]
    BY <1>1, <2>0
  <2>2. dev' \in UsbDevices /\ dev'.known = dev.known BY <1>3, <2>1 DEF UsbDevices
  <2>3. my' \in UsbLocals /\ my'.stage = next BY <1>3, <1>6, <2>1 DEF UsbLocals
  <2> QED BY <1>6, <2>1, <2>2, <2>3
<1> QED BY <1>2, <1>4, <1>5, <1>6

\* The first transfer in flight, and those behind it.
LEMMA FlightHead ==
  ASSUME MassTypes, flight # <<>>
  PROVE  /\ Head(flight) \in UsbTransfers /\ Head(flight) = flight[1] /\ 1 \in 1 .. Len(flight)
         /\ Tail(flight) \in Seq(UsbTransfers) /\ Len(Tail(flight)) = Len(flight) - 1 /\ Len(flight) \in Nat
         /\ \A k \in 1 .. Len(Tail(flight)) : k + 1 \in 1 .. Len(flight) /\ Tail(flight)[k] = flight[k + 1]
<1>1. flight \in Seq(UsbTransfers) BY DEF MassTypes
<1> QED BY <1>1

\* What the callback of a transfer does.
LEMMA CallbackIs ==
  ASSUME MassTypes, NEW t \in UsbTransfers, NEW result \in {"OK", "ERR"}, scsi_cmd_callback(t, result)
  PROVE  /\ ucmd' \in UsbCommands /\ ioSema' \in {0, 1} /\ io_sem' \in {0, 1}
         /\ ucmd'.cb = ucmd.cb
         /\ t.kind = "control" => ioSema' = 1 /\ io_sem' = io_sem /\ ucmd'.returnCode = result
         /\ t.kind # "control" =>
              LET over == result # "OK" \/ ucmd.cmd_count = 1
              IN  /\ ucmd'.cmd_count = ucmd.cmd_count - 1
                  /\ ucmd'.returnCode = IF over THEN result ELSE ucmd.returnCode
                  /\ ioSema' = IF over /\ ~ucmd.cb THEN 1 ELSE ioSema
                  /\ io_sem' = IF over /\ ucmd.cb THEN 1 ELSE io_sem
<1>a. ucmd \in UsbCommands /\ ioSema \in {0, 1} /\ io_sem \in {0, 1} BY DEF MassTypes
<1>1. CASE t.kind = "control"
  <2>1. ioSema' = 1 /\ ucmd' = [ucmd EXCEPT !.returnCode = result] /\ io_sem' = io_sem
    BY <1>1, Zenon DEF scsi_cmd_callback
  <2> QED BY <1>a, <1>1, <2>1 DEF UsbCommands
<1>2. CASE t.kind # "control"
  <2> DEFINE over == result # "OK" \/ ucmd.cmd_count = 1
             r == IF over THEN result ELSE ucmd.returnCode
  <2>1. /\ ucmd' = [ucmd EXCEPT !.cmd_count = @ - 1, !.returnCode = IF over THEN result ELSE @]
        /\ ioSema' = IF over /\ ~ucmd.cb THEN 1 ELSE ioSema
        /\ io_sem' = IF over /\ ucmd.cb THEN 1 ELSE io_sem
    BY <1>2, Zenon DEF scsi_cmd_callback
  <2>2. r \in {"OK", "ERR"} BY <1>a DEF UsbCommands
  <2>3. ucmd' = [ucmd EXCEPT !.cmd_count = @ - 1, !.returnCode = r] BY <2>1, Zenon
  <2> HIDE DEF r
  <2>4. ucmd' \in UsbCommands /\ ucmd'.cb = ucmd.cb /\ ucmd'.cmd_count = ucmd.cmd_count - 1 /\ ucmd'.returnCode = r
    <3>1. ucmd.cmd_count - 1 \in Int BY <1>a DEF UsbCommands
    <3>2. ucmd' = [cmd_count |-> ucmd.cmd_count - 1, cb |-> ucmd.cb, returnCode |-> r]
      BY <1>a, <2>3 DEF UsbCommands
    <3> QED BY <1>a, <2>2, <3>1, <3>2 DEF UsbCommands
  <2>5. ioSema' \in {0, 1} /\ io_sem' \in {0, 1} BY <1>a, <2>1
  <2> QED BY <1>2, <2>1, <2>4, <2>5, Zenon DEF r
<1> QED BY <1>1, <1>2

\* A transfer moves its units into its buffer.
Moves(t, to, buf) == IF t.to = to THEN Stored(buf, t.p, Units(t.from, t.n)) ELSE buf
\* UsbDone, buffer by buffer.
LEMMA UsbDoneIs ==
  ASSUME UsbDone
  PROVE  /\ flight # <<>> /\ flight' = Tail(flight) /\ scsi_cmd_callback(Head(flight), "OK")
         /\ ra_buffer' = Moves(Head(flight), "ra", ra_buffer)
         /\ gSectorBuffer' = Moves(Head(flight), "sector", gSectorBuffer)
         /\ mem' = Moves(Head(flight), "mem", mem)
         /\ UNCHANGED <<dev, ra, last, at, my, hurt, fails>>
  BY DEF UsbDone, Moves

\* A buffer stays one of its size.
LEMMA MovesTyped ==
  ASSUME NEW t \in UsbTransfers, NEW to, NEW L \in Int, NEW buf \in Buffers(L)
  PROVE  Moves(t, to, buf) \in Buffers(L)
<1>1. t.p \in Int /\ t.from \in Int /\ t.n \in Int BY DEF UsbTransfers
<1>2. Units(t.from, t.n) \in Seq(Int) BY <1>1, UnitsAre
<1> QED BY <1>1, <1>2, StoredIs DEF Moves

\* The sizes of the buffers.
LEMMA BufferSizes == SCSI_RA_SECTORS \in Int /\ 2 * CdUnits \in Int /\ MaxN * CdUnits \in Int
  BY MassSizes

\* A transfer is done: the last of a command gives the signal its wait is for.
LEMMA UsbDoneKeeps == MassInv /\ UsbDone => MassInv'
<1> SUFFICES ASSUME MassInv, UsbDone PROVE MassInv' OBVIOUS
<1>a. MassTypes /\ PlaceInv /\ (~hurt => SignalInv) BY DEF MassInv
<1> DEFINE t == Head(flight)
<1>b. /\ flight # <<>> /\ flight' = Tail(flight) /\ scsi_cmd_callback(t, "OK")
      /\ UNCHANGED <<dev, ra, last, at, my, hurt, fails>>
  BY UsbDoneIs
<1>c. t \in UsbTransfers /\ flight' \in Seq(UsbTransfers) /\ Len(flight') = Len(flight) - 1 /\ Len(flight) \in Nat
      /\ t = flight[1] /\ 1 \in 1 .. Len(flight)
      /\ \A k \in 1 .. Len(flight') : k + 1 \in 1 .. Len(flight) /\ flight'[k] = flight[k + 1]
  BY <1>a, <1>b, FlightHead
<1>d. /\ ucmd' \in UsbCommands /\ ioSema' \in {0, 1} /\ io_sem' \in {0, 1} /\ ucmd'.cb = ucmd.cb
      /\ t.kind = "control" => ioSema' = 1 /\ io_sem' = io_sem /\ ucmd'.returnCode = "OK"
      /\ t.kind # "control" => /\ ucmd'.cmd_count = ucmd.cmd_count - 1
                               /\ ucmd'.returnCode = IF ucmd.cmd_count = 1 THEN "OK" ELSE ucmd.returnCode
                               /\ ioSema' = IF ucmd.cmd_count = 1 /\ ~ucmd.cb THEN 1 ELSE ioSema
                               /\ io_sem' = IF ucmd.cmd_count = 1 /\ ucmd.cb THEN 1 ELSE io_sem
  BY <1>a, <1>b, <1>c, CallbackIs
<1>1. /\ ra_buffer' \in Buffers(SCSI_RA_SECTORS) /\ gSectorBuffer' \in Buffers(2 * CdUnits)
      /\ mem' \in Buffers(MaxN * CdUnits)
  BY <1>a, <1>c, BufferSizes, UsbDoneIs, MovesTyped DEF MassTypes
<1> HIDE DEF t
<1>2. MassTypes' BY <1>a, <1>b, <1>c, <1>d, <1>1 DEF MassTypes
<1>3. PlaceInv' BY <1>a, <1>b DEF PlaceInv, S
<1>4. ASSUME ~hurt' PROVE SignalInv'
  <2>a. SignalInv BY <1>a, <1>b, <1>4
  <2>1. ucmd'.returnCode = "OK" BY <1>d, <2>a DEF SignalInv
  <2>2. ASSUME NEW sema, CountsDown(sema)
        PROVE  /\ t.kind # "control" /\ ucmd'.cmd_count = Len(flight')
               /\ (ucmd.cmd_count = 1 <=> flight' = <<>>) /\ sema = 0
               /\ \A k \in 1 .. Len(flight') : flight'[k].kind # "control"
    <3>1. t.kind # "control" /\ \A k \in 1 .. Len(flight') : flight'[k].kind # "control" BY <1>c, <2>2 DEF CountsDown
    <3>2. ucmd.cmd_count = Len(flight) /\ sema = 0 BY <1>b, <2>2 DEF CountsDown
    <3>3. Len(flight') = 0 <=> flight' = <<>> BY <1>c
    <3> QED BY <1>c, <1>d, <3>1, <3>2, <3>3
  <2>3. CASE at \notin {"answer", "wait"}
    <3>1. ra.active BY <1>b, <2>a, <2>3 DEF SignalInv
    <3>2. ioSema = 0 /\ CountsDown(io_sem) /\ ucmd.cb BY <2>a, <2>3, <3>1 DEF SignalInv
    <3>3. ioSema' = 0 /\ io_sem' = IF flight' = <<>> THEN 1 ELSE 0 BY <1>d, <2>2, <3>2
    <3>4. CountsDown(io_sem)' BY <2>2, <3>2, <3>3 DEF CountsDown
    <3> QED BY <1>b, <1>d, <2>1, <2>3, <3>1, <3>2, <3>3, <3>4 DEF SignalInv
  <2>4. CASE at = "answer" /\ my.stage \in Control
    <3>1. flight = <<Packet("control")>> /\ ioSema = 0 /\ io_sem = 0 BY <1>b, <2>a, <2>4 DEF SignalInv
    <3>2. t.kind = "control" BY <1>c, <3>1 DEF Packet
    <3>3. flight' = <<>> BY <1>c, <3>1
    <3>4. my.stage \notin Scsi BY <2>4 DEF Control, Scsi
    <3> QED BY <1>b, <1>d, <2>1, <2>4, <3>1, <3>2, <3>3, <3>4 DEF SignalInv
  <2>5. CASE at = "wait" \/ (at = "answer" /\ my.stage \in Scsi)
    <3>1. CountsDown(ioSema) /\ ~ucmd.cb /\ io_sem = 0 BY <2>a, <2>5 DEF SignalInv
    <3>2. io_sem' = 0 /\ ioSema' = IF flight' = <<>> THEN 1 ELSE 0 BY <1>d, <2>2, <3>1
    <3>3. CountsDown(ioSema)' BY <2>2, <3>1, <3>2 DEF CountsDown
    <3>4. at = "answer" => my.stage \notin Control BY <2>5 DEF Control, Scsi
    <3> QED BY <1>b, <1>d, <2>1, <2>5, <3>1, <3>2, <3>3, <3>4 DEF SignalInv
  <2> QED BY <1>a, <2>3, <2>4, <2>5 DEF PlaceInv
<1> QED BY <1>2, <1>3, <1>4 DEF MassInv

\* A transfer fails, after which the invariant promises nothing of the signals.
LEMMA UsbErrorKeeps == MassInv /\ UsbError => MassInv'
<1> SUFFICES ASSUME MassInv, UsbError PROVE MassInv' OBVIOUS
<1>a. MassTypes /\ PlaceInv BY DEF MassInv
<1>b. /\ flight # <<>> /\ flight' = Tail(flight) /\ scsi_cmd_callback(Head(flight), "ERR") /\ hurt' = TRUE
      /\ UNCHANGED <<dev, ra, last, ra_buffer, gSectorBuffer, mem, at, my>>
  BY DEF UsbError, Fails, buffers
<1>c. Head(flight) \in UsbTransfers /\ flight' \in Seq(UsbTransfers) BY <1>a, <1>b, FlightHead
<1>d. ucmd' \in UsbCommands /\ ioSema' \in {0, 1} /\ io_sem' \in {0, 1} BY <1>a, <1>b, <1>c, CallbackIs
<1>2. MassTypes' BY <1>a, <1>b, <1>c, <1>d DEF MassTypes
<1>3. PlaceInv' BY <1>a, <1>b DEF PlaceInv, S
<1> QED BY <1>b, <1>2, <1>3 DEF MassInv

\* A step of the thread between its commands.
BetweenCommands == {"idle", "part", "next", "ra", "copy", "return"}
\* Neither a transfer nor a signal is touched.
LEMMA MassMoved ==
  ASSUME MassInv, at \in BetweenCommands, at' \in BetweenCommands,
         UNCHANGED <<dev, ioSema, io_sem, ucmd, flight, ra, last, ra_buffer>>, my' \in UsbLocals,
         gSectorBuffer' \in Buffers(2 * CdUnits), mem' \in Buffers(MaxN * CdUnits),
         hurt' \in BOOLEAN, hurt => hurt'
  PROVE  MassInv'
<1>a. MassTypes /\ PlaceInv /\ (~hurt => SignalInv) BY DEF MassInv
<1>1. MassTypes' BY <1>a DEF MassTypes, BetweenCommands, UsbPlaces
<1>2. PlaceInv' BY <1>a DEF PlaceInv, BetweenCommands, Configuring, S
<1>3. ASSUME ~hurt' PROVE SignalInv'
  <2>1. SignalInv BY <1>a, <1>3
  <2>2. at \notin {"answer", "wait"} /\ at' \notin {"answer", "wait"} BY DEF BetweenCommands
  <2> QED BY <2>1, <2>2 DEF SignalInv, CountsDown
<1> QED BY <1>1, <1>2, <1>3 DEF MassInv

\* The device is found; nothing has been sent to it.
LEMMA ConnectKeeps == MassInv /\ mass_stor_connect => MassInv'
<1> SUFFICES ASSUME MassInv, mass_stor_connect PROVE MassInv' OBVIOUS
<1>a. MassTypes /\ PlaceInv /\ (~hurt => SignalInv) BY DEF MassInv
<1>b. /\ ~dev.known /\ dev' = [dev EXCEPT !.known = TRUE, !.status = {"DETECTED"}] /\ ioSema' = 0
      /\ UNCHANGED <<io_sem, ucmd, flight, ra, last, ra_buffer, gSectorBuffer, mem, at, my, hurt>>
  BY DEF mass_stor_connect, buffers
<1>c. at = "off" BY <1>a, <1>b DEF PlaceInv
<1>d. dev' \in UsbDevices BY <1>a, <1>b DEF MassTypes, UsbDevices
<1>1. MassTypes' BY <1>a, <1>b, <1>d DEF MassTypes
<1>2. PlaceInv' BY <1>a, <1>b, <1>c DEF PlaceInv, Configuring
<1>3. ~hurt' => SignalInv' BY <1>a, <1>b, <1>c DEF SignalInv, CountsDown
<1> QED BY <1>1, <1>2, <1>3 DEF MassInv

\* The thread begins to configure it.
LEMMA ConfigureKeeps == MassInv /\ mass_stor_configureDevice => MassInv'
<1> SUFFICES ASSUME MassInv, mass_stor_configureDevice PROVE MassInv' OBVIOUS
<1>a. MassTypes /\ PlaceInv /\ (~hurt => SignalInv) BY DEF MassInv
<1>b. /\ at = "off" /\ dev.known /\ at' = "send" /\ my' = [my EXCEPT !.stage = "set_configuration"]
      /\ UNCHANGED <<dev, ioSema, io_sem, ucmd, flight, ra, last, ra_buffer, gSectorBuffer, mem, hurt>>
  BY DEF mass_stor_configureDevice, buffers
<1>c. my' \in UsbLocals /\ my'.stage = "set_configuration"
  BY <1>a, <1>b DEF MassTypes, UsbLocals, Control
<1>1. MassTypes' BY <1>a, <1>b, <1>c DEF MassTypes, UsbPlaces
<1>2. PlaceInv' BY <1>a, <1>b, <1>c DEF PlaceInv, Configuring, Control
<1>3. ~hurt' => SignalInv' BY <1>a, <1>b DEF SignalInv, CountsDown
<1> QED BY <1>1, <1>2, <1>3 DEF MassInv

\* The transfers of a command that moves no data.
LEMMA SimpleTyped ==
  ASSUME NEW stage
  PROVE  /\ Simple(stage) \in Seq(UsbTransfers) /\ Len(Simple(stage)) > 0 /\ Simple(stage) # <<>>
         /\ \A k \in 1 .. Len(Simple(stage)) : Simple(stage)[k].kind # "control" /\ Simple(stage)[k].to = "none"
<1>1. \A w \in {"cbw", "data", "csw"} : Packet(w) \in UsbTransfers /\ Packet(w).kind = w /\ Packet(w).to = "none"
  BY DEF Packet, UsbTransfers, Targets
<1>2. PICK c \in UsbTransfers, d \in UsbTransfers, e \in UsbTransfers :
        c = Packet("cbw") /\ d = Packet("data") /\ e = Packet("csw")
  BY <1>1
<1>3. \A x \in {c, d, e} : x.kind # "control" /\ x.to = "none" BY <1>1, <1>2
<1>4. CASE stage \in {"test_unit_ready", "start_stop_unit"}
  <2>1. Simple(stage) = <<c, e>> BY <1>2, <1>4, Zenon DEF Simple
  <2>2. <<c, e>> \in Seq(UsbTransfers) /\ Len(<<c, e>>) = 2 OBVIOUS
  <2>3. \A k \in 1 .. Len(<<c, e>>) : <<c, e>>[k] \in {c, d, e} OBVIOUS
  <2> QED BY <1>3, <2>1, <2>2, <2>3
<1>5. CASE stage \notin {"test_unit_ready", "start_stop_unit"}
  <2>1. Simple(stage) = <<c, d, e>> BY <1>2, <1>5, Zenon DEF Simple
  <2>2. <<c, d, e>> \in Seq(UsbTransfers) /\ Len(<<c, d, e>>) = 3 OBVIOUS
  <2>3. \A k \in 1 .. Len(<<c, d, e>>) : <<c, d, e>>[k] \in {c, d, e} OBVIOUS
  <2> QED BY <1>3, <2>1, <2>2, <2>3
<1> QED BY <1>4, <1>5

\* A command is queued, behind nothing if nothing has failed, or some of it
\* (a failure).
LEMMA QueuedIs ==
  ASSUME MassTypes, NEW ts \in Seq(UsbTransfers), Len(ts) > 0, \A k \in 1 .. Len(ts) : ts[k].kind # "control",
         NEW cb \in BOOLEAN,
         ucmd' = [ucmd EXCEPT !.cmd_count = Len(ts), !.cb = cb], flight' = flight \o ts
  PROVE  /\ ucmd' \in UsbCommands /\ ucmd'.cb = cb /\ ucmd'.returnCode = ucmd.returnCode
         /\ flight' \in Seq(UsbTransfers)
         /\ flight = <<>> =>
              /\ flight' = ts /\ ucmd'.cmd_count = Len(flight') /\ flight' # <<>>
              /\ \A k \in 1 .. Len(flight') : flight'[k].kind # "control"
<1>1. ucmd \in UsbCommands /\ flight \in Seq(UsbTransfers) BY DEF MassTypes
<1>2. Len(ts) \in Nat /\ ts # <<>> OBVIOUS
<1>3. flight' \in Seq(UsbTransfers) /\ (flight = <<>> => flight' = ts) BY <1>1
<1>4. ucmd' \in UsbCommands /\ ucmd'.cmd_count = Len(ts) /\ ucmd'.cb = cb /\ ucmd'.returnCode = ucmd.returnCode
  <2>1. ucmd' = [cmd_count |-> Len(ts), cb |-> cb, returnCode |-> ucmd.returnCode] BY <1>1 DEF UsbCommands
  <2> QED BY <1>1, <1>2, <2>1 DEF UsbCommands
<1> QED BY <1>2, <1>3, <1>4

\* The stack has refused a transfer of a command.
LEMMA NotQueuedIs ==
  ASSUME MassTypes, NEW ts \in Seq(UsbTransfers), NEW cb \in BOOLEAN, NotQueued(ts, cb)
  PROVE  ucmd' \in UsbCommands /\ flight' \in Seq(UsbTransfers) /\ hurt' = TRUE
<1>1. ucmd \in UsbCommands /\ flight \in Seq(UsbTransfers) BY DEF MassTypes
<1>2. PICK k \in 0 .. Len(ts) - 1 :
        ucmd' = [ucmd EXCEPT !.cmd_count = k + 1, !.cb = cb] /\ flight' = flight \o SubSeq(ts, 1, k)
  BY DEF NotQueued
<1>3. k \in Nat /\ k <= Len(ts) /\ k + 1 \in Int BY <1>2
<1>4. SubSeq(ts, 1, k) \in Seq(UsbTransfers) BY <1>3
<1>5. flight' \in Seq(UsbTransfers) BY <1>1, <1>2, <1>4
<1>6. ucmd' \in UsbCommands BY <1>1, <1>2, <1>3 DEF UsbCommands
<1> QED BY <1>5, <1>6 DEF NotQueued, Fails

\* A command of the configuration is sent, or refused.
LEMMA StageSendKeeps == MassInv /\ StageSend => MassInv'
<1> SUFFICES ASSUME MassInv, StageSend PROVE MassInv' OBVIOUS
<1>a. MassTypes /\ PlaceInv /\ (~hurt => SignalInv) BY DEF MassInv
<1>b. /\ at = "send" /\ my.stage \in Control \cup Scsi /\ ra.count = 0 /\ ~ra.active /\ dev.known
      /\ UNCHANGED <<ioSema, io_sem, ra, last, ra_buffer, gSectorBuffer, mem>>
  BY <1>a DEF StageSend, buffers, PlaceInv, Configuring
<1>1. CASE /\ my.stage \in Control
           /\ flight' = Append(flight, Packet("control"))
           /\ at' = "answer" /\ UNCHANGED <<dev, ucmd, my, hurt, fails>>
  <2>1. Packet("control") \in UsbTransfers BY DEF Packet, UsbTransfers, Targets
  <2>2. flight' \in Seq(UsbTransfers) /\ (flight = <<>> => flight' = <<Packet("control")>>)
    <3>1. flight \in Seq(UsbTransfers) BY <1>a DEF MassTypes
    <3>2. flight' = Append(flight, Packet("control")) BY <1>1
    <3>3. flight' \in Seq(UsbTransfers) BY <2>1, <3>1, <3>2, AppendProperties
    <3>4. flight = <<>> => flight' = <<Packet("control")>> BY <3>2
    <3> QED BY <3>3, <3>4
  <2>3. MassTypes' BY <1>1, <1>a, <1>b, <2>2 DEF MassTypes, UsbPlaces
  <2>4. PlaceInv' BY <1>1, <1>b DEF PlaceInv, Configuring
  <2>5. ASSUME ~hurt' PROVE SignalInv'
    <3>1. SignalInv BY <1>1, <1>a, <2>5
    <3>2. flight = <<>> /\ ioSema = 0 /\ io_sem = 0 /\ ucmd.returnCode = "OK" BY <1>b, <3>1 DEF SignalInv
    <3>3. my.stage \notin Scsi BY <1>1 DEF Control, Scsi
    <3> QED BY <1>1, <1>b, <2>2, <3>2, <3>3 DEF SignalInv
  <2> QED BY <2>3, <2>4, <2>5 DEF MassInv
<1>2. CASE Continue("ERR") /\ hurt' = TRUE /\ ucmd' \in UsbCommands /\ flight' \in Seq(UsbTransfers)
  <2>1. /\ at' \in {"off", "send", "idle"} /\ my' \in UsbLocals /\ dev' \in UsbDevices
        /\ at' = "send" => my'.stage \in Control \cup Scsi
        /\ at' = "idle" => dev'.sectorSize \in SectorSizes
        /\ dev'.known = dev.known
    BY <1>2, <1>a, <1>b, ContinueIs
  <2>2. MassTypes' BY <1>2, <1>a, <1>b, <2>1 DEF MassTypes, UsbPlaces
  <2>3. PlaceInv' BY <1>b, <2>1 DEF PlaceInv, Configuring, S
  <2> QED BY <1>2, <2>2, <2>3 DEF MassInv
<1>3. CASE my.stage \in Scsi /\ Queued(Simple(my.stage), FALSE) /\ at' = "answer" /\ UNCHANGED <<dev, my>>
  <2>s. PICK q \in Seq(UsbTransfers) :
          q = Simple(my.stage) /\ Len(q) > 0 /\ \A k \in 1 .. Len(q) : q[k].kind # "control"
    BY SimpleTyped
  <2>1. /\ ucmd' = [ucmd EXCEPT !.cmd_count = Len(q), !.cb = FALSE] /\ flight' = flight \o q
        /\ UNCHANGED hurt
    BY <1>3, <2>s DEF Queued
  <2>2. /\ ucmd' \in UsbCommands /\ ucmd'.cb = FALSE /\ ucmd'.returnCode = ucmd.returnCode
        /\ flight' \in Seq(UsbTransfers)
        /\ flight = <<>> =>
             /\ flight' = q /\ ucmd'.cmd_count = Len(flight') /\ flight' # <<>>
             /\ \A k \in 1 .. Len(flight') : flight'[k].kind # "control"
    BY <1>a, <2>s, <2>1, QueuedIs
  <2>3. MassTypes' BY <1>3, <1>a, <1>b, <2>1, <2>2 DEF MassTypes, UsbPlaces
  <2>4. PlaceInv' BY <1>3, <1>b DEF PlaceInv, Configuring
  <2>5. ASSUME ~hurt' PROVE SignalInv'
    <3>1. SignalInv BY <1>a, <2>1, <2>5
    <3>2. flight = <<>> /\ ioSema = 0 /\ io_sem = 0 /\ ucmd.returnCode = "OK" BY <1>b, <3>1 DEF SignalInv
    <3>3. my.stage \notin Control BY <1>3 DEF Control, Scsi
    <3>4. CountsDown(ioSema)' BY <1>b, <2>2, <3>2 DEF CountsDown
    <3> QED BY <1>3, <1>b, <2>2, <3>2, <3>3, <3>4 DEF SignalInv
  <2> QED BY <2>3, <2>4, <2>5 DEF MassInv
<1>4. CASE my.stage \in Control /\ Fails /\ Continue("ERR") /\ UNCHANGED <<flight, ucmd>>
  BY <1>2, <1>4, <1>a DEF Fails, MassTypes
<1>5. CASE my.stage \in Scsi /\ NotQueued(Simple(my.stage), FALSE) /\ Continue("ERR")
  BY <1>2, <1>5, <1>a, NotQueuedIs, SimpleTyped
<1> QED BY <1>1, <1>3, <1>4, <1>5, Zenon DEF StageSend

\* Its signal is taken: no transfer of it is left.
LEMMA StageDoneKeeps == MassInv /\ StageDone => MassInv'
<1> SUFFICES ASSUME MassInv, StageDone PROVE MassInv' OBVIOUS
<1>a. MassTypes /\ PlaceInv /\ (~hurt => SignalInv) BY DEF MassInv
<1>b. /\ at = "answer" /\ my.stage \in Control \cup Scsi /\ ra.count = 0 /\ ~ra.active /\ dev.known
      /\ ioSema = 1 /\ ioSema' = 0 /\ Continue(ucmd.returnCode)
      /\ UNCHANGED <<io_sem, ucmd, flight, ra, last, ra_buffer, gSectorBuffer, mem, hurt>>
  BY <1>a DEF StageDone, buffers, PlaceInv, Configuring
<1>c. ucmd.returnCode \in {"OK", "ERR"} BY <1>a DEF MassTypes, UsbCommands
<1>1. /\ at' \in {"off", "send", "idle"} /\ my' \in UsbLocals /\ dev' \in UsbDevices
      /\ at' = "send" => my'.stage \in Control \cup Scsi
      /\ at' = "idle" => dev'.sectorSize \in SectorSizes
      /\ dev'.known = dev.known
  BY <1>a, <1>b, <1>c, ContinueIs
<1>2. MassTypes' BY <1>a, <1>b, <1>1 DEF MassTypes, UsbPlaces
<1>3. PlaceInv' BY <1>b, <1>1 DEF PlaceInv, Configuring, S
<1>4. ASSUME ~hurt' PROVE SignalInv'
  <2>1. SignalInv BY <1>a, <1>b, <1>4
  <2>2. flight = <<>> /\ io_sem = 0 /\ ucmd.returnCode = "OK"
    <3>1. CASE my.stage \in Control BY <1>b, <2>1, <3>1 DEF SignalInv
    <3>2. CASE my.stage \in Scsi BY <1>b, <2>1, <3>2 DEF SignalInv, CountsDown
    <3> QED BY <1>b, <3>1, <3>2
  <2> QED BY <1>b, <1>1, <2>2 DEF SignalInv
<1> QED BY <1>2, <1>3, <1>4 DEF MassInv

\* A call begins, and ends.
LEMMA UsbCallKeeps == MassInv /\ UsbReadSectors => MassInv'
<1> SUFFICES ASSUME MassInv, UsbReadSectors PROVE MassInv' OBVIOUS
<1>a. MassTypes BY DEF MassInv
<1>1. PICK r \in Reads : my' = [Idle EXCEPT !.call = r, !.reads = PartReads(r.lsn, r.n)]
  BY DEF UsbReadSectors
<1>2. /\ at = "idle" /\ at' = "part"
      /\ UNCHANGED <<dev, ioSema, io_sem, ucmd, flight, ra, last, ra_buffer, gSectorBuffer, mem, hurt>>
  BY DEF UsbReadSectors, buffers
<1>3. r.lsn \in Nat /\ r.n \in Nat BY MassAssumption
<1>4. PartReads(r.lsn, r.n) \in Seq(ReadJobs) BY <1>3, PartReadsAre
<1>5. Idle \in UsbLocals BY IdleTyped
<1>6. my' \in UsbLocals
  <2>1. PICK R \in Seq(ReadJobs) : R = PartReads(r.lsn, r.n) BY <1>4
  <2>2. my' = [Idle EXCEPT !.call = r, !.reads = R] BY <1>1, <2>1
  <2> QED BY <1>5, <2>2 DEF UsbLocals
<1> QED BY <1>a, <1>2, <1>6, MassMoved DEF BetweenCommands, MassTypes

\* The end of a part's read, and of the call.
LEMMA MassReturnKeeps == MassInv /\ (PartsDone \/ ReadCDReturn \/ Returned) => MassInv'
<1> SUFFICES ASSUME MassInv, PartsDone \/ ReadCDReturn \/ Returned PROVE MassInv' OBVIOUS
<1>a. MassTypes BY DEF MassInv
<1>1. CASE PartsDone \/ ReadCDReturn
  BY <1>a, <1>1, MassMoved DEF BetweenCommands, PartsDone, ReadCDReturn, buffers, MassTypes
<1>2. CASE Returned
  <2>1. /\ at = "return" /\ at' = "idle" /\ my' = Idle /\ mem' = Fresh(MaxN * CdUnits)
        /\ UNCHANGED <<dev, ioSema, io_sem, ucmd, flight, ra, last, ra_buffer, gSectorBuffer, hurt>>
    BY <1>2 DEF Returned
  <2>2. mem' \in Buffers(MaxN * CdUnits) BY <2>1, BufferSizes DEF Fresh, Buffers, Junk
  <2> QED BY <1>a, <2>1, <2>2, IdleTyped, MassMoved DEF BetweenCommands, MassTypes
<1> QED BY <1>1, <1>2

\* The size of a sector, once anything is read.
LEMMA SectorSize ==
  ASSUME MassInv, at \notin Configuring
  PROVE  S \in SectorSizes /\ S \in Nat \ {0} /\ (CdUnits % S = 0 \/ S = 2 * CdUnits)
  BY MassAssumption DEF MassInv, PlaceInv

\* Quotients are numbers.
LEMMA IntDiv == ASSUME NEW x \in Int, NEW P \in Nat \ {0} PROVE x \div P \in Int
  OBVIOUS

\* The read of a part begins.
LEMMA ReadCDKeeps == MassInv /\ mass_stor_ReadCD => MassInv'
<1> SUFFICES ASSUME MassInv, mass_stor_ReadCD PROVE MassInv' OBVIOUS
<1>a. MassTypes /\ my \in UsbLocals BY DEF MassInv, MassTypes
<1> DEFINE r == Head(my.reads)
           big == S > CdUnits
           lba == LBAs[r.part] + IF big THEN r.lsn \div 2 ELSE r.lsn * (CdUnits \div S)
           odd == big /\ r.lsn % 2 > 0
           want == IF odd THEN [sector |-> lba, count |-> 1, to |-> "sector", p |-> 0] ELSE NoJob
           half == IF odd THEN "second" ELSE "none"
<1>1. /\ at = "part" /\ my.reads # <<>> /\ at' = IF odd THEN "ra" ELSE "next"
      /\ my' = [my EXCEPT !.reads = Tail(@), !.left = r.n, !.lba = lba, !.p = r.p * CdUnits,
                          !.job = want, !.half = half]
      /\ UNCHANGED <<dev, ioSema, io_sem, ucmd, flight, ra, last, ra_buffer, gSectorBuffer, mem, hurt>>
  BY DEF mass_stor_ReadCD, buffers
<1>2. my.reads \in Seq(ReadJobs) BY <1>a DEF UsbLocals
<1>3. r \in ReadJobs /\ Tail(my.reads) \in Seq(ReadJobs) BY <1>1, <1>2
<1>4. S \in Nat \ {0} BY <1>1, SectorSize DEF Configuring
<1>5. lba \in Int
  <2>1. r.part \in 1 .. NumParts /\ r.lsn \in Nat BY <1>3 DEF ReadJobs
  <2>2. LBAs[r.part] \in Nat BY <2>1, MassAssumption
  <2>3. CdUnits \div S \in Int BY <1>4, IntDiv, MassSizes
  <2>4. r.lsn * (CdUnits \div S) \in Int /\ r.lsn \div 2 \in Int BY <2>1, <2>3
  <2> HIDE DEF r
  <2> QED BY <2>2, <2>4
<1>6. r.n \in Int /\ r.p * CdUnits \in Int
  <2>1. r.n \in Nat /\ r.p \in Nat BY <1>3 DEF ReadJobs
  <2>2. CdUnits \in Nat BY MassSizes
  <2> HIDE DEF r
  <2> QED BY <2>1, <2>2
<1> HIDE DEF lba, r
<1>7. want \in UsbJobs BY <1>5 DEF UsbJobs, NoJob, Targets
<1>8. half \in {"none", "first", "second"} OBVIOUS
<1> HIDE DEF want, half, odd
<1>9. my' \in UsbLocals
  <2>1. PICK R \in Seq(ReadJobs) : R = Tail(my.reads) BY <1>3
  <2>2. PICK q \in Int : q = r.p * CdUnits BY <1>6
  <2>3. my' = [my EXCEPT !.reads = R, !.left = r.n, !.lba = lba, !.p = q, !.job = want, !.half = half]
    BY <1>1, <2>1, <2>2
  <2> QED BY <1>a, <1>5, <1>6, <1>7, <1>8, <2>3 DEF UsbLocals
<1> QED BY <1>a, <1>1, <1>9, MassMoved DEF BetweenCommands, MassTypes

\* The next command of a read, and what follows it.
LEMMA ChunkTyped ==
  ASSUME MassInv, at \notin Configuring
  PROVE  /\ Chunk \in Int /\ DiskSectorsToRead \in Int
         /\ my.left > 0 => Chunk \in Nat \ {0} /\ DiskSectorsToRead \in Nat
<1>1. my.left \in Int /\ MAX_USB_SECTORS \in Nat \ {0} /\ CdUnits \in Nat /\ S \in Nat \ {0}
  BY SectorSize, MassSizes DEF MassInv, MassTypes, UsbLocals
<1>2. Chunk \in Int /\ (my.left > 0 => Chunk \in Nat \ {0}) BY <1>1 DEF Chunk, Least
<1>3. Chunk * CdUnits \in Int BY <1>1, <1>2
<1>4. my.left > 0 => Chunk * CdUnits \in Nat BY <1>1, <1>2, PartTimes
<1>5. DiskSectorsToRead \in Int BY <1>1, <1>3, IntDiv DEF DiskSectorsToRead
<1>6. my.left > 0 => DiskSectorsToRead \in Nat BY <1>1, <1>4, InPart DEF DiskSectorsToRead
<1> QED BY <1>2, <1>5, <1>6

\* The next command of a read is chosen.
LEMMA ReadCDNextKeeps == MassInv /\ ReadCDNext => MassInv'
<1> SUFFICES ASSUME MassInv, ReadCDNext PROVE MassInv' OBVIOUS
<1>a. MassTypes /\ my \in UsbLocals BY DEF MassInv, MassTypes
<1> DEFINE k == DiskSectorsToRead
           half == IF k = 0 THEN "first" ELSE "none"
           want == IF k = 0 THEN [sector |-> my.lba, count |-> 1, to |-> "sector", p |-> 0]
                  ELSE [sector |-> my.lba, count |-> k, to |-> "mem", p |-> my.p]
<1>1. /\ at = "next" /\ my.left > 0 /\ at' = "ra" /\ my' = [my EXCEPT !.half = half, !.job = want]
      /\ hurt' = (hurt \/ (k > 0 /\ k * S < Chunk * CdUnits))
      /\ UNCHANGED <<dev, ioSema, io_sem, ucmd, flight, ra, last, ra_buffer, gSectorBuffer, mem>>
  BY DEF ReadCDNext, buffers
<1>2. k \in Nat BY <1>1, ChunkTyped DEF Configuring
<1>3. my.lba \in Int /\ my.p \in Int BY <1>a DEF UsbLocals
<1> HIDE DEF k
<1>4. want \in UsbJobs /\ half \in {"none", "first", "second"} BY <1>2, <1>3 DEF UsbJobs, Targets
<1> HIDE DEF want, half
<1>5. my' \in UsbLocals BY <1>a, <1>1, <1>4 DEF UsbLocals
<1>6. hurt' \in BOOLEAN /\ (hurt => hurt') BY <1>1
<1> QED BY <1>a, <1>1, <1>5, <1>6, MassMoved DEF BetweenCommands, MassTypes

\* What it read is copied.
LEMMA CopyKeeps == MassInv /\ Copy => MassInv'
<1> SUFFICES ASSUME MassInv, Copy PROVE MassInv' OBVIOUS
<1>a. MassTypes /\ my \in UsbLocals /\ mem \in Buffers(MaxN * CdUnits) /\ gSectorBuffer \in Buffers(2 * CdUnits)
  BY DEF MassInv, MassTypes
<1> DEFINE done == IF my.half = "second" THEN 1 ELSE Chunk
           on == IF my.half = "second" THEN 1 ELSE DiskSectorsToRead
           from(h) == Part(gSectorBuffer, h, CdUnits)
<1>1. /\ at = "copy" /\ at' = "next"
      /\ mem' = CASE my.half = "second" -> Stored(mem, my.p, from(CdUnits))
                  [] my.half = "first" -> Stored(mem, my.p, from(0))
                  [] OTHER -> mem
      /\ my' = [my EXCEPT !.left = @ - done, !.p = @ + done * CdUnits, !.lba = @ + on]
      /\ UNCHANGED <<dev, ioSema, io_sem, ucmd, flight, ra, last, ra_buffer, gSectorBuffer, hurt>>
  BY DEF Copy
<1>2. done \in Int /\ on \in Int BY <1>1, ChunkTyped DEF Configuring
<1>3. my.p \in Int /\ my.left \in Int /\ my.lba \in Int BY <1>a DEF UsbLocals
<1>4. \A h \in Int : from(h) \in Seq(Int) BY <1>a, BufferSizes, MassSizes, PartIs
<1>5. CdUnits \in Int BY MassSizes
<1> HIDE DEF from, done, on
<1>6. mem' \in Buffers(MaxN * CdUnits)
  <2>1. \A h \in Int : Stored(mem, my.p, from(h)) \in Buffers(MaxN * CdUnits)
    BY <1>a, <1>3, <1>4, BufferSizes, StoredIs
  <2> QED BY <1>a, <1>1, <1>5, <2>1
<1>7. my' \in UsbLocals
  <2>1. PICK q \in Int : q = my.p + done * CdUnits BY <1>2, <1>3, <1>5
  <2>2. my.left - done \in Int /\ my.lba + on \in Int BY <1>2, <1>3
  <2>3. my' = [my EXCEPT !.left = my.left - done, !.p = q, !.lba = my.lba + on] BY <1>1, <2>1
  <2> QED BY <1>a, <2>2, <2>3 DEF UsbLocals
<1> QED BY <1>a, <1>1, <1>6, <1>7, MassMoved DEF BetweenCommands, MassTypes

\* The end of a read-ahead is taken.
LEMMA RaWaitKeeps == MassInv /\ RaWait => MassInv'
<1> SUFFICES ASSUME MassInv, RaWait PROVE MassInv' OBVIOUS
<1>a. MassTypes /\ PlaceInv /\ (~hurt => SignalInv) BY DEF MassInv
<1>1. /\ at = "ra" /\ ra.active /\ io_sem = 1 /\ io_sem' = 0 /\ ra' = [ra EXCEPT !.active = FALSE]
      /\ UNCHANGED <<dev, ioSema, ucmd, flight, last, ra_buffer, gSectorBuffer, mem, at, my, hurt>>
  BY DEF RaWait, buffers
<1>2. ra' \in [sector: Int, count: Nat, ptr: Nat, active: BOOLEAN] /\ ~ra'.active
  BY <1>a, <1>1 DEF MassTypes
<1>3. MassTypes' BY <1>a, <1>1, <1>2 DEF MassTypes
<1>4. PlaceInv' BY <1>a, <1>1, <1>2 DEF PlaceInv, Configuring, S
<1>5. ~hurt' => SignalInv' BY <1>a, <1>1, <1>2 DEF SignalInv, CountsDown
<1> QED BY <1>3, <1>4, <1>5 DEF MassInv

\* What was read ahead is copied.
LEMMA RaHitKeeps == MassInv /\ RaHit => MassInv'
<1> SUFFICES ASSUME MassInv, RaHit PROVE MassInv' OBVIOUS
<1>a. MassTypes /\ PlaceInv /\ (~hurt => SignalInv) BY DEF MassInv
<1> DEFINE from == Part(ra_buffer, ra.ptr, my.job.count * S)
<1>1. /\ at = "ra" /\ ~ra.active /\ Hit /\ at' = "ahead" /\ Into(my.job.to, my.job.p, from)
      /\ ra' = [ra EXCEPT !.sector = @ + my.job.count, !.count = @ - my.job.count, !.ptr = @ + my.job.count]
      /\ hurt' = (hurt \/ (S # 1 /\ ra.count > my.job.count))
      /\ UNCHANGED <<dev, ioSema, io_sem, ucmd, flight, last, ra_buffer, my>>
  BY DEF RaHit
<1>2. my.job \in UsbJobs /\ my \in UsbLocals BY <1>a DEF MassTypes, UsbLocals
<1>3. my.job.count \in Nat /\ my.job.p \in Int BY <1>2 DEF UsbJobs
<1>4. from \in Seq(Int)
  <2>1. S \in Nat BY <1>1, SectorSize DEF Configuring
  <2>2. my.job.count * S \in Int /\ ra.ptr \in Int BY <1>a, <1>3, <2>1 DEF MassTypes
  <2> QED BY <1>a, <2>2, BufferSizes, PartIs DEF MassTypes
<1> HIDE DEF from
<1>5. mem' \in Buffers(MaxN * CdUnits) /\ gSectorBuffer' \in Buffers(2 * CdUnits)
  <2>1. mem \in Buffers(MaxN * CdUnits) /\ gSectorBuffer \in Buffers(2 * CdUnits) BY <1>a DEF MassTypes
  <2>2. Stored(mem, my.job.p, from) \in Buffers(MaxN * CdUnits) BY <1>3, <1>4, <2>1, BufferSizes, StoredIs
  <2>3. Stored(gSectorBuffer, my.job.p, from) \in Buffers(2 * CdUnits) BY <1>3, <1>4, <2>1, BufferSizes, StoredIs
  <2> QED BY <1>1, <2>1, <2>2, <2>3 DEF Into
<1>6. ra' \in [sector: Int, count: Nat, ptr: Nat, active: BOOLEAN] /\ ra'.active = ra.active
  <2>1. ra \in [sector: Int, count: Nat, ptr: Nat, active: BOOLEAN] BY <1>a DEF MassTypes
  <2>2. ra.sector + my.job.count \in Int /\ ra.count - my.job.count \in Nat /\ ra.ptr + my.job.count \in Nat
    BY <1>1, <1>3, <2>1 DEF Hit
  <2>3. ra' = [ra EXCEPT !.sector = ra.sector + my.job.count, !.count = ra.count - my.job.count,
                         !.ptr = ra.ptr + my.job.count]
    BY <1>1
  <2> QED BY <2>1, <2>2, <2>3
<1>7. hurt' \in BOOLEAN /\ (hurt => hurt') BY <1>1
<1>8. MassTypes' BY <1>a, <1>1, <1>2, <1>5, <1>6, <1>7 DEF MassTypes, UsbPlaces
<1>9. PlaceInv' BY <1>a, <1>1, <1>6 DEF PlaceInv, Configuring, S
<1>10. ASSUME ~hurt' PROVE SignalInv'
  <2>1. SignalInv BY <1>a, <1>7, <1>10
  <2> QED BY <1>1, <1>6, <2>1 DEF SignalInv, CountsDown
<1> QED BY <1>8, <1>9, <1>10 DEF MassInv

\* A command is sent for what is to be read, and its end is taken.
LEMMA SectorReadKeeps == MassInv /\ SectorRead => MassInv'
<1> SUFFICES ASSUME MassInv, SectorRead PROVE MassInv' OBVIOUS
<1>a. MassTypes /\ PlaceInv /\ (~hurt => SignalInv) BY DEF MassInv
<1> DEFINE ts == Transfers(my.job)
<1>1. /\ at = "ra" /\ ~ra.active
      /\ UNCHANGED <<dev, ioSema, io_sem, ra, last, ra_buffer, gSectorBuffer, mem, my>>
  BY DEF SectorRead, buffers
<1>2. \/ Queued(ts, FALSE) /\ at' = "wait"
      \/ NotQueued(ts, FALSE) /\ at' = "copy"
  BY DEF SectorRead
<1>3. ts \in Seq(UsbTransfers) /\ Len(ts) > 0 /\ \A k \in 1 .. Len(ts) : ts[k].kind # "control"
  <2>1. my.job \in UsbJobs BY <1>a DEF MassTypes, UsbLocals
  <2>2. S \in Nat BY <1>1, SectorSize DEF Configuring
  <2> QED BY <2>1, <2>2, TransfersAre
<1> HIDE DEF ts
<1>4. CASE Queued(ts, FALSE) /\ at' = "wait"
  <2>1. ucmd' = [ucmd EXCEPT !.cmd_count = Len(ts), !.cb = FALSE] /\ flight' = flight \o ts /\ UNCHANGED hurt
    BY <1>4 DEF Queued
  <2>2. /\ ucmd' \in UsbCommands /\ ucmd'.cb = FALSE /\ ucmd'.returnCode = ucmd.returnCode
        /\ flight' \in Seq(UsbTransfers)
        /\ flight = <<>> =>
             /\ flight' = ts /\ ucmd'.cmd_count = Len(flight') /\ flight' # <<>>
             /\ \A k \in 1 .. Len(flight') : flight'[k].kind # "control"
    BY <1>a, <1>3, <2>1, QueuedIs
  <2>3. MassTypes' BY <1>4, <1>a, <1>1, <2>1, <2>2 DEF MassTypes, UsbPlaces
  <2>4. PlaceInv' BY <1>4, <1>a, <1>1 DEF PlaceInv, Configuring, S
  <2>5. ASSUME ~hurt' PROVE SignalInv'
    <3>1. SignalInv BY <1>a, <2>1, <2>5
    <3>2. flight = <<>> /\ ioSema = 0 /\ io_sem = 0 /\ ucmd.returnCode = "OK" BY <1>1, <3>1 DEF SignalInv
    <3>3. CountsDown(ioSema)' BY <1>1, <2>2, <3>2 DEF CountsDown
    <3> QED BY <1>4, <1>1, <2>2, <3>2, <3>3 DEF SignalInv
  <2> QED BY <2>3, <2>4, <2>5 DEF MassInv
<1>5. CASE NotQueued(ts, FALSE) /\ at' = "copy"
  <2>1. ucmd' \in UsbCommands /\ flight' \in Seq(UsbTransfers) /\ hurt' = TRUE
    BY <1>a, <1>3, <1>5, NotQueuedIs
  <2>3. MassTypes' BY <1>5, <1>a, <1>1, <2>1 DEF MassTypes, UsbPlaces
  <2>4. PlaceInv' BY <1>5, <1>a, <1>1 DEF PlaceInv, Configuring, S
  <2> QED BY <2>1, <2>3, <2>4 DEF MassInv
<1> QED BY <1>2, <1>4, <1>5

\* The signal is that of the last transfer of the command.
LEMMA SectorDoneKeeps == MassInv /\ SectorDone => MassInv'
<1> SUFFICES ASSUME MassInv, SectorDone PROVE MassInv' OBVIOUS
<1>a. MassTypes /\ PlaceInv /\ (~hurt => SignalInv) BY DEF MassInv
<1>1. /\ at = "wait" /\ ioSema = 1 /\ ioSema' = 0 /\ at' \in {"ahead", "copy"} /\ ~ra.active
      /\ UNCHANGED <<dev, io_sem, ucmd, flight, ra, last, ra_buffer, gSectorBuffer, mem, my, hurt>>
  BY <1>a DEF SectorDone, buffers, PlaceInv
<1>2. MassTypes' BY <1>a, <1>1 DEF MassTypes, UsbPlaces
<1>3. PlaceInv' BY <1>a, <1>1 DEF PlaceInv, Configuring, S
<1>4. ASSUME ~hurt' PROVE SignalInv'
  <2>1. SignalInv BY <1>a, <1>1, <1>4
  <2>2. flight = <<>> /\ io_sem = 0 /\ ucmd.returnCode = "OK" BY <1>1, <2>1 DEF SignalInv, CountsDown
  <2> QED BY <1>1, <2>2 DEF SignalInv
<1> QED BY <1>2, <1>3, <1>4 DEF MassInv

\* A read-ahead is sent.
LEMMA AheadTyped ==
  ASSUME MassTypes
  PROVE  my.job \in UsbJobs /\ Ahead \in UsbJobs /\ Ahead.sector = my.job.sector + my.job.count
         /\ Ahead.count = my.job.count /\ Ahead.to = "ra" /\ Ahead.p = 0
<1>1. my.job \in UsbJobs BY DEF MassTypes, UsbLocals
<1>2. my.job.sector \in Int /\ my.job.count \in Nat /\ "ra" \in Targets \ {"none"} BY <1>1 DEF UsbJobs, Targets
<1>3. my.job.sector + my.job.count \in Int BY <1>2
<1> QED BY <1>1, <1>2, <1>3 DEF Ahead, UsbJobs

\* With its own semaphore to signal, and none of the last command's transfers left.
LEMMA ReadAheadKeeps == MassInv /\ ReadAhead => MassInv'
<1> SUFFICES ASSUME MassInv, ReadAhead PROVE MassInv' OBVIOUS
<1>a. MassTypes /\ PlaceInv /\ (~hurt => SignalInv) BY DEF MassInv
<1> DEFINE ts == Transfers(Ahead)
<1>1. /\ at = "ahead" /\ at' = "copy" /\ last' = [sector |-> my.job.sector, count |-> my.job.count] /\ ~ra.active
      /\ UNCHANGED <<dev, ioSema, io_sem, ra_buffer, gSectorBuffer, mem, my>>
  BY <1>a DEF ReadAhead, buffers, PlaceInv
<1>2. \/ UNCHANGED <<ra, ucmd, flight, hurt>>
      \/ /\ ucmd' = [ucmd EXCEPT !.cmd_count = Len(ts), !.cb = TRUE] /\ flight' = flight \o ts
         /\ ra' = [sector |-> Ahead.sector, count |-> Ahead.count, ptr |-> 0, active |-> TRUE]
         /\ hurt' = (hurt \/ Ahead.count * S > SCSI_RA_SECTORS)
      \/ NotQueued(ts, TRUE) /\ UNCHANGED ra
  BY DEF ReadAhead
<1>3. my.job \in UsbJobs /\ Ahead \in UsbJobs BY <1>a, AheadTyped
<1>4. ts \in Seq(UsbTransfers) /\ Len(ts) > 0 /\ \A k \in 1 .. Len(ts) : ts[k].kind # "control"
  <2>1. S \in Nat BY <1>1, SectorSize DEF Configuring
  <2> QED BY <1>3, <2>1, TransfersAre
<1>5. last' \in [sector: Int, count: Nat] BY <1>1, <1>3 DEF UsbJobs
<1> HIDE DEF ts
<1>6. CASE UNCHANGED <<ra, ucmd, flight, hurt>>
  <2>1. MassTypes' BY <1>6, <1>a, <1>1, <1>5 DEF MassTypes, UsbPlaces
  <2>2. PlaceInv' BY <1>6, <1>a, <1>1 DEF PlaceInv, Configuring, S
  <2>3. ASSUME ~hurt' PROVE SignalInv' BY <1>6, <1>a, <1>1, <2>3 DEF SignalInv, CountsDown
  <2> QED BY <2>1, <2>2, <2>3 DEF MassInv
<1>7. CASE /\ ucmd' = [ucmd EXCEPT !.cmd_count = Len(ts), !.cb = TRUE] /\ flight' = flight \o ts
           /\ ra' = [sector |-> Ahead.sector, count |-> Ahead.count, ptr |-> 0, active |-> TRUE]
           /\ hurt' = (hurt \/ Ahead.count * S > SCSI_RA_SECTORS)
  <2>1. ra' \in [sector: Int, count: Nat, ptr: Nat, active: BOOLEAN] /\ ra'.active
    BY <1>3, <1>7 DEF UsbJobs
  <2>2. /\ ucmd' \in UsbCommands /\ ucmd'.cb = TRUE /\ ucmd'.returnCode = ucmd.returnCode
        /\ flight' \in Seq(UsbTransfers)
        /\ flight = <<>> =>
             /\ flight' = ts /\ ucmd'.cmd_count = Len(flight') /\ flight' # <<>>
             /\ \A k \in 1 .. Len(flight') : flight'[k].kind # "control"
    BY <1>a, <1>4, <1>7, QueuedIs
  <2>3. hurt' \in BOOLEAN /\ (hurt => hurt') BY <1>7
  <2>4. MassTypes' BY <1>a, <1>1, <1>5, <2>1, <2>2, <2>3 DEF MassTypes, UsbPlaces
  <2>5. PlaceInv' BY <1>a, <1>1 DEF PlaceInv, Configuring, S
  <2>6. ASSUME ~hurt' PROVE SignalInv'
    <3>1. SignalInv BY <1>a, <2>3, <2>6
    <3>2. flight = <<>> /\ ioSema = 0 /\ io_sem = 0 /\ ucmd.returnCode = "OK" BY <1>1, <3>1 DEF SignalInv
    <3>3. CountsDown(io_sem)' BY <1>1, <2>2, <3>2 DEF CountsDown
    <3> QED BY <1>1, <2>1, <2>2, <3>2, <3>3 DEF SignalInv
  <2> QED BY <2>4, <2>5, <2>6 DEF MassInv
<1>8. CASE NotQueued(ts, TRUE) /\ UNCHANGED ra
  <2>1. ucmd' \in UsbCommands /\ flight' \in Seq(UsbTransfers) /\ hurt' = TRUE
    BY <1>a, <1>4, <1>8, NotQueuedIs
  <2>2. MassTypes' BY <1>8, <1>a, <1>1, <1>5, <2>1 DEF MassTypes, UsbPlaces
  <2>3. PlaceInv' BY <1>8, <1>a, <1>1 DEF PlaceInv, Configuring, S
  <2> QED BY <2>1, <2>2, <2>3 DEF MassInv
<1> QED BY <1>2, <1>6, <1>7, <1>8

\* MassInv is inductive.
LEMMA MassInvStep == MassInv /\ [MassNext]_massvars => MassInv'
<1> SUFFICES ASSUME MassInv, [MassNext]_massvars PROVE MassInv' OBVIOUS
<1>1. CASE UNCHANGED massvars
  <2>1. MassTypes' BY <1>1 DEF MassInv, MassTypes, massvars
  <2>2. PlaceInv' BY <1>1 DEF MassInv, PlaceInv, massvars, S
  <2>3. ~hurt' => SignalInv' BY <1>1 DEF MassInv, SignalInv, CountsDown, massvars
  <2> QED BY <2>1, <2>2, <2>3 DEF MassInv
<1>2. CASE mass_stor_connect \/ UsbReadSectors BY <1>2, ConnectKeeps, UsbCallKeeps
<1>3. CASE ThreadStep
  BY <1>3, ConfigureKeeps, StageSendKeeps, StageDoneKeeps, MassReturnKeeps, ReadCDKeeps, ReadCDNextKeeps, CopyKeeps,
     RaWaitKeeps, RaHitKeeps, SectorReadKeeps, SectorDoneKeeps, ReadAheadKeeps, Zenon DEF ThreadStep
<1>4. CASE UsbStep BY <1>4, UsbDoneKeeps, UsbErrorKeeps DEF UsbStep
<1> QED BY <1>1, <1>2, <1>3, <1>4 DEF MassNext

\* Each transfer counts down the command it belongs to, each signal ends the
\* wait it is for, and nothing is left of a command when the next begins
\* (short of a failure): with any devices, calls and sizes of transfers.
THEOREM CommandsLeaveNothing == DevSpec => []NothingLeftOver
<1>1. DevInit => MassInv BY MassInitInv DEF DevInit
<1>2. MassInv /\ [DevNext]_devvars => MassInv' BY MassSteps, MassInvStep
<1>3. MassInv => NothingLeftOver
  <2> SUFFICES ASSUME MassInv, ~hurt
               PROVE  /\ at \in {"part", "next", "ahead", "copy", "return", "idle", "off"} => ioSema = 0
                      /\ at \in {"part", "next", "ra", "ahead", "copy", "return", "idle", "off"} =>
                           IF ra.active
                             THEN io_sem = (IF flight = <<>> THEN 1 ELSE 0) /\ ucmd.cb /\ ucmd.cmd_count = Len(flight)
                             ELSE flight = <<>> /\ io_sem = 0
    BY DEF NothingLeftOver
  <2>1. SignalInv BY DEF MassInv
  <2> QED BY <2>1 DEF SignalInv, CountsDown
<1> QED BY <1>1, <1>2, <1>3, PTL DEF DevSpec
-----------------------------------------------------------------------------
(***************************************************************************)
(* What a call delivers: its commands move the units asked for, and what   *)
(* was read ahead are the units that follow.                               *)
(***************************************************************************)
\* The discs and drives in question: reads stay within the image, the parts
\* are of 0x80000 sectors and a u32 numbers them, and a command may take more
\* than a CD sector (a device's sector may hold two).
UsbSizes ==
  /\ \A r \in Reads : r.lsn + r.n <= NumParts * PartSectors
  /\ PartSectors % 2 = 0 /\ LsnMod % 2 = 0
  /\ MAX_USB_SECTORS > 1

\* Reads of no sectors, which begin with a sector of the device.
Nothings(reads) == \A j \in 1 .. Len(reads) : reads[j].n = 0 /\ reads[j].lsn % 2 = 0

\* So the first read of a call is the whole of it, and the rest read nothing.
LEMMA UsbCallReads ==
  ASSUME UsbSizes, NEW c \in Reads
  PROVE  LET R == PartReads(c.lsn, c.n)
         IN  /\ c.lsn \in Nat /\ c.n \in 1 .. MaxN
             /\ R \in Seq(ReadJobs) /\ R # <<>>
             /\ Head(R).part = c.lsn \div PartSectors + 1 /\ Head(R).lsn = c.lsn % PartSectors
             /\ Head(R).p = 0 /\ Head(R).n = c.n
             /\ Nothings(Tail(R))
<1> DEFINE f == PartOf(c.lsn)
           R == PartReads(c.lsn, c.n)
<1>0. c.lsn \in Nat /\ c.n \in 1 .. MaxN /\ c.n \in Nat \ {0} /\ WithinPart(c.lsn, c.n) /\ ~OddAtBorder(c)
      /\ c.lsn + c.n <= NumParts * PartSectors
  BY MassAssumption DEF UsbSizes
<1>1. /\ f \in Nat /\ f < NumParts /\ f * PartSectors \in Nat /\ f * PartSectors <= c.lsn
      /\ c.lsn + c.n - f * PartSectors <= PartSectors
      /\ R \in Seq(ReadJobs) /\ Len(R) \in {1, 2}
      /\ R[1].part = f + 1 /\ R[1].lsn = c.lsn - f * PartSectors /\ R[1].p = 0 /\ R[1].n = c.n
      /\ Len(R) = 2 => /\ NumParts > 1 /\ c.lsn + c.n = (f + 1) * PartSectors
                       /\ R[2].lsn = (c.lsn - (f + 1) * PartSectors) % LsnMod
                       /\ R[2].p = c.n /\ R[2].n = 0
  BY <1>0, CallReads
<1>2. PartSectors \in Nat \ {0} /\ LsnMod \in Nat \ {0} /\ NumParts \in Nat BY PartSizeIs, PartsAssumption
<1> HIDE DEF f, R
<1>3. R # <<>> /\ Head(R) = R[1] /\ Len(Tail(R)) = Len(R) - 1
      /\ \A j \in 1 .. Len(Tail(R)) : Len(R) = 2 /\ Tail(R)[j] = R[2]
  <2>1. R # <<>> /\ Head(R) = R[1] /\ Len(Tail(R)) = Len(R) - 1 BY <1>1
  <2>2. ASSUME NEW j \in 1 .. Len(Tail(R)) PROVE Len(R) = 2 /\ Tail(R)[j] = R[2]
    <3>1. PICK m \in {1, 2} : m = Len(R) BY <1>1
    <3>2. j \in 1 .. m - 1 BY <2>1, <3>1
    <3>3. m = 2 /\ j = 1 BY <3>2
    <3> QED BY <1>1, <2>1, <3>1, <3>3
  <2> QED BY <2>1, <2>2
<1>4. c.lsn \div PartSectors = f /\ c.lsn % PartSectors = c.lsn - f * PartSectors
  <2>1. PICK m \in Nat : m = f * PartSectors /\ m <= c.lsn /\ c.lsn < m + PartSectors BY <1>0, <1>1, <1>2
  <2>2. PICK q \in Nat : q = c.lsn \div PartSectors /\ q * PartSectors <= c.lsn /\ c.lsn < (q + 1) * PartSectors
                         /\ c.lsn % PartSectors = c.lsn - q * PartSectors
    BY <1>0, <1>2, InPart
  <2>3. q = f
    <3>1. PICK w \in Nat : w = q * PartSectors BY <1>2, PartTimes
    <3>2. (f + 1) * PartSectors = m + PartSectors /\ (q + 1) * PartSectors = w + PartSectors
      BY <1>1, <1>2, <2>1, <3>1, OneMoreTime
    <3>3. q + 1 \in Nat /\ f + 1 \in Nat BY <1>1
    <3>4. q + 1 <= f => w + PartSectors <= m BY <1>1, <1>2, <2>1, <3>2, <3>3, PartTimes
    <3>5. f + 1 <= q => m + PartSectors <= w BY <1>1, <1>2, <3>1, <3>2, <3>3, PartTimes
    <3>6. w <= c.lsn /\ c.lsn < w + PartSectors BY <2>2, <3>1, <3>2
    <3>7. ~(q + 1 <= f) BY <1>0, <1>2, <2>1, <3>4, <3>6
    <3>8. ~(f + 1 <= q) BY <1>0, <1>2, <2>1, <3>5, <3>6
    <3> QED BY <1>1, <3>7, <3>8
  <2> QED BY <2>2, <2>3
<1>5. ASSUME Len(R) = 2 PROVE R[2].lsn % 2 = 0
  <2>1. PICK P \in Nat \ {0} : PartSectors = 2 * P BY <1>2 DEF UsbSizes
  <2>2. PICK M \in Nat \ {0} : LsnMod = 2 * M BY <1>2 DEF UsbSizes
  <2>3. (c.lsn + c.n) % PartSectors = 0
    <3>1. PICK x \in Nat : x = c.lsn + c.n BY <1>0
    <3>2. x = (f + 1) * PartSectors /\ f + 1 \in Nat BY <1>1, <1>5, <3>1
    <3>3. x \div PartSectors \in Nat /\ (x \div PartSectors) * PartSectors <= x
          /\ x < (x \div PartSectors + 1) * PartSectors /\ x % PartSectors = x - (x \div PartSectors) * PartSectors
      BY <1>2, <3>1, InPart
    <3>4. PICK q \in Nat : q = x \div PartSectors BY <3>3
    <3>5. f + 1 <= q
      <4> SUFFICES ASSUME q + 1 <= f + 1 PROVE FALSE BY <1>1, <3>4
      <4>1. (q + 1) * PartSectors <= (f + 1) * PartSectors BY <1>2, <3>2, <3>4, PartTimes
      <4>2. (q + 1) * PartSectors \in Nat BY <1>2, <3>4, PartTimes
      <4> QED BY <3>1, <3>2, <3>3, <3>4, <4>1, <4>2
    <3>6. (f + 1) * PartSectors <= q * PartSectors /\ q * PartSectors \in Nat BY <1>2, <3>2, <3>4, <3>5, PartTimes
    <3>7. x % PartSectors = 0 BY <3>1, <3>2, <3>3, <3>4, <3>6
    <3> QED BY <3>1, <3>7
  <2>4. (c.lsn + PartSectors) % 2 # 1 BY <1>0, <2>3 DEF OddAtBorder
  <2>5. PICK k \in Nat : c.lsn = 2 * k BY <1>0, <2>1, <2>4
  <2>6. PICK y \in Nat : y = (f + 1) * P BY <1>1, <2>1
  <2>7. (f + 1) * PartSectors = 2 * y
    <3>1. (f + 1) * (2 * P) = 2 * ((f + 1) * P)
      <4>1. PICK g \in Int : g = f + 1 BY <1>1
      <4>2. (2 * P) * g = 2 * (P * g) BY <2>1, TimesTimes
      <4>3. \A i, j \in Int : i * j = j * i BY Z3
      <4>4. 2 * P \in Int BY <2>1
      <4>5. (2 * P) * g = g * (2 * P) /\ P * g = g * P BY <2>1, <4>3, <4>4
      <4> QED BY <4>1, <4>2, <4>5
    <3> QED BY <2>1, <2>6, <3>1
  <2>8. c.n = 2 * (y - k) /\ y - k \in Nat \ {0}
    <3>1. 2 * k + c.n = 2 * y BY <1>0, <1>1, <1>5, <2>5, <2>7
    <3> QED BY <1>0, <3>1
  <2>9. c.n < LsnMod
    <3>1. LsnMod > NumParts * PartSectors /\ NumParts * PartSectors \in Nat BY <1>2, PartsAssumption, PartTimes
    <3> QED BY <1>0, <1>2, <3>1
  <2>10. R[2].lsn = (0 - c.n) % LsnMod
    <3>1. c.lsn - (f + 1) * PartSectors = 0 - c.n BY <1>0, <1>1, <1>5, <2>7
    <3> QED BY <1>1, <1>5, <3>1
  <2>11. (0 - c.n) % LsnMod = LsnMod - c.n BY <1>0, <1>2, <2>9, SMTT(30)
  <2>12. LsnMod - c.n = 2 * (M - (y - k)) BY <2>2, <2>8
  <2>13. M - (y - k) \in Int BY <2>2, <2>8
  <2>14. \A z \in Int : (2 * z) % 2 = 0 OBVIOUS
  <2> QED BY <2>10, <2>11, <2>12, <2>13, <2>14
<1>6. Nothings(Tail(R)) BY <1>1, <1>3, <1>5 DEF Nothings
<1> QED BY <1>0, <1>1, <1>3, <1>4, <1>6 DEF R

\* Buffers: the units from p on are those of the device from a given one on, n
\* of them; or they will be when the transfers of fl are done.
FilledWith(buf, p, from, n) == \A i \in Nat : i < n => p + i \in DOMAIN buf /\ buf[p + i] = from + i
Brings(fl, to, q) ==
  \E k \in 1 .. Len(fl) : fl[k].to = to /\ fl[k].p <= q /\ q < fl[k].p + fl[k].n
Filling(fl, to, buf, p, from, n) ==
  \A i \in Nat : i < n => p + i \in DOMAIN buf /\ (buf[p + i] = from + i \/ Brings(fl, to, p + i))
\* The transfers bring nothing else.
OnlyTo(fl, to, p, from, n) ==
  \A k \in 1 .. Len(fl) :
    \/ fl[k].to = "none"
    \/ fl[k].to = to /\ p <= fl[k].p /\ fl[k].p + fl[k].n <= p + n /\ fl[k].from + p = fl[k].p + from

\* A store fills its place, and only that.
LEMMA StoreFills ==
  ASSUME NEW L \in Int, NEW buf \in Buffers(L), NEW p \in Nat, NEW s \in Seq(Int), NEW from \in Int, NEW n \in Nat,
         Len(s) = n, p + n <= L, \A i \in 1 .. n : s[i] = from + i - 1
  PROVE  FilledWith(Stored(buf, p, s), p, from, n)
<1> SUFFICES ASSUME NEW i \in Nat, i < n
             PROVE  p + i \in DOMAIN Stored(buf, p, s) /\ Stored(buf, p, s)[p + i] = from + i
  BY DEF FilledWith
<1>1. PICK u \in 0 .. L - 1 : u = p + i OBVIOUS
<1>2. DOMAIN Stored(buf, p, s) = 0 .. L - 1
  <2>1. Stored(buf, p, s) \in Buffers(L) BY StoredIs
  <2> QED BY <2>1 DEF Buffers
<1>3. Stored(buf, p, s)[u] = s[i + 1]
  <2>1. Stored(buf, p, s)[u] = IF p <= u /\ u < p + Len(s) THEN s[u - p + 1] ELSE buf[u] BY StoredIs
  <2>2. p <= u /\ u < p + Len(s) /\ u - p + 1 = i + 1 BY <1>1
  <2> QED BY <2>1, <2>2
<1>4. i + 1 \in 1 .. n /\ from + (i + 1) - 1 = from + i OBVIOUS
<1>5. s[i + 1] = from + i BY <1>4
<1> QED BY <1>1, <1>2, <1>3, <1>5

\* What is filled below it stays filled.
LEMMA StoreLeaves ==
  ASSUME NEW L \in Int, NEW buf \in Buffers(L), NEW p \in Int, NEW s \in Seq(Int), NEW x \in Nat, x <= p,
         NEW from, FilledWith(buf, 0, from, x)
  PROVE  FilledWith(Stored(buf, p, s), 0, from, x)
<1> SUFFICES ASSUME NEW i \in Nat, i < x
             PROVE  0 + i \in DOMAIN Stored(buf, p, s) /\ Stored(buf, p, s)[0 + i] = from + i
  BY DEF FilledWith
<1>1. 0 + i \in DOMAIN buf /\ buf[0 + i] = from + i BY DEF FilledWith
<1>2. DOMAIN buf = 0 .. L - 1 /\ DOMAIN Stored(buf, p, s) = 0 .. L - 1
  <2>1. Stored(buf, p, s) \in Buffers(L) BY StoredIs
  <2> QED BY <2>1 DEF Buffers
<1>3. PICK u \in 0 .. L - 1 : u = 0 + i /\ ~(p <= u) BY <1>1, <1>2
<1>4. Stored(buf, p, s)[u] = IF p <= u /\ u < p + Len(s) THEN s[u - p + 1] ELSE buf[u] BY StoredIs
<1> QED BY <1>1, <1>2, <1>3, <1>4

\* With nothing in flight, what will be is.
LEMMA FlightOver ==
  ASSUME NEW to, NEW buf, NEW p, NEW from, NEW n, Filling(<<>>, to, buf, p, from, n)
  PROVE  FilledWith(buf, p, from, n)
<1>1. \A q : ~Brings(<<>>, to, q) BY DEF Brings
<1> QED BY <1>1 DEF Filling, FilledWith

\* Nothing is asked of no units.
LEMMA NothingFilled ==
  ASSUME NEW buf, NEW p, NEW from, NEW n \in Int, n <= 0
  PROVE  FilledWith(buf, p, from, n)
  BY DEF FilledWith

\* The first transfer is done.
LEMMA MoveFills ==
  ASSUME NEW fl \in Seq(UsbTransfers), fl # <<>>, NEW L \in Int, NEW buf \in Buffers(L),
         NEW to \in Targets \ {"none"}, NEW p \in Int, NEW from \in Int, NEW n \in Int,
         OnlyTo(fl, to, p, from, n), Filling(fl, to, buf, p, from, n)
  PROVE  /\ OnlyTo(Tail(fl), to, p, from, n)
         /\ Filling(Tail(fl), to, Moves(Head(fl), to, buf), p, from, n)
<1> DEFINE t == Head(fl)
           U == Units(t.from, t.n)
           nb == Moves(t, to, buf)
<1>1. /\ t \in UsbTransfers /\ t = fl[1] /\ 1 \in 1 .. Len(fl) /\ Len(Tail(fl)) = Len(fl) - 1 /\ Len(fl) \in Nat
      /\ \A k \in 1 .. Len(Tail(fl)) : k + 1 \in 1 .. Len(fl) /\ Tail(fl)[k] = fl[k + 1]
  OBVIOUS
<1>2. OnlyTo(Tail(fl), to, p, from, n) BY <1>1 DEF OnlyTo
<1>3. t.p \in Int /\ t.from \in Int /\ t.n \in Int BY <1>1 DEF UsbTransfers
<1> HIDE DEF t
<1>4. U \in Seq(Int) /\ Len(U) = (IF t.n > 0 THEN t.n ELSE 0) /\ \A i \in 1 .. t.n : U[i] = t.from + i - 1
  BY <1>3, UnitsAre
<1>9. t.to = to => nb = Stored(buf, t.p, U) BY DEF Moves
<1>10. t.to # to => nb = buf BY DEF Moves
<1> HIDE DEF U, nb
<1>11. ASSUME t.to = to, NEW u \in 0 .. L - 1
       PROVE  nb[u] = IF t.p <= u /\ u < t.p + Len(U) THEN U[u - t.p + 1] ELSE buf[u]
  <2>1. PICK q \in Int : q = t.p BY <1>3
  <2>2. U \in Seq(Int) BY <1>4
  <2>3. Stored(buf, q, U)[u] = IF q <= u /\ u < q + Len(U) THEN U[u - q + 1] ELSE buf[u] BY <2>2, StoredIs
  <2>4. nb = Stored(buf, q, U) BY <1>9, <1>11, <2>1
  <2> QED BY <2>1, <2>3, <2>4
<1>5. t.to = to => t.from + p = t.p + from BY <1>1 DEF OnlyTo, Targets
<1>6. DOMAIN buf = 0 .. L - 1 /\ DOMAIN nb = 0 .. L - 1
  <2>1. nb \in Buffers(L) BY <1>1, MovesTyped DEF nb
  <2> QED BY <2>1 DEF Buffers
<1>7. ASSUME NEW i \in Nat, i < n PROVE p + i \in DOMAIN nb /\ (nb[p + i] = from + i \/ Brings(Tail(fl), to, p + i))
  <2>1. p + i \in DOMAIN buf /\ (buf[p + i] = from + i \/ Brings(fl, to, p + i)) BY <1>7 DEF Filling
  <2>2. PICK u \in 0 .. L - 1 : u = p + i BY <1>6, <2>1
  <2> DEFINE covers == t.to = to /\ t.p <= u /\ u < t.p + t.n
  <2>3. CASE covers
    <3>1. t.n > 0 /\ Len(U) = t.n BY <1>3, <1>4, <2>3
    <3>2. nb[u] = U[u - t.p + 1] BY <1>11, <2>3, <3>1
    <3>3. PICK j \in 1 .. t.n : j = u - t.p + 1
      <4>1. u - t.p + 1 \in 1 .. t.n BY <1>3, <2>3
      <4> QED BY <4>1
    <3>4. nb[u] = t.from + j - 1
      <4>1. U[j] = t.from + j - 1 BY <1>4
      <4> QED BY <3>2, <3>3, <4>1
    <3>5. t.from + p = t.p + from BY <1>5, <2>3
    <3>6. t.from + j - 1 = from + i
      <4>1. PICK a \in Int, b \in Int : a = t.from /\ b = t.p BY <1>3
      <4>2. a + p = b + from /\ j = p + i - b + 1 BY <2>2, <3>3, <3>5, <4>1
      <4>3. a + j - 1 = from + i BY <4>2
      <4> QED BY <4>1, <4>3
    <3>7. nb[p + i] = from + i BY <2>2, <3>4, <3>6
    <3>8. p + i \in DOMAIN nb BY <1>6, <2>2
    <3> QED BY <3>7, <3>8
  <2>4. CASE ~covers
    <3>1. nb[u] = buf[u]
      <4>1. CASE t.to # to BY <1>10, <4>1
      <4>2. CASE t.to = to
        <5>1. ~(t.p <= u /\ u < t.p + Len(U)) BY <1>3, <1>4, <2>4, <4>2
        <5> QED BY <1>11, <4>2, <5>1
      <4> QED BY <4>1, <4>2
    <3>2. CASE buf[p + i] = from + i BY <1>6, <2>2, <3>1, <3>2
    <3>3. CASE Brings(fl, to, p + i)
      <4>1. PICK k \in 1 .. Len(fl) : fl[k].to = to /\ fl[k].p <= u /\ u < fl[k].p + fl[k].n
        BY <2>2, <3>3 DEF Brings
      <4>2. k # 1 BY <1>1, <2>4, <4>1
      <4>3. k - 1 \in 1 .. Len(Tail(fl)) /\ (k - 1) + 1 = k BY <1>1, <4>2
      <4>4. Tail(fl)[k - 1] = fl[k] BY <1>1, <4>3
      <4>5. Brings(Tail(fl), to, p + i) BY <2>2, <4>1, <4>3, <4>4 DEF Brings
      <4> QED BY <1>6, <2>2, <4>5
    <3> QED BY <2>1, <3>2, <3>3
  <2> QED BY <2>3, <2>4
<1>8. Filling(Tail(fl), to, nb, p, from, n) BY <1>7 DEF Filling
<1> QED BY <1>2, <1>8 DEF nb, t

\* and nothing else has changed.
LEMMA MoveLeaves ==
  ASSUME NEW fl \in Seq(UsbTransfers), fl # <<>>, NEW L \in Int, NEW buf \in Buffers(L),
         NEW to \in Targets \ {"none"}, NEW p \in Int, NEW from, NEW n, OnlyTo(fl, to, p, from, n)
  PROVE  /\ \A other \in Targets \ {"none", to} : Moves(Head(fl), other, buf) = buf
         /\ \A x \in Nat, f \in Int :
              x <= p /\ FilledWith(buf, 0, f, x) => FilledWith(Moves(Head(fl), to, buf), 0, f, x)
<1> DEFINE t == Head(fl)
<1>1. t \in UsbTransfers /\ t = fl[1] /\ 1 \in 1 .. Len(fl) OBVIOUS
<1>2. t.to = "none" \/ (t.to = to /\ p <= t.p) BY <1>1 DEF OnlyTo
<1>3. t.p \in Int /\ t.from \in Int /\ t.n \in Int BY <1>1 DEF UsbTransfers
<1>4. Units(t.from, t.n) \in Seq(Int) BY <1>3, UnitsAre
<1> HIDE DEF t
<1>5. \A other \in Targets \ {"none", to} : Moves(t, other, buf) = buf BY <1>2 DEF Moves
<1>6. ASSUME NEW x \in Nat, NEW f \in Int, x <= p, FilledWith(buf, 0, f, x)
      PROVE  FilledWith(Moves(t, to, buf), 0, f, x)
  <2>1. CASE t.to = to
    <3>1. x <= t.p BY <1>2, <1>3, <1>6, <2>1
    <3>2. Moves(t, to, buf) = Stored(buf, t.p, Units(t.from, t.n)) BY <2>1 DEF Moves
    <3> QED BY <1>3, <1>4, <1>6, <3>1, <3>2, StoreLeaves
  <2>2. CASE t.to # to BY <1>6, <2>2 DEF Moves
  <2> QED BY <2>1, <2>2
<1> QED BY <1>5, <1>6 DEF t

\* A command for a place in a buffer fills it.
LEMMA CommandFills ==
  ASSUME NEW want \in UsbJobs, S \in Nat, NEW L \in Int, NEW buf \in Buffers(L), want.p >= 0,
         want.p + want.count * S <= L
  PROVE  /\ OnlyTo(Transfers(want), want.to, want.p, want.sector * S, want.count * S)
         /\ Filling(Transfers(want), want.to, buf, want.p, want.sector * S, want.count * S)
<1> DEFINE ts == Transfers(want)
<1>1. /\ \A k \in 1 .. Len(ts) : ts[k].to = "none" \/ (ts[k].to = want.to /\ Within(want, ts[k]))
      /\ \A i \in Nat : i < want.count * S =>
           \E k \in 1 .. Len(ts) :
             ts[k].to = want.to /\ ts[k].p <= want.p + i /\ want.p + i < ts[k].p + ts[k].n
  BY TransfersAre
<1> HIDE DEF ts
<1>2. OnlyTo(ts, want.to, want.p, want.sector * S, want.count * S) BY <1>1 DEF OnlyTo, Within
<1>3. Filling(ts, want.to, buf, want.p, want.sector * S, want.count * S)
  <2> SUFFICES ASSUME NEW i \in Nat, i < want.count * S
               PROVE  want.p + i \in DOMAIN buf /\ Brings(ts, want.to, want.p + i)
    BY DEF Filling
  <2>1. Brings(ts, want.to, want.p + i) BY <1>1 DEF Brings
  <2>2. PICK n \in Nat : n = want.count * S BY DEF UsbJobs
  <2>3. want.p \in Int /\ DOMAIN buf = 0 .. L - 1 BY DEF UsbJobs, Buffers
  <2>4. want.p + i \in 0 .. L - 1 BY <2>2, <2>3
  <2> QED BY <2>1, <2>3, <2>4
<1> QED BY <1>2, <1>3 DEF ts

\* A call has read its CD sectors one after another into the caller's memory:
\* the first k of them.
InUsbCall == {"part", "next", "return"} \cup ReadingDisc
First == LBAs[my.call.lsn \div PartSectors + 1] * S + (my.call.lsn % PartSectors) * CdUnits
HasRead(k) == FilledWith(mem, 0, First, k * CdUnits)
Fetched == my.p = (my.call.n - my.left) * CdUnits

\* The next read of sectors: the second or the first half of a 4096-byte
\* sector, into the driver's own buffer; or whole sectors, into the caller's.
HalfJob == [sector |-> my.lba, count |-> 1, to |-> "sector", p |-> 0]
UsbJobInv ==
  /\ my.half = "second" => S = 2 * CdUnits /\ my.lba * S + CdUnits = First + my.p /\ my.job = HalfJob
  /\ my.half = "first" => S = 2 * CdUnits /\ my.left = 1 /\ my.lba * S = First + my.p /\ my.job = HalfJob
  /\ my.half = "none" =>
       /\ my.lba * S = First + my.p /\ DiskSectorsToRead * S = Chunk * CdUnits
       /\ my.job = [sector |-> my.lba, count |-> DiskSectorsToRead, to |-> "mem", p |-> my.p]
UsbCallInv ==
  /\ at \in InUsbCall => my.call \in Reads
  /\ at = "part" => my.reads = PartReads(my.call.lsn, my.call.n) \/ (Nothings(my.reads) /\ HasRead(my.call.n))
  /\ at \in {"next"} \cup ReadingDisc =>
       Nothings(my.reads) /\ my.left \in 0 .. my.call.n /\ HasRead(my.call.n - my.left)
  /\ at = "next" /\ my.left > 0 => Fetched /\ my.lba * S = First + my.p
  /\ at \in ReadingDisc => my.left > 0 /\ Fetched /\ UsbJobInv
  /\ at = "return" => HasRead(my.call.n)

\* The command waited for brings what is to be read, and nothing else; then it
\* is there.
Aim == IF my.job.to = "mem" THEN mem ELSE gSectorBuffer
FetchInv ==
  /\ at = "answer" => \A k \in 1 .. Len(flight) : flight[k].to = "none"
  /\ at = "wait" =>
       /\ OnlyTo(flight, my.job.to, my.job.p, my.job.sector * S, my.job.count * S)
       /\ Filling(flight, my.job.to, Aim, my.job.p, my.job.sector * S, my.job.count * S)
  /\ at \in {"ahead", "copy"} => FilledWith(Aim, my.job.p, my.job.sector * S, my.job.count * S)

\* A read-ahead does so for its buffer, and what is left of it is there.
AheadInv ==
  /\ ra.active => /\ ra.ptr = 0 /\ OnlyTo(flight, "ra", 0, ra.sector * S, ra.count * S)
                  /\ Filling(flight, "ra", ra_buffer, 0, ra.sector * S, ra.count * S)
  /\ ~ra.active => FilledWith(ra_buffer, ra.ptr, ra.sector * S, ra.count * S)

UsbDataInv == UsbCallInv /\ FetchInv /\ AheadInv

\* The numbers of a call.
LEMMA UsbCallTyped ==
  ASSUME UsbSizes, MassInv, UsbCallInv, at \in InUsbCall
  PROVE  /\ First \in Int /\ my.call \in Reads /\ my.call.lsn \in Nat /\ my.call.n \in 1 .. MaxN
         /\ my.p \in Int /\ my.left \in Int /\ my.lba \in Int /\ my.job \in UsbJobs /\ my.reads \in Seq(ReadJobs)
         /\ S \in Nat \ {0} /\ (CdUnits % S = 0 \/ S = 2 * CdUnits) /\ CdUnits \in Nat \ {0}
<1>1. my.call \in Reads BY DEF UsbCallInv
<1>2. /\ my.call.lsn \in Nat /\ my.call.n \in 1 .. MaxN
      /\ PartReads(my.call.lsn, my.call.n) \in Seq(ReadJobs) /\ PartReads(my.call.lsn, my.call.n) # <<>>
      /\ Head(PartReads(my.call.lsn, my.call.n)).part = my.call.lsn \div PartSectors + 1
  BY <1>1, UsbCallReads
<1>3. at \notin Configuring BY DEF InUsbCall, ReadingDisc, Configuring
<1>4. S \in Nat \ {0} /\ (CdUnits % S = 0 \/ S = 2 * CdUnits) BY <1>3, SectorSize
<1>5. CdUnits \in Nat \ {0} /\ PartSectors \in Nat \ {0} BY MassSizes, PartsAssumption
<1>6. LBAs[my.call.lsn \div PartSectors + 1] \in Nat
  <2>1. Head(PartReads(my.call.lsn, my.call.n)) \in ReadJobs BY <1>2
  <2>2. my.call.lsn \div PartSectors + 1 \in 1 .. NumParts BY <1>2, <2>1 DEF ReadJobs
  <2> QED BY <2>2, MassAssumption
<1>7. First \in Int
  <2>1. my.call.lsn % PartSectors \in Int BY <1>2, <1>5
  <2>2. (my.call.lsn % PartSectors) * CdUnits \in Int BY <1>5, <2>1
  <2>3. LBAs[my.call.lsn \div PartSectors + 1] * S \in Int BY <1>4, <1>6
  <2> QED BY <2>2, <2>3 DEF First
<1>8. my \in UsbLocals BY DEF MassInv, MassTypes
<1>9. my.p \in Int /\ my.left \in Int /\ my.lba \in Int /\ my.job \in UsbJobs /\ my.reads \in Seq(ReadJobs)
  BY <1>8 DEF UsbLocals
<1> QED BY <1>1, <1>2, <1>4, <1>5, <1>7, <1>9

\* The room there is where the next read goes.
Room == IF my.job.to = "mem" THEN MaxN * CdUnits ELSE 2 * CdUnits
\* The next read fits, and begins where the last one ended.
LEMMA JobPlace ==
  ASSUME UsbSizes, MassInv, UsbCallInv, at \in ReadingDisc
  PROVE  /\ my.job.to \in {"mem", "sector"} /\ my.job.p \in Nat /\ my.job.count * S \in Nat
         /\ my.job.sector * S \in Int /\ Room \in Int /\ Aim \in Buffers(Room)
         /\ my.job.p + my.job.count * S <= Room
         /\ my.job.to = "mem" => my.job.p = (my.call.n - my.left) * CdUnits
         /\ my.call.n - my.left \in Nat /\ (my.call.n - my.left) * CdUnits \in Nat
<1>0. at \in InUsbCall BY DEF InUsbCall
<1>1. my.left > 0 /\ Fetched /\ UsbJobInv /\ my.left \in 0 .. my.call.n BY DEF UsbCallInv
<1>2. /\ my.call.n \in 1 .. MaxN /\ my.p \in Int /\ my.left \in Int /\ my.lba \in Int /\ my.job \in UsbJobs
      /\ S \in Nat \ {0} /\ CdUnits \in Nat \ {0} /\ MaxN \in Nat
  BY <1>0, UsbCallTyped, MassSizes
<1>3. my.job.sector \in Int /\ my.job.count \in Nat /\ my.job.p \in Int BY <1>2 DEF UsbJobs
<1>4. my.job.sector * S \in Int /\ my.job.count * S \in Nat BY <1>2, <1>3, PartTimes
<1>5. my.half \in {"none", "first", "second"} BY DEF MassInv, MassTypes, UsbLocals
<1>6. Room \in Int BY <1>2, BufferSizes DEF Room
<1>7. Aim \in Buffers(Room) BY DEF Aim, Room, MassInv, MassTypes
<1>8. my.call.n - my.left \in Nat /\ (my.call.n - my.left) * CdUnits \in Nat BY <1>1, <1>2, PartTimes
<1>9. CASE my.half = "none"
  <2>1. my.job = [sector |-> my.lba, count |-> DiskSectorsToRead, to |-> "mem", p |-> my.p]
        /\ DiskSectorsToRead * S = Chunk * CdUnits
    BY <1>1, <1>9 DEF UsbJobInv
  <2>2. my.job.to = "mem" /\ my.job.p = (my.call.n - my.left) * CdUnits /\ my.job.count * S = Chunk * CdUnits
    BY <1>1, <2>1 DEF Fetched
  <2>3. Chunk \in Nat /\ Chunk <= my.left BY <1>1, <1>2, MassSizes DEF Chunk, Least
  <2>4. PICK a \in Nat : a = my.call.n - my.left BY <1>8
  <2>5. (a + Chunk) * CdUnits = a * CdUnits + Chunk * CdUnits BY <1>2, <2>3, <2>4, TimesSum
  <2>6. a + Chunk <= MaxN /\ a + Chunk \in Nat BY <1>1, <1>2, <2>3, <2>4
  <2>7. (a + Chunk) * CdUnits <= MaxN * CdUnits BY <1>2, <2>6, PartTimes
  <2>8. my.job.p + my.job.count * S <= MaxN * CdUnits BY <2>2, <2>4, <2>5, <2>7
  <2>9. Room = MaxN * CdUnits BY <2>2 DEF Room
  <2>10. my.job.p \in Nat BY <1>8, <2>2
  <2> QED BY <1>4, <1>6, <1>7, <1>8, <2>2, <2>8, <2>9, <2>10
<1>10. CASE my.half \in {"first", "second"}
  <2>1. my.job = HalfJob /\ S = 2 * CdUnits BY <1>1, <1>10 DEF UsbJobInv
  <2>2. my.job.to = "sector" /\ my.job.p = 0 /\ my.job.count = 1 BY <2>1 DEF HalfJob
  <2>3. Room = 2 * CdUnits /\ my.job.count * S = 2 * CdUnits BY <1>2, <2>1, <2>2 DEF Room
  <2> QED BY <1>2, <1>4, <1>6, <1>7, <1>8, <2>2, <2>3
<1> QED BY <1>5, <1>9, <1>10

\* A step that leaves alone what AheadInv is about.
LEMMA AheadKept ==
  ASSUME AheadInv, UNCHANGED <<ra, ra_buffer, flight>>, S' = S
  PROVE  AheadInv'
  BY DEF AheadInv

\* A transfer of the read-ahead is done, or of the command waited for.
LEMMA UsbDoneDelivers ==
  ASSUME UsbSizes, MassInv, SignalInv, UsbDataInv, UsbDone
  PROVE  UsbDataInv'
<1>a. MassTypes /\ PlaceInv /\ UsbCallInv /\ FetchInv /\ AheadInv BY DEF MassInv, UsbDataInv
<1> DEFINE t == Head(flight)
<1>b. /\ flight # <<>> /\ flight' = Tail(flight)
      /\ ra_buffer' = Moves(t, "ra", ra_buffer)
      /\ gSectorBuffer' = Moves(t, "sector", gSectorBuffer)
      /\ mem' = Moves(t, "mem", mem)
      /\ UNCHANGED <<dev, ra, last, at, my, hurt, fails>>
  BY UsbDoneIs
<1>c. flight \in Seq(UsbTransfers) /\ ra_buffer \in Buffers(SCSI_RA_SECTORS) /\ gSectorBuffer \in Buffers(2 * CdUnits)
      /\ mem \in Buffers(MaxN * CdUnits) /\ SCSI_RA_SECTORS \in Int /\ 2 * CdUnits \in Int /\ MaxN * CdUnits \in Int
  BY <1>a, BufferSizes DEF MassTypes
<1>d. S' = S /\ First' = First /\ Chunk' = Chunk /\ DiskSectorsToRead' = DiskSectorsToRead
  BY <1>b DEF S, First, Chunk, DiskSectorsToRead
<1>e. t \in UsbTransfers /\ t = flight[1] /\ 1 \in 1 .. Len(flight) /\ Len(flight') = Len(flight) - 1
      /\ \A k \in 1 .. Len(flight') : k + 1 \in 1 .. Len(flight) /\ flight'[k] = flight[k + 1]
  BY <1>a, <1>b, FlightHead
<1> HIDE DEF t
<1>1. CASE at = "wait"
  <2> DEFINE to == my.job.to
             p == my.job.p
             from == my.job.sector * S
             n == my.job.count * S
             x == (my.call.n - my.left) * CdUnits
  <2>1. OnlyTo(flight, to, p, from, n) /\ Filling(flight, to, Aim, p, from, n) BY <1>a, <1>1 DEF FetchInv
  <2>2. /\ to \in {"mem", "sector"} /\ p \in Nat /\ n \in Nat /\ from \in Int /\ Room \in Int /\ Aim \in Buffers(Room)
        /\ (to = "mem" => p = x) /\ x \in Nat
    BY <1>a, <1>1, JobPlace DEF ReadingDisc
  <2>3. First \in Int BY <1>a, <1>1, UsbCallTyped DEF InUsbCall, ReadingDisc
  <2>4. HasRead(my.call.n - my.left) BY <1>a, <1>1 DEF UsbCallInv, ReadingDisc
  <2>5. FilledWith(mem, 0, First, x) BY <2>4 DEF HasRead
  <2>6. ~ra.active BY <1>a, <1>1 DEF PlaceInv
  <2> HIDE DEF to, p, from, n, x
  <2>7. to \in Targets \ {"none"} BY <2>2 DEF Targets
  <2>8. OnlyTo(flight', to, p, from, n) /\ Filling(flight', to, Moves(t, to, Aim), p, from, n)
    BY <1>b, <1>c, <2>1, <2>2, <2>7, MoveFills DEF t
  <2>9. Aim' = Moves(t, to, Aim) BY <1>b, <2>2 DEF Aim, to
  <2>10. ra_buffer' = ra_buffer
    <3>1. "ra" \in Targets \ {"none", to} BY <2>2 DEF Targets
    <3>2. Moves(t, "ra", ra_buffer) = ra_buffer BY <1>b, <1>c, <2>1, <2>2, <2>7, <3>1, MoveLeaves DEF t
    <3> QED BY <1>b, <3>2
  <2>11. FilledWith(mem', 0, First, x)
    <3>1. CASE to = "mem"
      <4>1. x <= p BY <2>2, <3>1
      <4>2. FilledWith(Moves(t, to, mem), 0, First, x)
        BY <1>b, <1>c, <2>1, <2>2, <2>3, <2>5, <2>7, <4>1, MoveLeaves DEF t
      <4> QED BY <1>b, <3>1, <4>2
    <3>2. CASE to = "sector"
      <4>1. "mem" \in Targets \ {"none", to} BY <3>2 DEF Targets
      <4>2. Moves(t, "mem", mem) = mem BY <1>b, <1>c, <2>1, <2>2, <2>7, <4>1, MoveLeaves DEF t
      <4> QED BY <1>b, <2>5, <4>2
    <3> QED BY <2>2, <3>1, <3>2
  <2>12. HasRead(my.call.n - my.left)' BY <1>b, <1>d, <2>11 DEF HasRead, x
  <2>13. UsbCallInv'
    BY <1>1, <1>a, <1>b, <1>d, <2>12 DEF UsbCallInv, UsbJobInv, Fetched, ReadingDisc, InUsbCall, HalfJob
  <2>14. FetchInv'
    BY <1>1, <1>b, <1>d, <2>8, <2>9 DEF FetchInv, to, p, from, n
  <2>15. AheadInv' BY <1>a, <1>b, <1>d, <2>6, <2>10 DEF AheadInv
  <2> QED BY <2>13, <2>14, <2>15 DEF UsbDataInv
<1>2. CASE at # "wait" /\ ra.active
  <2> DEFINE from == ra.sector * S
             n == ra.count * S
  <2>1. ra.ptr = 0 /\ OnlyTo(flight, "ra", 0, from, n) /\ Filling(flight, "ra", ra_buffer, 0, from, n)
    BY <1>a, <1>2 DEF AheadInv
  <2>2. from \in Int /\ n \in Int
    <3>1. at \notin Configuring BY <1>a, <1>2 DEF PlaceInv
    <3>2. S \in Nat BY <3>1, SectorSize
    <3> QED BY <1>a, <3>2 DEF MassTypes
  <2> HIDE DEF from, n
  <2>3. /\ "ra" \in Targets \ {"none"} /\ "mem" \in Targets \ {"none", "ra"}
        /\ "sector" \in Targets \ {"none", "ra"} /\ 0 \in Int
    BY DEF Targets
  <2>4. OnlyTo(flight', "ra", 0, from, n) /\ Filling(flight', "ra", ra_buffer', 0, from, n)
    BY <1>b, <1>c, <2>1, <2>2, <2>3, MoveFills DEF t
  <2>5. mem' = mem /\ gSectorBuffer' = gSectorBuffer
    <3>1. Moves(t, "mem", mem) = mem BY <1>b, <1>c, <2>1, <2>3, MoveLeaves DEF t
    <3>2. Moves(t, "sector", gSectorBuffer) = gSectorBuffer BY <1>b, <1>c, <2>1, <2>3, MoveLeaves DEF t
    <3> QED BY <1>b, <3>1, <3>2
  <2>6. UsbCallInv'
    BY <1>a, <1>b, <1>d, <2>5 DEF UsbCallInv, UsbJobInv, Fetched, HasRead, HalfJob
  <2>7. at # "answer" BY <1>a, <1>2 DEF PlaceInv, Configuring
  <2>8. FetchInv' BY <1>2, <1>a, <1>b, <1>d, <2>5, <2>7 DEF FetchInv, Aim
  <2>9. AheadInv' BY <1>2, <1>b, <1>d, <2>1, <2>4 DEF AheadInv, from, n
  <2> QED BY <2>6, <2>8, <2>9 DEF UsbDataInv
<1>3. CASE at # "wait" /\ ~ra.active
  <2>1. at = "answer" BY <1>3, <1>b DEF SignalInv
  <2>2. t.to = "none" /\ \A k \in 1 .. Len(flight') : flight'[k].to = "none" BY <1>a, <1>e, <2>1 DEF FetchInv
  <2>3. ra_buffer' = ra_buffer BY <1>b, <2>2 DEF Moves
  <2>4. UsbCallInv' BY <1>b, <2>1 DEF UsbCallInv, InUsbCall, ReadingDisc
  <2>5. FetchInv' BY <1>b, <2>1, <2>2 DEF FetchInv
  <2>6. AheadInv' BY <1>3, <1>a, <1>b, <1>d, <2>3 DEF AheadInv
  <2> QED BY <2>4, <2>5, <2>6 DEF UsbDataInv
<1> QED BY <1>1, <1>2, <1>3

\* While the device is configured, no data is moved.
LEMMA ConfigureDelivers ==
  ASSUME MassInv, SignalInv, UsbDataInv, ~hurt',
         mass_stor_connect \/ mass_stor_configureDevice \/ StageSend \/ StageDone
  PROVE  UsbDataInv'
<1>a. MassTypes /\ PlaceInv BY DEF MassInv
<1>0. UNCHANGED <<ra, ra_buffer>>
  BY DEF mass_stor_connect, mass_stor_configureDevice, StageSend, StageDone, buffers
<1>1. at \in Configuring
  BY <1>a DEF mass_stor_connect, mass_stor_configureDevice, StageSend, StageDone, PlaceInv, Configuring
<1>2. at' \in Configuring \cup {"idle"}
  <2>1. CASE mass_stor_connect BY <1>1, <2>1 DEF mass_stor_connect
  <2>2. CASE mass_stor_configureDevice BY <2>2 DEF mass_stor_configureDevice, Configuring
  <2>3. CASE StageSend
    <3>1. at' = "answer" \/ Continue("ERR") BY <2>3, Zenon DEF StageSend
    <3>2. my.stage \in Control \cup Scsi BY <1>a, <2>3 DEF StageSend, PlaceInv
    <3> QED BY <1>a, <3>1, <3>2, ContinueIs DEF Configuring
  <2>4. CASE StageDone
    <3>1. Continue(ucmd.returnCode) /\ my.stage \in Control \cup Scsi BY <1>a, <2>4 DEF StageDone, PlaceInv
    <3>2. ucmd.returnCode \in {"OK", "ERR"} BY <1>a DEF MassTypes, UsbCommands
    <3> QED BY <1>a, <3>1, <3>2, ContinueIs DEF Configuring
  <2> QED BY <2>1, <2>2, <2>3, <2>4
<1>3. UsbCallInv' BY <1>2 DEF UsbCallInv, InUsbCall, ReadingDisc, Configuring
<1>4. at' = "answer" => \A k \in 1 .. Len(flight') : flight'[k].to = "none"
  <2> SUFFICES ASSUME at' = "answer" PROVE \A k \in 1 .. Len(flight') : flight'[k].to = "none" OBVIOUS
  <2>1. CASE StageSend
    <3>0. at = "send" /\ ~ra.active BY <1>a, <2>1 DEF StageSend, PlaceInv, Configuring
    <3>1. flight = <<>> BY <3>0 DEF SignalInv
    <3>2. flight' = Append(flight, Packet("control")) \/ Queued(Simple(my.stage), FALSE) \/ Continue("ERR")
      BY <2>1, Zenon DEF StageSend
    <3>3. ~Continue("ERR")
      <4>1. my.stage \in Control \cup Scsi BY <1>a, <3>0 DEF PlaceInv
      <4>2. Continue("ERR") => at' \in {"off", "send", "idle"} BY <1>a, <4>1, ContinueIs
      <4> QED BY <4>2
    <3>4. CASE flight' = Append(flight, Packet("control"))
      <4>1. Len(flight') = 1 /\ flight'[1] = Packet("control") BY <3>1, <3>4
      <4>2. Packet("control").to = "none" BY DEF Packet
      <4> QED BY <4>1, <4>2
    <3>5. CASE Queued(Simple(my.stage), FALSE)
      <4>1. PICK q \in Seq(UsbTransfers) : q = Simple(my.stage) /\ \A k \in 1 .. Len(q) : q[k].to = "none"
        BY SimpleTyped
      <4>2. flight' = <<>> \o q BY <3>1, <3>5, <4>1 DEF Queued
      <4>3. flight' = q BY <4>2
      <4> QED BY <4>1, <4>3
    <3> QED BY <3>2, <3>3, <3>4, <3>5
  <2>2. CASE mass_stor_connect
    <3>1. at = "off" /\ at' = at BY <1>a, <2>2 DEF mass_stor_connect, PlaceInv
    <3> QED BY <3>1
  <2>3. CASE mass_stor_configureDevice BY <2>3 DEF mass_stor_configureDevice
  <2>4. CASE StageDone
    <3>1. Continue(ucmd.returnCode) /\ my.stage \in Control \cup Scsi BY <1>a, <2>4 DEF StageDone, PlaceInv
    <3>2. ucmd.returnCode \in {"OK", "ERR"} BY <1>a DEF MassTypes, UsbCommands
    <3> QED BY <1>a, <3>1, <3>2, ContinueIs
  <2> QED BY <2>1, <2>2, <2>3, <2>4
<1>5. FetchInv' BY <1>2, <1>4 DEF FetchInv, Configuring
<1>6. AheadInv'
  <2>1. ra.count = 0 /\ ~ra.active BY <1>a, <1>1 DEF PlaceInv
  <2>2. S' \in Int
    <3>1. dev' \in UsbDevices
      <4>1. MassInv' BY ConnectKeeps, ConfigureKeeps, StageSendKeeps, StageDoneKeeps
      <4> QED BY <4>1 DEF MassInv, MassTypes
    <3> QED BY <3>1, MassAssumption DEF UsbDevices, S
  <2>3. ra'.count * S' = 0
    <3>1. ra'.count = 0 BY <1>0, <2>1
    <3>2. PICK s \in Int : s = S' BY <2>2
    <3>3. 0 * s = 0 BY SMT
    <3> QED BY <3>1, <3>2, <3>3
  <2>4. FilledWith(ra_buffer', ra'.ptr, ra'.sector * S', ra'.count * S') BY <2>3, NothingFilled
  <2> QED BY <1>0, <2>1, <2>4 DEF AheadInv
<1> QED BY <1>3, <1>5, <1>6 DEF UsbDataInv

\* A call begins.
LEMMA UsbCallDelivers ==
  ASSUME MassInv, UsbDataInv, UsbReadSectors
  PROVE  UsbDataInv'
<1>1. PICK r \in Reads : my' = [Idle EXCEPT !.call = r, !.reads = PartReads(r.lsn, r.n)]
  BY DEF UsbReadSectors
<1>2. at' = "part" /\ UNCHANGED <<dev, ra, ra_buffer, flight>> BY DEF UsbReadSectors, buffers
<1>3. my'.call = r /\ my'.reads = PartReads(r.lsn, r.n)
  <2>1. PICK R : R = PartReads(r.lsn, r.n) OBVIOUS
  <2>2. my' = [Idle EXCEPT !.call = r, !.reads = R] BY <1>1, <2>1
  <2> QED BY <2>1, <2>2 DEF Idle
<1>4. my'.call \in Reads /\ my'.reads = PartReads(my'.call.lsn, my'.call.n) BY <1>3
<1>5. UsbCallInv' BY <1>2, <1>4 DEF UsbCallInv, InUsbCall, ReadingDisc
<1>6. FetchInv' BY <1>2 DEF FetchInv
<1>7. AheadInv' BY <1>2, AheadKept DEF UsbDataInv, S
<1> QED BY <1>5, <1>6, <1>7 DEF UsbDataInv

\* The read of a part ends with all it was asked for, so does the call.
LEMMA UsbReturnDelivers ==
  ASSUME UsbSizes, MassInv, UsbDataInv, PartsDone \/ ReadCDReturn \/ Returned
  PROVE  UsbDataInv'
<1>a. UsbCallInv BY DEF UsbDataInv
<1>b. UNCHANGED <<dev, ra, ra_buffer, flight>> BY DEF PartsDone, ReadCDReturn, Returned, buffers
<1>c. AheadInv' BY <1>b, AheadKept DEF UsbDataInv, S
<1>1. CASE PartsDone
  <2>1. at = "part" /\ my.reads = <<>> /\ at' = "return" /\ UNCHANGED <<my, mem>> BY <1>1 DEF PartsDone, buffers
  <2>2. my.call \in Reads BY <1>a, <2>1 DEF UsbCallInv, InUsbCall
  <2>3. PartReads(my.call.lsn, my.call.n) # <<>> BY <2>2, UsbCallReads
  <2>4. HasRead(my.call.n) BY <1>a, <2>1, <2>3 DEF UsbCallInv
  <2>5. HasRead(my.call.n)' BY <1>b, <2>1, <2>4 DEF HasRead, First, S
  <2>6. UsbCallInv' BY <2>1, <2>2, <2>5 DEF UsbCallInv, ReadingDisc
  <2>7. FetchInv' BY <2>1 DEF FetchInv
  <2> QED BY <1>c, <2>6, <2>7 DEF UsbDataInv
<1>2. CASE ReadCDReturn
  <2>1. at = "next" /\ my.left = 0 /\ at' = "part" /\ UNCHANGED <<my, mem>> BY <1>2 DEF ReadCDReturn, buffers
  <2>2. my.call \in Reads /\ my.call.n \in Nat BY <1>a, <2>1, UsbCallTyped DEF InUsbCall
  <2>3. Nothings(my.reads) /\ HasRead(my.call.n - my.left) BY <1>a, <2>1 DEF UsbCallInv
  <2>4. HasRead(my.call.n)
    <3>1. my.call.n - my.left = my.call.n BY <2>1, <2>2
    <3> QED BY <2>3, <3>1
  <2>5. HasRead(my.call.n)' BY <1>b, <2>1, <2>4 DEF HasRead, First, S
  <2>6. UsbCallInv' BY <2>1, <2>2, <2>3, <2>5 DEF UsbCallInv, ReadingDisc
  <2>7. FetchInv' BY <2>1 DEF FetchInv
  <2> QED BY <1>c, <2>6, <2>7 DEF UsbDataInv
<1>3. CASE Returned
  <2>1. at' = "idle" BY <1>3 DEF Returned
  <2>2. UsbCallInv' /\ FetchInv' BY <2>1 DEF UsbCallInv, FetchInv, InUsbCall, ReadingDisc
  <2> QED BY <1>c, <2>2 DEF UsbDataInv
<1> QED BY <1>1, <1>2, <1>3

\* The end of the command waited for is taken, and that of a read-ahead.
LEMMA SectorDoneDelivers ==
  ASSUME MassInv, SignalInv, UsbDataInv, SectorDone
  PROVE  UsbDataInv'
<1>a. UsbCallInv /\ FetchInv BY DEF UsbDataInv
<1>1. /\ at = "wait" /\ ioSema = 1 /\ at' = (IF ucmd.returnCode = "OK" THEN "ahead" ELSE "copy")
      /\ UNCHANGED <<dev, flight, ra, ra_buffer, gSectorBuffer, mem, my>>
  BY DEF SectorDone, buffers
<1>2. flight = <<>> /\ at' = "ahead" BY <1>1 DEF SignalInv, CountsDown
<1>3. FilledWith(Aim, my.job.p, my.job.sector * S, my.job.count * S) BY <1>a, <1>1, <1>2, FlightOver DEF FetchInv
<1>4. S' = S /\ Aim' = Aim /\ First' = First /\ Chunk' = Chunk /\ DiskSectorsToRead' = DiskSectorsToRead
  BY <1>1 DEF S, Aim, First, Chunk, DiskSectorsToRead
<1>5. UsbCallInv'
  BY <1>a, <1>1, <1>2, <1>4 DEF UsbCallInv, UsbJobInv, Fetched, ReadingDisc, InUsbCall, HalfJob, HasRead
<1>6. FetchInv' BY <1>1, <1>2, <1>3, <1>4 DEF FetchInv
<1>7. AheadInv' BY <1>1, <1>4, AheadKept DEF UsbDataInv
<1> QED BY <1>5, <1>6, <1>7 DEF UsbDataInv

\* The read-ahead is over: what it was to bring is in its buffer.
LEMMA RaWaitDelivers ==
  ASSUME MassInv, SignalInv, UsbDataInv, RaWait
  PROVE  UsbDataInv'
<1>a. UsbCallInv /\ AheadInv /\ MassTypes BY DEF UsbDataInv, MassInv
<1>1. /\ at = "ra" /\ ra.active /\ io_sem = 1 /\ ra' = [ra EXCEPT !.active = FALSE] /\ at' = at
      /\ UNCHANGED <<dev, flight, ra_buffer, gSectorBuffer, mem, my>>
  BY DEF RaWait, buffers
<1>2. flight = <<>> BY <1>1 DEF SignalInv, CountsDown
<1>3. ra.ptr = 0 /\ Filling(<<>>, "ra", ra_buffer, 0, ra.sector * S, ra.count * S) BY <1>a, <1>1, <1>2 DEF AheadInv
<1>4. FilledWith(ra_buffer, 0, ra.sector * S, ra.count * S) BY <1>3, FlightOver
<1>5. S' = S /\ First' = First /\ Chunk' = Chunk /\ DiskSectorsToRead' = DiskSectorsToRead
  BY <1>1 DEF S, First, Chunk, DiskSectorsToRead
<1>6. UsbCallInv'
  BY <1>a, <1>1, <1>5 DEF UsbCallInv, UsbJobInv, Fetched, ReadingDisc, InUsbCall, HalfJob, HasRead
<1>7. FetchInv' BY <1>1 DEF FetchInv
<1>8. ra'.sector = ra.sector /\ ra'.count = ra.count /\ ra'.ptr = 0 /\ ~ra'.active
  <2>1. ra \in [sector: Int, count: Nat, ptr: Nat, active: BOOLEAN] BY <1>a DEF MassTypes
  <2> QED BY <1>1, <1>3, <2>1
<1>9. AheadInv' BY <1>1, <1>4, <1>5, <1>8 DEF AheadInv
<1> QED BY <1>6, <1>7, <1>9 DEF UsbDataInv

\* A command is sent for what is to be read.
LEMMA SectorReadDelivers ==
  ASSUME UsbSizes, MassInv, SignalInv, UsbDataInv, SectorRead, ~hurt'
  PROVE  UsbDataInv'
<1>a. UsbCallInv /\ AheadInv /\ MassTypes BY DEF UsbDataInv, MassInv
<1>1. at = "ra" /\ ~ra.active /\ UNCHANGED <<dev, ra, ra_buffer, gSectorBuffer, mem, my>>
  BY DEF SectorRead, buffers
<1>2. Queued(Transfers(my.job), FALSE) /\ at' = "wait"
  <2>1. \/ Queued(Transfers(my.job), FALSE) /\ at' = "wait"
        \/ NotQueued(Transfers(my.job), FALSE) /\ at' = "copy"
    BY DEF SectorRead
  <2>2. NotQueued(Transfers(my.job), FALSE) => hurt' = TRUE BY DEF NotQueued, Fails
  <2> QED BY <2>1, <2>2
<1>3. flight' = flight \o Transfers(my.job) BY <1>2 DEF Queued
<1>4. flight = <<>> BY <1>1 DEF SignalInv
<1>5. /\ my.job.to \in {"mem", "sector"} /\ my.job.p \in Nat /\ Room \in Int /\ Aim \in Buffers(Room)
      /\ my.job.p + my.job.count * S <= Room
  BY <1>a, <1>1, JobPlace DEF ReadingDisc
<1>6. my.job \in UsbJobs /\ S \in Nat BY <1>a, <1>1, UsbCallTyped DEF InUsbCall, ReadingDisc
<1>7. flight' = Transfers(my.job)
  <2>1. Transfers(my.job) \in Seq(UsbTransfers) BY <1>6, TransfersAre
  <2> QED BY <1>3, <1>4, <2>1
<1>8. /\ OnlyTo(flight', my.job.to, my.job.p, my.job.sector * S, my.job.count * S)
      /\ Filling(flight', my.job.to, Aim, my.job.p, my.job.sector * S, my.job.count * S)
  <2>1. my.job.p >= 0 BY <1>5
  <2> QED BY <1>5, <1>6, <1>7, <2>1, CommandFills
<1>9. S' = S /\ Aim' = Aim /\ First' = First /\ Chunk' = Chunk /\ DiskSectorsToRead' = DiskSectorsToRead
  BY <1>1 DEF S, Aim, First, Chunk, DiskSectorsToRead
<1>10. UsbCallInv'
  BY <1>a, <1>1, <1>2, <1>9 DEF UsbCallInv, UsbJobInv, Fetched, ReadingDisc, InUsbCall, HalfJob, HasRead
<1>11. FetchInv' BY <1>1, <1>2, <1>8, <1>9 DEF FetchInv
<1>12. AheadInv' BY <1>a, <1>1, <1>9 DEF AheadInv
<1> QED BY <1>10, <1>11, <1>12 DEF UsbDataInv

\* A read-ahead is sent, or not.
LEMMA ReadAheadDelivers ==
  ASSUME UsbSizes, MassInv, SignalInv, UsbDataInv, ReadAhead, ~hurt'
  PROVE  UsbDataInv'
<1>a. UsbCallInv /\ FetchInv /\ AheadInv /\ MassTypes /\ PlaceInv BY DEF UsbDataInv, MassInv
<1>1. at = "ahead" /\ at' = "copy" /\ UNCHANGED <<dev, ra_buffer, gSectorBuffer, mem, my>>
  BY DEF ReadAhead, buffers
<1>2. S' = S /\ Aim' = Aim /\ First' = First /\ Chunk' = Chunk /\ DiskSectorsToRead' = DiskSectorsToRead
  BY <1>1 DEF S, Aim, First, Chunk, DiskSectorsToRead
<1>3. UsbCallInv'
  BY <1>a, <1>1, <1>2 DEF UsbCallInv, UsbJobInv, Fetched, ReadingDisc, InUsbCall, HalfJob, HasRead
<1>4. FetchInv' BY <1>a, <1>1, <1>2 DEF FetchInv
<1>5. AheadInv'
  <2>1. \/ UNCHANGED <<ra, flight>>
        \/ /\ flight' = flight \o Transfers(Ahead)
           /\ ra' = [sector |-> Ahead.sector, count |-> Ahead.count, ptr |-> 0, active |-> TRUE]
           /\ hurt' = (hurt \/ Ahead.count * S > SCSI_RA_SECTORS)
        \/ NotQueued(Transfers(Ahead), TRUE)
    BY DEF ReadAhead
  <2>2. CASE UNCHANGED <<ra, flight>> BY <2>2, <1>a, <1>1, <1>2, AheadKept
  <2>3. CASE /\ flight' = flight \o Transfers(Ahead)
             /\ ra' = [sector |-> Ahead.sector, count |-> Ahead.count, ptr |-> 0, active |-> TRUE]
             /\ hurt' = (hurt \/ Ahead.count * S > SCSI_RA_SECTORS)
    <3>1. Ahead \in UsbJobs /\ Ahead.to = "ra" /\ Ahead.p = 0 BY <1>a, AheadTyped
    <3>2. S \in Nat BY <1>a, <1>1, UsbCallTyped DEF InUsbCall, ReadingDisc
    <3>3. PICK n \in Int : n = Ahead.count * S BY <3>1, <3>2 DEF UsbJobs
    <3>4. SCSI_RA_SECTORS \in Int /\ ra_buffer \in Buffers(SCSI_RA_SECTORS) BY <1>a, BufferSizes DEF MassTypes
    <3>5. ~(n > SCSI_RA_SECTORS) BY <2>3, <3>3
    <3>6. Ahead.p >= 0 /\ Ahead.p + Ahead.count * S <= SCSI_RA_SECTORS BY <3>1, <3>3, <3>4, <3>5
    <3>7. flight' = Transfers(Ahead)
      <4>1. flight = <<>> BY <1>a, <1>1 DEF SignalInv, PlaceInv
      <4>2. Transfers(Ahead) \in Seq(UsbTransfers) BY <3>1, <3>2, TransfersAre
      <4> QED BY <2>3, <4>1, <4>2
    <3>8. /\ OnlyTo(flight', "ra", 0, Ahead.sector * S, Ahead.count * S)
          /\ Filling(flight', "ra", ra_buffer, 0, Ahead.sector * S, Ahead.count * S)
      <4>1. /\ OnlyTo(Transfers(Ahead), Ahead.to, Ahead.p, Ahead.sector * S, Ahead.count * S)
            /\ Filling(Transfers(Ahead), Ahead.to, ra_buffer, Ahead.p, Ahead.sector * S, Ahead.count * S)
        BY <3>1, <3>2, <3>4, <3>6, CommandFills
      <4> QED BY <3>1, <3>7, <4>1
    <3>9. ra'.sector = Ahead.sector /\ ra'.count = Ahead.count /\ ra'.ptr = 0 /\ ra'.active BY <2>3
    <3> QED BY <1>1, <1>2, <3>8, <3>9 DEF AheadInv
  <2>4. CASE NotQueued(Transfers(Ahead), TRUE)
    <3>1. hurt' = TRUE BY <2>4 DEF NotQueued, Fails
    <3> QED BY <3>1
  <2> QED BY <2>1, <2>2, <2>3, <2>4
<1> QED BY <1>3, <1>4, <1>5 DEF UsbDataInv

\* What was read ahead is what is to be read; the rest of it follows.
LEMMA RaHitDelivers ==
  ASSUME UsbSizes, MassInv, SignalInv, UsbDataInv, RaHit, ~hurt'
  PROVE  UsbDataInv'
<1>a. UsbCallInv /\ AheadInv /\ MassTypes BY DEF UsbDataInv, MassInv
<1> DEFINE to == my.job.to
           p == my.job.p
           c == my.job.count
           n == c * S
           src == my.job.sector * S
           from == Part(ra_buffer, ra.ptr, n)
           x == (my.call.n - my.left) * CdUnits
<1>1. /\ at = "ra" /\ ~ra.active /\ ra.sector = my.job.sector /\ ra.count >= c /\ at' = "ahead" /\ Into(to, p, from)
      /\ ra' = [ra EXCEPT !.sector = @ + c, !.count = @ - c, !.ptr = @ + c]
      /\ UNCHANGED <<dev, ra_buffer, flight, my>>
  BY DEF RaHit, Hit
<1>2. S = 1 \/ ~(ra.count > c)
  <2>1. hurt' = (hurt \/ (S # 1 /\ ra.count > my.job.count)) BY DEF RaHit
  <2> QED BY <2>1
<1>3. /\ to \in {"mem", "sector"} /\ p \in Nat /\ n \in Nat /\ src \in Int /\ Room \in Int /\ Aim \in Buffers(Room)
      /\ p + n <= Room /\ (to = "mem" => p = x) /\ x \in Nat
  BY <1>a, <1>1, JobPlace DEF ReadingDisc
<1>4. my.job \in UsbJobs /\ S \in Nat \ {0} /\ First \in Int BY <1>a, <1>1, UsbCallTyped DEF InUsbCall, ReadingDisc
<1>5. c \in Nat /\ ra.count \in Nat /\ ra.ptr \in Nat /\ ra.sector \in Int
      /\ ra \in [sector: Int, count: Nat, ptr: Nat, active: BOOLEAN]
  BY <1>a, <1>4 DEF MassTypes, UsbJobs
<1>6. ra_buffer \in Buffers(SCSI_RA_SECTORS) /\ SCSI_RA_SECTORS \in Int BY <1>a, BufferSizes DEF MassTypes
<1>7. FilledWith(ra_buffer, ra.ptr, ra.sector * S, ra.count * S) BY <1>a, <1>1 DEF AheadInv
<1>8. n <= ra.count * S /\ ra.count * S \in Nat BY <1>1, <1>4, <1>5, PartTimes
<1>9. ra.sector * S = src BY <1>1
<1>10. HasRead(my.call.n - my.left) BY <1>a, <1>1 DEF UsbCallInv, ReadingDisc
<1>11. FilledWith(mem, 0, First, x) BY <1>10 DEF HasRead
<1>12. from \in Seq(Int) /\ Len(from) = (IF n > 0 THEN n ELSE 0)
       /\ \A i \in 1 .. n :
            0 <= ra.ptr + i - 1 /\ ra.ptr + i - 1 < SCSI_RA_SECTORS => from[i] = ra_buffer[ra.ptr + i - 1]
  <2>1. n \in Int /\ ra.ptr \in Int BY <1>3, <1>5
  <2> HIDE DEF n
  <2>2. PICK q \in Int : q = ra.ptr BY <2>1
  <2>3. PICK k \in Int : k = n BY <2>1
  <2>4. /\ Part(ra_buffer, q, k) \in Seq(Int) /\ Len(Part(ra_buffer, q, k)) = IF k > 0 THEN k ELSE 0
        /\ \A i \in 1 .. k : 0 <= q + i - 1 /\ q + i - 1 < SCSI_RA_SECTORS =>
             Part(ra_buffer, q, k)[i] = ra_buffer[q + i - 1]
    BY <1>6, PartIs
  <2>5. from = Part(ra_buffer, q, k) BY <2>2, <2>3
  <2> HIDE DEF from
  <2> QED BY <2>2, <2>3, <2>4, <2>5
<1>13. S' = S /\ First' = First /\ Chunk' = Chunk /\ DiskSectorsToRead' = DiskSectorsToRead
  BY <1>1 DEF S, First, Chunk, DiskSectorsToRead
<1>14. Into(to, p, from) BY <1>1
<1>15. UNCHANGED <<my, at, dev>> \/ (at' = "ahead" /\ my' = my) BY <1>1
<1>16. FilledWith(ra_buffer, ra.ptr + c, (ra.sector + c) * S, (ra.count - c) * S)
  <2> HIDE DEF c, n
  <2>1. CASE S = 1
    <3>1. \A i \in Nat : i < ra.count => ra.ptr + i \in DOMAIN ra_buffer /\ ra_buffer[ra.ptr + i] = ra.sector + i
      <4>1. ra.sector * S = ra.sector /\ ra.count * S = ra.count BY <1>5, <2>1
      <4> QED BY <1>7, <4>1 DEF FilledWith
    <3>2. (ra.sector + c) * S = ra.sector + c /\ (ra.count - c) * S = ra.count - c BY <1>5, <2>1
    <3>3. ASSUME NEW i \in Nat, i < ra.count - c
          PROVE  ra.ptr + c + i \in DOMAIN ra_buffer /\ ra_buffer[ra.ptr + c + i] = ra.sector + c + i
      <4>1. c + i \in Nat /\ c + i < ra.count /\ ra.ptr + (c + i) = ra.ptr + c + i
            /\ ra.sector + (c + i) = ra.sector + c + i
        BY <1>5, <3>3
      <4>2. ra.ptr + (c + i) \in DOMAIN ra_buffer /\ ra_buffer[ra.ptr + (c + i)] = ra.sector + (c + i)
        BY <3>1, <4>1
      <4> QED BY <4>1, <4>2
    <3> QED BY <3>2, <3>3 DEF FilledWith
  <2>2. CASE ~(ra.count > c)
    <3>1. ra.count - c = 0 BY <1>1, <1>5, <2>2
    <3>2. (ra.count - c) * S = 0 BY <1>4, <3>1
    <3> QED BY <3>2, NothingFilled
  <2> QED BY <1>2, <2>1, <2>2
<1>17. ra'.sector = ra.sector + c /\ ra'.count = ra.count - c /\ ra'.ptr = ra.ptr + c /\ ra'.active = ra.active
  <2> HIDE DEF c
  <2> QED BY <1>1, <1>5
<1>18. AheadInv' BY <1>1, <1>13, <1>16, <1>17 DEF AheadInv
<1> HIDE DEF from, n, to, p, src, x, c
<1>19. Len(from) = n /\ \A i \in 1 .. n : from[i] = src + i - 1
  <2>1. Len(from) = n BY <1>3, <1>12
  <2>2. ASSUME NEW i \in 1 .. n PROVE from[i] = src + i - 1
    <3>1. i - 1 \in Nat /\ i - 1 < ra.count * S /\ ra.ptr + (i - 1) = ra.ptr + i - 1 /\ src + (i - 1) = src + i - 1
      BY <1>3, <1>5, <1>8
    <3>2. ra.ptr + (i - 1) \in DOMAIN ra_buffer /\ ra_buffer[ra.ptr + (i - 1)] = ra.sector * S + (i - 1)
      BY <1>7, <3>1 DEF FilledWith
    <3>3. DOMAIN ra_buffer = 0 .. SCSI_RA_SECTORS - 1 BY <1>6 DEF Buffers
    <3>4. 0 <= ra.ptr + i - 1 /\ ra.ptr + i - 1 < SCSI_RA_SECTORS BY <1>5, <1>6, <3>1, <3>2, <3>3
    <3> QED BY <1>9, <1>12, <3>1, <3>2, <3>4
  <2> QED BY <2>1, <2>2
<1>20. FilledWith(Stored(Aim, p, from), p, src, n) BY <1>3, <1>12, <1>19, StoreFills
<1>21. Aim' = Stored(Aim, p, from) BY <1>1, <1>3, <1>14 DEF Into, Aim, to
<1>22. FilledWith(mem', 0, First, x)
  <2>1. CASE to = "mem"
    <3>1. mem' = Stored(mem, p, from) /\ Aim = mem /\ Room = MaxN * CdUnits BY <1>14, <2>1 DEF Into, Aim, Room, to
    <3>2. x <= p BY <1>3, <2>1
    <3> QED BY <1>3, <1>4, <1>11, <1>12, <3>1, <3>2, StoreLeaves
  <2>2. CASE to = "sector" BY <1>11, <1>14, <2>2 DEF Into
  <2> QED BY <1>3, <2>1, <2>2
<1>23. HasRead(my.call.n - my.left)' BY <1>1, <1>13, <1>22 DEF HasRead, x
<1>24. UsbCallInv'
  BY <1>a, <1>1, <1>13, <1>23 DEF UsbCallInv, UsbJobInv, Fetched, ReadingDisc, InUsbCall, HalfJob
<1>25. FetchInv' BY <1>1, <1>13, <1>20, <1>21 DEF FetchInv, p, n, src, c
<1> QED BY <1>18, <1>24, <1>25 DEF UsbDataInv

\* A sector that divides a CD sector is no larger; the other size is twice as
\* large.
LEMMA SmallSector ==
  ASSUME UsbSizes, MassInv, UsbCallInv, at \in InUsbCall
  PROVE  \/ S = 2 * CdUnits
         \/ /\ S <= CdUnits /\ CdUnits \div S \in Nat \ {0} /\ (CdUnits \div S) * S = CdUnits
<1>1. S \in Nat \ {0} /\ (CdUnits % S = 0 \/ S = 2 * CdUnits) /\ CdUnits \in Nat \ {0} BY UsbCallTyped
<1> SUFFICES ASSUME CdUnits % S = 0
             PROVE  S <= CdUnits /\ CdUnits \div S \in Nat \ {0} /\ (CdUnits \div S) * S = CdUnits
  BY <1>1
<1>2. PICK s \in Nat \ {0} : s = S BY <1>1
<1>3. PICK q \in Nat : q = CdUnits \div s BY <1>1, <1>2, InPart
<1>4. q * s <= CdUnits /\ CdUnits % s = CdUnits - q * s /\ q * s \in Int BY <1>1, <1>2, <1>3, InPart
<1>5. q * s = CdUnits BY <1>1, <1>2, <1>4
<1>6. q # 0
  <2>1. 0 * s = 0 BY <1>2
  <2> QED BY <1>1, <1>5, <2>1
<1>7. s <= q * s
  <2>1. 1 <= q BY <1>3, <1>6
  <2>2. 1 * s <= q * s BY <1>2, <1>3, <2>1, PartTimes
  <2>3. 1 * s = s BY <1>2
  <2> QED BY <2>2, <2>3
<1> QED BY <1>2, <1>3, <1>5, <1>6, <1>7

\* The next command of a read is chosen.
LEMMA ReadCDNextDelivers ==
  ASSUME UsbSizes, MassInv, UsbDataInv, ReadCDNext, ~hurt'
  PROVE  UsbDataInv'
<1>a. UsbCallInv /\ MassTypes BY DEF UsbDataInv, MassInv
<1> DEFINE k == DiskSectorsToRead
           half == IF k = 0 THEN "first" ELSE "none"
           want == IF k = 0 THEN HalfJob ELSE [sector |-> my.lba, count |-> k, to |-> "mem", p |-> my.p]
<1>1. /\ at = "next" /\ my.left > 0 /\ at' = "ra" /\ my' = [my EXCEPT !.half = half, !.job = want]
      /\ hurt' = (hurt \/ (k > 0 /\ k * S < Chunk * CdUnits))
      /\ UNCHANGED <<dev, ra, ra_buffer, gSectorBuffer, mem, flight>>
  BY DEF ReadCDNext, buffers, HalfJob
<1>2. /\ my.call \in Reads /\ my.left \in Int /\ First \in Int /\ my.p \in Int
      /\ S \in Nat \ {0} /\ CdUnits \in Nat \ {0}
  BY <1>a, <1>1, UsbCallTyped DEF InUsbCall
<1>3. /\ Nothings(my.reads) /\ my.left \in 0 .. my.call.n /\ HasRead(my.call.n - my.left)
      /\ Fetched /\ my.lba * S = First + my.p
  BY <1>a, <1>1 DEF UsbCallInv
<1>4. Chunk \in Nat \ {0} /\ k \in Nat BY <1>1, ChunkTyped DEF Configuring
<1>5. Chunk = Least(my.left, MAX_USB_SECTORS) BY DEF Chunk
<1> DEFINE total == Chunk * CdUnits
<1>6. total \in Nat BY <1>2, <1>4, PartTimes
<1>7. k * S <= total /\ total < (k + 1) * S /\ k * S \in Int
  <2>1. k = total \div S BY DEF DiskSectorsToRead
  <2> HIDE DEF k, total
  <2> QED BY <1>2, <1>4, <1>6, <2>1, InPart
<1>8. k # 0 => k * S = total
  <2> HIDE DEF k
  <2>1. ~(k > 0 /\ k * S < total) BY <1>1
  <2> HIDE DEF total
  <2> QED BY <1>4, <1>6, <1>7, <2>1
<1>9. k = 0 => S = 2 * CdUnits /\ my.left = 1
  <2> HIDE DEF k
  <2> SUFFICES ASSUME k = 0 PROVE S = 2 * CdUnits /\ my.left = 1 OBVIOUS
  <2>1. total < S BY <1>2, <1>7
  <2>2. PICK g \in Nat \ {0} : g = Chunk BY <1>4
  <2>3. PICK u \in Nat \ {0} : u = CdUnits BY <1>2
  <2>4. u <= g * u
    <3>1. 1 * u <= g * u BY <2>2, <2>3, PartTimes
    <3> QED BY <2>3, <3>1
  <2>5. total = g * u BY <2>2, <2>3
  <2>6. ~(S <= CdUnits) BY <1>2, <1>6, <2>1, <2>3, <2>4, <2>5
  <2>7. S = 2 * u BY <1>a, <1>1, <2>3, <2>6, SmallSector DEF InUsbCall
  <2>8. g = 1
    <3> SUFFICES ASSUME 2 <= g PROVE FALSE BY <2>2
    <3>1. 2 * u <= g * u BY <2>2, <2>3, PartTimes
    <3> QED BY <1>6, <2>1, <2>3, <2>5, <2>7, <3>1
  <2>9. MAX_USB_SECTORS > 1 /\ MAX_USB_SECTORS \in Nat BY MassSizes DEF UsbSizes
  <2>10. my.left = 1 BY <1>2, <1>5, <2>2, <2>8, <2>9 DEF Least
  <2> QED BY <2>3, <2>7, <2>10
<1>10. my \in UsbLocals BY <1>a DEF MassTypes
<1> HIDE DEF k, total
<1>11. /\ my'.call = my.call /\ my'.reads = my.reads /\ my'.left = my.left /\ my'.lba = my.lba /\ my'.p = my.p
       /\ my'.job = want /\ my'.half = half
  <2> HIDE DEF want, half
  <2> QED BY <1>1, <1>10 DEF UsbLocals
<1>12. S' = S /\ First' = First /\ Chunk' = Chunk /\ DiskSectorsToRead' = k /\ HalfJob' = HalfJob
  BY <1>1, <1>11 DEF S, First, Chunk, DiskSectorsToRead, HalfJob, k
<1>13. UsbJobInv'
  <2>1. CASE k = 0 BY <1>3, <1>9, <1>11, <1>12, <2>1 DEF UsbJobInv
  <2>2. CASE k # 0 BY <1>3, <1>8, <1>11, <1>12, <2>2 DEF UsbJobInv, total
  <2> QED BY <2>1, <2>2
<1> HIDE DEF want, half
<1>14. Fetched' /\ HasRead(my.call.n - my.left)' BY <1>1, <1>3, <1>11, <1>12 DEF Fetched, HasRead
<1>15. UsbCallInv' BY <1>1, <1>2, <1>3, <1>11, <1>13, <1>14 DEF UsbCallInv, ReadingDisc
<1>16. FetchInv' BY <1>1 DEF FetchInv
<1>17. AheadInv' BY <1>1, <1>12, AheadKept DEF UsbDataInv
<1> QED BY <1>15, <1>16, <1>17 DEF UsbDataInv

\* A failed transfer ends what is promised.
LEMMA UsbErrorHurts == UsbError => hurt'
  BY DEF UsbError, Fails

\* One filling behind the other.
LEMMA FilledOn ==
  ASSUME NEW buf, NEW from \in Int, NEW x \in Nat, NEW y \in Nat,
         FilledWith(buf, 0, from, x), FilledWith(buf, x, from + x, y)
  PROVE  FilledWith(buf, 0, from, x + y)
<1> SUFFICES ASSUME NEW i \in Nat, i < x + y PROVE 0 + i \in DOMAIN buf /\ buf[0 + i] = from + i
  BY DEF FilledWith
<1>1. CASE i < x
  <2>1. 0 + i \in DOMAIN buf /\ buf[0 + i] = from + i BY <1>1, Zenon DEF FilledWith
  <2> QED BY <2>1
<1>2. CASE ~(i < x)
  <2>1. PICK j \in Nat : j = i - x BY <1>2
  <2>2. j < y /\ x + j = 0 + i /\ from + x + j = from + i BY <2>1
  <2>3. x + j \in DOMAIN buf /\ buf[x + j] = from + x + j BY <2>1, <2>2, Zenon DEF FilledWith
  <2> QED BY <2>2, <2>3
<1> QED BY <1>1, <1>2

\* A half of a 4096-byte sector is copied behind what has been read.
LEMMA HalfCopied ==
  ASSUME NEW U \in Nat \ {0}, NEW K \in Int, K = 2 * U, NEW half \in Buffers(K), NEW h \in {0, U},
         NEW L \in Int, NEW buf \in Buffers(L), NEW x \in Nat, x + U <= L,
         NEW from \in Int, NEW sec \in Int, sec + h = from + x,
         FilledWith(half, 0, sec, K), FilledWith(buf, 0, from, x)
  PROVE  FilledWith(Stored(buf, x, Part(half, h, U)), 0, from, x + U)
<1> DEFINE s == Part(half, h, U)
<1>1. h \in Nat /\ h <= U OBVIOUS
<1>2. s \in Seq(Int) /\ Len(s) = U
      /\ \A i \in 1 .. U : 0 <= h + i - 1 /\ h + i - 1 < K => s[i] = half[h + i - 1]
  <2>1. PICK q \in Int : q = h BY <1>1
  <2>2. U \in Int /\ U > 0 OBVIOUS
  <2>3. /\ Part(half, q, U) \in Seq(Int) /\ Len(Part(half, q, U)) = IF U > 0 THEN U ELSE 0
        /\ \A i \in 1 .. U : 0 <= q + i - 1 /\ q + i - 1 < K => Part(half, q, U)[i] = half[q + i - 1]
    BY <2>2, PartIs
  <2>4. Len(Part(half, q, U)) = U BY <2>2, <2>3
  <2> QED BY <2>1, <2>3, <2>4, Zenon DEF s
<1> HIDE DEF s
<1>3. ASSUME NEW i \in 1 .. U PROVE s[i] = (from + x) + i - 1
  <2>1. PICK j \in Nat : j = h + i - 1 /\ j < K BY <1>1
  <2>2. s[i] = half[j] BY <1>2, <2>1
  <2>3. half[0 + j] = sec + j BY <2>1 DEF FilledWith
  <2>4. 0 + j = j /\ sec + j = (from + x) + i - 1 BY <1>1, <2>1
  <2> QED BY <2>2, <2>3, <2>4
<1>4. FilledWith(Stored(buf, x, s), x, from + x, U)
  <2>1. PICK g \in Int : g = from + x OBVIOUS
  <2>2. \A i \in 1 .. U : s[i] = g + i - 1 BY <1>3, <2>1
  <2>3. FilledWith(Stored(buf, x, s), x, g, U) BY <1>2, <2>2, StoreFills
  <2> QED BY <2>1, <2>3
<1>5. FilledWith(Stored(buf, x, s), 0, from, x) BY <1>2, StoreLeaves
<1>6. FilledWith(Stored(buf, x, s), 0, from, x + U) BY <1>4, <1>5, FilledOn
<1> QED BY <1>6 DEF s

\* What a command read is the caller's, and the loop goes on behind it.
LEMMA CopyDelivers ==
  ASSUME UsbSizes, MassInv, UsbDataInv, Copy
  PROVE  UsbDataInv'
<1>a. UsbCallInv /\ FetchInv /\ MassTypes BY DEF UsbDataInv, MassInv
<1>0. at = "copy" /\ at \in ReadingDisc /\ at \in InUsbCall BY DEF Copy, ReadingDisc, InUsbCall
<1> DEFINE k == DiskSectorsToRead
           done == IF my.half = "second" THEN 1 ELSE Chunk
           on == IF my.half = "second" THEN 1 ELSE k
           x == (my.call.n - my.left) * CdUnits
           y == done * CdUnits
<1>1. /\ at' = "next"
      /\ my' = [my EXCEPT !.left = @ - done, !.p = @ + done * CdUnits, !.lba = @ + on]
      /\ UNCHANGED <<dev, flight, ra, ra_buffer>>
  BY DEF Copy
<1>2. mem' = CASE my.half = "second" -> Stored(mem, my.p, Part(gSectorBuffer, CdUnits, CdUnits))
               [] my.half = "first" -> Stored(mem, my.p, Part(gSectorBuffer, 0, CdUnits))
               [] OTHER -> mem
  BY DEF Copy
<1>3. /\ my.call \in Reads /\ my.call.n \in 1 .. MaxN /\ my.left \in Int /\ First \in Int /\ my.p \in Int
      /\ S \in Nat \ {0} /\ CdUnits \in Nat \ {0} /\ my.lba \in Int /\ MaxN \in Nat
  BY <1>a, <1>0, UsbCallTyped, MassSizes
<1>4. /\ Nothings(my.reads) /\ my.left \in 0 .. my.call.n /\ HasRead(my.call.n - my.left)
      /\ my.left > 0 /\ my.p = x /\ UsbJobInv
  BY <1>a, <1>0 DEF UsbCallInv, Fetched
<1>5. FilledWith(Aim, my.job.p, my.job.sector * S, my.job.count * S) BY <1>a, <1>0 DEF FetchInv
<1>6. my.half \in {"none", "first", "second"} /\ my \in UsbLocals BY <1>a DEF MassTypes, UsbLocals
<1>7. MAX_USB_SECTORS \in Nat /\ MAX_USB_SECTORS > 1 BY MassSizes DEF UsbSizes
<1>8. Chunk \in Nat \ {0} /\ Chunk <= my.left /\ (my.left = 1 => Chunk = 1) BY <1>3, <1>4, <1>7 DEF Chunk, Least
<1>9. k \in Nat BY <1>0, <1>4, ChunkTyped DEF Configuring
<1>10. done \in Nat \ {0} /\ done <= my.left /\ on \in Int BY <1>4, <1>8, <1>9
<1>11. FilledWith(mem, 0, First, x) BY <1>4 DEF HasRead
<1>12. x \in Nat /\ y \in Nat /\ (my.call.n - (my.left - done)) * CdUnits = x + y /\ x + y <= MaxN * CdUnits
  <2> HIDE DEF done
  <2>1. PICK a \in Nat : a = my.call.n - my.left BY <1>3, <1>4
  <2>2. PICK u \in Nat : u = CdUnits BY <1>3
  <2>3. PICK d \in Nat : d = done BY <1>10
  <2>4. a * u \in Nat /\ d * u \in Nat /\ (a + d) * u = a * u + d * u BY PartTimes, TimesSum
  <2>5. my.call.n - (my.left - done) = a + d /\ a + d \in Nat /\ a + d <= MaxN BY <1>3, <1>10, <2>1, <2>3
  <2>6. (a + d) * u <= MaxN * u BY <1>3, <2>2, <2>5, PartTimes
  <2> QED BY <2>1, <2>2, <2>3, <2>4, <2>5, <2>6
<1>13. /\ mem \in Buffers(MaxN * CdUnits) /\ gSectorBuffer \in Buffers(2 * CdUnits)
       /\ MaxN * CdUnits \in Int
  BY <1>a, BufferSizes DEF MassTypes
<1> HIDE DEF done, on, k
<1>14. /\ my'.call = my.call /\ my'.reads = my.reads /\ my'.left = my.left - done /\ my'.lba = my.lba + on
       /\ my'.p = my.p + y
  <2>1. PICK q \in Int : q = my.p + y BY <1>3, <1>12
  <2>2. my' = [my EXCEPT !.left = my.left - done, !.p = q, !.lba = my.lba + on] BY <1>1, <2>1
  <2> QED BY <1>6, <2>1, <2>2 DEF UsbLocals
<1> HIDE DEF x, y
<1>15. /\ FilledWith(mem', 0, First, x + y)
       /\ my.left - done > 0 => (my.lba + on) * S = First + (my.p + y)
  <2>1. CASE my.half = "none"
    <3>1. my.lba * S = First + my.p /\ k * S = Chunk * CdUnits
          /\ my.job = [sector |-> my.lba, count |-> k, to |-> "mem", p |-> my.p]
      BY <1>4, <2>1 DEF UsbJobInv, k
    <3>2. done = Chunk /\ on = k /\ y = k * S BY <2>1, <3>1 DEF done, on, y
    <3>3. Aim = mem /\ my.job.p = x /\ my.job.sector * S = First + x /\ my.job.count * S = y
      BY <1>4, <3>1, <3>2 DEF Aim
    <3>4. FilledWith(mem, x, First + x, y) BY <1>5, <3>3
    <3>5. mem' = mem BY <1>2, <2>1
    <3>6. FilledWith(mem', 0, First, x + y) BY <1>3, <1>11, <1>12, <3>4, <3>5, FilledOn
    <3>7. (my.lba + on) * S = First + (my.p + y)
      <4>1. PICK s \in Nat : s = S BY <1>3
      <4>2. (my.lba + k) * s = my.lba * s + k * s BY <1>3, <1>9, TimesSum
      <4>3. my.lba * s \in Int /\ k * s \in Int BY <1>3, <1>9, <4>1
      <4> QED BY <1>3, <1>12, <3>1, <3>2, <4>1, <4>2, <4>3
    <3> QED BY <3>6, <3>7
  <2>2. CASE my.half \in {"first", "second"}
    <3>1. my.job = HalfJob /\ S = 2 * CdUnits BY <1>4, <2>2 DEF UsbJobInv
    <3>2. my.job.to = "sector" /\ my.job.p = 0 /\ my.job.sector = my.lba /\ my.job.count = 1 BY <3>1 DEF HalfJob
    <3>3. PICK sec \in Int : sec = my.lba * S BY <1>3
    <3>4. FilledWith(gSectorBuffer, 0, sec, 2 * CdUnits)
      <4>1. my.job.count * S = 2 * CdUnits BY <1>3, <3>1, <3>2
      <4> QED BY <1>5, <3>2, <3>3, <4>1 DEF Aim
    <3>5. done = 1 /\ y = CdUnits
      <4>1. done = 1 BY <1>4, <1>8, <2>2 DEF done, UsbJobInv
      <4>2. 1 * CdUnits = CdUnits BY <1>3
      <4> QED BY <4>1, <4>2 DEF y
    <3>6. my.half = "second" => sec + CdUnits = First + x BY <1>4, <3>3 DEF UsbJobInv
    <3>7. my.half = "first" => sec + 0 = First + x /\ my.left = 1 BY <1>4, <3>3 DEF UsbJobInv
    <3>8. mem' = Stored(mem, x, Part(gSectorBuffer, IF my.half = "second" THEN CdUnits ELSE 0, CdUnits))
      BY <1>2, <1>4, <2>2
    <3>9. x + CdUnits <= MaxN * CdUnits BY <1>12, <3>5
    <3>10. FilledWith(mem', 0, First, x + y)
      <4>1. PICK h \in {0, CdUnits} : h = IF my.half = "second" THEN CdUnits ELSE 0 OBVIOUS
      <4>2. sec + h = First + x BY <2>2, <3>6, <3>7, <4>1
      <4>3. FilledWith(Stored(mem, x, Part(gSectorBuffer, h, CdUnits)), 0, First, x + CdUnits)
        <5>1. PICK K \in Int : K = 2 * CdUnits BY <1>3
        <5>2. FilledWith(gSectorBuffer, 0, sec, K) /\ gSectorBuffer \in Buffers(K) BY <1>13, <3>4, <5>1
        <5> QED BY <1>3, <1>11, <1>12, <1>13, <3>9, <4>2, <5>1, <5>2, HalfCopied
      <4> QED BY <3>5, <3>8, <4>1, <4>3
    <3>11. my.left - done > 0 => (my.lba + on) * S = First + (my.p + y)
      <4> SUFFICES ASSUME my.left - done > 0 PROVE (my.lba + on) * S = First + (my.p + y) OBVIOUS
      <4>1. my.half = "second" BY <1>3, <2>2, <3>5, <3>7
      <4>2. on = 1 BY <4>1 DEF on
      <4>3. (my.lba + 1) * S = my.lba * S + S
        <5>1. PICK s \in Nat : s = S BY <1>3
        <5>2. (my.lba + 1) * s = my.lba * s + s BY <1>3, OneMoreTime
        <5> QED BY <5>1, <5>2
      <4>4. PICK v \in Int : v = S /\ v = 2 * CdUnits BY <1>3, <3>1
      <4>5. (my.lba + on) * S = sec + v BY <3>3, <4>2, <4>3, <4>4
      <4>6. sec + CdUnits = First + x /\ my.p = x /\ y = CdUnits BY <1>4, <3>5, <3>6, <4>1
      <4> QED BY <1>3, <1>12, <4>4, <4>5, <4>6
    <3> QED BY <3>10, <3>11
  <2> QED BY <1>6, <2>1, <2>2
<1>16. S' = S /\ First' = First BY <1>1, <1>14 DEF S, First
<1>17. my.left - done \in 0 .. my.call.n BY <1>3, <1>4, <1>10
<1>18. HasRead(my.call.n - my.left)' BY <1>12, <1>14, <1>15, <1>16 DEF HasRead
<1>19. Fetched' BY <1>4, <1>12, <1>14 DEF Fetched
<1>20. UsbCallInv'
  <2>1. my'.call \in Reads /\ Nothings(my'.reads) /\ my'.left \in 0 .. my'.call.n BY <1>3, <1>4, <1>14, <1>17
  <2>2. my'.left > 0 => my'.lba * S' = First' + my'.p BY <1>14, <1>15, <1>16
  <2> QED BY <1>1, <1>18, <1>19, <2>1, <2>2 DEF UsbCallInv, ReadingDisc
<1>21. FetchInv' BY <1>1 DEF FetchInv
<1>22. AheadInv' BY <1>1, <1>16, AheadKept DEF UsbDataInv
<1> QED BY <1>20, <1>21, <1>22 DEF UsbDataInv


\* The read of the call's part begins, or one of no sectors in the next.
LEMMA ReadCDBegins ==
  ASSUME UsbSizes, MassInv, UsbDataInv, mass_stor_ReadCD
  PROVE  UsbDataInv'
<1>a. UsbCallInv /\ MassTypes /\ my \in UsbLocals BY DEF UsbDataInv, MassInv, MassTypes
<1> DEFINE r == Head(my.reads)
           big == S > CdUnits
           lba == LBAs[r.part] + IF big THEN r.lsn \div 2 ELSE r.lsn * (CdUnits \div S)
           odd == big /\ r.lsn % 2 > 0
           want == IF odd THEN [sector |-> lba, count |-> 1, to |-> "sector", p |-> 0] ELSE NoJob
           half == IF odd THEN "second" ELSE "none"
<1>1. /\ at = "part" /\ my.reads # <<>> /\ at' = IF odd THEN "ra" ELSE "next"
      /\ my' = [my EXCEPT !.reads = Tail(@), !.left = r.n, !.lba = lba, !.p = r.p * CdUnits,
                          !.job = want, !.half = half]
      /\ UNCHANGED <<dev, flight, ra, ra_buffer, mem>>
  BY DEF mass_stor_ReadCD, buffers
<1>2. /\ my.call \in Reads /\ my.call.n \in 1 .. MaxN /\ my.call.lsn \in Nat /\ First \in Int
      /\ my.reads \in Seq(ReadJobs) /\ S \in Nat \ {0} /\ CdUnits \in Nat \ {0}
  BY <1>a, <1>1, UsbCallTyped DEF InUsbCall
<1>3. r \in ReadJobs /\ r = my.reads[1] /\ 1 \in 1 .. Len(my.reads) BY <1>1, <1>2
<1>4. r.part \in 1 .. NumParts /\ r.lsn \in Nat /\ r.n \in Nat /\ r.p \in Nat BY <1>3 DEF ReadJobs
<1>5. LBAs[r.part] \in Nat BY <1>4, MassAssumption
<1>6. S = 2 * CdUnits \/ (S <= CdUnits /\ CdUnits \div S \in Nat \ {0} /\ (CdUnits \div S) * S = CdUnits)
  BY <1>a, <1>1, SmallSector DEF InUsbCall
<1>7. big <=> S = 2 * CdUnits BY <1>2, <1>6
<1> HIDE DEF r, big
<1>8. /\ my'.call = my.call /\ my'.reads = Tail(my.reads) /\ my'.left = r.n /\ my'.lba = lba
      /\ my'.p = r.p * CdUnits /\ my'.job = want /\ my'.half = half
  <2> HIDE DEF lba, want, half, odd
  <2>1. PICK R : R = Tail(my.reads) OBVIOUS
  <2>2. PICK q : q = r.p * CdUnits OBVIOUS
  <2>3. my' = [my EXCEPT !.reads = R, !.left = r.n, !.lba = lba, !.p = q, !.job = want, !.half = half]
    BY <1>1, <2>1, <2>2
  <2> QED BY <1>a, <2>1, <2>2, <2>3 DEF UsbLocals
<1>9. S' = S /\ First' = First BY <1>1, <1>8 DEF S, First
<1>10. AheadInv' BY <1>1, <1>9, AheadKept DEF UsbDataInv
<1>11. at' \in {"ra", "next"} BY <1>1
<1>12. FetchInv' BY <1>11 DEF FetchInv

\* What the code computes is where the CD sector is.
<1>13. /\ ~odd => lba * S = LBAs[r.part] * S + r.lsn * CdUnits
       /\ odd => lba * S + CdUnits = LBAs[r.part] * S + r.lsn * CdUnits
  <2>1. PICK l \in Nat : l = LBAs[r.part] BY <1>5
  <2>2. PICK u \in Nat \ {0} : u = CdUnits BY <1>2
  <2>3. PICK m \in Nat : m = r.lsn BY <1>4
  <2>4. CASE big
    <3>1. S = 2 * u BY <1>7, <2>2, <2>4
    <3>2. PICK h \in Nat : h = m \div 2 BY <2>3
    <3>3. m = 2 * h + (m % 2) /\ m % 2 \in {0, 1} BY <2>3, <3>2
    <3>4. lba = l + h BY <2>1, <2>3, <2>4, <3>2
    <3>5. (l + h) * (2 * u) = l * (2 * u) + (2 * h) * u
      <4>1. (l + h) * (2 * u) = l * (2 * u) + h * (2 * u)
        <5>1. 2 * u \in Int BY <2>2
        <5> QED BY <2>1, <3>2, <5>1, TimesSum
      <4>2. h * (2 * u) = (h * 2) * u BY <2>2, <3>2, TimesTimes
      <4>3. h * 2 = 2 * h BY <3>2
      <4> QED BY <4>1, <4>2, <4>3
    <3>6. (2 * h + 1) * u = (2 * h) * u + u
      <4>1. 2 * h \in Int BY <3>2
      <4> QED BY <2>2, <4>1, OneMoreTime
    <3>7. odd <=> m % 2 = 1 BY <2>3, <2>4, <3>3
    <3>8. l * (2 * u) \in Int /\ (2 * h) * u \in Int BY <2>1, <2>2, <3>2
    <3> HIDE DEF lba, odd
    <3>9. CASE odd
      <4>1. m = 2 * h + 1
        <5>1. m % 2 = 1 BY <3>7, <3>9
        <5> QED BY <2>3, <3>2, <3>3, <5>1
      <4> QED BY <2>1, <2>2, <2>3, <3>1, <3>4, <3>5, <3>6, <3>8, <3>9, <4>1
    <3>10. CASE ~odd
      <4>1. m = 2 * h
        <5>1. m % 2 = 0 BY <3>3, <3>7, <3>10
        <5> QED BY <2>3, <3>2, <3>3, <5>1
      <4> QED BY <2>1, <2>2, <2>3, <3>1, <3>4, <3>5, <3>8, <3>10, <4>1
    <3> QED BY <3>9, <3>10
  <2>5. CASE ~big
    <3>1. PICK s \in Nat \ {0} : s = S BY <1>2
    <3>2. PICK q \in Nat : q = CdUnits \div S BY <1>6, <1>7, <2>5
    <3>3. q * s = u BY <1>6, <1>7, <2>2, <2>5, <3>1, <3>2
    <3>4. lba = l + m * q BY <2>1, <2>3, <2>5, <3>2
    <3>5. (l + m * q) * s = l * s + m * (q * s)
      <4>1. m * q \in Int BY <2>3, <3>2
      <4>2. (l + m * q) * s = l * s + (m * q) * s BY <2>1, <3>1, <4>1, TimesSum
      <4>3. (m * q) * s = m * (q * s) BY <2>3, <3>1, <3>2, TimesTimes
      <4> QED BY <4>2, <4>3
    <3>6. ~odd BY <2>5
    <3> HIDE DEF lba, odd
    <3> QED BY <2>1, <2>2, <2>3, <3>1, <3>3, <3>4, <3>5, <3>6
  <2> QED BY <2>4, <2>5
<1>14. Nothings(Tail(my.reads)) /\ HasRead(my.call.n - r.n) /\ r.n \in 0 .. my.call.n
       /\ (r.n > 0 => r.p * CdUnits = 0 /\ r.n = my.call.n /\ First = LBAs[r.part] * S + r.lsn * CdUnits)
       /\ (odd => r.n > 0)
  <2>1. CASE my.reads = PartReads(my.call.lsn, my.call.n)
    <3>1. /\ r.part = my.call.lsn \div PartSectors + 1 /\ r.lsn = my.call.lsn % PartSectors
          /\ r.p = 0 /\ r.n = my.call.n /\ Nothings(Tail(my.reads))
      BY <1>2, <2>1, UsbCallReads DEF r
    <3>2. First = LBAs[r.part] * S + r.lsn * CdUnits BY <3>1 DEF First
    <3>3. r.p * CdUnits = 0
      <4>1. 0 * CdUnits = 0 BY <1>2
      <4> QED BY <3>1, <4>1
    <3>4. HasRead(my.call.n - r.n)
      <4>1. (my.call.n - r.n) * CdUnits = 0
        <5>1. my.call.n - r.n = 0 BY <1>2, <3>1
        <5>2. 0 * CdUnits = 0 BY <1>2
        <5> QED BY <5>1, <5>2
      <4> QED BY <4>1, NothingFilled DEF HasRead
    <3> HIDE DEF odd
    <3> QED BY <1>2, <3>1, <3>2, <3>3, <3>4
  <2>2. CASE Nothings(my.reads) /\ HasRead(my.call.n)
    <3>1. r.n = 0 /\ r.lsn % 2 = 0 BY <1>3, <2>2 DEF Nothings
    <3>2. ~odd BY <3>1
    <3>3. Nothings(Tail(my.reads))
      <4>1. /\ Len(Tail(my.reads)) = Len(my.reads) - 1 /\ Len(my.reads) \in Nat
            /\ \A j \in 1 .. Len(Tail(my.reads)) : j + 1 \in 1 .. Len(my.reads) /\ Tail(my.reads)[j] = my.reads[j + 1]
        BY <1>1, <1>2
      <4> QED BY <2>2, <4>1 DEF Nothings
    <3>4. my.call.n - r.n = my.call.n BY <1>2, <3>1
    <3> HIDE DEF odd
    <3> QED BY <1>2, <2>2, <3>1, <3>2, <3>3, <3>4
  <2> QED BY <1>a, <1>1, <2>1, <2>2 DEF UsbCallInv
<1>15. my'.call \in Reads /\ Nothings(my'.reads) /\ my'.left \in 0 .. my'.call.n BY <1>2, <1>8, <1>14
<1>16. HasRead(my.call.n - my.left)' BY <1>1, <1>8, <1>9, <1>14 DEF HasRead
<1>17. r.n > 0 => Fetched'
  <2>1. r.n > 0 => (my.call.n - r.n) * CdUnits = 0
    <3>1. r.n > 0 => my.call.n - r.n = 0 BY <1>2, <1>4, <1>14
    <3>2. 0 * CdUnits = 0 BY <1>2
    <3> QED BY <3>1, <3>2
  <2> QED BY <1>8, <1>14, <2>1 DEF Fetched
<1>18. CASE odd
  <2>1. r.n > 0 /\ at' = "ra" /\ S = 2 * CdUnits BY <1>1, <1>7, <1>14, <1>18
  <2>2. my'.job = HalfJob' /\ my'.half = "second" BY <1>8, <1>18 DEF HalfJob
  <2>3. lba * S + CdUnits = First + my'.p BY <1>2, <1>8, <1>13, <1>14, <1>18, <2>1
  <2>4. UsbJobInv' BY <1>8, <1>9, <2>1, <2>2, <2>3 DEF UsbJobInv
  <2>5. UsbCallInv'
    <3> HIDE DEF odd
    <3> QED BY <1>8, <1>15, <1>16, <1>17, <2>1, <2>4 DEF UsbCallInv, ReadingDisc
  <2> QED BY <1>10, <1>12, <2>5 DEF UsbDataInv
<1>19. CASE ~odd
  <2>1. at' = "next" BY <1>1, <1>19
  <2>2. r.n > 0 => my'.lba * S' = First' + my'.p BY <1>2, <1>8, <1>9, <1>13, <1>14, <1>19
  <2>3. UsbCallInv'
    <3> HIDE DEF odd
    <3> QED BY <1>8, <1>15, <1>16, <1>17, <2>1, <2>2 DEF UsbCallInv, ReadingDisc
  <2> QED BY <1>10, <1>12, <2>3 DEF UsbDataInv
<1> QED BY <1>18, <1>19

\* A failure, or one of the limits, once met stays.
LEMMA HurtStays == [MassNext]_massvars /\ hurt => hurt'
<1> SUFFICES ASSUME [MassNext]_massvars, hurt PROVE hurt' OBVIOUS
<1>1. CASE UNCHANGED massvars BY <1>1 DEF massvars
<1>2. CASE mass_stor_connect \/ UsbReadSectors BY <1>2 DEF mass_stor_connect, UsbReadSectors
<1>3. CASE ThreadStep
  <2>1. CASE mass_stor_configureDevice \/ StageSend \/ StageDone
    BY <2>1 DEF mass_stor_configureDevice, StageSend, StageDone, Queued, NotQueued, Fails
  <2>2. CASE PartsDone \/ mass_stor_ReadCD \/ ReadCDNext \/ ReadCDReturn \/ Returned \/ Copy
    BY <2>2 DEF PartsDone, mass_stor_ReadCD, ReadCDNext, ReadCDReturn, Returned, Copy
  <2>3. CASE RaWait \/ RaHit \/ SectorRead \/ SectorDone \/ ReadAhead
    BY <2>3 DEF RaWait, RaHit, SectorRead, SectorDone, ReadAhead, Queued, NotQueued, Fails
  <2> QED BY <1>3, <2>1, <2>2, <2>3, Zenon DEF ThreadStep
<1>4. CASE UsbStep
  <2>1. CASE UsbDone BY <2>1, UsbDoneIs
  <2>2. CASE UsbError BY <2>2, UsbErrorHurts
  <2> QED BY <1>4, <2>1, <2>2 DEF UsbStep
<1> QED BY <1>1, <1>2, <1>3, <1>4 DEF MassNext

\* The invariant about the data holds until a failure or one of the limits.
LEMMA UsbDataStep ==
  ASSUME UsbSizes, MassInv, SignalInv, UsbDataInv, [MassNext]_massvars, ~hurt'
  PROVE  UsbDataInv'
<1>1. CASE UNCHANGED massvars
  <2>1. UNCHANGED <<dev, flight, ra, ra_buffer, gSectorBuffer, mem, my, at>> BY <1>1 DEF massvars
  <2>2. S' = S /\ Aim' = Aim /\ First' = First /\ Chunk' = Chunk /\ DiskSectorsToRead' = DiskSectorsToRead
    BY <2>1 DEF S, Aim, First, Chunk, DiskSectorsToRead
  <2>3. UsbCallInv' BY <2>1, <2>2 DEF UsbDataInv, UsbCallInv, UsbJobInv, Fetched, HalfJob, HasRead
  <2>4. FetchInv' BY <2>1, <2>2 DEF UsbDataInv, FetchInv
  <2>5. AheadInv' BY <2>1, <2>2, AheadKept DEF UsbDataInv
  <2> QED BY <2>3, <2>4, <2>5 DEF UsbDataInv
<1>2. CASE mass_stor_connect \/ UsbReadSectors BY <1>2, ConfigureDelivers, UsbCallDelivers
<1>3. CASE ThreadStep
  <2>1. CASE mass_stor_configureDevice \/ StageSend \/ StageDone BY <2>1, ConfigureDelivers
  <2>2. CASE PartsDone \/ ReadCDReturn \/ Returned BY <2>2, UsbReturnDelivers
  <2>3. CASE mass_stor_ReadCD \/ ReadCDNext \/ Copy BY <2>3, ReadCDBegins, ReadCDNextDelivers, CopyDelivers
  <2>4. CASE RaWait \/ RaHit \/ ReadAhead BY <2>4, RaWaitDelivers, RaHitDelivers, ReadAheadDelivers
  <2>5. CASE SectorRead \/ SectorDone BY <2>5, SectorReadDelivers, SectorDoneDelivers
  <2> QED BY <1>3, <2>1, <2>2, <2>3, <2>4, <2>5, Zenon DEF ThreadStep
<1>4. CASE UsbStep
  <2>1. ~UsbError BY UsbErrorHurts
  <2> QED BY <1>4, <2>1, UsbDoneDelivers DEF UsbStep
<1> QED BY <1>1, <1>2, <1>3, <1>4 DEF MassNext

\* A call that returns, with nothing failed and none of the limits met, has
\* put the CD sectors it was asked for into the caller's memory: with any
\* read-aheads before it, any sizes of sectors, transfers, commands and parts,
\* for reads that stay within a part (MassAssumption).
THEOREM UsbReadsDeliver ==
  ASSUME UsbSizes
  PROVE  DevSpec => []ReadCDDelivers
<1> DEFINE Inv == MassInv /\ (~hurt => UsbDataInv)
<1>1. DevInit => Inv
  <2> SUFFICES ASSUME MassInit PROVE Inv BY DEF DevInit
  <2>1. MassInv BY MassInitInv
  <2>2. at = "off" /\ ~ra.active /\ ra.count = 0 /\ S = 0 BY DEF MassInit, S
  <2>3. UsbCallInv BY <2>2 DEF UsbCallInv, InUsbCall, ReadingDisc
  <2>4. FetchInv BY <2>2 DEF FetchInv
  <2>5. AheadInv
    <3>1. ra.count * S = 0 BY <2>2
    <3> QED BY <2>2, <3>1, NothingFilled DEF AheadInv
  <2> QED BY <2>1, <2>3, <2>4, <2>5 DEF UsbDataInv
<1>2. Inv /\ [DevNext]_devvars => Inv'
  <2> SUFFICES ASSUME Inv, [MassNext]_massvars PROVE Inv' BY MassSteps
  <2>1. MassInv' BY MassInvStep
  <2>2. ASSUME ~hurt' PROVE UsbDataInv'
    <3>1. ~hurt BY <2>2, HurtStays
    <3>2. SignalInv BY <3>1 DEF MassInv
    <3> QED BY <2>2, <3>1, <3>2, UsbDataStep
  <2> QED BY <2>1, <2>2
<1>3. Inv => ReadCDDelivers
  <2> SUFFICES ASSUME MassInv, UsbDataInv, at = "return", NEW u \in 0 .. my.call.n * CdUnits - 1
               PROVE  mem[u] = LBAs[my.call.lsn \div PartSectors + 1] * S + (my.call.lsn % PartSectors) * CdUnits + u
    BY DEF ReadCDDelivers
  <2>1. UsbCallInv BY DEF UsbDataInv
  <2>2. my.call.n \in 1 .. MaxN /\ CdUnits \in Nat BY <2>1, UsbCallTyped DEF InUsbCall
  <2>3. HasRead(my.call.n) BY <2>1 DEF UsbCallInv
  <2>4. PICK x \in Int : x = my.call.n * CdUnits BY <2>2
  <2>5. u \in Nat /\ u < x BY <2>4
  <2>6. FilledWith(mem, 0, First, x) BY <2>3, <2>4 DEF HasRead
  <2>7. mem[0 + u] = First + u BY <2>5, <2>6 DEF FilledWith
  <2>8. mem[u] = First + u BY <2>5, <2>7
  <2> QED BY <2>8, Zenon DEF First
<1> QED BY <1>1, <1>2, <1>3, PTL DEF DevSpec
=============================================================================
