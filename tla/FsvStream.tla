----------------------------- MODULE FsvStream -----------------------------
(***************************************************************************)
(* The stream calls of cdvdfsv (cdvd_Stsubcmdcall) over streaming.c: its   *)
(* RPC thread is the client that streams, and answers one read of the EE   *)
(* with as many sceCdStRead calls as bring data, each a DMA from the ring. *)
(***************************************************************************)
EXTENDS Streaming, Sequences

CONSTANT FsvStReads   \* sectors the EE asks for

ASSUME FsvStreamAssumption ==
  /\ Threads = {StThread}
  /\ \A n \in FsvStReads : n \in Nat \ {0} /\ n < 65536 /\ n < LsnMod /\ 1 .. n \subseteq ReadSizes

VARIABLES
  st_read,    \* cdvdSt_read: its arguments and locals; dry: history, the ring was empty at its last sceCdStRead
  st_ee,      \* the EE's buffer, as far as it has been written
  first       \* history: the next sector of the stream when the call began

fsvvars == <<allvars, st_read, st_ee, first>>
fsvonly == <<st_read, st_ee, first>>

NoStRead == [in |-> "none", sectors |-> 0, remaining |-> 0, rpos |-> 0, r |-> 0, dry |-> FALSE]

FsvStInit == StInit /\ st_read = NoStRead /\ st_ee = <<>> /\ first = 0

\* sceCdStRead of n sectors to EE memory, with mode 0.
ReadNow(n) == sceCdStRead /\ call'.left = n /\ call'.ee /\ ~call'.block

\* A read by the client itself, on the IOP.
sceCdStReadIop == st_read.in = "none" /\ sceCdStRead /\ UNCHANGED fsvonly

\* The other stream calls.
cdvd_Stsubcmdcall ==
  /\ st_read.in = "none"
  /\ sceCdStStart \/ sceCdStStop \/ sceCdStPause \/ sceCdStResume \/ sceCdStInit \/ sceCdStStat \/ NotStreaming
  /\ UNCHANGED fsvonly

-----------------------------------------------------------------------------
(***************************************************************************)
(* cdvdSt_read.                                                            *)
(***************************************************************************)
cdvdSt_read == \E n \in FsvStReads :
  /\ st_read.in = "none"
  /\ first' = expected /\ st_ee' = <<>>
  /\ \/ /\ ReadNow(n)
        /\ st_read' = [NoStRead EXCEPT !.in = "read", !.sectors = n, !.remaining = n]
     \/ /\ NotStreaming
        /\ st_read' = [NoStRead EXCEPT !.in = "return", !.sectors = n, !.dry = TRUE]

\* What sceCdStRead does that the EE sees: nothing to take; or the DMA,
\* which reads the ring until it has ended.
StReadTakes ==
  /\ st_read.in = "read" /\ StReadCopy
  /\ st_read' = [st_read EXCEPT !.r = 0, !.dry = StStreamed = 0]
  /\ UNCHANGED <<st_ee, first>>
DmaData == [i \in 1 .. call.n |-> mem[Ring][(StReadPtr + i - 1) % StBufmax]]
StReadSends ==
  /\ st_read.in = "read" /\ StReadDma
  /\ st_ee' = SubSeq(st_ee, 1, st_read.rpos) \o DmaData
  /\ st_read' = [st_read EXCEPT !.r = call.n]
  /\ UNCHANGED first
StSteps ==
  /\ ClientStep /\ (st_read.in = "read" => pc[StThread] \notin {"copy", "dma"})
  /\ UNCHANGED fsvonly

Back == st_read.in = "read" /\ Calls
\* Mutant: the next part is sent to the start of the buffer again.
AgainAtStart ==
  /\ Back /\ st_read.r >= 1 /\ st_read.remaining > st_read.r
  /\ ReadNow(st_read.remaining - st_read.r)
  /\ st_read' = [st_read EXCEPT !.remaining = @ - st_read.r]
  /\ UNCHANGED <<st_ee, first>>
\* sceCdStRead has returned: once more for the rest, behind what came ...
StReadAgain ==
  /\ Back /\ st_read.r >= 1 /\ st_read.remaining > st_read.r
  /\ ReadNow(st_read.remaining - st_read.r)
  /\ st_read' = [st_read EXCEPT !.rpos = @ + st_read.r, !.remaining = @ - st_read.r]
  /\ UNCHANGED <<st_ee, first>>
\* ... or, with everything or an empty ring, the number of sectors.
StReadEnds ==
  /\ Back
  /\ \/ st_read.r < 1 /\ st_read' = [st_read EXCEPT !.in = "return"]
     \/ /\ st_read.r = st_read.remaining
        /\ st_read' = [st_read EXCEPT !.in = "return", !.rpos = @ + st_read.r, !.remaining = 0]
  /\ UNCHANGED <<allvars, st_ee, first>>
StReadReturned ==
  /\ st_read.in = "return"
  /\ st_read' = NoStRead /\ st_ee' = <<>> /\ first' = 0
  /\ UNCHANGED allvars

FsvStThread == StReadTakes \/ StReadSends \/ StSteps \/ StReadAgain \/ StReadEnds \/ StReadReturned

\* Nobody else uses the drive; see Streaming for the game beside a stream.
FsvStBeside ==
  /\ ReadThread \/ StmScheduleCb \/ (AccuAlarm /\ UNCHANGED stvars)
  /\ UNCHANGED fsvonly

FsvStNext == sceCdStReadIop \/ cdvd_Stsubcmdcall \/ cdvdSt_read \/ FsvStThread \/ FsvStBeside

FsvStSpec == FsvStInit /\ [][FsvStNext]_fsvvars

-----------------------------------------------------------------------------
\* The EE gets what the result says: rpos sectors of the stream, from the
\* next one on, in order, although the read thread fills the ring while the
\* DMA empties it; and it gets fewer than it asked for only from a ring that
\* had run empty.
EeGetsStream ==
  st_read.in = "return" =>
    /\ Len(st_ee) = st_read.rpos
    /\ \A i \in 1 .. st_read.rpos : st_ee[i] = (first + i - 1) % LsnMod
    /\ st_read.rpos < st_read.sectors => st_read.dry
=============================================================================
