-------------------------- MODULE StreamingProofs --------------------------
(***************************************************************************)
(* Proofs about streaming, in three parts.  The lock: the drive has one    *)
(* owner for any set of threads, reads and stream calls, as the fill       *)
(* requests of streaming.c take it and give it back the way sceCdRead      *)
(* does; MayRun is not expanded for it.  The ring: its counters agree, and *)
(* it holds the stream, when no game reads beside it (StreamsAlone).       *)
(* CDVDFSV as the client: what its reads bring to the EE.                  *)
(***************************************************************************)
EXTENDS FsvStream, SequenceTheorems, TLAPS

USE DEF PCs, Reading, InTransfer, Waiting, DriveCommands, Actors

\* What StOneOwner needs to know of the types.
Placed ==
  /\ sync_flag \in {0, 1} /\ rthread_sema \in {0, 1}
  /\ pc = [a \in Actors |-> pc[a]]

\* What a step may do with the drive.  a is the actor that moves.
OthersHold(a) == \A b \in Actors : b # a => (StHolds(b)' <=> StHolds(b))

\* It leaves the drive alone,
Leaves(a) ==
  /\ UNCHANGED <<sync_flag, rthread_sema>>
  /\ OthersHold(a) /\ (StHolds(a)' <=> StHolds(a))

\* a takes it (cdvdman_common_lock),
Takes(a) ==
  /\ sync_flag = 0 /\ sync_flag' = 1 /\ rthread_sema' = rthread_sema
  /\ OthersHold(a) /\ StHolds(a)'

\* a leaves it to the read thread (SignalSema),
Passes(a) ==
  /\ StHolds(a) /\ ~StHolds(a)' /\ OthersHold(a)
  /\ rthread_sema' = Signalled(rthread_sema) /\ sync_flag' = sync_flag

\* the read thread gets it (WaitSema),
Accepts(a) ==
  /\ rthread_sema = 1 /\ rthread_sema' = 0 /\ sync_flag' = sync_flag
  /\ OthersHold(a) /\ StHolds(a)'

\* or gives it back (sync_flag = 0);
Releases(a) ==
  /\ StHolds(a) /\ ~StHolds(a)' /\ OthersHold(a)
  /\ sync_flag' = 0 /\ rthread_sema' = rthread_sema

\* an alarm handler takes it and signals in one go.
Interrupts ==
  /\ sync_flag = 0 /\ sync_flag' = 1
  /\ rthread_sema' = Signalled(rthread_sema) /\ pc' = pc

LockStep(a) ==
  /\ pc' = [b \in Actors |-> pc'[b]]
  /\ Leaves(a) \/ Takes(a) \/ Passes(a) \/ Accepts(a) \/ Releases(a) \/ Interrupts

\* Each of these keeps the lock to one owner.
LEMMA LockStepKeepsOwner ==
  ASSUME Placed, StOneOwner, NEW a \in Actors, LockStep(a)
  PROVE  Placed' /\ StOneOwner'
<1> USE DEF LockStep, Placed
<1>1. CASE Leaves(a) BY <1>1 DEF Leaves, OthersHold, StOneOwner
<1>2. CASE Takes(a) BY <1>2 DEF Takes, OthersHold, StOneOwner
<1>3. CASE Passes(a) BY <1>3 DEF Passes, OthersHold, StOneOwner, Signalled
<1>4. CASE Accepts(a) BY <1>4 DEF Accepts, OthersHold, StOneOwner
<1>5. CASE Releases(a) BY <1>5 DEF Releases, OthersHold, StOneOwner
<1>6. CASE Interrupts BY <1>6 DEF Interrupts, StOneOwner, StHolds, Holds, Signalled
<1> QED BY <1>1, <1>2, <1>3, <1>4, <1>5, <1>6

\* Inside cdvdman_read only sync_flag = 0 touches the lock.
LEMMA ExecutesLock ==
  ASSUME Placed, NEW a \in Actors, Executes(a)
  PROVE  LockStep(a)
<1> USE DEF locks, hist, At, Goto, R, LockStep, Placed, StHolds, Holds, OthersHold
<1>1. CASE ReleaseDrive(a) BY <1>1 DEF ReleaseDrive, Releases
<1>2. CASE ReadBegin(a) BY <1>2 DEF ReadBegin, Leaves
<1>3. CASE BounceTake(a) BY <1>3 DEF BounceTake, Leaves
<1>4. CASE BounceChunk(a) BY <1>4 DEF BounceChunk, Leaves
<1>5. CASE SectorsBegin(a) BY <1>5 DEF SectorsBegin, Leaves
<1>6. CASE SectorsLoop(a) BY <1>6 DEF SectorsLoop, Leaves
<1>7. CASE DeviceReadSectors(a) BY <1>7 DEF DeviceReadSectors, Leaves
<1>8. CASE DeviceError(a) BY <1>8 DEF DeviceError, Leaves
<1>9. CASE AccuWait(a) BY <1>9 DEF AccuWait, Leaves
<1>10. CASE SectorsEnd(a) BY <1>10 DEF SectorsEnd, Leaves
<1>11. CASE ReadEnd(a) BY <1>11 DEF ReadEnd, Leaves
<1>12. CASE SetDoneEvent(a) BY <1>12 DEF SetDoneEvent, Leaves
<1> QED BY <1>1, <1>2, <1>3, <1>4, <1>5, <1>6, <1>7, <1>8, <1>9, <1>10, <1>11, <1>12 DEF Executes

\* An accepted sceCdRead, or a directory read, takes it, whichever of
\* cdvdman_SyncRead and cdvdman_AsyncRead it is.
LEMMA ReadLockTakes ==
  ASSUME Placed, NEW t \in Threads, NEW r, ReadLock(t, r), UNCHANGED rthread_sema
  PROVE  LockStep(t)
  BY DEF Placed, LockStep, ReadLock, SyncReadLock, AsyncReadLock, cdvdman_common_lock, Goto,
     Takes, OthersHold, StHolds, Holds

\* The steps of the other clients inside a call ...
LEMMA ThreadStepLock ==
  ASSUME Placed, NEW t \in Threads, ThreadStep(t)
  PROVE  LockStep(t)
<1>1. CASE Executes(t) BY <1>1, ExecutesLock
<1>2. CASE SearchRead(t)
  <2>1. CASE \E l \in DirSectors : ReadLock(t, DirRequest(l))
    BY <1>2, <2>1, ReadLockTakes DEF SearchRead
  <2>2. CASE sync_flag = 1 /\ Goto(t, "sfend") /\ UNCHANGED <<sync_flag, intr_ef, cdread, arg,
       rd, hist>>
    BY <1>2, <2>2 DEF SearchRead, At, Goto, LockStep, Placed, Leaves, StHolds, Holds, OthersHold
  <2> QED BY <1>2, <2>1, <2>2 DEF SearchRead
<1> USE DEF locks, hist, At, Goto, LockStep, Placed, StHolds, Holds, OthersHold
<1>3. CASE AsyncReadSignal(t) BY <1>3 DEF AsyncReadSignal, Passes
<1>4. CASE SyncReadEvent(t) BY <1>4 DEF SyncReadEvent, Leaves
<1>5. CASE SyncTest(t) BY <1>5 DEF SyncTest, Leaves
<1>6. CASE SyncWake(t) BY <1>6 DEF SyncWake, Leaves
<1>7. CASE DriveEvent(t) BY <1>7 DEF DriveEvent, Leaves
<1>8. CASE SearchTake(t) BY <1>8 DEF SearchTake, Leaves
<1>9. CASE SearchParse(t) BY <1>9 DEF SearchParse, Leaves
<1>10. CASE SearchEnd(t) BY <1>10 DEF SearchEnd, Leaves
<1> QED BY <1>1, <1>2, <1>3, <1>4, <1>5, <1>6, <1>7, <1>8, <1>9, <1>10 DEF ThreadStep

\* ... and their calls.
LEMMA ThreadCallLock ==
  ASSUME Placed, NEW t \in Threads, ThreadCall(t)
  PROVE  LockStep(t)
<1>1. CASE sceCdRead(t) BY <1>1, ReadLockTakes DEF sceCdRead
<1> USE DEF locks, hist, At, Goto, LockStep, Placed, StHolds, Holds, OthersHold
<1>2. CASE sceCdSync(t) BY <1>2 DEF sceCdSync, Leaves
<1>3. CASE sceCdDiskReady(t) BY <1>3 DEF sceCdDiskReady, Leaves
<1>4. CASE sceCdCallback(t) BY <1>4 DEF sceCdCallback, Leaves
<1>5. CASE SearchCall(t) BY <1>5 DEF SearchCall, Leaves
<1>6. ASSUME NEW c \in DriveCommands, DriveCommand(t, c) PROVE LockStep(t)
  BY <1>6 DEF DriveCommand, Leaves
<1>7. ASSUME NEW c \in {"GetToc", "SetError"}, SetError(t, c) PROVE LockStep(t)
  BY <1>7 DEF SetError, Leaves
<1> QED BY <1>1, <1>2, <1>3, <1>4, <1>5, <1>6, <1>7 DEF ThreadCall

\* A fill request: the client and the read thread's callback run the same code.
LEMMA FillLocks ==
  ASSUME Placed, NEW a \in StActors, Fill(a)
  PROVE  LockStep(a)
<1>a. a \in Actors BY StreamAssumption DEF StActors
<1> USE <1>a DEF locks, hist, At, Goto, LockStep, Placed, StHolds, Holds, OthersHold, FillReturn
<1>1. CASE FillLock(a) BY <1>1 DEF FillLock, Leaves
<1>2. CASE FillFull(a) BY <1>2 DEF FillFull, Leaves
<1>3. CASE FillRead(a)
  <2>1. CASE sync_flag = 0 BY <1>3, <2>1 DEF FillRead, cdvdman_common_lock, Takes
  <2>2. CASE sync_flag # 0 BY <1>3, <2>2 DEF FillRead, Leaves
  <2> QED BY <2>1, <2>2
<1>4. CASE FillKick(a) BY <1>4 DEF FillKick, Passes
<1>5. CASE FillRefused(a) BY <1>5 DEF FillRefused, Leaves
<1>6. CASE FillRearm(a) BY <1>6 DEF FillRearm, Leaves
<1> QED BY <1>1, <1>2, <1>3, <1>4, <1>5, <1>6 DEF Fill

\* The streaming client's calls and steps that ask for nothing.
LEMMA ClientLock ==
  ASSUME Placed, ClientCall \/ ClientStep, ~Fill(StThread)
  PROVE  LockStep(StThread)
<1>a. StThread \in Actors BY StreamAssumption
<1> USE <1>a DEF locks, hist, stvars, ring, At, Goto, LockStep, Placed, StHolds, Holds, OthersHold,
     Leaves, Calls
<1>1. CASE sceCdStStart BY <1>1 DEF sceCdStStart
<1>2. CASE sceCdStStop BY <1>2 DEF sceCdStStop
<1>3. CASE sceCdStPause BY <1>3 DEF sceCdStPause
<1>4. CASE sceCdStResume BY <1>4 DEF sceCdStResume
<1>5. CASE sceCdStInit BY <1>5 DEF sceCdStInit
<1>6. CASE sceCdStStat BY <1>6 DEF sceCdStStat
<1>7. CASE sceCdStRead BY <1>7 DEF sceCdStRead
<1>8. CASE NotStreaming BY <1>8 DEF NotStreaming
<1>9. CASE InitLock BY <1>9 DEF InitLock
<1>10. CASE StopLock BY <1>10 DEF StopLock
<1>11. CASE StartLock BY <1>11 DEF StartLock
<1>12. CASE Started BY <1>12 DEF Started
<1>13. CASE PauseLock BY <1>13 DEF PauseLock
<1>14. CASE ResumeLock BY <1>14 DEF ResumeLock
<1>15. CASE StReadWait BY <1>15 DEF StReadWait
<1>16. CASE StReadClear BY <1>16 DEF StReadClear
<1>17. CASE StReadCopy BY <1>17 DEF StReadCopy, AfterCopy
<1>18. CASE StReadDma BY <1>18 DEF StReadDma, AfterCopy
<1>19. CASE SyncTest(StThread) BY <1>19 DEF SyncTest
<1>20. CASE SyncWake(StThread) BY <1>20 DEF SyncWake
<1> QED BY <1>1, <1>2, <1>3, <1>4, <1>5, <1>6, <1>7, <1>8, <1>9, <1>10, <1>11, <1>12, <1>13,
     <1>14, <1>15, <1>16, <1>17, <1>18, <1>19, <1>20 DEF ClientCall, ClientStep

\* Every step of the streaming system does one of the six things.
LEMMA StLockStep ==
  ASSUME Placed, [StNext]_allvars
  PROVE  \E a \in Actors : LockStep(a)
<1>a. StThread \in Actors /\ RThread \in Actors BY StreamAssumption
<1>b. StThread \in StActors /\ RThread \in StActors BY DEF StActors
<1>1. CASE ClientCall \/ ClientStep BY <1>a, <1>b, <1>1, ClientLock, FillLocks
<1>2. CASE Executes(RThread) \/ Fill(RThread) BY <1>a, <1>b, <1>2, ExecutesLock, FillLocks
<1>3. ASSUME NEW t \in Others, OtherStep(t) \/ OtherCall(t) PROVE LockStep(t)
  BY <1>3, ThreadStepLock, ThreadCallLock DEF OtherStep, OtherCall, Others
<1> USE DEF locks, hist, At, Goto, LockStep, Placed, StHolds, Holds, OthersHold, Leaves
<1>4. CASE cdread_Take BY <1>a, <1>4 DEF cdread_Take, Accepts
<1>5. CASE cdread_Notify BY <1>a, <1>5 DEF cdread_Notify
<1>6. CASE StmCallback BY <1>a, <1>6 DEF StmCallback
<1>7. CASE StmUpdate BY <1>a, <1>7 DEF StmUpdate
<1>8. CASE StmScheduleCb
  BY <1>a, <1>8 DEF StmScheduleCb, AsyncReadIntr, cdvdman_common_lock, Interrupts
<1>9. CASE AccuAlarm BY <1>a, <1>9 DEF AccuAlarm
<1>10. CASE event_alarm_cb
  BY <1>a, <1>10 DEF event_alarm_cb, AsyncReadIntr, cdvdman_common_lock, Interrupts
<1>11. CASE UNCHANGED allvars BY <1>a, <1>11 DEF allvars, vars
<1> QED BY <1>a, <1>1, <1>2, <1>3, <1>4, <1>5, <1>6, <1>7, <1>8, <1>9, <1>10, <1>11
     DEF StNext, ReadThread, RThreadStep, Others

\* With the fill requests of streaming.c added (the client's, the read
\* thread's own from StmCallback, and the alarm's) still only one accepted
\* read is under way, and sync_flag says exactly whether there is one.
THEOREM StreamKeepsOneOwner == StSpec => []StOneOwner
<1>1. StInit => Placed /\ StOneOwner
  BY DEF StInit, Init, Placed, StOneOwner, StHolds, Holds
<1>2. Placed /\ StOneOwner /\ [StNext]_allvars => Placed' /\ StOneOwner'
  BY StLockStep, LockStepKeepsOwner
<1> QED BY <1>1, <1>2, PTL DEF StSpec

-----------------------------------------------------------------------------
(***************************************************************************)
(* A stream that has the drive to itself.  The read thread is more urgent  *)
(* than the client: cdvdman.c creates it with priority 15, above the RPC   *)
(* threads of cdvdfsv and any game thread.                                 *)
(***************************************************************************)
StreamsAlone ==
  /\ IntrRequests = {} /\ \A t \in Others : Requests(t) = {}
  /\ "Search" \notin Commands
  /\ "Init" \notin StCommands
  /\ Prio[RThread] < Prio[StThread]

\* Where the actors can be: no fill request is ever refused, so nobody gets
\* to StScheduleCb's alarm.
ClientPlaces ==
  {"ready", "stop", "start", "started", "pause", "resume", "fill", "async", "full", "kick",
   "stwait", "stclear", "copy", "dma"} \cup Waiting
RThreadPlaces ==
  (Reading \ {"event"}) \cup
  {"wait", "setevent", "notify", "cbupdate", "fill", "async", "full", "kick"}
OtherPlaces == {"ready"} \cup Waiting \cup DriveCommands
PlaceInv ==
  /\ pc[StThread] \in ClientPlaces /\ pc[RThread] \in RThreadPlaces
  /\ \A t \in Others : pc[t] \in OtherPlaces
  /\ searching = {} /\ st_alarm = FALSE

\* StIsReading covers the whole of a fill, from the first critical section
\* to the one of StmCallback, except after a stop, which waits for the read
\* in flight.
FlowInv ==
  /\ pc[StThread] \in {"async", "full"} => StIsReading = 1 /\ pc[RThread] = "wait" /\ sync_flag = 0
  /\ pc[StThread] = "kick" => StIsReading = 1 /\ pc[RThread] = "wait"
  /\ pc[RThread] \in {"cbupdate", "async", "full", "kick"} => StIsReading = 1
  /\ pc[RThread] \in {"setevent", "notify", "cbupdate", "fill", "async", "full"} => sync_flag = 0
  /\ rthread_sema = 1 => pc[RThread] = "wait"
  /\ sync_flag = 1 /\ StIsReading = 0 => pc[StThread] \in Waiting /\ StStat = 0

\* Where the client is tells whether a stream runs; the callback is only
\* installed on a running one.
StatInv ==
  /\ StStat \in {0, 1} /\ Stm0Callback \in BOOLEAN
  /\ pc[StThread] \in {"stop", "started", "fill", "async", "full", "kick", "pause", "resume",
                       "stwait", "stclear", "copy", "dma"} => StStat = 1
  /\ pc[StThread] = "start" => StStat = 0
  /\ call.then = "start" /\ pc[StThread] # "stop" => StStat = 0
  /\ Stm0Callback => StStat = 1
  /\ pc[RThread] \in {"cbupdate", "fill", "async", "full", "kick"} => Stm0Callback
  /\ StStat = 0 /\ sync_flag = 1 => pc[StThread] \in Waiting

\* The ring pointers: StWritePtr is at a bank, the unread sectors are those
\* from StReadPtr up to it, a fill under way has room for its bank, and a
\* DMA takes no more than there is.
AtBank(p) == \E k \in 0 .. StBankmax - 1 : p = k * StBanksize
Calling == [then: {"ready", "start", "read"}, lsn: Starts \cup {0}, left: Nat, block: BOOLEAN, ee: BOOLEAN,
            rdptr: Nat, n: Nat]
RingInv ==
  /\ StIsReading \in {0, 1}
  /\ StReadPtr \in 0 .. StBufmax - 1 /\ StWritePtr \in 0 .. StBufmax - 1
  /\ AtBank(StWritePtr)
  /\ StStreamed \in 0 .. StBufmax
  /\ StReadPtr + StStreamed \in {StWritePtr, StWritePtr + StBufmax}
  /\ StIsReading = 1 => \/ StStreamed + StBanksize <= StBufmax
                        \/ pc[StThread] = "full" \/ pc[RThread] = "full"
  /\ call \in Calling
  /\ pc[StThread] = "dma" =>
       /\ call.n \in 0 .. StStreamed /\ call.rdptr \in 0 .. StBufmax - 1
       /\ call.rdptr \in {StReadPtr + call.n, StReadPtr + call.n - StBufmax}

ControlInv == PlaceInv /\ FlowInv /\ StatInv
AloneInv == Placed /\ StOneOwner /\ ControlInv /\ RingInv

\* What the lock says about the read thread, and that the client only runs
\* while the read thread is blocked.
LEMMA ClientRuns ==
  ASSUME StreamsAlone, AloneInv
  PROVE  /\ sync_flag = 0 => /\ rthread_sema = 0 /\ pc[RThread] \notin Reading \cup {"kick"}
                             /\ pc[StThread] # "kick"
         /\ pc[RThread] \in Reading \cup {"kick"} => /\ sync_flag = 1 /\ rthread_sema = 0
                                                     /\ pc[StThread] # "kick"
         /\ pc[StThread] = "kick" => sync_flag = 1 /\ rthread_sema = 0
         /\ rthread_sema = 1 => sync_flag = 1
         /\ MayRun(StThread) => \/ pc[RThread] = "wait" /\ rthread_sema = 0
                                \/ pc[RThread] \in {"device", "bounce", "pace"}
         /\ MayRun(StThread) /\ pc[StThread] \notin Waiting /\ pc[StThread] # "kick" /\ StIsReading = 0
              => pc[RThread] = "wait" /\ sync_flag = 0
<1>a. StThread \in Actors /\ RThread \in Actors /\ StThread # RThread
  BY StreamAssumption, ActorAssumption
<1>b. Placed /\ StOneOwner /\ PlaceInv /\ FlowInv /\ StatInv BY DEF AloneInv, ControlInv
<1>1. sync_flag = 0 => /\ rthread_sema = 0 /\ pc[RThread] \notin Reading \cup {"kick"}
                       /\ pc[StThread] # "kick"
  BY <1>a, <1>b DEF Placed, StOneOwner, StHolds, Holds
<1>2. pc[RThread] \in Reading \cup {"kick"} => /\ sync_flag = 1 /\ rthread_sema = 0
                                               /\ pc[StThread] # "kick"
  BY <1>a, <1>b DEF Placed, StOneOwner, StHolds, Holds
<1>3. pc[StThread] = "kick" => sync_flag = 1 /\ rthread_sema = 0
  BY <1>a, <1>b DEF Placed, StOneOwner, StHolds, Holds
<1>4. rthread_sema = 1 => sync_flag = 1 BY <1>b DEF Placed, StOneOwner
<1>5. MayRun(StThread) => \/ pc[RThread] = "wait" /\ rthread_sema = 0
                          \/ pc[RThread] \in {"device", "bounce", "pace"}
  BY <1>a, <1>b DEF StreamsAlone, MayRun, Blocked, PlaceInv, RThreadPlaces
<1>6. MayRun(StThread) /\ pc[StThread] \notin Waiting /\ pc[StThread] # "kick" /\ StIsReading = 0
        => pc[RThread] = "wait" /\ sync_flag = 0
  BY <1>b, <1>2, <1>5 DEF FlowInv, Placed
<1> QED BY <1>1, <1>2, <1>3, <1>4, <1>5, <1>6

\* The places of the others stay what they are when the client or the read
\* thread moves.
LEMMA OneMoves ==
  ASSUME Placed, PlaceInv, NEW a \in StActors, NEW l, Goto(a, l)
  PROVE  /\ \A t \in Others : pc'[t] \in OtherPlaces
         /\ a # RThread => pc'[RThread] = pc[RThread]
         /\ a # StThread => pc'[StThread] = pc[StThread]
         /\ pc'[a] = l
  BY StreamAssumption, ActorAssumption DEF Placed, PlaceInv, StActors, Others, Goto

\* A fill request keeps the control part: it is only made when it will not be
\* refused.
LEMMA FillKeepsControl ==
  ASSUME StreamsAlone, AloneInv, NEW a \in StActors, Fill(a)
  PROVE  ControlInv'
<1>a. StThread \in Actors /\ RThread \in Actors /\ StThread # RThread /\ a \in {StThread, RThread}
  BY StreamAssumption, ActorAssumption DEF StActors
<1>b. Placed /\ StOneOwner /\ PlaceInv /\ FlowInv /\ StatInv /\ StIsReading \in {0, 1}
  BY DEF AloneInv, ControlInv, RingInv
<1>c. RThread \notin Others /\ StThread \notin Others BY ActorAssumption DEF Others
<1>f. call' = call BY DEF Fill, FillLock, FillFull, FillRead, FillKick, FillRefused, FillRearm, stvars, stlocal
<1> USE <1>a, <1>b, <1>c, <1>f, ClientRuns DEF locks, hist, stvars, ring, stlocal, At, Goto, Placed, FillReturn
<1>1. CASE FillLock(a)
  <2>1. PlaceInv'
    <3>1. pc'[a] \in {"async", "full", "wait", "ready"} /\ (pc'[a] = "wait" => a = RThread)
          /\ (pc'[a] = "ready" => a # RThread)
      BY <1>1 DEF FillLock
    <3>2. pc' = [pc EXCEPT ![a] = pc'[a]] /\ searching' = searching /\ st_alarm' = FALSE
      BY <1>1 DEF FillLock, PlaceInv
    <3>3. /\ \A t \in Others : pc'[t] \in OtherPlaces
          /\ a # RThread => pc'[RThread] = pc[RThread]
          /\ a # StThread => pc'[StThread] = pc[StThread]
      BY <3>2, OneMoves
    <3> QED BY <3>1, <3>2, <3>3 DEF PlaceInv, ClientPlaces, RThreadPlaces
  <2>2. FlowInv' BY <1>1 DEF FillLock, FlowInv
  <2>3. StatInv' BY <1>1 DEF FillLock, StatInv
  <2> QED BY <2>1, <2>2, <2>3 DEF ControlInv
<1>2. CASE FillFull(a)
  <2>1. PlaceInv' BY <1>2 DEF FillFull, PlaceInv, ClientPlaces, RThreadPlaces, OtherPlaces
  <2>2. FlowInv' BY <1>2 DEF FillFull, FlowInv
  <2>3. StatInv' BY <1>2 DEF FillFull, StatInv
  <2> QED BY <2>1, <2>2, <2>3 DEF ControlInv
<1>3. CASE FillRead(a)
  <2>1. PlaceInv'
    <3>1. sync_flag = 0 /\ pc'[a] = "kick" BY <1>3 DEF FillRead, FlowInv
    <3> QED BY <1>3, <3>1, OneMoves DEF FillRead, PlaceInv, ClientPlaces, RThreadPlaces
  <2>2. FlowInv' BY <1>3 DEF FillRead, FlowInv, cdvdman_common_lock
  <2>3. StatInv' BY <1>3 DEF FillRead, StatInv, cdvdman_common_lock
  <2> QED BY <2>1, <2>2, <2>3 DEF ControlInv
<1>4. CASE FillKick(a)
  <2>1. PlaceInv' BY <1>4 DEF FillKick, PlaceInv, ClientPlaces, RThreadPlaces, OtherPlaces
  <2>2. FlowInv' BY <1>4 DEF FillKick, FlowInv
  <2>3. StatInv' BY <1>4 DEF FillKick, StatInv
  <2> QED BY <2>1, <2>2, <2>3 DEF ControlInv
<1>5. CASE FillRefused(a)
  BY <1>5 DEF FillRefused, PlaceInv, ClientPlaces, RThreadPlaces
<1>6. CASE FillRearm(a)
  BY <1>6 DEF FillRearm, PlaceInv, ClientPlaces, RThreadPlaces
<1> QED BY <1>1, <1>2, <1>3, <1>4, <1>5, <1>6 DEF Fill

\* Where the client goes next.
LEMMA ClientMoves ==
  ASSUME Placed, PlaceInv, pc' = [pc EXCEPT ![StThread] = pc'[StThread]],
         pc'[StThread] \in ClientPlaces, searching' = searching, st_alarm' \in {FALSE, st_alarm}
  PROVE  PlaceInv'
<1>1. pc'[RThread] = pc[RThread] /\ \A t \in Others : pc'[t] = pc[t]
  <2>1. PICK l : pc' = [pc EXCEPT ![StThread] = l] OBVIOUS
  <2> QED BY <2>1, StreamAssumption, ActorAssumption DEF Placed, Others
<1>2. searching' = {} /\ st_alarm' = FALSE BY Zenon DEF PlaceInv
<1> QED BY <1>1, <1>2 DEF PlaceInv

\* The client's other steps keep the control part.
LEMMA ClientKeepsControl ==
  ASSUME StreamsAlone, AloneInv, ClientCall \/ ClientStep, ~Fill(StThread)
  PROVE  ControlInv'
<1>a. StThread \in Actors /\ RThread \in Actors /\ StThread # RThread
  BY StreamAssumption, ActorAssumption
<1>b. Placed /\ PlaceInv /\ FlowInv /\ StatInv /\ StIsReading \in {0, 1} /\ call \in Calling
  BY DEF AloneInv, ControlInv, RingInv
<1>c. ASSUME NEW n PROVE [call EXCEPT !.left = n].then = call.then
  BY <1>b DEF Calling
<1>d. ASSUME NEW m, NEW n PROVE [call EXCEPT !.rdptr = m, !.n = n].then = call.then
  BY <1>b DEF Calling
<1>e. ASSUME NEW l PROVE [NoCall EXCEPT !.then = "start", !.lsn = l].then = "start"
  BY DEF NoCall
<1>f. ASSUME NEW n, NEW b, NEW e
      PROVE  [NoCall EXCEPT !.then = "read", !.left = n, !.block = b, !.ee = e].then = "read"
  BY DEF NoCall
<1>g. NoCall.then = "ready" BY DEF NoCall
<1> USE <1>a, <1>b, ClientRuns DEF locks, hist, stvars, ring, stlocal, At, Goto, Placed, Calls
<1>1. CASE sceCdStStart
  <2>4. call'.then = "start" BY <1>1, <1>e DEF sceCdStStart
  <2>5. /\ pc' = [pc EXCEPT ![StThread] = pc'[StThread]] /\ pc'[StThread] \in ClientPlaces
        /\ searching' = searching /\ st_alarm' \in {FALSE, st_alarm}
    BY <1>1 DEF sceCdStStart, ClientPlaces
  <2>1. PlaceInv' BY <2>5, ClientMoves
  <2>2. FlowInv' BY <1>1 DEF sceCdStStart, FlowInv, StatInv
  <2>3. StatInv' BY <1>1, <2>4 DEF sceCdStStart, FlowInv, StatInv
  <2> QED BY <2>1, <2>2, <2>3 DEF ControlInv
<1>2. CASE sceCdStStop
  <2>5. /\ pc' = [pc EXCEPT ![StThread] = pc'[StThread]] /\ pc'[StThread] \in ClientPlaces
        /\ searching' = searching /\ st_alarm' \in {FALSE, st_alarm}
    BY <1>2 DEF sceCdStStop, ClientPlaces
  <2>1. PlaceInv' BY <2>5, ClientMoves
  <2>2. FlowInv' BY <1>2 DEF sceCdStStop, FlowInv, StatInv
  <2>3. StatInv' BY <1>2 DEF sceCdStStop, FlowInv, StatInv
  <2> QED BY <2>1, <2>2, <2>3 DEF ControlInv
<1>3. CASE sceCdStPause
  <2>5. /\ pc' = [pc EXCEPT ![StThread] = pc'[StThread]] /\ pc'[StThread] \in ClientPlaces
        /\ searching' = searching /\ st_alarm' \in {FALSE, st_alarm}
    BY <1>3 DEF sceCdStPause, ClientPlaces
  <2>1. PlaceInv' BY <2>5, ClientMoves
  <2>2. FlowInv' BY <1>3 DEF sceCdStPause, FlowInv, StatInv
  <2>3. StatInv' BY <1>3 DEF sceCdStPause, FlowInv, StatInv
  <2> QED BY <2>1, <2>2, <2>3 DEF ControlInv
<1>4. CASE sceCdStResume
  <2>5. /\ pc' = [pc EXCEPT ![StThread] = pc'[StThread]] /\ pc'[StThread] \in ClientPlaces
        /\ searching' = searching /\ st_alarm' \in {FALSE, st_alarm}
    BY <1>4 DEF sceCdStResume, ClientPlaces
  <2>1. PlaceInv' BY <2>5, ClientMoves
  <2>2. FlowInv' BY <1>4 DEF sceCdStResume, FlowInv, StatInv
  <2>3. StatInv' BY <1>4 DEF sceCdStResume, FlowInv, StatInv
  <2> QED BY <2>1, <2>2, <2>3 DEF ControlInv
<1>5. CASE sceCdStInit BY <1>5 DEF sceCdStInit, StreamsAlone
<1>6. CASE sceCdStStat
  <2>5. /\ pc' = [pc EXCEPT ![StThread] = pc'[StThread]] /\ pc'[StThread] \in ClientPlaces
        /\ searching' = searching /\ st_alarm' \in {FALSE, st_alarm}
    BY <1>6 DEF sceCdStStat, ClientPlaces
  <2>1. PlaceInv' BY <2>5, ClientMoves
  <2>2. FlowInv' BY <1>6 DEF sceCdStStat, FlowInv, StatInv
  <2>3. StatInv' BY <1>6 DEF sceCdStStat, FlowInv, StatInv
  <2> QED BY <2>1, <2>2, <2>3 DEF ControlInv
<1>7. CASE sceCdStRead
  <2>4. call'.then = "read" BY <1>7, <1>f DEF sceCdStRead
  <2>5. /\ pc' = [pc EXCEPT ![StThread] = pc'[StThread]] /\ pc'[StThread] \in ClientPlaces
        /\ searching' = searching /\ st_alarm' \in {FALSE, st_alarm}
    BY <1>7 DEF sceCdStRead, ClientPlaces
  <2>1. PlaceInv' BY <2>5, ClientMoves
  <2>2. FlowInv' BY <1>7 DEF sceCdStRead, FlowInv, StatInv
  <2>3. StatInv' BY <1>7, <2>4 DEF sceCdStRead, FlowInv, StatInv
  <2> QED BY <2>1, <2>2, <2>3 DEF ControlInv
<1>8. CASE NotStreaming
  <2>5. /\ pc' = [pc EXCEPT ![StThread] = pc'[StThread]] /\ pc'[StThread] \in ClientPlaces
        /\ searching' = searching /\ st_alarm' \in {FALSE, st_alarm}
    BY <1>8 DEF NotStreaming, ClientPlaces
  <2>1. PlaceInv' BY <2>5, ClientMoves
  <2>2. FlowInv' BY <1>8 DEF NotStreaming, FlowInv, StatInv
  <2>3. StatInv' BY <1>8 DEF NotStreaming, FlowInv, StatInv
  <2> QED BY <2>1, <2>2, <2>3 DEF ControlInv
<1>9. CASE InitLock BY <1>9 DEF InitLock, PlaceInv, ClientPlaces
<1>10. CASE StopLock
  <2>5. /\ pc' = [pc EXCEPT ![StThread] = pc'[StThread]] /\ pc'[StThread] \in ClientPlaces
        /\ searching' = searching /\ st_alarm' \in {FALSE, st_alarm}
    BY <1>10 DEF StopLock, ClientPlaces
  <2>1. PlaceInv' BY <2>5, ClientMoves
  <2>2. FlowInv' BY <1>10 DEF StopLock, FlowInv, StatInv, StReset
  <2>3. StatInv' BY <1>10 DEF StopLock, FlowInv, StatInv, StReset
  <2> QED BY <2>1, <2>2, <2>3 DEF ControlInv
<1>11. CASE StartLock
  <2>4. call'.then = "ready" BY <1>11, <1>g DEF StartLock
  <2>5. /\ pc' = [pc EXCEPT ![StThread] = pc'[StThread]] /\ pc'[StThread] \in ClientPlaces
        /\ searching' = searching /\ st_alarm' \in {FALSE, st_alarm}
    BY <1>11 DEF StartLock, ClientPlaces
  <2>1. PlaceInv' BY <2>5, ClientMoves
  <2>2. FlowInv' BY <1>11 DEF StartLock, FlowInv, StatInv, StReset
  <2>3. StatInv' BY <1>11, <2>4 DEF StartLock, FlowInv, StatInv, StReset
  <2> QED BY <2>1, <2>2, <2>3 DEF ControlInv
<1>12. CASE Started
  <2>5. /\ pc' = [pc EXCEPT ![StThread] = pc'[StThread]] /\ pc'[StThread] \in ClientPlaces
        /\ searching' = searching /\ st_alarm' \in {FALSE, st_alarm}
    BY <1>12 DEF Started, ClientPlaces
  <2>1. PlaceInv' BY <2>5, ClientMoves
  <2>2. FlowInv' BY <1>12 DEF Started, FlowInv, StatInv
  <2>3. StatInv' BY <1>12 DEF Started, FlowInv, StatInv
  <2> QED BY <2>1, <2>2, <2>3 DEF ControlInv
<1>13. CASE PauseLock
  <2>5. /\ pc' = [pc EXCEPT ![StThread] = pc'[StThread]] /\ pc'[StThread] \in ClientPlaces
        /\ searching' = searching /\ st_alarm' \in {FALSE, st_alarm}
    BY <1>13 DEF PauseLock, ClientPlaces
  <2>1. PlaceInv' BY <2>5, ClientMoves
  <2>2. FlowInv' BY <1>13 DEF PauseLock, FlowInv, StatInv
  <2>3. StatInv' BY <1>13 DEF PauseLock, FlowInv, StatInv
  <2> QED BY <2>1, <2>2, <2>3 DEF ControlInv
<1>14. CASE ResumeLock
  <2>5. /\ pc' = [pc EXCEPT ![StThread] = pc'[StThread]] /\ pc'[StThread] \in ClientPlaces
        /\ searching' = searching /\ st_alarm' \in {FALSE, st_alarm}
    BY <1>14 DEF ResumeLock, ClientPlaces
  <2>1. PlaceInv' BY <2>5, ClientMoves
  <2>2. FlowInv' BY <1>14 DEF ResumeLock, FlowInv, StatInv
  <2>3. StatInv' BY <1>14 DEF ResumeLock, FlowInv, StatInv
  <2> QED BY <2>1, <2>2, <2>3 DEF ControlInv
<1>15. CASE StReadWait
  <2>5. /\ pc' = [pc EXCEPT ![StThread] = pc'[StThread]] /\ pc'[StThread] \in ClientPlaces
        /\ searching' = searching /\ st_alarm' \in {FALSE, st_alarm}
    BY <1>15 DEF StReadWait, ClientPlaces
  <2>1. PlaceInv' BY <2>5, ClientMoves
  <2>2. FlowInv' BY <1>15 DEF StReadWait, FlowInv, StatInv
  <2>3. StatInv' BY <1>15 DEF StReadWait, FlowInv, StatInv
  <2> QED BY <2>1, <2>2, <2>3 DEF ControlInv
<1>16. CASE StReadClear
  <2>5. /\ pc' = [pc EXCEPT ![StThread] = pc'[StThread]] /\ pc'[StThread] \in ClientPlaces
        /\ searching' = searching /\ st_alarm' \in {FALSE, st_alarm}
    BY <1>16 DEF StReadClear, ClientPlaces
  <2>1. PlaceInv' BY <2>5, ClientMoves
  <2>2. FlowInv' BY <1>16 DEF StReadClear, FlowInv, StatInv
  <2>3. StatInv' BY <1>16 DEF StReadClear, FlowInv, StatInv
  <2> QED BY <2>1, <2>2, <2>3 DEF ControlInv
<1>17. CASE StReadCopy
  <2>4. call'.then \in {"ready", call.then}
    <3> DEFINE t == Taken(call.left)
    <3>1. \/ call' = [call EXCEPT !.rdptr = t.rdptr, !.n = t.n]
          \/ call' = [call EXCEPT !.left = call.left - t.n]
          \/ call' = NoCall
      BY Zenon, <1>17 DEF StReadCopy, AfterCopy
    <3> HIDE DEF t
    <3>2. CASE call' = [call EXCEPT !.rdptr = t.rdptr, !.n = t.n] BY Zenon, <3>2, <1>d
    <3>3. CASE call' = [call EXCEPT !.left = call.left - t.n] BY Zenon, <3>3, <1>c
    <3> QED BY <3>1, <3>2, <3>3, <1>g
  <2>5. /\ pc' = [pc EXCEPT ![StThread] = pc'[StThread]] /\ pc'[StThread] \in ClientPlaces
        /\ searching' = searching /\ st_alarm' \in {FALSE, st_alarm}
    BY <1>17 DEF StReadCopy, ClientPlaces, AfterCopy
  <2>1. PlaceInv' BY <2>5, ClientMoves
  <2>2. FlowInv' BY <1>17 DEF StReadCopy, FlowInv, StatInv, AfterCopy
  <2>3. StatInv' BY <1>17, <2>4 DEF StReadCopy, FlowInv, StatInv, AfterCopy
  <2> QED BY <2>1, <2>2, <2>3 DEF ControlInv
<1>18. CASE StReadDma
  <2>4. call'.then \in {"ready", call.then}
    <3>1. call' = [call EXCEPT !.left = call.left - call.n] \/ call' = NoCall
      BY Zenon, <1>18 DEF StReadDma, AfterCopy
    <3> QED BY <3>1, <1>c, <1>g
  <2>5. /\ pc' = [pc EXCEPT ![StThread] = pc'[StThread]] /\ pc'[StThread] \in ClientPlaces
        /\ searching' = searching /\ st_alarm' \in {FALSE, st_alarm}
    BY <1>18 DEF StReadDma, ClientPlaces, AfterCopy
  <2>1. PlaceInv' BY <2>5, ClientMoves
  <2>2. FlowInv' BY <1>18 DEF StReadDma, FlowInv, StatInv, AfterCopy
  <2>3. StatInv' BY <1>18, <2>4 DEF StReadDma, FlowInv, StatInv, AfterCopy
  <2> QED BY <2>1, <2>2, <2>3 DEF ControlInv
<1>19. CASE SyncTest(StThread) /\ UNCHANGED stvars
  <2>5. /\ pc' = [pc EXCEPT ![StThread] = pc'[StThread]] /\ pc'[StThread] \in ClientPlaces
        /\ searching' = searching /\ st_alarm' \in {FALSE, st_alarm}
    BY <1>19 DEF SyncTest, ClientPlaces, PlaceInv
  <2>1. PlaceInv' BY <2>5, ClientMoves
  <2>2. FlowInv' BY <1>19 DEF SyncTest, FlowInv, StatInv
  <2>3. StatInv' BY <1>19 DEF SyncTest, FlowInv, StatInv
  <2> QED BY <2>1, <2>2, <2>3 DEF ControlInv
<1>20. CASE SyncWake(StThread) /\ UNCHANGED stvars
  <2>5. /\ pc' = [pc EXCEPT ![StThread] = pc'[StThread]] /\ pc'[StThread] \in ClientPlaces
        /\ searching' = searching /\ st_alarm' \in {FALSE, st_alarm}
    BY <1>20 DEF SyncWake, ClientPlaces
  <2>1. PlaceInv' BY <2>5, ClientMoves
  <2>2. FlowInv' BY <1>20 DEF SyncWake, FlowInv, StatInv
  <2>3. StatInv' BY <1>20 DEF SyncWake, FlowInv, StatInv
  <2> QED BY <2>1, <2>2, <2>3 DEF ControlInv
<1> QED BY <1>1, <1>2, <1>3, <1>4, <1>5, <1>6, <1>7, <1>8, <1>9, <1>10, <1>11, <1>12, <1>13,
     <1>14, <1>15, <1>16, <1>17, <1>18, <1>19, <1>20
     DEF ClientCall, ClientStep

\* Where the read thread goes next.
LEMMA RThreadMoves ==
  ASSUME Placed, PlaceInv, pc' = [pc EXCEPT ![RThread] = pc'[RThread]],
         pc'[RThread] \in RThreadPlaces, searching' = searching, st_alarm' = st_alarm
  PROVE  PlaceInv'
<1>1. pc'[StThread] = pc[StThread] /\ \A t \in Others : pc'[t] = pc[t]
  <2>1. PICK l : pc' = [pc EXCEPT ![RThread] = l] OBVIOUS
  <2> QED BY <2>1, StreamAssumption, ActorAssumption DEF Placed, Others
<1>2. searching' = {} /\ st_alarm' = FALSE BY Zenon DEF PlaceInv
<1> QED BY <1>1, <1>2 DEF PlaceInv

\* The read thread inside cdvdman_read, and up to its callback.
ReadingStep ==
  /\ pc' = [pc EXCEPT ![RThread] = pc'[RThread]]
  /\ UNCHANGED <<searching, Stm0Callback, rthread_sema>>
  /\ \/ /\ pc[RThread] \in Reading /\ pc'[RThread] \in Reading \ {"event"}
        /\ sync_flag' = sync_flag
     \/ pc[RThread] = "release" /\ pc'[RThread] = "setevent" /\ sync_flag' = 0
     \/ pc[RThread] = "setevent" /\ pc'[RThread] = "notify" /\ sync_flag' = sync_flag

\* The read path's own steps, run by the read thread.
LEMMA ReadingSteps ==
  ASSUME Placed, Executes(RThread)
  PROVE  ReadingStep
<1>a. RThread \in Actors OBVIOUS
<1> USE <1>a DEF ReadingStep, locks, hist, At, Goto, R, Placed
<1>1. CASE ReadBegin(RThread) BY <1>1 DEF ReadBegin
<1>2. CASE BounceTake(RThread) BY <1>2 DEF BounceTake
<1>3. CASE BounceChunk(RThread) BY <1>3 DEF BounceChunk
<1>4. CASE SectorsBegin(RThread) BY <1>4 DEF SectorsBegin
<1>5. CASE SectorsLoop(RThread) BY <1>5 DEF SectorsLoop
<1>6. CASE DeviceReadSectors(RThread) BY <1>6 DEF DeviceReadSectors
<1>7. CASE DeviceError(RThread) BY <1>7 DEF DeviceError
<1>8. CASE AccuWait(RThread) BY <1>8 DEF AccuWait
<1>9. CASE SectorsEnd(RThread) BY <1>9 DEF SectorsEnd
<1>10. CASE ReadEnd(RThread) BY <1>10 DEF ReadEnd
<1>11. CASE ReleaseDrive(RThread) BY <1>11 DEF ReleaseDrive
<1>12. CASE SetDoneEvent(RThread) BY <1>12 DEF SetDoneEvent
<1> QED BY <1>1, <1>2, <1>3, <1>4, <1>5, <1>6, <1>7, <1>8, <1>9, <1>10, <1>11, <1>12 DEF Executes

\* Reading, the read thread only gives the drive back.
LEMMA ReadingKeepsControl ==
  ASSUME StreamsAlone, AloneInv, Executes(RThread), UNCHANGED <<ring, st_alarm, call>>
  PROVE  ControlInv'
<1>a. StThread \in Actors /\ RThread \in Actors /\ StThread # RThread
  BY StreamAssumption, ActorAssumption
<1>b. Placed /\ PlaceInv /\ FlowInv /\ StatInv /\ StIsReading \in {0, 1}
  BY DEF AloneInv, ControlInv, RingInv
<1>1. ReadingStep BY <1>b, ReadingSteps
<1>2. PlaceInv' BY <1>1, <1>b, RThreadMoves DEF RThreadPlaces, ReadingStep
<1>3. pc'[StThread] = pc[StThread]
  <2>1. PICK l : pc' = [pc EXCEPT ![RThread] = l] BY <1>1 DEF ReadingStep
  <2> QED BY <1>a, <1>b, <2>1 DEF Placed
<1> USE <1>a, <1>b, <1>1, <1>3, ClientRuns DEF ring, ReadingStep
<1>4. FlowInv' BY DEF FlowInv
<1>5. StatInv' BY DEF FlowInv, StatInv
<1> QED BY <1>2, <1>4, <1>5 DEF ControlInv

\* So do the read thread's WaitSema, its callbacks and its own fill requests.
LEMMA ReadThreadKeepsControl ==
  ASSUME StreamsAlone, AloneInv, ReadThread
  PROVE  ControlInv'
<1>a. StThread \in Actors /\ RThread \in Actors /\ StThread # RThread /\ RThread \in StActors
  BY StreamAssumption, ActorAssumption DEF StActors
<1>b. Placed /\ PlaceInv /\ FlowInv /\ StatInv /\ StIsReading \in {0, 1}
  BY DEF AloneInv, ControlInv, RingInv
<1>1. CASE Fill(RThread) BY <1>1, <1>a, FillKeepsControl
<1>2. CASE Executes(RThread) /\ UNCHANGED <<ring, stlocal>>
  BY <1>2, ReadingKeepsControl DEF stlocal
<1> USE <1>a, <1>b, ClientRuns DEF locks, hist, stvars, ring, stlocal, At, Goto, Placed
<1>3. CASE cdread_Take /\ UNCHANGED <<ring, stlocal>>
  <2>1. /\ pc' = [pc EXCEPT ![RThread] = pc'[RThread]] /\ pc'[RThread] \in RThreadPlaces
        /\ searching' = searching /\ st_alarm' = st_alarm
    BY <1>3 DEF cdread_Take, RThreadPlaces
  <2>2. PlaceInv' BY <2>1, RThreadMoves
  <2>3. FlowInv' BY <1>3 DEF cdread_Take, FlowInv
  <2>4. StatInv' BY <1>3 DEF cdread_Take, FlowInv, StatInv
  <2> QED BY <2>2, <2>3, <2>4 DEF ControlInv
<1>4. CASE cdread_Notify /\ UNCHANGED <<ring, stlocal>>
  <2>1. /\ pc' = [pc EXCEPT ![RThread] = pc'[RThread]] /\ pc'[RThread] \in RThreadPlaces
        /\ searching' = searching /\ st_alarm' = st_alarm
    BY <1>4 DEF cdread_Notify, RThreadPlaces
  <2>2. PlaceInv' BY <2>1, RThreadMoves
  <2>3. FlowInv' BY <1>4 DEF cdread_Notify, FlowInv
  <2>4. StatInv' BY <1>4 DEF cdread_Notify, FlowInv, StatInv
  <2> QED BY <2>2, <2>3, <2>4 DEF ControlInv
<1>5. CASE StmCallback
  <2>1. /\ pc' = [pc EXCEPT ![RThread] = pc'[RThread]] /\ pc'[RThread] \in RThreadPlaces
        /\ searching' = searching /\ st_alarm' = st_alarm
    BY <1>5 DEF StmCallback, RThreadPlaces
  <2>2. PlaceInv' BY <2>1, RThreadMoves
  <2>3. FlowInv' BY <1>5 DEF StmCallback, FlowInv
  <2>4. StatInv' BY <1>5 DEF StmCallback, FlowInv, StatInv
  <2> QED BY <2>2, <2>3, <2>4 DEF ControlInv
<1>6. CASE StmUpdate
  <2>1. /\ pc' = [pc EXCEPT ![RThread] = pc'[RThread]] /\ pc'[RThread] \in RThreadPlaces
        /\ searching' = searching /\ st_alarm' = st_alarm
    BY <1>6 DEF StmUpdate, RThreadPlaces
  <2>2. PlaceInv' BY <2>1, RThreadMoves
  <2>3. FlowInv' BY <1>6 DEF StmUpdate, FlowInv
  <2>4. StatInv' BY <1>6 DEF StmUpdate, FlowInv, StatInv
  <2> QED BY <2>2, <2>3, <2>4 DEF ControlInv
<1> QED BY <1>1, <1>2, <1>3, <1>4, <1>5, <1>6 DEF ReadThread, RThreadStep

\* The other threads, without reads of their own, and the alarms.
Beside ==
  \/ AccuAlarm /\ UNCHANGED stvars
  \/ event_alarm_cb /\ UNCHANGED stvars
  \/ \E t \in Others : OtherStep(t) \/ OtherCall(t)
  \/ UNCHANGED allvars
LEMMA BesideKeeps ==
  ASSUME StreamsAlone, AloneInv, Beside
  PROVE  /\ UNCHANGED <<sync_flag, rthread_sema, cdread, Stm0Callback, mem, rd, searching, stvars>>
         /\ pc'[StThread] = pc[StThread] /\ pc'[RThread] = pc[RThread]
         /\ \A t \in Others : pc'[t] \in OtherPlaces
<1>a. StThread \in Actors /\ RThread \in Actors /\ RThread \notin Others /\ StThread \notin Others
  BY StreamAssumption, ActorAssumption DEF Others
<1>b. Placed /\ searching = {} /\ \A t \in Others : pc[t] \in OtherPlaces
  BY DEF AloneInv, ControlInv, PlaceInv
<1> USE <1>a, <1>b DEF locks, hist, At, Goto, Placed, Others
<1>1. CASE AccuAlarm /\ UNCHANGED stvars BY <1>1 DEF AccuAlarm
<1>2. CASE event_alarm_cb /\ UNCHANGED stvars BY <1>2 DEF event_alarm_cb, StreamsAlone
<1>3. ASSUME NEW t \in Others, ThreadStep(t), UNCHANGED stvars
      PROVE  /\ UNCHANGED <<sync_flag, rthread_sema, cdread, Stm0Callback, mem, rd, searching, stvars>>
             /\ pc'[StThread] = pc[StThread] /\ pc'[RThread] = pc[RThread]
             /\ \A u \in Others : pc'[u] \in OtherPlaces
  <2>1. ~Executes(t)
    BY <1>3 DEF OtherPlaces, Executes, ReadBegin, BounceTake, BounceChunk, SectorsBegin,
       SectorsLoop, DeviceReadSectors, DeviceError, AccuWait, SectorsEnd, ReadEnd, ReleaseDrive,
       SetDoneEvent
  <2>2. ~(AsyncReadSignal(t) \/ SyncReadEvent(t) \/ SearchTake(t) \/ SearchRead(t) \/ SearchParse(t) \/ SearchEnd(t))
    BY <1>3 DEF OtherPlaces, AsyncReadSignal, SyncReadEvent, SearchTake, SearchRead, SearchParse, SearchEnd
  <2>3. CASE SyncTest(t) BY <1>3, <2>3 DEF SyncTest, OtherPlaces
  <2>4. CASE SyncWake(t) BY <1>3, <2>4 DEF SyncWake, OtherPlaces
  <2>5. CASE DriveEvent(t) BY <1>3, <2>5 DEF DriveEvent, OtherPlaces
  <2> QED BY <1>3, <2>1, <2>2, <2>3, <2>4, <2>5 DEF ThreadStep
<1>4. ASSUME NEW t \in Others, ThreadCall(t), UNCHANGED stvars
      PROVE  /\ UNCHANGED <<sync_flag, rthread_sema, cdread, Stm0Callback, mem, rd, searching, stvars>>
             /\ pc'[StThread] = pc[StThread] /\ pc'[RThread] = pc[RThread]
             /\ \A u \in Others : pc'[u] \in OtherPlaces
  <2>1. ~sceCdRead(t) BY <1>4 DEF sceCdRead, StreamsAlone
  <2>2. ~SearchCall(t) BY DEF SearchCall, StreamsAlone
  <2>3. CASE sceCdSync(t) BY <1>4, <2>3 DEF sceCdSync, OtherPlaces
  <2>4. CASE sceCdDiskReady(t) BY <1>4, <2>4 DEF sceCdDiskReady, OtherPlaces
  <2>5. CASE sceCdCallback(t) BY <1>4, <2>5 DEF sceCdCallback, OtherPlaces
  <2>6. ASSUME NEW c \in DriveCommands, DriveCommand(t, c)
        PROVE  /\ UNCHANGED <<sync_flag, rthread_sema, cdread, Stm0Callback, mem, rd, searching, stvars>>
               /\ pc'[StThread] = pc[StThread] /\ pc'[RThread] = pc[RThread]
               /\ \A u \in Others : pc'[u] \in OtherPlaces
    BY <1>4, <2>6 DEF DriveCommand, OtherPlaces
  <2>7. ASSUME NEW c \in {"GetToc", "SetError"}, SetError(t, c)
        PROVE  /\ UNCHANGED <<sync_flag, rthread_sema, cdread, Stm0Callback, mem, rd, searching, stvars>>
               /\ pc'[StThread] = pc[StThread] /\ pc'[RThread] = pc[RThread]
               /\ \A u \in Others : pc'[u] \in OtherPlaces
    BY <1>4, <2>7 DEF SetError
  <2> QED BY <1>4, <2>1, <2>2, <2>3, <2>4, <2>5, <2>6, <2>7 DEF ThreadCall
<1>5. CASE UNCHANGED allvars BY <1>5 DEF allvars, vars
<1> QED BY <1>1, <1>2, <1>3, <1>4, <1>5 DEF Beside, OtherStep, OtherCall

\* The control part is inductive, given the rest.
LEMMA ControlStep ==
  ASSUME StreamsAlone, AloneInv, [StNext]_allvars
  PROVE  ControlInv'
<1>a. StThread \in StActors BY DEF StActors
<1>1. CASE ClientCall \/ ClientStep BY <1>1, <1>a, ClientKeepsControl, FillKeepsControl
<1>2. CASE ReadThread BY <1>2, ReadThreadKeepsControl
<1>3. CASE StmScheduleCb BY <1>3 DEF StmScheduleCb, AloneInv, ControlInv, PlaceInv
<1>4. CASE Beside
  <2>1. /\ UNCHANGED <<sync_flag, rthread_sema, Stm0Callback, searching, stvars>>
        /\ pc'[StThread] = pc[StThread] /\ pc'[RThread] = pc[RThread]
        /\ \A t \in Others : pc'[t] \in OtherPlaces
    BY <1>4, BesideKeeps
  <2> USE <2>1 DEF stvars, ring, stlocal, AloneInv, ControlInv
  <2>2. PlaceInv' BY DEF PlaceInv
  <2>3. FlowInv' BY DEF FlowInv
  <2>4. StatInv' BY DEF StatInv
  <2> QED BY <2>2, <2>3, <2>4
<1> QED BY <1>1, <1>2, <1>3, <1>4 DEF StNext, Beside

-----------------------------------------------------------------------------
(***************************************************************************)
(* The ring pointers.                                                      *)
(***************************************************************************)

\* The ring is a whole number of banks.
LEMMA Sizes ==
  /\ StBufmax \in Nat /\ StBanksize \in Nat /\ 0 < StBanksize /\ StBanksize <= StBufmax
  /\ StBufmax < 65536
<1>1. StBankmax \in Nat /\ StBankmax >= 1 /\ StBanksize \in Nat /\ StBanksize >= 1
      /\ StBankmax * StBanksize < 65536
  BY StreamAssumption DEF StBufmax
<1>2. StBankmax * StBanksize \in Nat /\ StBanksize <= StBankmax * StBanksize
  BY <1>1, Z3
<1> QED BY <1>1, <1>2 DEF StBufmax

\* A bank at the write pointer ends within the ring, where the next one
\* begins.
LEMMA NextBank ==
  ASSUME NEW p, AtBank(p)
  PROVE  /\ p \in 0 .. StBufmax - 1 /\ p + StBanksize <= StBufmax
         /\ AtBank(Wrapped(p + StBanksize))
         /\ Wrapped(p + StBanksize) = IF p + StBanksize = StBufmax THEN 0 ELSE p + StBanksize
<1>a. StBankmax \in Nat /\ StBankmax >= 1 /\ StBanksize \in Nat /\ StBanksize >= 1
  BY StreamAssumption
<1>1. PICK k \in 0 .. StBankmax - 1 : p = k * StBanksize BY DEF AtBank
<1>2. k \in Nat /\ k + 1 <= StBankmax /\ StBankmax - (k + 1) \in Nat BY <1>a, <1>1
<1>3. (StBankmax - (k + 1)) * StBanksize >= 0 /\ k * StBanksize \in Nat /\ (k + 1) * StBanksize \in Nat
  BY <1>a, <1>2, Z3
<1>4. /\ (k + 1) * StBanksize = k * StBanksize + StBanksize
      /\ StBankmax * StBanksize = (StBankmax - (k + 1)) * StBanksize + (k + 1) * StBanksize
  BY <1>a, <1>2, Z3
<1>5. p \in Nat /\ p + StBanksize <= StBufmax /\ StBufmax \in Nat
  <2> DEFINE lo == k * StBanksize
             hi == (k + 1) * StBanksize
             rest == (StBankmax - (k + 1)) * StBanksize
  <2>1. p = lo /\ StBufmax = rest + hi /\ hi = lo + StBanksize BY <1>1, <1>4 DEF StBufmax
  <2>2. lo \in Nat /\ hi \in Nat /\ rest >= 0 /\ StBufmax \in Nat BY <1>3, Sizes
  <2>3. rest \in Int BY <1>a, <1>2
  <2> HIDE DEF lo, hi, rest
  <2> QED BY <1>a, <2>1, <2>2, <2>3
<1>6. Wrapped(p + StBanksize) = IF p + StBanksize = StBufmax THEN 0 ELSE p + StBanksize
  BY <1>5, Sizes DEF Wrapped
<1>7. AtBank(Wrapped(p + StBanksize))
  <2>1. CASE p + StBanksize = StBufmax
    <3>1. 0 \in 0 .. StBankmax - 1 /\ 0 = 0 * StBanksize BY <1>a
    <3> QED BY <2>1, <3>1, <1>6 DEF AtBank
  <2>2. CASE p + StBanksize # StBufmax
    <3>1. p + StBanksize = (k + 1) * StBanksize BY <1>1, <1>4
    <3>2. k + 1 # StBankmax BY <2>2, <3>1 DEF StBufmax
    <3>3. k + 1 \in 0 .. StBankmax - 1 BY <1>a, <1>2, <3>2
    <3> QED BY <2>2, <3>1, <3>3, <1>6 DEF AtBank
  <2> QED BY <2>1, <2>2
<1> QED BY <1>5, <1>6, <1>7, Sizes

\* ReadSectors and ReadSectorsEE take no more than there is, and leave the
\* read pointer behind what they took.
LEMMA TakenFits ==
  ASSUME RingInv, NEW max \in Nat
  PROVE  /\ Taken(max).n \in 0 .. StStreamed /\ Taken(max).n <= max
         /\ Taken(max).rdptr \in 0 .. StBufmax - 1
         /\ Taken(max).rdptr \in {StReadPtr + Taken(max).n, StReadPtr + Taken(max).n - StBufmax}
<1> DEFINE n1 == IF StWritePtr <= StReadPtr /\ StStreamed > 0 THEN Smaller(StBufmax - StReadPtr, max) ELSE 0
           r1 == Wrapped(StReadPtr + n1)
           n2 == IF n1 < max /\ r1 < StWritePtr THEN Smaller(StWritePtr - r1, max - n1) ELSE 0
           ptr == IF n2 > 0 THEN Wrapped(r1 + n2) ELSE r1
<1>a. /\ StReadPtr \in 0 .. StBufmax - 1 /\ StWritePtr \in 0 .. StBufmax - 1
      /\ StStreamed \in 0 .. StBufmax /\ StBufmax \in Nat
      /\ StReadPtr + StStreamed = StWritePtr \/ StReadPtr + StStreamed = StWritePtr + StBufmax
  BY Sizes DEF RingInv
<1>1. Taken(max).n = n1 + n2 /\ Taken(max).rdptr = ptr BY DEF Taken
<1>2. n1 \in Nat /\ n1 <= max /\ n1 <= StBufmax - StReadPtr /\ n1 <= StStreamed
  BY <1>a DEF Smaller
<1>3. r1 = IF n1 = StBufmax - StReadPtr THEN 0 ELSE StReadPtr + n1
  BY <1>a, <1>2 DEF Wrapped
<1>4. /\ n1 + n2 \in 0 .. StStreamed /\ n1 + n2 <= max
      /\ ptr \in 0 .. StBufmax - 1
      /\ ptr = StReadPtr + (n1 + n2) \/ ptr = StReadPtr + (n1 + n2) - StBufmax
  <2>1. CASE StWritePtr <= StReadPtr /\ StStreamed > 0
    <3>1. n1 = Smaller(StBufmax - StReadPtr, max) BY <2>1
    <3>2. StReadPtr + StStreamed = StWritePtr + StBufmax BY <2>1, <1>a
    <3>3. CASE n1 = StBufmax - StReadPtr
      <4>1. r1 = 0 BY <3>3, <1>3
      <4>2. n2 = IF n1 < max /\ 0 < StWritePtr THEN Smaller(StWritePtr, max - n1) ELSE 0
        BY <4>1, <1>a, <1>2
      <4>3. n2 \in 0 .. StWritePtr /\ n1 + n2 <= max BY <4>2, <1>a, <1>2 DEF Smaller
      <4>4. ptr = n2 BY <4>1, <4>3, <1>a DEF Wrapped
      <4> HIDE DEF n1, n2, r1, ptr
      <4> QED BY <4>3, <4>4, <3>2, <3>3, <1>a
    <3>4. CASE n1 # StBufmax - StReadPtr
      <4>1. n1 = max BY <3>1, <3>4, <1>a DEF Smaller
      <4>2. n2 = 0 /\ ptr = StReadPtr + n1 BY <4>1, <3>4, <1>a, <1>3
      <4> HIDE DEF n1, n2, r1, ptr
      <4> QED BY <4>1, <4>2, <3>4, <1>a, <1>2
    <3> QED BY <3>3, <3>4
  <2>2. CASE ~(StWritePtr <= StReadPtr /\ StStreamed > 0)
    <3>1. n1 = 0 BY <2>2
    <3>2. r1 = StReadPtr BY <3>1, <1>a, <1>3
    <3>3. StReadPtr + StStreamed = StWritePtr BY <2>2, <1>a
    <3>4. n2 = IF 0 < max /\ StReadPtr < StWritePtr THEN Smaller(StWritePtr - StReadPtr, max) ELSE 0
      BY <3>1, <3>2
    <3>5. n2 \in 0 .. StStreamed /\ n2 <= max BY <3>3, <3>4, <1>a DEF Smaller
    <3>6. ptr = StReadPtr + n2 BY <3>2, <3>3, <3>5, <1>a DEF Wrapped
    <3> HIDE DEF n1, n2, r1, ptr
    <3> QED BY <3>1, <3>3, <3>5, <3>6, <1>a
  <2> QED BY <2>1, <2>2
<1> HIDE DEF n1, n2, r1, ptr
<1> QED BY <1>1, <1>4

\* A step that leaves the ring, and a DMA under way, alone.
LEMMA RingKept ==
  ASSUME RingInv, UNCHANGED <<StIsReading, StReadPtr, StWritePtr, StStreamed>>, call' \in Calling,
         pc'[StThread] = "dma" => pc[StThread] = "dma" /\ call' = call,
         pc[StThread] = "full" \/ pc[RThread] = "full" => pc'[StThread] = "full" \/ pc'[RThread] = "full"
  PROVE  RingInv'
  BY DEF RingInv, AtBank

\* StReset starts again at the first bank.
LEMMA ResetKeepsRing ==
  ASSUME RingInv, StReset, call' \in Calling, pc'[StThread] # "dma"
  PROVE  RingInv'
<1>1. AtBank(0)
  <2>1. 0 \in 0 .. StBankmax - 1 /\ 0 = 0 * StBanksize BY StreamAssumption
  <2> QED BY <2>1 DEF AtBank
<1>2. AtBank(StWritePtr)' BY <1>1 DEF StReset, AtBank
<1> QED BY <1>2, Sizes DEF RingInv, StReset

\* A fill request: a bank is only asked for when it fits.
LEMMA FillKeepsRing ==
  ASSUME StreamsAlone, AloneInv, NEW a \in StActors, Fill(a)
  PROVE  RingInv'
<1>a. StThread \in Actors /\ RThread \in Actors /\ StThread # RThread /\ a \in {StThread, RThread}
  BY StreamAssumption, ActorAssumption DEF StActors
<1>b. Placed /\ FlowInv /\ RingInv /\ call \in Calling BY DEF AloneInv, ControlInv, RingInv
<1>f. call' = call BY DEF Fill, FillLock, FillFull, FillRead, FillKick, FillRefused, FillRearm, stvars, stlocal
<1>g. pc'[StThread] = "dma" => pc[StThread] = "dma"
  BY <1>a, <1>b DEF Fill, FillLock, FillFull, FillRead, FillKick, FillRefused, FillRearm, Goto, Placed, FillReturn
<1> USE <1>a, <1>b, <1>f, <1>g DEF locks, hist, stvars, ring, stlocal, At, Goto, Placed, FillReturn
<1>1. CASE FillLock(a)
  <2>1. CASE StIsReading = 1 BY <1>1, <2>1, RingKept DEF FillLock, FlowInv
  <2>2. CASE StIsReading # 1
    <3>1. UNCHANGED <<StReadPtr, StWritePtr, StStreamed>> /\ StIsReading' = 1 BY <1>1, <2>2 DEF FillLock
    <3>2. AllocBank \/ pc'[StThread] = "full" \/ pc'[RThread] = "full" BY <1>1, <2>2 DEF FillLock
    <3>3. StStreamed + StBanksize <= StBufmax \/ pc'[StThread] = "full" \/ pc'[RThread] = "full"
      BY <3>2, Sizes DEF AllocBank, RingInv
    <3> QED BY <3>1, <3>3 DEF RingInv, AtBank
  <2> QED BY <2>1, <2>2
<1>2. CASE FillFull(a)
  <2>1. UNCHANGED <<StReadPtr, StWritePtr, StStreamed>> /\ StIsReading' = 0 BY <1>2 DEF FillFull
  <2> QED BY <2>1 DEF RingInv, AtBank
<1>3. CASE FillRead(a) BY <1>3, RingKept DEF FillRead, FlowInv
<1>4. CASE FillKick(a) BY <1>4, RingKept DEF FillKick, FlowInv
<1>5. CASE FillRefused(a)
  BY <1>5 DEF FillRefused, AloneInv, ControlInv, PlaceInv, ClientPlaces, RThreadPlaces
<1>6. CASE FillRearm(a)
  BY <1>6 DEF FillRearm, AloneInv, ControlInv, PlaceInv, ClientPlaces, RThreadPlaces
<1> QED BY <1>1, <1>2, <1>3, <1>4, <1>5, <1>6 DEF Fill

\* The end of a read's loop keeps the locals of the call typed.
LEMMA AfterCopyTyped ==
  ASSUME call \in Calling, NEW n \in Nat, AfterCopy(n)
  PROVE  call' \in Calling /\ pc' \in {[pc EXCEPT ![StThread] = "stwait"], [pc EXCEPT ![StThread] = "fill"]}
<1>1. CASE call.block /\ n < call.left
  <2>1. call.left - n \in Nat BY <1>1 DEF Calling
  <2>2. call' = [call EXCEPT !.left = call.left - n] /\ pc' = [pc EXCEPT ![StThread] = "stwait"]
    BY <1>1 DEF AfterCopy, Goto
  <2>3. call' \in Calling BY <2>1, <2>2 DEF Calling
  <2> QED BY <2>2, <2>3
<1>2. CASE ~(call.block /\ n < call.left)
  <2>1. call' = NoCall /\ pc' = [pc EXCEPT ![StThread] = "fill"] BY <1>2 DEF AfterCopy, Goto
  <2>2. call' \in Calling BY <2>1 DEF NoCall, Calling
  <2> QED BY <2>1, <2>2
<1> QED BY <1>1, <1>2

\* Taking n sectors moves the read pointer and the count together.
LEMMA TakingKeepsRing ==
  ASSUME RingInv, NEW n \in 0 .. StStreamed, NEW p \in 0 .. StBufmax - 1,
         p \in {StReadPtr + n, StReadPtr + n - StBufmax},
         StReadPtr' = p, StStreamed' = U16(StStreamed - n), UNCHANGED <<StWritePtr, StIsReading>>,
         call' \in Calling, pc'[StThread] # "dma",
         pc[StThread] # "full", pc'[RThread] = pc[RThread]
  PROVE  RingInv'
<1>1. StStreamed - n \in 0 .. StBufmax BY Sizes DEF RingInv
<1>2. StStreamed' = StStreamed - n BY <1>1, Sizes DEF U16
<1>3. StReadPtr' + StStreamed' \in {StWritePtr, StWritePtr + StBufmax}
  BY <1>1, <1>2, Sizes DEF RingInv
<1>4. StStreamed' <= StStreamed BY <1>1, <1>2 DEF RingInv
<1>5. StIsReading' = 1 => StStreamed' + StBanksize <= StBufmax \/ pc'[RThread] = "full"
  BY <1>1, <1>2, <1>4, Sizes DEF RingInv
<1> QED BY <1>1, <1>2, <1>3, <1>5 DEF RingInv, AtBank

\* The client's other steps.
LEMMA ClientKeepsRing ==
  ASSUME StreamsAlone, AloneInv, ClientCall \/ ClientStep, ~Fill(StThread)
  PROVE  RingInv'
<1>a. StThread \in Actors /\ RThread \in Actors /\ StThread # RThread
  BY StreamAssumption, ActorAssumption
<1>b. Placed /\ RingInv /\ call \in Calling BY DEF AloneInv, ControlInv, RingInv
<1>c. NoCall \in Calling BY DEF NoCall, Calling
<1> USE <1>a, <1>b DEF locks, hist, stvars, ring, stlocal, At, Goto, Placed, Calls
<1>1. CASE sceCdStStart
  <2>1. PICK l \in Starts : call' = [NoCall EXCEPT !.then = "start", !.lsn = l] BY <1>1 DEF sceCdStStart
  <2>2. call' \in Calling BY <2>1 DEF NoCall, Calling
  <2> QED BY <1>1, <2>2, RingKept DEF sceCdStStart
<1>2. CASE sceCdStStop BY <1>2, RingKept DEF sceCdStStop
<1>3. CASE sceCdStPause BY <1>3, RingKept DEF sceCdStPause
<1>4. CASE sceCdStResume BY <1>4, RingKept DEF sceCdStResume
<1>5. CASE sceCdStInit BY <1>5 DEF sceCdStInit, StreamsAlone
<1>6. CASE sceCdStStat BY <1>6, RingKept DEF sceCdStStat
<1>7. CASE sceCdStRead
  <2>1. PICK n \in ReadSizes, b \in Blocking, e \in FromEE :
          call' = [NoCall EXCEPT !.then = "read", !.left = n, !.block = b, !.ee = e]
    BY <1>7 DEF sceCdStRead
  <2>2. n \in Nat /\ b \in BOOLEAN /\ e \in BOOLEAN BY StreamAssumption
  <2>3. call' \in Calling BY <2>1, <2>2 DEF NoCall, Calling
  <2> QED BY <1>7, <2>3, RingKept DEF sceCdStRead
<1>8. CASE NotStreaming BY <1>8, RingKept DEF NotStreaming
<1>9. CASE InitLock BY <1>9 DEF InitLock, AloneInv, ControlInv, PlaceInv, ClientPlaces
<1>10. CASE StopLock BY <1>10, ResetKeepsRing DEF StopLock
<1>11. CASE StartLock BY <1>11, <1>c, ResetKeepsRing DEF StartLock
<1>12. CASE Started BY <1>12, RingKept DEF Started
<1>13. CASE PauseLock BY <1>13, RingKept DEF PauseLock
<1>14. CASE ResumeLock BY <1>14, RingKept DEF ResumeLock
<1>15. CASE StReadWait BY <1>15, RingKept DEF StReadWait
<1>16. CASE StReadClear BY <1>16, RingKept DEF StReadClear
<1>17. CASE StReadCopy
  <2> DEFINE t == Taken(call.left)
  <2>a. call.left \in Nat BY DEF Calling
  <2>1. /\ t.n \in 0 .. StStreamed /\ t.rdptr \in 0 .. StBufmax - 1
        /\ t.rdptr \in {StReadPtr + t.n, StReadPtr + t.n - StBufmax}
    BY <2>a, TakenFits
  <2>b. t.n \in Nat /\ t.rdptr \in Nat BY <2>1, Sizes DEF RingInv
  <2>c. pc[StThread] = "copy" /\ UNCHANGED <<StIsReading, StWritePtr>> BY <1>17 DEF StReadCopy
  <2>2. CASE call.ee /\ t.n > 0
    <3>1. /\ call' = [call EXCEPT !.rdptr = t.rdptr, !.n = t.n]
          /\ pc' = [pc EXCEPT ![StThread] = "dma"] /\ UNCHANGED <<StReadPtr, StStreamed>>
      BY <1>17, <2>2 DEF StReadCopy
    <3> HIDE DEF t
    <3>2. call' \in Calling /\ call'.n = t.n /\ call'.rdptr = t.rdptr BY <3>1, <2>b DEF Calling
    <3>3. pc'[RThread] = pc[RThread] /\ pc[StThread] # "full" BY <3>1, <2>c
    <3> QED BY <3>1, <3>2, <3>3, <2>1, <2>c DEF RingInv, AtBank
  <2>3. CASE ~(call.ee /\ t.n > 0)
    <3>1. StReadPtr' = t.rdptr /\ StStreamed' = U16(StStreamed - t.n) /\ AfterCopy(t.n)
      BY <1>17, <2>3 DEF StReadCopy
    <3> HIDE DEF t
    <3>2. call' \in Calling /\ pc'[StThread] # "dma" /\ pc'[RThread] = pc[RThread]
      BY <3>1, <2>b, AfterCopyTyped
    <3> QED BY <3>1, <3>2, <2>1, <2>c, TakingKeepsRing
  <2> QED BY <2>2, <2>3
<1>18. CASE StReadDma
  <2>1. /\ call.n \in 0 .. StStreamed /\ call.rdptr \in 0 .. StBufmax - 1
        /\ call.rdptr \in {StReadPtr + call.n, StReadPtr + call.n - StBufmax}
        /\ pc[StThread] = "dma" /\ UNCHANGED <<StIsReading, StWritePtr>>
    BY <1>18 DEF StReadDma, RingInv
  <2>2. StReadPtr' = call.rdptr /\ StStreamed' = U16(StStreamed - call.n) /\ AfterCopy(call.n)
    BY <1>18 DEF StReadDma
  <2>3. call' \in Calling /\ pc'[StThread] # "dma" /\ pc'[RThread] = pc[RThread]
    BY <2>2, AfterCopyTyped DEF Calling
  <2> QED BY <2>1, <2>2, <2>3, TakingKeepsRing
<1>19. CASE SyncTest(StThread) /\ UNCHANGED stvars BY <1>19, RingKept DEF SyncTest
<1>20. CASE SyncWake(StThread) /\ UNCHANGED stvars BY <1>20, RingKept DEF SyncWake
<1> QED BY <1>1, <1>2, <1>3, <1>4, <1>5, <1>6, <1>7, <1>8, <1>9, <1>10, <1>11, <1>12, <1>13,
     <1>14, <1>15, <1>16, <1>17, <1>18, <1>19, <1>20
     DEF ClientCall, ClientStep

\* StmCallback accounts for one bank, which has room.
LEMMA UpdateKeepsRing ==
  ASSUME StreamsAlone, AloneInv, StmUpdate
  PROVE  RingInv'
<1>a. StThread \in Actors /\ RThread \in Actors /\ StThread # RThread
  BY StreamAssumption, ActorAssumption
<1>b. Placed /\ FlowInv /\ RingInv BY DEF AloneInv, ControlInv
<1>1. /\ pc[RThread] = "cbupdate" /\ StIsReading' = 0 /\ StReadPtr' = StReadPtr
      /\ StStreamed' = U16(StStreamed + StBanksize) /\ StWritePtr' = Wrapped(StWritePtr + StBanksize)
      /\ call' = call /\ pc' = [pc EXCEPT ![RThread] = "fill"]
  BY DEF StmUpdate, At, Goto, stlocal
<1>2. StStreamed + StBanksize <= StBufmax BY <1>b, <1>1 DEF FlowInv, RingInv
<1>3. StStreamed' = StStreamed + StBanksize /\ StStreamed' \in 0 .. StBufmax
  BY <1>b, <1>1, <1>2, Sizes DEF RingInv, U16
<1>4. /\ AtBank(StWritePtr') /\ StWritePtr + StBanksize <= StBufmax
      /\ StWritePtr' = IF StWritePtr + StBanksize = StBufmax THEN 0 ELSE StWritePtr + StBanksize
  BY <1>b, <1>1, NextBank DEF RingInv
<1>5. StWritePtr' \in 0 .. StBufmax - 1 BY <1>b, <1>4, Sizes DEF RingInv
<1>6. StReadPtr' + StStreamed' \in {StWritePtr', StWritePtr' + StBufmax}
  BY <1>b, <1>1, <1>3, <1>4, Sizes DEF RingInv
<1>7. pc'[StThread] = pc[StThread] BY <1>a, <1>b, <1>1 DEF Placed
<1>8. pc'[StThread] = "dma" =>
        /\ call'.n \in 0 .. StStreamed' /\ call'.rdptr \in 0 .. StBufmax - 1
        /\ call'.rdptr \in {StReadPtr' + call'.n, StReadPtr' + call'.n - StBufmax}
  BY <1>b, <1>1, <1>3, <1>7, Sizes DEF RingInv
<1>9. StReadPtr' \in 0 .. StBufmax - 1 /\ call' \in Calling /\ StIsReading' = 0
  BY <1>b, <1>1 DEF RingInv
<1>10. AtBank(StWritePtr)' BY <1>4 DEF AtBank
<1> QED BY <1>3, <1>5, <1>6, <1>8, <1>9, <1>10 DEF RingInv

\* The ring part is inductive, given the control part.
LEMMA RingStep ==
  ASSUME StreamsAlone, AloneInv, [StNext]_allvars
  PROVE  RingInv'
<1>a. /\ StThread \in Actors /\ RThread \in Actors /\ StThread # RThread
      /\ StThread \in StActors /\ RThread \in StActors
  BY StreamAssumption, ActorAssumption DEF StActors
<1>b. Placed /\ RingInv /\ call \in Calling BY DEF AloneInv, RingInv
<1>1. CASE ClientCall \/ ClientStep BY <1>1, <1>a, ClientKeepsRing, FillKeepsRing
<1>2. CASE ReadThread
  <2>1. CASE RThreadStep /\ UNCHANGED <<ring, stlocal>>
    <3>1. pc[RThread] # "full" /\ \E l : pc' = [pc EXCEPT ![RThread] = l]
      <4>1. CASE Executes(RThread) BY <1>b, <4>1, ReadingSteps DEF ReadingStep
      <4>2. CASE cdread_Take \/ cdread_Notify BY <4>2 DEF cdread_Take, cdread_Notify, At, Goto
      <4> QED BY <2>1, <4>1, <4>2 DEF RThreadStep
    <3>2. pc'[StThread] = pc[StThread] BY <1>a, <1>b, <3>1 DEF Placed
    <3> QED BY <1>b, <2>1, <3>1, <3>2, RingKept DEF ring, stlocal
  <2>2. CASE StmCallback
    BY <1>a, <1>b, <2>2, RingKept DEF StmCallback, At, Goto, Placed, stvars, ring, stlocal
  <2> QED BY <1>2, <1>a, <2>1, <2>2, UpdateKeepsRing, FillKeepsRing DEF ReadThread
<1>3. CASE StmScheduleCb BY <1>3 DEF StmScheduleCb, AloneInv, ControlInv, PlaceInv
<1>4. CASE Beside BY <1>4, <1>b, BesideKeeps, RingKept DEF stvars, ring, stlocal
<1> QED BY <1>1, <1>2, <1>3, <1>4 DEF StNext, Beside

\* A stream that has the drive to itself keeps all of it.
LEMMA AloneInit == StInit => AloneInv
<1> SUFFICES ASSUME StInit PROVE AloneInv OBVIOUS
<1>a. StThread \in Actors /\ RThread \in Actors /\ StThread # RThread /\ RThread \notin Others
  BY StreamAssumption, ActorAssumption DEF Others
<1> USE <1>a DEF StInit, Init
<1>1. Placed /\ StOneOwner BY DEF Placed, StOneOwner, StHolds, Holds
<1>2. PlaceInv BY DEF PlaceInv, ClientPlaces, RThreadPlaces, OtherPlaces, Others
<1>3. FlowInv BY DEF FlowInv
<1>4. StatInv
  <2>1. StStat = 0 /\ sync_flag = 0 OBVIOUS
  <2>2. pc[StThread] = "ready" /\ pc[RThread] = "wait" OBVIOUS
  <2>3. Stm0Callback = FALSE OBVIOUS
  <2>4. Stm0Callback \in BOOLEAN /\ ~Stm0Callback BY Zenon, <2>3
  <2> HIDE DEF StInit, Init
  <2> QED BY <2>1, <2>2, <2>4 DEF StatInv
<1>5. RingInv
  <2>1. 0 \in 0 .. StBankmax - 1 /\ 0 = 0 * StBanksize BY StreamAssumption
  <2>2. AtBank(StWritePtr) BY <2>1 DEF AtBank
  <2>3. call \in Calling BY DEF NoCall, Calling
  <2> QED BY <2>2, <2>3, Sizes DEF RingInv
<1> QED BY <1>1, <1>2, <1>3, <1>4, <1>5 DEF AloneInv, ControlInv

\* Every step keeps AloneInv.
LEMMA AloneStep == StreamsAlone /\ AloneInv /\ [StNext]_allvars => AloneInv'
  BY StLockStep, LockStepKeepsOwner, ControlStep, RingStep DEF AloneInv

\* The write pointer inside the ring and one turn on.
LEMMA ModRing ==
  ASSUME NEW b \in Nat, NEW w \in 0 .. b - 1
  PROVE  w % b = w /\ (w + b) % b = w
  BY Z3

\* StReadPtr, StStreamed and StWritePtr agree, for any ring, any sequence of
\* stream calls and any other threads, as long as the stream has the drive to
\* itself: nothing is lost between StmCallback, which adds a bank, and
\* ReadSectors or the DMA of ReadSectorsEE, which take sectors in between.
THEOREM RingStaysConsistent ==
  ASSUME StreamsAlone
  PROVE  StSpec => []RingConsistent
<1>1. AloneInv => RingConsistent
  <2> SUFFICES ASSUME RingInv PROVE RingConsistent BY DEF AloneInv
  <2>1. StBufmax \in Nat /\ StWritePtr \in 0 .. StBufmax - 1 /\ StStreamed \in 0 .. StBufmax
        /\ (StReadPtr + StStreamed = StWritePtr \/ StReadPtr + StStreamed = StWritePtr + StBufmax)
    BY Sizes DEF RingInv
  <2> QED BY <2>1, ModRing DEF RingConsistent
<1> QED BY <1>1, AloneInit, AloneStep, PTL DEF StSpec

-----------------------------------------------------------------------------
(***************************************************************************)
(* What the ring holds.  Reads that are cut short would leave gaps in it   *)
(* (StmCallback counts the bank all the same), so this half is about a     *)
(* drive without errors and without sceCdBreak.                            *)
(***************************************************************************)
ReadsSucceed == DeviceFails = FALSE /\ Commands \cap {"Break", "GetToc", "SetError"} = {}

\* Where a sector of the stream is, in the ring and on the disc.
InRing(p) == IF p < StBufmax THEN p ELSE p - StBufmax
OnDisc(l) == IF l < LsnMod THEN l ELSE l - LsnMod
LsnBank(l) == l \in 0 .. LsnMod - 1 /\ l % StBanksize = 0

\* The bank that StStartFillStreamBuffer asks for, and the part of it that
\* has been read.
BankRequest == [lsn |-> Stlsn, sectors |-> StBanksize, buf |-> Ring, off |-> StWritePtr,
                aligned |-> TRUE]
Filled(n) == \A j \in 0 .. n - 1 : mem[Ring][StWritePtr + j] = Stlsn + j

DataTypes ==
  /\ cdread \in Request /\ rd \in [Actors -> ReadLocals]
  /\ mem \in [AllBuffers -> [Slots -> Int]]
  /\ Stlsn \in Nat /\ expected \in Nat /\ bank \in [StActors -> Nat]

\* cdvdman_read of the stream's own request, which nothing cuts short.
ReadOfBank(a) ==
  /\ pc[a] \notin {"bounce", "chunk"}
  /\ rd[a].req = cdread /\ rd[a].base = 0 /\ rd[a].pos \in 0 .. StBanksize
  /\ pc[a] # "read" => rd[a].len = StBanksize
  /\ pc[a] \in {"read", "sectors"} => rd[a].pos = 0
  /\ pc[a] = "device" => rd[a].pos < StBanksize
  /\ pc[a] \in {"endsectors", "done", "event", "release"} => rd[a].pos = StBanksize
ReadInv ==
  /\ err = "NO"
  /\ sync_flag = 1 => cdread.aligned = TRUE /\ cdread.buf = Ring /\ cdread.sectors = StBanksize
  /\ pc[RThread] \in Reading => ReadOfBank(RThread)

\* The bank under way is the next one of the stream.
BankInv == StStat = 1 =>
  /\ LsnBank(Stlsn) /\ expected \in 0 .. LsnMod - 1 /\ Stlsn = OnDisc(expected + StStreamed)
  /\ pc[StThread] = "async" => bank[StThread] = StWritePtr
  /\ pc[RThread] = "async" => bank[RThread] = StWritePtr
  /\ sync_flag = 1 => cdread = BankRequest
  /\ pc[RThread] \in Reading => Filled(rd[RThread].pos)
  /\ StIsReading = 1 /\ pc[RThread] \in {"setevent", "notify", "cbupdate"} =>
       Filled(StBanksize) /\ lastread = BankRequest

\* And what has not been taken yet is the stream.
UnreadInv == StStat = 1 =>
  \A i \in 0 .. StStreamed - 1 : mem[Ring][InRing(StReadPtr + i)] = OnDisc(expected + i)

HoldInv == DataTypes /\ ReadInv /\ BankInv /\ UnreadInv

\* Sectors and the rest.
LEMMA DivMod ==
  ASSUME NEW d \in Nat \ {0}, NEW x \in Nat
  PROVE  x = (x \div d) * d + (x % d) /\ x \div d \in Nat /\ x % d \in 0 .. d - 1
<1>1. x = (x \div d) * d + (x % d) OBVIOUS
<1>2. x \div d \in Nat OBVIOUS
<1>3. x % d \in 0 .. d - 1 OBVIOUS
<1> QED BY <1>1, <1>2, <1>3

\* A multiple leaves nothing over.
LEMMA Multiples ==
  ASSUME NEW d \in Nat \ {0}, NEW k \in Nat
  PROVE  (k * d) % d = 0
<1> DEFINE x == k * d
           s == x \div d
           e == x % d
<1>1. x \in Nat BY Z3
<1>2. x = s * d + e /\ s \in Nat /\ e \in 0 .. d - 1 BY <1>1, DivMod
<1>3. k * d = s * d + e BY <1>2
<1> HIDE DEF s, e
<1>4. (k - s) * d = e BY <1>2, <1>3, Z3
<1>5. k - s >= 1 => (k - s) * d >= d BY <1>2, Z3
<1>6. k - s <= -1 => (k - s) * d <= -d BY <1>2, Z3
<1>7. k = s BY <1>2, <1>4, <1>5, <1>6
<1>8. e = 0 BY <1>2, <1>4, <1>7, Z3
<1> QED BY <1>8 DEF e

\* The disc is a whole number of banks too: no bank wraps.
LEMMA NextLsn ==
  ASSUME NEW l, LsnBank(l)
  PROVE  l + StBanksize <= LsnMod /\ LsnBank((l + StBanksize) % LsnMod)
         /\ (l + StBanksize) % LsnMod = OnDisc(l + StBanksize)
<1> DEFINE b == StBanksize
           q == l \div b
           p == LsnMod \div b
<1>a. b \in Nat \ {0} /\ LsnMod \in Nat /\ LsnMod % b = 0 /\ l \in 0 .. LsnMod - 1 /\ l % b = 0
      /\ LsnMod > b
  BY StreamAssumption, Sizes DEF LsnBank
<1>0. l \in Nat BY <1>a
<1> HIDE DEF b
<1>1. l = q * b + (l % b) /\ q \in Nat BY <1>0, <1>a, DivMod
<1>2. LsnMod = p * b + (LsnMod % b) /\ p \in Nat BY <1>a, DivMod
<1>3. l = q * b /\ LsnMod = p * b BY <1>a, <1>1, <1>2
<1> HIDE DEF q, p
<1>4. q < p
  <2>1. SUFFICES ASSUME q >= p PROVE FALSE BY <1>1, <1>2
  <2>2. (q - p) * b >= 0 BY <1>a, <1>1, <1>2, <2>1, Z3
  <2>3. (q - p) * b = q * b - p * b BY <1>a, <1>1, <1>2, Z3
  <2> QED BY <1>a, <1>3, <2>2, <2>3
<1>5. l + b <= LsnMod
  <2>1. (p - (q + 1)) * b >= 0 BY <1>a, <1>1, <1>2, <1>4, Z3
  <2>2. (p - (q + 1)) * b = p * b - q * b - b BY <1>a, <1>1, <1>2, Z3
  <2> QED BY <1>a, <1>3, <2>1, <2>2
<1>6. (l + b) % LsnMod = OnDisc(l + b)
  <2>1. CASE l + b < LsnMod BY <1>a, <2>1, Z3 DEF OnDisc
  <2>2. CASE l + b = LsnMod BY <1>a, <2>2, Z3 DEF OnDisc
  <2> QED BY <1>a, <1>5, <2>1, <2>2
<1>7. (l + b) % b = 0 /\ 0 % b = 0
  <2>1. l + b = (q + 1) * b /\ q + 1 \in Nat BY <1>a, <1>1, <1>3, Z3
  <2>2. ((q + 1) * b) % b = 0 BY <1>a, <2>1, Multiples
  <2>3. 0 * b = 0 /\ (0 * b) % b = 0 BY <1>a, Multiples
  <2> QED BY <2>1, <2>2, <2>3
<1>8. LsnBank(OnDisc(l + b)) BY <1>a, <1>5, <1>7 DEF LsnBank, OnDisc, b
<1> QED BY <1>5, <1>6, <1>8 DEF b

\* With room for a bank, the bank at the write pointer and the unread sectors
\* are apart, and the bank continues them.
LEMMA RingApart ==
  ASSUME RingInv, StStreamed + StBanksize <= StBufmax, NEW i \in 0 .. StStreamed - 1
  PROVE  /\ InRing(StReadPtr + i) \in 0 .. StBufmax - 1
         /\ ~(StWritePtr <= InRing(StReadPtr + i) /\ InRing(StReadPtr + i) < StWritePtr + StBanksize)
  BY Sizes DEF RingInv, InRing

\* The next bank goes behind the newest sectors of the ring.
LEMMA RingContinues ==
  ASSUME RingInv, StStreamed + StBanksize <= StBufmax, NEW j \in 0 .. StBanksize - 1
  PROVE  InRing(StReadPtr + (StStreamed + j)) = StWritePtr + j
<1>1. StWritePtr + StBanksize <= StBufmax BY NextBank DEF RingInv
<1> QED BY <1>1, Sizes DEF RingInv, InRing

\* The ring lies within its buffer.
LEMMA RingSlots ==
  ASSUME RingInv
  PROVE  /\ StWritePtr \in Nat /\ StWritePtr + StBanksize <= BufSectors
         /\ \A s \in 0 .. StBufmax - 1 : s \in Slots
         /\ Ring \in AllBuffers /\ BufSectors \in Nat
<1>1. StWritePtr + StBanksize <= StBufmax BY NextBank DEF RingInv
<1> QED BY <1>1, Sizes, StreamAssumption, SizeAssumption DEF RingInv, Slots, AllBuffers

\* A step that touches neither the data nor the read under way.
DataQuiet ==
  /\ UNCHANGED <<sync_flag, cdread, mem, rd, ring, expected, lastread, bank>>
  /\ err' = "NO"
  /\ pc'[RThread] = pc[RThread]
  /\ pc'[StThread] = "async" => pc[StThread] = "async"

\* A step that touches neither data nor numbers keeps HoldInv.
LEMMA QuietHolds ==
  ASSUME HoldInv, DataQuiet
  PROVE  HoldInv'
<1> USE DEF DataQuiet, HoldInv, ring
<1>1. DataTypes' BY DEF DataTypes
<1>2. ReadInv' BY DEF ReadInv, ReadOfBank
<1>3. BankInv' BY DEF BankInv, BankRequest, Filled
<1>4. UnreadInv' BY DEF UnreadInv
<1> QED BY <1>1, <1>2, <1>3, <1>4

\* sceCdStStop ends the stream: nothing is expected of the ring any more.
LEMMA StopHolds ==
  ASSUME HoldInv, Placed, StopLock
  PROVE  HoldInv'
<1>a. StThread \in Actors /\ RThread \in Actors /\ StThread # RThread
  BY StreamAssumption, ActorAssumption
<1>1. /\ UNCHANGED <<sync_flag, cdread, mem, rd, Stlsn, expected, bank, err>>
      /\ StStat' = 0 /\ pc' = [pc EXCEPT ![StThread] = "syncwait"]
  BY DEF StopLock, Goto, locks, regs, stlocal, sthist
<1>2. pc'[RThread] = pc[RThread] BY <1>a, <1>1 DEF Placed
<1>3. DataTypes' BY <1>1 DEF HoldInv, DataTypes
<1>4. ReadInv' BY <1>1, <1>2 DEF HoldInv, ReadInv, ReadOfBank
<1>5. BankInv' /\ UnreadInv' BY <1>1 DEF BankInv, UnreadInv
<1> QED BY <1>3, <1>4, <1>5 DEF HoldInv

\* sceCdStStart begins a stream with an empty ring, on an idle drive.
LEMMA StartHolds ==
  ASSUME StreamsAlone, AloneInv, HoldInv, StartLock
  PROVE  HoldInv'
<1>a. StThread \in Actors /\ RThread \in Actors /\ StThread # RThread
  BY StreamAssumption, ActorAssumption
<1>b. Placed /\ RingInv /\ StatInv BY DEF AloneInv, ControlInv
<1>1. /\ UNCHANGED <<sync_flag, cdread, mem, rd, bank, err>>
      /\ StStat' = 1 /\ Stlsn' = call.lsn /\ expected' = call.lsn
      /\ StStreamed' = 0 /\ StIsReading' = 0
      /\ pc' = [pc EXCEPT ![StThread] = "started"]
      /\ \/ pc[StThread] = "start"
         \/ pc[StThread] = "ready" /\ call.then = "start"
      /\ MayRun(StThread)
  BY DEF StartLock, StReset, Goto, At, locks, regs
<1>2. pc'[RThread] = pc[RThread] /\ pc'[StThread] = "started" BY <1>a, <1>b, <1>1 DEF Placed
<1>3. sync_flag = 0 BY <1>b, <1>1 DEF StatInv, Placed
<1>4. pc[RThread] = "wait" BY <1>1, <1>3, ClientRuns
<1>5. call.lsn \in Starts \cup {0} BY <1>b DEF RingInv, Calling
<1>6. LsnBank(call.lsn)
  <2>1. 0 * StBanksize = 0 /\ (0 * StBanksize) % StBanksize = 0 BY Sizes, Multiples
  <2>2. LsnBank(0) BY <2>1, StreamAssumption, Sizes DEF LsnBank
  <2> QED BY <1>5, <2>2, StreamAssumption DEF LsnBank
<1>7. DataTypes' BY <1>1, <1>6, StreamAssumption DEF HoldInv, DataTypes, LsnBank
<1>8. ReadInv' BY <1>1, <1>2, <1>4 DEF HoldInv, ReadInv
<1>9. BankInv'
  <2>1. Stlsn' = OnDisc(expected' + StStreamed') BY <1>1, <1>6, StreamAssumption DEF LsnBank, OnDisc
  <2>2. LsnBank(Stlsn)' /\ expected' \in 0 .. LsnMod - 1 BY <1>1, <1>6 DEF LsnBank
  <2> QED BY <1>1, <1>2, <1>3, <1>4, <2>1, <2>2 DEF BankInv, OnDisc
<1>10. UnreadInv' BY <1>1 DEF UnreadInv
<1> QED BY <1>7, <1>8, <1>9, <1>10 DEF HoldInv

\* The client takes n sectors from the front.
LEMMA TakingHolds ==
  ASSUME HoldInv, RingInv, StStat = 1, NEW n \in 0 .. StStreamed, NEW p \in 0 .. StBufmax - 1,
         p \in {StReadPtr + n, StReadPtr + n - StBufmax},
         StReadPtr' = p, StStreamed' = U16(StStreamed - n), expected' = (expected + n) % LsnMod,
         UNCHANGED <<sync_flag, cdread, mem, rd, StStat, StWritePtr, StIsReading, Stlsn, lastread,
              bank, err>>,
         pc'[RThread] = pc[RThread], pc'[StThread] # "async"
  PROVE  HoldInv'
<1>a. /\ expected \in 0 .. LsnMod - 1 /\ Stlsn = OnDisc(expected + StStreamed)
      /\ LsnMod \in Nat /\ LsnMod > StBufmax /\ StBufmax \in Nat /\ StStreamed \in 0 .. StBufmax
      /\ StReadPtr \in 0 .. StBufmax - 1
  BY StreamAssumption, Sizes DEF HoldInv, BankInv, RingInv
<1>1. StStreamed' = StStreamed - n
  <2>1. StStreamed - n \in Nat /\ StStreamed - n <= StBufmax BY <1>a
  <2>2. StStreamed - n < 65536 BY <1>a, <2>1, Sizes
  <2>3. (StStreamed - n) % 65536 = StStreamed - n BY <2>1, <2>2
  <2> QED BY <2>3 DEF U16
<1>2. expected' = OnDisc(expected + n) /\ expected' \in 0 .. LsnMod - 1
  <2>1. expected + n \in Nat /\ expected + n < LsnMod + LsnMod BY <1>a
  <2>2. CASE expected + n < LsnMod BY <1>a, <2>1, <2>2, Z3 DEF OnDisc
  <2>3. CASE ~(expected + n < LsnMod)
    <3>1. expected + n - LsnMod \in 0 .. LsnMod - 1 BY <1>a, <2>1, <2>3
    <3>2. ((expected + n - LsnMod) + LsnMod) % LsnMod = expected + n - LsnMod BY <1>a, <3>1, ModRing
    <3>3. (expected + n - LsnMod) + LsnMod = expected + n BY <1>a
    <3> QED BY <1>a, <2>3, <3>1, <3>2, <3>3 DEF OnDisc
  <2> QED BY <2>2, <2>3
<1>3. \A i \in Nat : n + i <= StStreamed => OnDisc(expected' + i) = OnDisc(expected + (n + i))
  BY <1>a, <1>2 DEF OnDisc
<1>4. \A i \in Nat : n + i <= StStreamed => InRing(p + i) = InRing(StReadPtr + (n + i))
  BY <1>a DEF InRing
<1>5. DataTypes'
  <2>1. expected' \in Nat BY <1>a, <1>2
  <2> QED BY <2>1 DEF HoldInv, DataTypes
<1>6. ReadInv' BY DEF HoldInv, ReadInv, ReadOfBank
<1>7. BankInv'
  <2>1. StStreamed - n \in Nat /\ n + (StStreamed - n) = StStreamed BY <1>a
  <2>2. Stlsn' = OnDisc(expected' + StStreamed') BY <1>a, <1>1, <1>3, <2>1
  <2> QED BY <1>2, <2>2 DEF HoldInv, BankInv, BankRequest, Filled, OnDisc, LsnBank
<1>8. UnreadInv'
  <2> SUFFICES ASSUME NEW i \in 0 .. StStreamed' - 1
               PROVE  mem[Ring][InRing(StReadPtr' + i)] = OnDisc(expected' + i)
    BY DEF UnreadInv, InRing, OnDisc
  <2>1. n + i \in 0 .. StStreamed - 1 /\ i \in Nat /\ n + i <= StStreamed BY <1>a, <1>1
  <2>2. mem[Ring][InRing(StReadPtr + (n + i))] = OnDisc(expected + (n + i))
    BY <2>1 DEF HoldInv, UnreadInv
  <2> QED BY <1>3, <1>4, <2>1, <2>2
<1> QED BY <1>5, <1>6, <1>7, <1>8 DEF HoldInv

\* A fill request asks for the bank at the write pointer.
LEMMA FillHolds ==
  ASSUME StreamsAlone, AloneInv, HoldInv, NEW a \in StActors, Fill(a)
  PROVE  HoldInv'
<1>a. StThread \in Actors /\ RThread \in Actors /\ StThread # RThread /\ a \in {StThread, RThread}
      /\ StThread \in StActors /\ RThread \in StActors
  BY StreamAssumption, ActorAssumption DEF StActors
<1>b. /\ Placed /\ PlaceInv /\ FlowInv /\ StatInv
      /\ DataTypes /\ ReadInv /\ BankInv /\ UnreadInv
      /\ StWritePtr \in Nat /\ Ring \in AllBuffers
  BY RingSlots DEF AloneInv, ControlInv, HoldInv
<1>c. FillRefused(a) \/ FillRearm(a) => FALSE
  BY <1>a, <1>b DEF PlaceInv, ClientPlaces, RThreadPlaces, FillRefused, FillRearm, At
<1>d. /\ pc' = [pc EXCEPT ![a] = pc'[a]] /\ pc[a] \in {"fill", "full", "async", "kick"}
      /\ pc'[a] \in {"wait", "ready", "async", "full", "kick"}
      /\ UNCHANGED <<mem, rd, err, StStat, StWritePtr, StReadPtr, StStreamed, Stlsn, lastread, expected>>
  BY <1>a, <1>b, <1>c DEF Fill, FillLock, FillFull, FillRead, FillKick, At, Goto, Placed, FillReturn,
     regs, stvars, ring, stlocal, sthist, FlowInv
<1>e. /\ a = RThread => pc'[StThread] = pc[StThread]
      /\ a = StThread => pc'[RThread] = pc[RThread]
  <2>1. PICK l : pc' = [pc EXCEPT ![a] = l] BY <1>d
  <2> QED BY <1>a, <1>b, <2>1 DEF Placed
<1>f. pc[RThread] \in Reading => a = StThread BY <1>a, <1>d
<1>g. pc[a] = "async" => StStat = 1 /\ pc[RThread] \notin Reading /\ pc'[RThread] \notin Reading
  BY <1>a, <1>b, <1>d, <1>e DEF StatInv, FlowInv
<1>1. UnreadInv' BY <1>b, <1>d DEF UnreadInv
<1>2. CASE FillRead(a)
  <2>1. /\ sync_flag = 0 /\ sync_flag' = 1 /\ cdread' = BankRead(a) /\ UNCHANGED <<StIsReading, bank>>
        /\ pc[a] = "async" /\ pc'[a] = "kick"
    BY <1>2, <1>a, <1>b DEF FillRead, FlowInv, At, Goto, Placed, cdvdman_common_lock, stvars, ring, stlocal
  <2>2. /\ cdread'.lsn = Stlsn /\ cdread'.sectors = StBanksize /\ cdread'.buf = Ring
        /\ cdread'.off = bank[a] /\ cdread'.aligned = TRUE
    BY Zenon, <2>1 DEF BankRead
  <2>3. bank[a] = StWritePtr BY <1>a, <1>b, <1>g, <2>1 DEF BankInv
  <2>4. DataTypes'
    <3>1. cdread' \in Request BY <1>a, <1>b, <2>1, Sizes DEF BankRead, Request, DataTypes
    <3> QED BY <1>b, <1>d, <2>1, <3>1 DEF DataTypes
  <2>5. ReadInv' BY <1>b, <1>d, <1>g, <2>1, <2>2 DEF ReadInv
  <2>6. cdread' = BankRequest' BY <2>1, <2>3, <1>d DEF BankRead, BankRequest
  <2>7. BankInv'
    BY <1>a, <1>b, <1>d, <1>e, <1>g, <2>1, <2>6 DEF BankInv, FlowInv, Filled, LsnBank, OnDisc, BankRequest
  <2> QED BY <1>1, <2>4, <2>5, <2>7 DEF HoldInv
<1>3. CASE FillLock(a) \/ FillFull(a) \/ FillKick(a)
  <2>1. /\ UNCHANGED <<sync_flag, cdread>> /\ pc'[a] # "kick"
        /\ bank' \in [StActors -> Nat]
        /\ bank' = bank \/ bank' = [bank EXCEPT ![a] = StWritePtr]
        /\ pc'[a] = "async" => bank'[a] = StWritePtr
    <3>1. CASE FillLock(a)
      <4>1. UNCHANGED <<sync_flag, cdread>> /\ pc'[a] \in {"wait", "ready", "async", "full"}
        BY <3>1, <1>a, <1>b DEF FillLock, Goto, Placed, FillReturn, locks
      <4>2. \/ bank' = bank /\ pc'[a] # "async"
            \/ bank' = [bank EXCEPT ![a] = StWritePtr]
        BY <3>1, <1>a, <1>b DEF FillLock, Goto, Placed, FillReturn
      <4>3. bank \in [StActors -> Nat] BY <1>b DEF DataTypes
      <4> QED BY <4>1, <4>2, <4>3, <1>b
    <3>2. CASE FillFull(a) \/ FillKick(a)
      BY <3>2, <1>a, <1>b DEF FillFull, FillKick, Goto, Placed, FillReturn, DataTypes, locks, stvars, stlocal
    <3> QED BY <1>3, <3>1, <3>2
  <2>2. DataTypes' BY <1>b, <1>d, <2>1 DEF DataTypes
  <2>3. pc'[RThread] \in Reading => pc'[RThread] = pc[RThread] BY <1>a, <1>d, <1>e
  <2>4. ReadInv' BY <1>b, <1>d, <2>1, <2>3 DEF ReadInv, ReadOfBank
  <2>5. BankInv'
    <3> SUFFICES ASSUME StStat = 1 PROVE BankInv' BY <1>d DEF BankInv
    <3>1. /\ pc'[StThread] = "async" => bank'[StThread] = StWritePtr
          /\ pc'[RThread] = "async" => bank'[RThread] = StWritePtr
      <4>1. bank \in [StActors -> Nat] BY <1>b DEF DataTypes
      <4>2. CASE a = StThread BY <4>1, <4>2, <1>a, <1>b, <1>d, <1>e, <2>1 DEF BankInv
      <4>3. CASE a = RThread BY <4>1, <4>3, <1>a, <1>b, <1>d, <1>e, <2>1 DEF BankInv
      <4> QED BY <4>2, <4>3, <1>a
    <3>2. pc'[RThread] \in {"setevent", "notify", "cbupdate"} =>
            a = StThread /\ (StIsReading' = 1 => StIsReading = 1)
      <4>1. pc'[RThread] \in {"setevent", "notify", "cbupdate"} => a = StThread BY <1>a, <1>d
      <4>2. CASE FillLock(a) /\ StIsReading = 0 /\ a = StThread /\ pc'[RThread] = pc[RThread]
        <5>1. pc[RThread] = "wait" BY <4>2, ClientRuns DEF FillLock, At
        <5> QED BY <4>2, <5>1
      <4>3. CASE FillLock(a) /\ StIsReading # 0 BY <4>1, <4>3, <1>b DEF FillLock, AloneInv, RingInv
      <4>4. CASE FillFull(a) \/ FillKick(a) BY <4>1, <4>4 DEF FillFull, FillKick, stvars, ring
      <4> QED BY <1>3, <1>e, <4>1, <4>2, <4>3, <4>4
    <3>3. pc'[RThread] \in {"setevent", "notify", "cbupdate"} => pc'[RThread] = pc[RThread]
      BY <1>a, <1>d, <1>e
    <3> QED BY <1>b, <1>d, <2>1, <2>3, <3>1, <3>2, <3>3 DEF BankInv, Filled, LsnBank, OnDisc, BankRequest
  <2> QED BY <1>1, <2>2, <2>4, <2>5 DEF HoldInv
<1> QED BY <1>c, <1>2, <1>3 DEF Fill

\* The client's other steps.
LEMMA ClientHolds ==
  ASSUME StreamsAlone, AloneInv, HoldInv, ClientCall \/ ClientStep, ~Fill(StThread)
  PROVE  HoldInv'
<1>a. StThread \in Actors /\ RThread \in Actors /\ StThread # RThread
  BY StreamAssumption, ActorAssumption
<1>b. Placed /\ RingInv /\ StatInv /\ call \in Calling /\ err = "NO"
  BY DEF AloneInv, ControlInv, RingInv, HoldInv, ReadInv
<1> USE <1>a, <1>b
<1>1. CASE sceCdStStart
  <2>1. DataQuiet BY <1>1 DEF DataQuiet, sceCdStStart, locks, regs, stvars, ring, stlocal, sthist, At, Goto, Placed, Calls, StRegisters
  <2> QED BY <2>1, QuietHolds
<1>2. CASE sceCdStStop
  <2>1. DataQuiet BY <1>2 DEF DataQuiet, sceCdStStop, locks, regs, stvars, ring, stlocal, sthist, At, Goto, Placed, Calls, StRegisters
  <2> QED BY <2>1, QuietHolds
<1>3. CASE sceCdStPause
  <2>1. DataQuiet BY <1>3 DEF DataQuiet, sceCdStPause, locks, regs, stvars, ring, stlocal, sthist, At, Goto, Placed, Calls, StRegisters
  <2> QED BY <2>1, QuietHolds
<1>4. CASE sceCdStResume
  <2>1. DataQuiet BY <1>4 DEF DataQuiet, sceCdStResume, locks, regs, stvars, ring, stlocal, sthist, At, Goto, Placed, Calls, StRegisters
  <2> QED BY <2>1, QuietHolds
<1>5. CASE sceCdStInit BY <1>5 DEF sceCdStInit, StreamsAlone
<1>6. CASE sceCdStStat
  <2>1. DataQuiet BY <1>6 DEF DataQuiet, sceCdStStat, locks, regs, stvars, ring, stlocal, sthist, At, Goto, Placed, Calls, StRegisters
  <2> QED BY <2>1, QuietHolds
<1>7. CASE sceCdStRead
  <2>1. DataQuiet BY <1>7 DEF DataQuiet, sceCdStRead, locks, regs, stvars, ring, stlocal, sthist, At, Goto, Placed, Calls, StRegisters
  <2> QED BY <2>1, QuietHolds
<1>8. CASE NotStreaming
  <2>1. DataQuiet BY <1>8 DEF DataQuiet, NotStreaming, locks, regs, stvars, ring, stlocal, sthist, At, Goto, Placed, Calls, StRegisters
  <2> QED BY <2>1, QuietHolds
<1>9. CASE InitLock BY <1>9 DEF InitLock, At, AloneInv, ControlInv, PlaceInv, ClientPlaces
<1>10. CASE StopLock BY <1>10, StopHolds
<1>11. CASE StartLock BY <1>11, StartHolds
<1>12. CASE Started
  <2>1. DataQuiet BY <1>12 DEF DataQuiet, Started, locks, regs, stvars, ring, stlocal, sthist, At, Goto, Placed, Calls, StRegisters
  <2> QED BY <2>1, QuietHolds
<1>13. CASE PauseLock
  <2>1. DataQuiet BY <1>13 DEF DataQuiet, PauseLock, locks, regs, stvars, ring, stlocal, sthist, At, Goto, Placed, Calls, StRegisters
  <2> QED BY <2>1, QuietHolds
<1>14. CASE ResumeLock
  <2>1. DataQuiet BY <1>14 DEF DataQuiet, ResumeLock, locks, regs, stvars, ring, stlocal, sthist, At, Goto, Placed, Calls, StRegisters
  <2> QED BY <2>1, QuietHolds
<1>15. CASE StReadWait
  <2>1. DataQuiet BY <1>15 DEF DataQuiet, StReadWait, locks, regs, stvars, ring, stlocal, sthist, At, Goto, Placed, Calls, StRegisters
  <2> QED BY <2>1, QuietHolds
<1>16. CASE StReadClear
  <2>1. DataQuiet BY <1>16 DEF DataQuiet, StReadClear, locks, regs, stvars, ring, stlocal, sthist, At, Goto, Placed, Calls, StRegisters
  <2> QED BY <2>1, QuietHolds
<1>17. CASE StReadCopy
  <2> DEFINE t == Taken(call.left)
  <2>a. call.left \in Nat BY DEF Calling
  <2>1. /\ t.n \in 0 .. StStreamed /\ t.rdptr \in 0 .. StBufmax - 1
        /\ t.rdptr \in {StReadPtr + t.n, StReadPtr + t.n - StBufmax}
    BY <2>a, TakenFits
  <2>b. t.n \in Nat BY <2>1, Sizes DEF RingInv
  <2>c. /\ pc[StThread] = "copy"
        /\ UNCHANGED <<sync_flag, cdread, mem, rd, StStat, StWritePtr, StIsReading, Stlsn, lastread, bank, err>>
    BY <1>17 DEF StReadCopy, At, locks, regs
  <2>d. StStat = 1 BY <2>c DEF StatInv
  <2>2. CASE call.ee /\ t.n > 0
    <3>1. pc' = [pc EXCEPT ![StThread] = "dma"] /\ UNCHANGED <<StReadPtr, StStreamed, expected>>
      BY <1>17, <2>2 DEF StReadCopy, Goto
    <3>2. pc'[RThread] = pc[RThread] /\ pc'[StThread] # "async" BY <3>1 DEF Placed
    <3> QED BY <3>1, <3>2, <2>c, QuietHolds DEF DataQuiet, ring
  <2>3. CASE ~(call.ee /\ t.n > 0)
    <3>1. /\ StReadPtr' = t.rdptr /\ StStreamed' = U16(StStreamed - t.n)
          /\ expected' = (expected + t.n) % LsnMod /\ AfterCopy(t.n)
      BY <1>17, <2>3 DEF StReadCopy
    <3> HIDE DEF t
    <3>2. pc'[StThread] # "async" /\ pc'[RThread] = pc[RThread]
      BY <3>1, <2>b, AfterCopyTyped DEF Placed
    <3> QED BY <3>1, <3>2, <2>1, <2>c, <2>d, TakingHolds
  <2> QED BY <2>2, <2>3
<1>18. CASE StReadDma
  <2>1. /\ call.n \in 0 .. StStreamed /\ call.rdptr \in 0 .. StBufmax - 1
        /\ call.rdptr \in {StReadPtr + call.n, StReadPtr + call.n - StBufmax}
        /\ pc[StThread] = "dma"
    BY <1>18 DEF StReadDma, RingInv, At
  <2>a. UNCHANGED <<sync_flag, cdread, mem, rd, StStat, StWritePtr, StIsReading, Stlsn, lastread, bank, err>>
    BY <1>18 DEF StReadDma, locks, regs
  <2>2. /\ StReadPtr' = call.rdptr /\ StStreamed' = U16(StStreamed - call.n)
        /\ expected' = (expected + call.n) % LsnMod /\ AfterCopy(call.n)
    BY <1>18 DEF StReadDma
  <2>3. pc'[StThread] # "async" /\ pc'[RThread] = pc[RThread]
    BY <2>2, AfterCopyTyped DEF Placed, Calling
  <2>4. StStat = 1 BY <2>1 DEF StatInv
  <2> QED BY <2>1, <2>2, <2>3, <2>4, <2>a, TakingHolds
<1>19. CASE SyncTest(StThread) /\ UNCHANGED stvars
  <2>1. DataQuiet BY <1>19 DEF DataQuiet, SyncTest, locks, regs, stvars, ring, stlocal, sthist, At, Goto, Placed, Calls, StRegisters
  <2> QED BY <2>1, QuietHolds
<1>20. CASE SyncWake(StThread) /\ UNCHANGED stvars
  <2>1. DataQuiet BY <1>20 DEF DataQuiet, SyncWake, locks, regs, stvars, ring, stlocal, sthist, At, Goto, Placed, Calls, StRegisters
  <2> QED BY <2>1, QuietHolds
<1> QED BY <1>1, <1>2, <1>3, <1>4, <1>5, <1>6, <1>7, <1>8, <1>9, <1>10, <1>11, <1>12, <1>13,
     <1>14, <1>15, <1>16, <1>17, <1>18, <1>19, <1>20
     DEF ClientCall, ClientStep

\* What the read thread reads is the bank that was asked for.
LEMMA ReadOwn ==
  ASSUME StreamsAlone, AloneInv, HoldInv, pc[RThread] \in Reading
  PROVE  /\ ReadOfBank(RThread) /\ err = "NO" /\ sync_flag = 1
         /\ rd \in [Actors -> ReadLocals] /\ rd[RThread] \in ReadLocals
         /\ cdread.aligned = TRUE /\ cdread.buf = Ring /\ cdread.sectors = StBanksize
         /\ StStat = 1 => cdread = BankRequest /\ Filled(rd[RThread].pos)
<1>1. sync_flag = 1 BY ClientRuns
<1>2. RThread \in Actors BY DEF Actors
<1> QED BY <1>1, <1>2 DEF HoldInv, ReadInv, DataTypes, BankInv

\* A step of cdvdman_read that moves no sector.
LEMMA ReadOnHolds ==
  ASSUME HoldInv, pc[RThread] \in Reading, pc'[RThread] \in Reading,
         UNCHANGED <<sync_flag, cdread, mem, ring, bank, expected, lastread>>,
         pc'[StThread] = pc[StThread], err' = "NO",
         rd' \in [Actors -> ReadLocals], rd'[RThread].pos = rd[RThread].pos,
         ReadOfBank(RThread)'
  PROVE  HoldInv'
<1> USE DEF HoldInv, ring
<1>1. DataTypes' BY DEF DataTypes
<1>2. ReadInv' BY DEF ReadInv
<1>3. BankInv' BY DEF BankInv, BankRequest, Filled, Reading, InTransfer
<1>4. UnreadInv' BY DEF UnreadInv
<1> QED BY <1>1, <1>2, <1>3, <1>4

\* The read path's steps while a bank is under way.
LEMMA ReadOnSteps ==
  ASSUME StreamsAlone, ReadsSucceed, AloneInv, HoldInv, UNCHANGED <<ring, bank, expected, lastread>>,
         \/ ReadBegin(RThread) \/ SectorsBegin(RThread) \/ SectorsLoop(RThread)
         \/ AccuWait(RThread) \/ SectorsEnd(RThread) \/ ReadEnd(RThread)
  PROVE  HoldInv'
<1>a. StThread \in Actors /\ RThread \in Actors /\ StThread # RThread
  BY StreamAssumption, ActorAssumption
<1>b. Placed BY DEF AloneInv
<1>c. pc[RThread] \in Reading
  BY DEF ReadBegin, SectorsBegin, SectorsLoop, AccuWait, SectorsEnd, ReadEnd, At, Reading, InTransfer
<1>d. /\ ReadOfBank(RThread) /\ err = "NO"
      /\ rd \in [Actors -> ReadLocals] /\ rd[RThread] \in ReadLocals
      /\ rd[RThread].req.aligned = TRUE /\ rd[RThread].req.sectors = StBanksize
      /\ StBanksize \in Nat
  <2>1. /\ ReadOfBank(RThread) /\ err = "NO"
        /\ rd \in [Actors -> ReadLocals] /\ rd[RThread] \in ReadLocals
        /\ cdread.aligned = TRUE /\ cdread.sectors = StBanksize
    BY <1>c, ReadOwn
  <2>2. rd[RThread].req = cdread BY <2>1 DEF ReadOfBank
  <2> QED BY <2>1, <2>2, Sizes
<1>e. rd[RThread].pos \in 0 .. StBanksize /\ rd[RThread].len \in Nat
  BY <1>d DEF ReadOfBank, ReadLocals
<1> USE <1>a, <1>b, <1>c, <1>d DEF At, Goto, Placed, R, locks, regs, hist
<1>1. CASE ReadBegin(RThread)
  <2>1. /\ UNCHANGED <<sync_flag, cdread, mem, err>> /\ pc[RThread] = "read"
        /\ pc' = [pc EXCEPT ![RThread] = "sectors"]
        /\ rd' = [rd EXCEPT ![RThread].len = StBanksize]
    BY <1>1 DEF ReadBegin
  <2>2. rd' \in [Actors -> ReadLocals] BY <2>1 DEF ReadLocals
  <2>3. /\ rd'[RThread].pos = rd[RThread].pos /\ rd'[RThread].req = rd[RThread].req
        /\ rd'[RThread].base = rd[RThread].base /\ rd'[RThread].len = StBanksize
    BY <2>1 DEF ReadLocals
  <2>4. pc'[RThread] = "sectors" /\ pc'[StThread] = pc[StThread] BY <2>1
  <2>5. ReadOfBank(RThread)' BY <2>1, <2>3, <2>4 DEF ReadOfBank
  <2>6. pc'[RThread] \in Reading BY <2>4 DEF Reading, InTransfer
  <2> QED BY <2>1, <2>2, <2>3, <2>4, <2>5, <2>6, ReadOnHolds
<1>2. CASE SectorsBegin(RThread)
  <2>1. /\ UNCHANGED <<sync_flag, cdread, mem, rd>> /\ err' = "NO" /\ pc[RThread] = "sectors"
        /\ pc' = [pc EXCEPT ![RThread] = "loop"]
    BY <1>2 DEF SectorsBegin
  <2>4. pc'[RThread] = "loop" /\ pc'[StThread] = pc[StThread] BY <2>1
  <2>5. ReadOfBank(RThread)' BY <2>1, <2>4 DEF ReadOfBank
  <2>6. pc'[RThread] \in Reading BY <2>4 DEF Reading, InTransfer
  <2> QED BY <2>1, <2>4, <2>5, <2>6, ReadOnHolds
<1>3. CASE SectorsLoop(RThread)
  <2>1. /\ UNCHANGED <<sync_flag, cdread, mem, err>> /\ pc[RThread] = "loop"
    BY <1>3 DEF SectorsLoop
  <2>2. rd[RThread].len = StBanksize BY <2>1 DEF ReadOfBank
  <2>3. CASE rd[RThread].pos < rd[RThread].len
    <3>1. rd' = rd /\ pc' = [pc EXCEPT ![RThread] = "device"] BY <1>3, <2>3 DEF SectorsLoop
    <3>4. pc'[RThread] = "device" /\ pc'[StThread] = pc[StThread] BY <3>1
    <3>5. ReadOfBank(RThread)' BY <2>1, <2>2, <2>3, <3>1, <3>4 DEF ReadOfBank
    <3>6. pc'[RThread] \in Reading BY <3>4 DEF Reading, InTransfer
    <3> QED BY <2>1, <3>1, <3>4, <3>5, <3>6, ReadOnHolds
  <2>4. CASE ~(rd[RThread].pos < rd[RThread].len)
    <3>0. /\ rd' = [rd EXCEPT ![RThread].short = @ \/ rd[RThread].pos < rd[RThread].len]
          /\ pc' = [pc EXCEPT ![RThread] = "endsectors"]
      BY <1>3, <2>4 DEF SectorsLoop
    <3>1. PICK s \in BOOLEAN : rd' = [rd EXCEPT ![RThread].short = s]
      <4>1. rd' = [rd EXCEPT ![RThread].short = (rd[RThread].short \/ rd[RThread].pos < rd[RThread].len)]
        BY <3>0
      <4>2. (rd[RThread].short \/ rd[RThread].pos < rd[RThread].len) \in BOOLEAN BY Zenon
      <4> QED BY Zenon, <4>1, <4>2
    <3>2. rd' \in [Actors -> ReadLocals] BY <3>1 DEF ReadLocals
    <3>3. /\ rd'[RThread].pos = rd[RThread].pos /\ rd'[RThread].req = rd[RThread].req
          /\ rd'[RThread].base = rd[RThread].base /\ rd'[RThread].len = rd[RThread].len
      BY <3>1 DEF ReadLocals
    <3>4. pc'[RThread] = "endsectors" /\ pc'[StThread] = pc[StThread] BY <3>0
    <3>5. ReadOfBank(RThread)' BY <1>e, <2>1, <2>2, <2>4, <3>3, <3>4 DEF ReadOfBank
    <3>6. pc'[RThread] \in Reading BY <3>4 DEF Reading, InTransfer
    <3> QED BY <2>1, <3>2, <3>3, <3>4, <3>5, <3>6, ReadOnHolds
  <2> QED BY <2>3, <2>4
<1>4. CASE AccuWait(RThread)
  <2>1. /\ UNCHANGED <<sync_flag, cdread, mem, rd, err>> /\ pc[RThread] = "pace"
        /\ pc' = [pc EXCEPT ![RThread] = "loop"]
    BY <1>4 DEF AccuWait
  <2>4. pc'[RThread] = "loop" /\ pc'[StThread] = pc[StThread] BY <2>1
  <2>5. ReadOfBank(RThread)' BY <2>1, <2>4 DEF ReadOfBank
  <2>6. pc'[RThread] \in Reading BY <2>4 DEF Reading, InTransfer
  <2> QED BY <2>1, <2>4, <2>5, <2>6, ReadOnHolds
<1>5. CASE SectorsEnd(RThread)
  <2>1. /\ UNCHANGED <<sync_flag, cdread, mem, rd, err>> /\ pc[RThread] = "endsectors"
        /\ pc' = [pc EXCEPT ![RThread] = "done"]
    BY <1>5 DEF SectorsEnd
  <2>4. pc'[RThread] = "done" /\ pc'[StThread] = pc[StThread] BY <2>1
  <2>5. ReadOfBank(RThread)' BY <2>1, <2>4 DEF ReadOfBank
  <2>6. pc'[RThread] \in Reading BY <2>4 DEF Reading, InTransfer
  <2> QED BY <2>1, <2>4, <2>5, <2>6, ReadOnHolds
<1>6. CASE ReadEnd(RThread)
  <2>1. /\ UNCHANGED <<sync_flag, cdread, mem, rd, err>> /\ pc[RThread] = "done"
        /\ pc' = [pc EXCEPT ![RThread] = "release"]
    BY <1>6 DEF ReadEnd
  <2>4. pc'[RThread] = "release" /\ pc'[StThread] = pc[StThread] BY <2>1
  <2>5. ReadOfBank(RThread)' BY <2>1, <2>4 DEF ReadOfBank
  <2>6. pc'[RThread] \in Reading BY <2>4 DEF Reading, InTransfer
  <2> QED BY <2>1, <2>4, <2>5, <2>6, ReadOnHolds
<1> QED BY <1>1, <1>2, <1>3, <1>4, <1>5, <1>6

\* What a transfer does to the memory.
LEMMA WrittenSlots ==
  ASSUME NEW b \in AllBuffers, NEW s \in Nat, NEW l \in Nat, NEW n \in Nat,
         BufSectors \in Nat, mem \in [AllBuffers -> [Slots -> Int]], mem' = Written(b, s, l, n)
  PROVE  /\ mem' \in [AllBuffers -> [Slots -> Int]]
         /\ \A i \in Slots : s <= i /\ i < s + n => mem'[b][i] = l + (i - s)
         /\ \A i \in Slots : ~(s <= i /\ i < s + n) => mem'[b][i] = mem[b][i]
<1> DEFINE f == [i \in Slots |-> IF s <= i /\ i < s + n THEN l + (i - s) ELSE mem[b][i]]
<1>1. mem' = [mem EXCEPT ![b] = f] BY DEF Written
<1>2. f \in [Slots -> Int] BY DEF Slots
<1>3. mem'[b] = f BY <1>1
<1>4. \A i \in Slots : s <= i /\ i < s + n => f[i] = l + (i - s) OBVIOUS
<1>5. \A i \in Slots : ~(s <= i /\ i < s + n) => f[i] = mem[b][i] OBVIOUS
<1> HIDE DEF f
<1> QED BY <1>1, <1>2, <1>3, <1>4, <1>5

\* A transfer fills the bank further, and leaves the unread sectors alone.
LEMMA TransferHolds ==
  ASSUME StreamsAlone, AloneInv, HoldInv, UNCHANGED <<ring, bank, expected, lastread>>,
         DeviceReadSectors(RThread)
  PROVE  HoldInv'
<1> DEFINE n == SectorsToRead(RThread)
           p == rd[RThread].pos
<1>a. StThread \in Actors /\ RThread \in Actors /\ StThread # RThread
  BY StreamAssumption, ActorAssumption
<1>b. Placed /\ FlowInv /\ RingInv /\ DataTypes /\ BankInv /\ UnreadInv
  BY DEF AloneInv, ControlInv, HoldInv
<1>c. pc[RThread] = "device" /\ pc[RThread] \in Reading
  BY DEF DeviceReadSectors, At, Reading, InTransfer
<1>d. /\ ReadOfBank(RThread) /\ err = "NO" /\ sync_flag = 1
      /\ rd \in [Actors -> ReadLocals] /\ rd[RThread] \in ReadLocals
      /\ cdread.aligned = TRUE /\ cdread.buf = Ring /\ cdread.sectors = StBanksize
      /\ StStat = 1 => cdread = BankRequest /\ Filled(rd[RThread].pos)
  BY <1>c, ReadOwn
<1>e. /\ rd[RThread].req = cdread /\ rd[RThread].base = 0 /\ rd[RThread].len = StBanksize
      /\ p \in 0 .. StBanksize /\ p < StBanksize
      /\ StBanksize \in Nat /\ AccuMax \in Nat \ {0}
      /\ cdread.lsn \in Nat /\ cdread.off \in Nat
  BY <1>c, <1>d, <1>b, Sizes, SizeAssumption DEF ReadOfBank, DataTypes, Request
<1>f. n \in Nat /\ p + n <= StBanksize BY <1>e DEF SectorsToRead, Smaller, R
<1>1. /\ UNCHANGED <<sync_flag, cdread, err>>
      /\ rd' = [rd EXCEPT ![RThread].pos = @ + n]
      /\ pc'[RThread] \in {"pace", "loop"} /\ pc'[StThread] = pc[StThread]
  BY <1>a, <1>b DEF DeviceReadSectors, Goto, Placed, locks
<1>2. mem' = Written(Ring, cdread.off + p, cdread.lsn + p, n)
  <2>1. Target(RThread) = Ring /\ TargetSlot(RThread) = cdread.off + p
    BY <1>d, <1>e DEF Target, TargetSlot, R
  <2>2. R(RThread).req.lsn + R(RThread).base + R(RThread).pos = cdread.lsn + p BY <1>e DEF R
  <2> QED BY <2>1, <2>2 DEF DeviceReadSectors
<1>3. BufSectors \in Nat /\ Ring \in AllBuffers /\ mem \in [AllBuffers -> [Slots -> Int]]
  BY <1>b, RingSlots DEF DataTypes
<1> HIDE DEF n
<1>4. rd' \in [Actors -> ReadLocals]
  <2>1. rd[RThread].pos + n \in Nat BY <1>e, <1>f
  <2>2. rd' = [rd EXCEPT ![RThread].pos = rd[RThread].pos + n] BY <1>1
  <2> QED BY <1>d, <2>1, <2>2 DEF ReadLocals
<1>5. /\ rd'[RThread].pos = p + n /\ rd'[RThread].req = rd[RThread].req
      /\ rd'[RThread].base = rd[RThread].base /\ rd'[RThread].len = rd[RThread].len
  <2>1. rd' = [rd EXCEPT ![RThread].pos = rd[RThread].pos + n] BY <1>1
  <2> QED BY <1>a, <1>d, <2>1 DEF ReadLocals
<1> HIDE DEF p
<1>6. /\ mem' \in [AllBuffers -> [Slots -> Int]]
      /\ \A i \in Slots : cdread.off + p <= i /\ i < (cdread.off + p) + n =>
           mem'[Ring][i] = (cdread.lsn + p) + (i - (cdread.off + p))
      /\ \A i \in Slots : ~(cdread.off + p <= i /\ i < (cdread.off + p) + n) =>
           mem'[Ring][i] = mem[Ring][i]
  <2>1. cdread.off + p \in Nat /\ cdread.lsn + p \in Nat BY <1>e
  <2> QED BY <1>2, <1>3, <1>f, <2>1, WrittenSlots
<1>7. DataTypes' BY <1>b, <1>1, <1>4, <1>6 DEF DataTypes, ring
<1>8. ReadInv'
  <2>1. ReadOfBank(RThread)' BY <1>1, <1>5, <1>e, <1>f DEF ReadOfBank
  <2> QED BY <1>1, <1>d, <2>1 DEF ReadInv
<1>9. ASSUME StStat = 1
      PROVE  /\ cdread.off = StWritePtr /\ cdread.lsn = Stlsn
             /\ Filled(p) /\ StStreamed + StBanksize <= StBufmax
  <2>1. StIsReading = 1
    <3>1. StIsReading # 0 BY <1>b, <1>d, <1>9 DEF FlowInv
    <3> QED BY <1>b, <3>1 DEF RingInv
  <2>2. pc[StThread] # "full" /\ pc[RThread] # "full" BY <1>b, <1>c DEF FlowInv
  <2>3. cdread.off = StWritePtr /\ cdread.lsn = Stlsn BY <1>9, <1>d DEF BankRequest
  <2>4. Filled(p) BY <1>9, <1>d DEF p
  <2> QED BY <1>b, <2>1, <2>2, <2>3, <2>4 DEF RingInv
<1>10. BankInv'
  <2> SUFFICES ASSUME StStat = 1 PROVE BankInv' BY DEF BankInv, ring
  <2>1. ASSUME NEW j \in 0 .. (p + n) - 1 PROVE mem'[Ring][StWritePtr + j] = Stlsn + j
    <3>1. /\ StWritePtr \in Nat /\ StWritePtr + StBanksize <= BufSectors
          /\ Stlsn \in Nat
      BY <1>b, RingSlots DEF DataTypes
    <3>2. j \in Nat /\ j < p + n BY <1>e, <1>f
    <3>3. StWritePtr + j \in Slots BY <1>3, <1>e, <1>f, <3>1, <3>2 DEF Slots
    <3>4. CASE j < p
      <4>1. mem[Ring][StWritePtr + j] = Stlsn + j BY <1>9, <1>e, <3>2, <3>4 DEF Filled
      <4>2. ~(cdread.off + p <= StWritePtr + j) BY <1>9, <1>e, <3>1, <3>2, <3>4
      <4> QED BY <1>6, <3>3, <4>1, <4>2
    <3>5. CASE ~(j < p)
      <4>1. cdread.off + p <= StWritePtr + j /\ StWritePtr + j < (cdread.off + p) + n
        BY <1>9, <1>e, <1>f, <3>1, <3>2, <3>5
      <4>2. mem'[Ring][StWritePtr + j] = (cdread.lsn + p) + ((StWritePtr + j) - (cdread.off + p))
        BY <1>6, <3>3, <4>1
      <4> QED BY <1>9, <1>e, <3>1, <3>2, <4>2
    <3> QED BY <3>4, <3>5
  <2>2. Filled(rd[RThread].pos)' BY <2>1, <1>5 DEF Filled, ring
  <2> QED BY <1>b, <1>1, <2>2 DEF BankInv, BankRequest, LsnBank, OnDisc, ring
<1>11. UnreadInv'
  <2> SUFFICES ASSUME StStat = 1, NEW i \in 0 .. StStreamed - 1
               PROVE  mem'[Ring][InRing(StReadPtr + i)] = OnDisc(expected + i)
    BY DEF UnreadInv, ring, InRing, OnDisc
  <2> DEFINE s == InRing(StReadPtr + i)
  <2>1. StStreamed + StBanksize <= StBufmax /\ cdread.off = StWritePtr BY <1>9
  <2>2. s \in 0 .. StBufmax - 1 /\ ~(StWritePtr <= s /\ s < StWritePtr + StBanksize)
    BY <1>b, <2>1, RingApart
  <2>3. s \in Slots /\ StWritePtr \in Nat BY <1>b, <2>2, RingSlots
  <2>4. mem[Ring][s] = OnDisc(expected + i) BY <1>b DEF UnreadInv
  <2> HIDE DEF s
  <2>5. s \in Nat BY <2>2
  <2>6. ~(cdread.off + p <= s /\ s < (cdread.off + p) + n)
    BY <1>e, <1>f, <2>1, <2>2, <2>3, <2>5
  <2>7. mem'[Ring][s] = mem[Ring][s] BY <1>6, <2>3, <2>6
  <2> QED BY <2>4, <2>7 DEF s
<1> QED BY <1>7, <1>8, <1>10, <1>11 DEF HoldInv

\* The drive is given back with the whole bank in the ring.
LEMMA ReleaseHolds ==
  ASSUME StreamsAlone, AloneInv, HoldInv, UNCHANGED <<ring, bank, expected>>,
         lastread' = rd[RThread].req, ReleaseDrive(RThread)
  PROVE  HoldInv'
<1>a. StThread \in Actors /\ RThread \in Actors /\ StThread # RThread
  BY StreamAssumption, ActorAssumption
<1>b. Placed /\ DataTypes /\ BankInv /\ UnreadInv BY DEF AloneInv, HoldInv
<1>1. /\ UNCHANGED <<cdread, mem, err>> /\ sync_flag' = 0
      /\ rd' = [rd EXCEPT ![RThread] = IdleRead]
      /\ pc[RThread] = "release" /\ pc[RThread] \in Reading
      /\ pc'[RThread] = "setevent" /\ pc'[StThread] = pc[StThread]
  BY <1>a, <1>b DEF ReleaseDrive, At, Goto, Placed, regs, Reading
<1>2. /\ ReadOfBank(RThread) /\ err = "NO"
      /\ StStat = 1 => cdread = BankRequest /\ Filled(rd[RThread].pos)
  BY <1>1, ReadOwn
<1>3. rd[RThread].pos = StBanksize /\ rd[RThread].req = cdread BY <1>1, <1>2 DEF ReadOfBank
<1>4. DataTypes'
  <2>1. IdleRead \in ReadLocals
    BY DEF IdleRead, ReadLocals, NullRequest, Request, AllBuffers
  <2> QED BY <1>b, <1>1, <2>1 DEF DataTypes, ring
<1>5. ReadInv' BY <1>1, <1>2 DEF ReadInv, Reading, InTransfer
<1>6. BankInv'
  <2> SUFFICES ASSUME StStat = 1 PROVE BankInv' BY DEF BankInv, ring
  <2>1. Filled(StBanksize)' BY <1>1, <1>2, <1>3 DEF Filled, ring
  <2>2. lastread' = BankRequest' BY <1>2, <1>3 DEF BankRequest, ring
  <2>3. pc'[RThread] \notin Reading BY <1>1 DEF Reading, InTransfer
  <2> QED BY <1>b, <1>1, <2>1, <2>2, <2>3 DEF BankInv, LsnBank, OnDisc, ring
<1>7. UnreadInv' BY <1>b, <1>1 DEF UnreadInv, InRing, OnDisc, ring
<1> QED BY <1>4, <1>5, <1>6, <1>7 DEF HoldInv

\* The read thread's WaitSema, its event flag and its callbacks, up to the
\* critical section of StmCallback.
LEMMA AroundHolds ==
  ASSUME StreamsAlone, AloneInv, HoldInv, UNCHANGED <<ring, bank, expected, lastread>>,
         cdread_Take \/ SetDoneEvent(RThread) \/ cdread_Notify \/ StmCallback
  PROVE  HoldInv'
<1>a. StThread \in Actors /\ RThread \in Actors /\ StThread # RThread
  BY StreamAssumption, ActorAssumption
<1>b. Placed /\ FlowInv /\ DataTypes /\ ReadInv /\ BankInv /\ UnreadInv
  BY DEF AloneInv, ControlInv, HoldInv
<1>1. UNCHANGED <<sync_flag, cdread, mem, err>> /\ pc'[StThread] = pc[StThread]
  BY <1>a, <1>b DEF cdread_Take, SetDoneEvent, cdread_Notify, StmCallback, Goto, Placed, locks, regs
<1>2. UnreadInv' BY <1>b, <1>1 DEF UnreadInv, InRing, OnDisc, ring
<1>3. CASE cdread_Take
  <2>1. /\ rd' = [rd EXCEPT ![RThread] = [IdleRead EXCEPT !.req = cdread]]
        /\ pc'[RThread] = "read" /\ rthread_sema = 1
    BY <1>3, <1>a, <1>b DEF cdread_Take, Goto, Placed
  <2>2. [IdleRead EXCEPT !.req = cdread] \in ReadLocals
    BY <1>b DEF IdleRead, ReadLocals, DataTypes, NullRequest, Request
  <2>3. DataTypes' BY <1>b, <1>1, <2>1, <2>2 DEF DataTypes, ring
  <2>4. rd'[RThread].req = cdread /\ rd'[RThread].pos = 0 /\ rd'[RThread].base = 0
    BY <1>a, <1>b, <2>1 DEF IdleRead, DataTypes
  <2>5. ReadOfBank(RThread)' BY <1>1, <2>1, <2>4, Sizes DEF ReadOfBank
  <2>6. ReadInv' BY <1>b, <1>1, <2>5 DEF ReadInv
  <2>7. Filled(rd[RThread].pos)' BY <2>4 DEF Filled
  <2>8. BankInv' BY <1>b, <1>1, <2>1, <2>7 DEF BankInv, BankRequest, LsnBank, OnDisc, ring
  <2> QED BY <1>2, <2>3, <2>6, <2>8 DEF HoldInv
<1>4. CASE SetDoneEvent(RThread) \/ cdread_Notify \/ StmCallback
  <2>1. /\ rd' = rd /\ pc'[RThread] \in {"notify", "wait", "cbupdate", "fill"}
        /\ pc[RThread] \in {"setevent", "notify"}
    BY <1>4, <1>a, <1>b DEF SetDoneEvent, cdread_Notify, StmCallback, Goto, At, Placed
  <2>2. DataTypes' BY <1>b, <1>1, <2>1 DEF DataTypes, ring
  <2>3. pc'[RThread] \notin Reading /\ pc'[RThread] # "async" BY <2>1 DEF Reading, InTransfer
  <2>4. ReadInv' BY <1>b, <1>1, <2>3 DEF ReadInv
  <2>5. BankInv' BY <1>b, <1>1, <2>1, <2>3 DEF BankInv, BankRequest, LsnBank, OnDisc, Filled, ring
  <2> QED BY <1>2, <2>2, <2>4, <2>5 DEF HoldInv
<1> QED BY <1>3, <1>4

\* StmCallback counts the bank that has been read: it continues the stream.
LEMMA UpdateHolds ==
  ASSUME StreamsAlone, AloneInv, HoldInv, StmUpdate
  PROVE  HoldInv'
<1>a. StThread \in Actors /\ RThread \in Actors /\ StThread # RThread
  BY StreamAssumption, ActorAssumption
<1>b. Placed /\ FlowInv /\ StatInv /\ RingInv /\ DataTypes /\ ReadInv /\ BankInv /\ UnreadInv
  BY DEF AloneInv, ControlInv, HoldInv
<1>1. /\ UNCHANGED <<sync_flag, cdread, mem, rd, err, StStat, StReadPtr, bank, lastread, expected>>
      /\ pc[RThread] = "cbupdate" /\ pc'[RThread] = "fill" /\ pc'[StThread] = pc[StThread]
      /\ Stlsn' = (Stlsn + StBanksize) % LsnMod /\ StStreamed' = U16(StStreamed + StBanksize)
  BY <1>a, <1>b DEF StmUpdate, At, Goto, Placed, locks, regs, stlocal, sthist
<1>2. /\ StIsReading = 1 /\ sync_flag = 0 /\ StStat = 1
      /\ pc[StThread] \notin {"full", "async"} /\ pc[RThread] # "full"
  BY <1>b, <1>1 DEF FlowInv, StatInv
<1>3. StStreamed + StBanksize <= StBufmax BY <1>b, <1>2 DEF RingInv
<1>4. /\ LsnBank(Stlsn) /\ expected \in 0 .. LsnMod - 1 /\ Stlsn = OnDisc(expected + StStreamed)
      /\ Filled(StBanksize)
  BY <1>b, <1>1, <1>2 DEF BankInv
<1>5. /\ StBanksize \in Nat /\ StBufmax \in Nat /\ StStreamed \in Nat /\ LsnMod \in Nat
      /\ StBufmax < LsnMod /\ Stlsn \in Nat /\ expected \in Nat /\ expected < LsnMod
      /\ StBufmax < 65536
  BY <1>b, <1>4, Sizes, StreamAssumption DEF RingInv, DataTypes
<1>6. StStreamed' = StStreamed + StBanksize
  <2> DEFINE x == StStreamed + StBanksize
  <2>1. x \in Nat /\ x < 65536 BY <1>3, <1>5
  <2> HIDE DEF x
  <2>2. x % 65536 = x BY <2>1
  <2>3. U16(StStreamed + StBanksize) = StStreamed + StBanksize BY <2>2 DEF U16, x
  <2> QED BY <1>1, <2>3
<1>7. /\ Stlsn + StBanksize <= LsnMod /\ LsnBank(Stlsn')
      /\ Stlsn' = OnDisc(Stlsn + StBanksize)
  BY <1>1, <1>4, NextLsn
<1>8. Stlsn' = OnDisc(expected + StStreamed') BY <1>3, <1>4, <1>5, <1>6, <1>7 DEF OnDisc
<1>9. DataTypes'
  <2>1. Stlsn' \in Nat BY <1>5, <1>7 DEF OnDisc
  <2> QED BY <1>b, <1>1, <2>1 DEF DataTypes
<1>10. ReadInv' BY <1>b, <1>1 DEF ReadInv, Reading, InTransfer
<1>11. BankInv'
  <2>1. pc'[RThread] \notin Reading BY <1>1 DEF Reading, InTransfer
  <2>2. LsnBank(Stlsn)' BY <1>7 DEF LsnBank
  <2>3. (Stlsn = OnDisc(expected + StStreamed))' BY <1>1, <1>8 DEF OnDisc
  <2> QED BY <1>1, <1>2, <1>4, <2>1, <2>2, <2>3 DEF BankInv
<1>12. UnreadInv'
  <2> SUFFICES ASSUME NEW i \in 0 .. (StStreamed + StBanksize) - 1
               PROVE  mem[Ring][InRing(StReadPtr + i)] = OnDisc(expected + i)
    BY <1>1, <1>6 DEF UnreadInv, InRing, OnDisc
  <2>1. CASE i < StStreamed
    <3>1. i \in 0 .. StStreamed - 1 BY <1>5, <2>1
    <3> QED BY <3>1, <1>b, <1>2 DEF UnreadInv
  <2>2. CASE ~(i < StStreamed)
    <3> DEFINE j == i - StStreamed
    <3>1. j \in 0 .. StBanksize - 1 /\ StStreamed + j = i BY <1>5, <2>2
    <3> HIDE DEF j
    <3>2. InRing(StReadPtr + (StStreamed + j)) = StWritePtr + j BY <1>b, <1>3, <3>1, RingContinues
    <3>3. mem[Ring][StWritePtr + j] = Stlsn + j BY <1>4, <3>1 DEF Filled
    <3>4. Stlsn + j = OnDisc(expected + i) BY <1>3, <1>4, <1>5, <1>7, <3>1 DEF OnDisc
    <3> QED BY <3>1, <3>2, <3>3, <3>4
  <2> QED BY <2>1, <2>2
<1> QED BY <1>9, <1>10, <1>11, <1>12 DEF HoldInv

\* The read thread.
LEMMA ReadThreadHolds ==
  ASSUME StreamsAlone, ReadsSucceed, AloneInv, HoldInv, ReadThread
  PROVE  HoldInv'
<1>a. RThread \in StActors BY DEF StActors
<1>1. CASE RThreadStep /\ UNCHANGED <<ring, bank, expected>>
           /\ lastread' = (IF pc[RThread] = "release" THEN rd[RThread].req ELSE lastread)
  <2>1. CASE ReleaseDrive(RThread)
    <3>1. pc[RThread] = "release" BY <2>1 DEF ReleaseDrive, At
    <3>2. lastread' = rd[RThread].req BY <1>1, <3>1
    <3> QED BY <1>1, <2>1, <3>2, ReleaseHolds
  <2>2. CASE BounceTake(RThread) \/ BounceChunk(RThread)
    <3>1. pc[RThread] \in {"bounce", "chunk"} BY <2>2 DEF BounceTake, BounceChunk, At
    <3>2. pc[RThread] \in Reading BY <3>1 DEF Reading
    <3>3. ReadOfBank(RThread) BY <3>2, ReadOwn
    <3> QED BY <3>1, <3>3 DEF ReadOfBank
  <2>3. CASE DeviceError(RThread) BY <2>3 DEF DeviceError, ReadsSucceed
  <2>4. CASE ReadBegin(RThread) \/ SectorsBegin(RThread) \/ SectorsLoop(RThread)
             \/ AccuWait(RThread) \/ SectorsEnd(RThread) \/ ReadEnd(RThread)
    <3>1. pc[RThread] # "release"
      BY <2>4 DEF ReadBegin, SectorsBegin, SectorsLoop, AccuWait, SectorsEnd, ReadEnd, At
    <3>2. lastread' = lastread BY <1>1, <3>1
    <3> QED BY <1>1, <2>4, <3>2, ReadOnSteps
  <2>5. CASE DeviceReadSectors(RThread)
    <3>1. pc[RThread] # "release" BY <2>5 DEF DeviceReadSectors, At
    <3>2. lastread' = lastread BY <1>1, <3>1
    <3> QED BY <1>1, <2>5, <3>2, TransferHolds
  <2>6. CASE cdread_Take \/ SetDoneEvent(RThread) \/ cdread_Notify
    <3>1. pc[RThread] # "release" BY <2>6 DEF cdread_Take, SetDoneEvent, cdread_Notify, At
    <3>2. lastread' = lastread BY <1>1, <3>1
    <3> QED BY <1>1, <2>6, <3>2, AroundHolds
  <2> QED BY <1>1, <2>1, <2>2, <2>3, <2>4, <2>5, <2>6 DEF RThreadStep, Executes
<1>2. CASE StmCallback
  <2>1. UNCHANGED <<ring, bank, expected, lastread>> BY <1>2 DEF StmCallback, stvars, stlocal, sthist
  <2> QED BY <1>2, <2>1, AroundHolds
<1> QED BY <1>a, <1>1, <1>2, UpdateHolds, FillHolds DEF ReadThread, stlocal

\* The other threads and the alarms.
LEMMA BesideHolds ==
  ASSUME StreamsAlone, ReadsSucceed, AloneInv, HoldInv, Beside
  PROVE  HoldInv'
<1>a. err = "NO" BY DEF HoldInv, ReadInv
<1>1. err' = "NO"
  <2>1. CASE AccuAlarm \/ event_alarm_cb \/ UNCHANGED allvars
    BY <1>a, <2>1 DEF AccuAlarm, event_alarm_cb, allvars, vars, regs
  <2>2. ASSUME NEW t \in Others, ThreadStep(t) PROVE err' = "NO"
    <3>1. pc[t] \in OtherPlaces BY DEF AloneInv, ControlInv, PlaceInv
    <3>2. ~Executes(t)
      BY <3>1 DEF OtherPlaces, Executes, ReadBegin, BounceTake, BounceChunk, SectorsBegin,
         SectorsLoop, DeviceReadSectors, DeviceError, AccuWait, SectorsEnd, ReadEnd, ReleaseDrive,
         SetDoneEvent, At, Waiting, DriveCommands
    <3> QED BY <1>a, <2>2, <3>2 DEF ThreadStep, AsyncReadSignal, SyncReadEvent, SyncTest, SyncWake,
           DriveEvent, SearchTake, SearchRead, SearchParse, SearchEnd, regs
  <2>3. ASSUME NEW t \in Others, ThreadCall(t) PROVE err' = "NO"
    <3>1. CASE sceCdRead(t) \/ sceCdSync(t) \/ sceCdDiskReady(t) \/ sceCdCallback(t) \/ SearchCall(t)
      BY <1>a, <3>1 DEF sceCdRead, sceCdSync, sceCdDiskReady, sceCdCallback, SearchCall, regs
    <3>2. ASSUME NEW c \in DriveCommands, DriveCommand(t, c) PROVE err' = "NO"
      BY <3>2 DEF DriveCommand, ReadsSucceed
    <3>3. ASSUME NEW c \in {"GetToc", "SetError"}, SetError(t, c) PROVE err' = "NO"
      BY <3>3 DEF SetError, ReadsSucceed
    <3> QED BY <2>3, <3>1, <3>2, <3>3 DEF ThreadCall
  <2> QED BY <2>1, <2>2, <2>3 DEF Beside, OtherStep, OtherCall
<1>2. DataQuiet BY <1>1, BesideKeeps DEF DataQuiet, stvars, stlocal, sthist
<1> QED BY <1>2, QuietHolds

\* HoldInv at the start, and over every step.
LEMMA HoldInit == ReadsSucceed /\ StInit => HoldInv
<1> SUFFICES ASSUME StInit PROVE HoldInv OBVIOUS
<1>a. RThread \in Actors BY DEF Actors
<1>1. DataTypes
  <2>1. NullRequest \in Request BY DEF NullRequest, Request, AllBuffers
  <2>2. IdleRead \in ReadLocals BY <2>1 DEF IdleRead, ReadLocals
  <2> QED BY <2>1, <2>2 DEF DataTypes, StInit, Init, NoData
<1>2. ReadInv BY <1>a DEF ReadInv, StInit, Init, Reading, InTransfer
<1>3. BankInv /\ UnreadInv BY DEF BankInv, UnreadInv, StInit
<1> QED BY <1>1, <1>2, <1>3 DEF HoldInv

LEMMA HoldStep == StreamsAlone /\ ReadsSucceed /\ AloneInv /\ HoldInv /\ [StNext]_allvars => HoldInv'
<1> SUFFICES ASSUME StreamsAlone, ReadsSucceed, AloneInv, HoldInv, [StNext]_allvars PROVE HoldInv'
  OBVIOUS
<1>a. StThread \in StActors BY DEF StActors
<1>1. CASE ClientCall \/ ClientStep BY <1>1, <1>a, ClientHolds, FillHolds
<1>2. CASE ReadThread BY <1>2, ReadThreadHolds
<1>3. CASE StmScheduleCb BY <1>3 DEF StmScheduleCb, AloneInv, ControlInv, PlaceInv
<1>4. CASE Beside BY <1>4, BesideHolds
<1> QED BY <1>1, <1>2, <1>3, <1>4 DEF StNext, Beside

\* Wrapping by a conditional, as in the invariant, is the remainder of the
\* properties.
LEMMA ModOnce ==
  ASSUME NEW b \in Nat, NEW x \in Nat, x < b + b
  PROVE  x % b = IF x < b THEN x ELSE x - b
<1>1. CASE x < b
  <2>1. x \in 0 .. b - 1 BY <1>1
  <2> QED BY <1>1, <2>1, ModRing
<1>2. CASE ~(x < b)
  <2>1. x - b \in 0 .. b - 1 BY <1>2
  <2>2. ((x - b) + b) % b = x - b BY <2>1, ModRing
  <2>3. (x - b) + b = x OBVIOUS
  <2> QED BY <1>2, <2>2, <2>3
<1> QED BY <1>1, <1>2

\* What sceCdStRead will find in the ring is the stream: from sceCdStStart on,
\* whatever the sizes and modes of the reads, with pauses, resumes, stops and
\* seeks in between, for any ring and any speed of the device, every unread
\* sector is the right one, and the bank under way is the next one, where
\* StmCallback will count it.
THEOREM RingHoldsTheStream ==
  ASSUME StreamsAlone, ReadsSucceed
  PROVE  StSpec => []RingHoldsStream
<1>1. AloneInv /\ HoldInv => RingHoldsStream
  <2> SUFFICES ASSUME AloneInv, HoldInv, StStat = 1
               PROVE  /\ \A i \in 0 .. StStreamed - 1 :
                           mem[Ring][(StReadPtr + i) % StBufmax] = (expected + i) % LsnMod
                      /\ pc[RThread] \in Reading =>
                           rd[RThread].req.off = StWritePtr /\ rd[RThread].req.lsn = Stlsn
    BY DEF RingHoldsStream
  <2>1. RingInv /\ BankInv /\ UnreadInv BY DEF AloneInv, HoldInv
  <2>2. /\ StBufmax \in Nat /\ LsnMod \in Nat /\ StBufmax < LsnMod
        /\ StReadPtr \in 0 .. StBufmax - 1 /\ StStreamed \in 0 .. StBufmax
        /\ expected \in 0 .. LsnMod - 1
    BY <2>1, Sizes, StreamAssumption DEF RingInv, BankInv
  <2>3. ASSUME NEW i \in 0 .. StStreamed - 1
        PROVE  mem[Ring][(StReadPtr + i) % StBufmax] = (expected + i) % LsnMod
    <3>1. StReadPtr + i \in Nat /\ StReadPtr + i < StBufmax + StBufmax BY <2>2
    <3>2. expected + i \in Nat /\ expected + i < LsnMod + LsnMod BY <2>2
    <3>3. (StReadPtr + i) % StBufmax = InRing(StReadPtr + i) BY <2>2, <3>1, ModOnce DEF InRing
    <3>4. (expected + i) % LsnMod = OnDisc(expected + i) BY <2>2, <3>2, ModOnce DEF OnDisc
    <3>5. mem[Ring][InRing(StReadPtr + i)] = OnDisc(expected + i) BY <2>1 DEF UnreadInv
    <3> QED BY <3>3, <3>4, <3>5
  <2>4. ASSUME pc[RThread] \in Reading
        PROVE  rd[RThread].req.off = StWritePtr /\ rd[RThread].req.lsn = Stlsn
    <3>1. ReadOfBank(RThread) /\ cdread = BankRequest BY <2>4, ReadOwn
    <3>2. rd[RThread].req = BankRequest BY <3>1 DEF ReadOfBank
    <3> QED BY <3>2 DEF BankRequest
  <2> QED BY <2>3, <2>4
<1>2. ReadsSucceed /\ StInit => AloneInv /\ HoldInv BY AloneInit, HoldInit
<1>3. AloneInv /\ HoldInv /\ [StNext]_allvars => (AloneInv /\ HoldInv)' BY AloneStep, HoldStep
<1> QED BY <1>1, <1>2, <1>3, PTL DEF StSpec

\* With the drive to itself, the stream counts no bank but its own.  A game
\* that reads in between takes that away: see StreamsAlone.
THEOREM StreamCountsItsReads ==
  ASSUME StreamsAlone, ReadsSucceed
  PROVE  StSpec => OnlyOwnReadsCount
<1>1. AloneInv /\ HoldInv /\ [StNext]_allvars =>
        [StmUpdate => /\ lastread.buf = Ring /\ lastread.off = StWritePtr
                      /\ lastread.lsn = Stlsn /\ lastread.sectors = StBanksize]_allvars
  <2> SUFFICES ASSUME AloneInv, HoldInv, StmUpdate
               PROVE  lastread = BankRequest
    BY DEF BankRequest
  <2>1. pc[RThread] = "cbupdate" BY DEF StmUpdate, At
  <2>2. StIsReading = 1 /\ StStat = 1 BY <2>1 DEF AloneInv, ControlInv, FlowInv, StatInv
  <2> QED BY <2>1, <2>2 DEF HoldInv, BankInv
<1>2. ReadsSucceed /\ StInit => AloneInv /\ HoldInv BY AloneInit, HoldInit
<1>3. AloneInv /\ HoldInv /\ [StNext]_allvars => (AloneInv /\ HoldInv)' BY AloneStep, HoldStep
<1> QED BY <1>1, <1>2, <1>3, PTL DEF StSpec, OnlyOwnReadsCount

-----------------------------------------------------------------------------
(***************************************************************************)
(* CDVDFSV as the client: what its stream reads bring to the EE.           *)
(***************************************************************************)

\* CDVDFSV's RPC thread is one of the clients that streaming.c may have: what
\* is proved of any of them holds for it, and the history it adds constrains
\* nothing.
THEOREM FsvStreams == FsvStSpec => StSpec
<1>1. FsvStInit => StInit BY DEF FsvStInit
<1>2. [FsvStNext]_fsvvars => [StNext]_allvars
  <2> SUFFICES ASSUME FsvStNext, ~UNCHANGED allvars PROVE StNext BY DEF fsvvars
  <2>1. CASE sceCdStReadIop \/ cdvd_Stsubcmdcall
    BY <2>1 DEF sceCdStReadIop, cdvd_Stsubcmdcall, StNext, ClientCall
  <2>2. CASE cdvdSt_read BY <2>2 DEF cdvdSt_read, ReadNow, StNext, ClientCall
  <2>3. CASE FsvStThread
    BY <2>3 DEF FsvStThread, StReadTakes, StReadSends, StSteps, StReadAgain, StReadEnds,
       StReadReturned, ReadNow, StNext, ClientCall, ClientStep
  <2>4. CASE FsvStBeside BY <2>4 DEF FsvStBeside, StNext
  <2> QED BY <2>1, <2>2, <2>3, <2>4 DEF FsvStNext
<1> QED BY <1>1, <1>2, PTL DEF FsvStSpec, StSpec

\* The first n sectors of the answer have been sent, and the stream goes on
\* behind them.
Sent(n) ==
  /\ Len(st_ee) = n /\ expected = OnDisc(first + n)
  /\ \A i \in 1 .. n : st_ee[i] = OnDisc(first + i - 1)

EeTypes ==
  /\ st_read \in [in: {"none", "read", "return"}, sectors: Nat, remaining: Nat, rpos: Nat, r: Nat,
                  dry: BOOLEAN]
  /\ st_ee \in Seq(Int)

\* Where the RPC thread is inside one sceCdStRead: before it takes from the
\* ring, during the DMA, and behind it.
BeforeTaking == {"stwait", "stclear", "copy"}
BehindTaking == {"ready", "fill", "async", "full", "kick"}
AskedFor == call.left = st_read.remaining /\ call.ee = TRUE /\ call.block = FALSE
EeReads == st_read.in = "read" =>
  /\ StStat = 1 /\ first \in 0 .. LsnMod - 1
  /\ st_read.remaining >= 1 /\ st_read.sectors < LsnMod
  /\ st_read.rpos + st_read.remaining = st_read.sectors
  /\ pc[StThread] \in BeforeTaking \cup BehindTaking \cup {"dma"}
  /\ pc[StThread] \in BeforeTaking => AskedFor /\ Sent(st_read.rpos)
  /\ pc[StThread] = "dma" =>
       AskedFor /\ Sent(st_read.rpos) /\ call.n \in 1 .. st_read.remaining
  /\ pc[StThread] \in BehindTaking =>
       /\ st_read.r <= st_read.remaining /\ Sent(st_read.rpos + st_read.r)
       /\ st_read.r = 0 => st_read.dry = TRUE
EeReturns == st_read.in = "return" =>
  /\ Len(st_ee) = st_read.rpos
  /\ st_read.rpos > 0 => first \in 0 .. LsnMod - 1 /\ st_read.rpos < LsnMod
  /\ \A i \in 1 .. st_read.rpos : st_ee[i] = OnDisc(first + i - 1)
  /\ st_read.rpos < st_read.sectors => st_read.dry = TRUE
EeInv == EeTypes /\ EeReads /\ EeReturns

\* Steps that are none of the answer's business.
LEMMA EeKept ==
  ASSUME EeInv, UNCHANGED <<st_read, st_ee, first>>,
         st_read.in = "read" =>
           /\ UNCHANGED <<StStat, expected, call>>
           /\ \/ pc'[StThread] = pc[StThread]
              \/ pc[StThread] \in BeforeTaking /\ pc'[StThread] \in BeforeTaking
              \/ pc[StThread] \in BehindTaking /\ pc'[StThread] \in BehindTaking
  PROVE  EeInv'
<1>1. EeTypes' BY DEF EeInv, EeTypes
<1>2. EeReads' BY DEF EeInv, EeReads, Sent, AskedFor, OnDisc, BeforeTaking, BehindTaking
<1>3. EeReturns' BY DEF EeInv, EeReturns, OnDisc
<1> QED BY <1>1, <1>2, <1>3 DEF EeInv

\* A sceCdStRead that takes nothing found an empty ring.
LEMMA TakenNone ==
  ASSUME RingInv, NEW max \in Nat, max >= 1, Taken(max).n = 0
  PROVE  StStreamed = 0
<1>a. /\ StReadPtr \in 0 .. StBufmax - 1 /\ StWritePtr \in 0 .. StBufmax - 1
      /\ StStreamed \in 0 .. StBufmax /\ StBufmax \in Nat
      /\ StReadPtr + StStreamed = StWritePtr \/ StReadPtr + StStreamed = StWritePtr + StBufmax
  BY Sizes DEF RingInv
<1> DEFINE n1 == IF StWritePtr <= StReadPtr /\ StStreamed > 0 THEN Smaller(StBufmax - StReadPtr, max) ELSE 0
           r1 == Wrapped(StReadPtr + n1)
           n2 == IF n1 < max /\ r1 < StWritePtr THEN Smaller(StWritePtr - r1, max - n1) ELSE 0
<1>1. Taken(max).n = n1 + n2 BY DEF Taken
<1>2. n1 \in Nat /\ r1 \in Nat BY <1>a DEF Smaller, Wrapped
<1>3. n2 \in Nat BY <1>a, <1>2 DEF Smaller
<1>4. n1 = 0 /\ n2 = 0
  <2> HIDE DEF n1, n2
  <2> QED BY <1>1, <1>2, <1>3
<1>5. r1 = StReadPtr BY <1>4, <1>a DEF Wrapped
<1>6. ~(StWritePtr <= StReadPtr /\ StStreamed > 0) BY <1>4, <1>a DEF Smaller
<1>7. ~(StReadPtr < StWritePtr)
  <2>1. n2 = IF 0 < max /\ StReadPtr < StWritePtr THEN Smaller(StWritePtr - StReadPtr, max) ELSE 0
    BY <1>4, <1>5
  <2> QED BY <2>1, <1>4, <1>a DEF Smaller
<1> HIDE DEF n1, n2, r1
<1> QED BY <1>6, <1>7, <1>a

\* The read thread leaves the client and its call alone.
LEMMA ReadThreadBeside ==
  ASSUME Placed, ReadThread
  PROVE  pc'[StThread] = pc[StThread] /\ UNCHANGED <<StStat, call, expected>>
<1>a. StThread \in Actors /\ RThread \in Actors /\ StThread # RThread
  BY StreamAssumption, ActorAssumption
<1>1. UNCHANGED <<StStat, call, expected>>
  BY DEF ReadThread, StmCallback, StmUpdate, Fill, FillLock, FillFull, FillRead, FillKick,
     FillRefused, FillRearm, stvars, ring, stlocal, sthist
<1>2. \E l : pc' = [pc EXCEPT ![RThread] = l]
  <2>1. CASE Executes(RThread) BY <2>1, ReadingSteps DEF ReadingStep
  <2>2. CASE cdread_Take \/ cdread_Notify \/ StmCallback \/ StmUpdate
    BY <2>2 DEF cdread_Take, cdread_Notify, StmCallback, StmUpdate, Goto
  <2>3. CASE Fill(RThread)
    BY <2>3 DEF Fill, FillLock, FillFull, FillRead, FillKick, FillRefused, FillRearm, Goto
  <2> QED BY <2>1, <2>2, <2>3 DEF ReadThread, RThreadStep
<1> QED BY <1>a, <1>1, <1>2 DEF Placed

\* cdvdSt_read begins, with the next sector of the stream, or with none.
LEMMA EeBegins ==
  ASSUME AloneInv, HoldInv, EeInv, cdvdSt_read
  PROVE  EeInv'
<1>a. StThread \in Actors BY StreamAssumption DEF Actors
<1>1. PICK n \in FsvStReads :
        /\ first' = expected /\ st_ee' = <<>>
        /\ \/ /\ ReadNow(n)
              /\ st_read' = [NoStRead EXCEPT !.in = "read", !.sectors = n, !.remaining = n]
           \/ /\ NotStreaming
              /\ st_read' = [NoStRead EXCEPT !.in = "return", !.sectors = n, !.dry = TRUE]
  BY Zenon DEF cdvdSt_read
<1>2. n \in Nat /\ n >= 1 /\ n < LsnMod /\ LsnMod \in Nat
  BY FsvStreamAssumption, StreamAssumption
<1>3. st_ee' \in Seq(Int) /\ Len(st_ee') = 0 BY <1>1, EmptySeq
<1>4. CASE ReadNow(n) /\ st_read' = [NoStRead EXCEPT !.in = "read", !.sectors = n, !.remaining = n]
  <2>1. /\ st_read'.in = "read" /\ st_read'.sectors = n /\ st_read'.remaining = n
        /\ st_read'.rpos = 0 /\ st_read'.r = 0
    BY <1>4 DEF NoStRead
  <2>2. EeTypes' BY <1>2, <1>3, <1>4 DEF EeTypes, NoStRead
  <2>3. StStat = 1 /\ StStat' = 1 /\ expected' = expected
    BY <1>4 DEF ReadNow, sceCdStRead, ring, sthist
  <2>4. expected \in 0 .. LsnMod - 1 BY <2>3 DEF HoldInv, BankInv
  <2>5. pc'[StThread] = "stwait"
    BY <1>a, <1>4 DEF ReadNow, sceCdStRead, Goto, AloneInv, Placed
  <2>6. AskedFor'
    <3>1. call'.left = n /\ call'.ee /\ ~call'.block BY <1>4 DEF ReadNow
    <3>2. PICK m \in ReadSizes, b \in Blocking, e \in FromEE :
            call' = [NoCall EXCEPT !.then = "read", !.left = m, !.block = b, !.ee = e]
      BY Zenon, <1>4 DEF ReadNow, sceCdStRead
    <3>3. call'.block = b /\ call'.ee = e BY <3>2 DEF NoCall
    <3>4. b \in BOOLEAN /\ e \in BOOLEAN BY StreamAssumption
    <3>5. call'.ee = TRUE /\ call'.block = FALSE BY Zenon, <3>1, <3>3, <3>4
    <3> QED BY <2>1, <3>1, <3>5 DEF AskedFor
  <2>7. Sent(0)' BY <1>1, <1>2, <1>3, <2>3, <2>4 DEF Sent, OnDisc
  <2>8. EeReads'
    BY <1>1, <1>2, <2>1, <2>3, <2>4, <2>5, <2>6, <2>7 DEF EeReads, BeforeTaking, BehindTaking, Sent
  <2>9. EeReturns' BY <2>1 DEF EeReturns
  <2> QED BY <2>2, <2>8, <2>9 DEF EeInv
<1>5. CASE st_read' = [NoStRead EXCEPT !.in = "return", !.sectors = n, !.dry = TRUE]
  <2>1. /\ st_read'.in = "return" /\ st_read'.sectors = n /\ st_read'.rpos = 0 /\ st_read'.dry = TRUE
    BY <1>5 DEF NoStRead
  <2>2. EeTypes' BY <1>2, <1>3, <1>5 DEF EeTypes, NoStRead
  <2>3. EeReads' BY <2>1 DEF EeReads
  <2>4. EeReturns' BY <1>3, <2>1 DEF EeReturns
  <2> QED BY <2>2, <2>3, <2>4 DEF EeInv
<1> QED BY <1>1, <1>4, <1>5

\* sceCdStRead takes: nothing from an empty ring, else the DMA starts.
LEMMA EeTakes ==
  ASSUME AloneInv, EeInv, StReadTakes
  PROVE  EeInv'
<1> DEFINE t == Taken(call.left)
<1>a. StThread \in Actors BY StreamAssumption DEF Actors
<1>b. Placed /\ RingInv /\ call \in Calling BY DEF AloneInv, RingInv
<1>1. /\ st_read.in = "read" /\ pc[StThread] = "copy"
      /\ st_read' = [st_read EXCEPT !.r = 0, !.dry = StStreamed = 0]
      /\ UNCHANGED <<st_ee, first, StStat>>
  BY DEF StReadTakes, StReadCopy, At
<1>2. AskedFor /\ Sent(st_read.rpos) BY <1>1 DEF EeInv, EeReads, BeforeTaking
<1>3. /\ StStat = 1 /\ first \in 0 .. LsnMod - 1
      /\ st_read.remaining >= 1 /\ st_read.sectors < LsnMod
      /\ st_read.rpos + st_read.remaining = st_read.sectors
      /\ st_read.rpos \in Nat /\ st_read.remaining \in Nat /\ EeTypes
  BY <1>1 DEF EeInv, EeReads, EeTypes
<1>4. PICK d \in BOOLEAN : d = (StStreamed = 0)
  <2>1. (StStreamed = 0) \in BOOLEAN BY Zenon
  <2> QED BY Zenon, <2>1
<1>5. st_read' = [st_read EXCEPT !.r = 0, !.dry = d] BY Zenon, <1>1, <1>4
<1>6. /\ st_read'.in = "read" /\ st_read'.r = 0 /\ st_read'.dry = d
      /\ st_read'.remaining = st_read.remaining /\ st_read'.sectors = st_read.sectors
      /\ st_read'.rpos = st_read.rpos
  BY <1>1, <1>3, <1>5 DEF EeTypes
<1>7. EeTypes'
  <2> DEFINE T == [in: {"none", "read", "return"}, sectors: Nat, remaining: Nat, rpos: Nat, r: Nat,
                   dry: BOOLEAN]
  <2>1. st_read \in T BY <1>3 DEF EeTypes
  <2>2. [st_read EXCEPT !.r = 0] \in T BY <2>1
  <2>3. \A x \in T : [x EXCEPT !.dry = d] \in T BY <1>4
  <2>4. st_read' = [[st_read EXCEPT !.r = 0] EXCEPT !.dry = d] BY <1>5, <2>1
  <2>5. st_read' \in T BY <2>2, <2>3, <2>4
  <2> QED BY <1>1, <1>3, <2>5 DEF EeTypes
<1>8. EeReturns' BY <1>1, <1>6 DEF EeReturns
<1>9. call.left = st_read.remaining /\ call.left \in Nat /\ call.left >= 1
      /\ call.ee = TRUE /\ call.block = FALSE
  BY <1>2, <1>3 DEF AskedFor
<1>10. t.n \in Nat /\ t.n <= call.left
  <2>1. t.n \in 0 .. StStreamed /\ t.n <= call.left BY <1>b, <1>9, TakenFits
  <2> QED BY <1>b, <2>1 DEF RingInv
<1>11. t.n = 0 => StStreamed = 0 BY <1>b, <1>9, TakenNone
<1>12. CASE t.n > 0
  <2>1. /\ call' = [call EXCEPT !.rdptr = t.rdptr, !.n = t.n]
        /\ pc'[StThread] = "dma" /\ expected' = expected
    BY <1>a, <1>b, <1>9, <1>12 DEF StReadTakes, StReadCopy, Goto, Placed
  <2> HIDE DEF t
  <2>2. /\ call'.left = call.left /\ call'.ee = call.ee /\ call'.block = call.block /\ call'.n = t.n
    BY <1>b, <2>1 DEF Calling
  <2>3. AskedFor' BY <1>9, <1>6, <2>2 DEF AskedFor
  <2>4. Sent(st_read.rpos)' BY <1>1, <1>2, <1>6, <2>1 DEF Sent, OnDisc
  <2>5. call'.n \in 1 .. st_read'.remaining BY <1>6, <1>9, <1>10, <1>12, <2>2
  <2>6. EeReads' BY <1>1, <1>3, <1>6, <2>1, <2>3, <2>4, <2>5 DEF EeReads, BeforeTaking, BehindTaking
  <2> QED BY <1>7, <1>8, <2>6 DEF EeInv
<1>13. CASE ~(t.n > 0)
  <2>1. t.n = 0 BY <1>10, <1>13
  <2>2. st_read'.dry = TRUE
    <3>1. StStreamed = 0 BY <1>11, <2>1
    <3> QED BY Zenon, <3>1, <1>4, <1>6
  <2>3. expected' = (expected + t.n) % LsnMod /\ AfterCopy(t.n)
    BY <1>13 DEF StReadTakes, StReadCopy
  <2> HIDE DEF t
  <2>4. expected \in 0 .. LsnMod - 1 /\ LsnMod \in Nat
    <3>1. expected = OnDisc(first + st_read.rpos) BY <1>2 DEF Sent
    <3>2. LsnMod \in Nat BY StreamAssumption
    <3> QED BY <1>3, <3>1, <3>2 DEF OnDisc
  <2>5. expected' = expected
    <3>1. expected + 0 = expected BY <2>4
    <3>2. expected % LsnMod = expected BY <2>4, ModRing
    <3> QED BY <2>1, <2>3, <3>1, <3>2
  <2>6. pc'[StThread] = "fill" BY <1>a, <1>b, <1>9, <2>3 DEF AfterCopy, Goto, Placed
  <2>7. Sent(st_read.rpos + st_read.r)'
    <3>1. st_read'.rpos + st_read'.r = st_read.rpos BY <1>3, <1>6
    <3> QED BY <1>1, <1>2, <2>5, <3>1 DEF Sent, OnDisc
  <2>8. EeReads'
    BY <1>1, <1>3, <1>6, <2>2, <2>6, <2>7 DEF EeReads, BeforeTaking, BehindTaking
  <2> QED BY <1>7, <1>8, <2>8 DEF EeInv
<1> QED BY <1>12, <1>13

\* The DMA has ended: the part of the ring it has read continues the answer.
LEMMA EeSends ==
  ASSUME AloneInv, HoldInv, EeInv, StReadSends
  PROVE  EeInv'
<1> DEFINE n == call.n
           q == st_read.rpos
<1>a. StThread \in Actors BY StreamAssumption DEF Actors
<1>b. Placed /\ RingInv /\ call \in Calling BY DEF AloneInv, RingInv
<1>1. /\ st_read.in = "read" /\ pc[StThread] = "dma"
      /\ st_ee' = SubSeq(st_ee, 1, q) \o DmaData
      /\ st_read' = [st_read EXCEPT !.r = n]
      /\ UNCHANGED <<first, StStat>>
      /\ expected' = (expected + n) % LsnMod /\ AfterCopy(n)
  BY DEF StReadSends, StReadDma, At
<1>2. AskedFor /\ Sent(q) /\ n \in 1 .. st_read.remaining BY <1>1 DEF EeInv, EeReads, BehindTaking, BeforeTaking
<1>3. /\ StStat = 1 /\ first \in 0 .. LsnMod - 1
      /\ st_read.remaining >= 1 /\ st_read.sectors < LsnMod
      /\ q + st_read.remaining = st_read.sectors
      /\ q \in Nat /\ st_read.remaining \in Nat /\ EeTypes
  BY <1>1 DEF EeInv, EeReads, EeTypes
<1>4. /\ LsnMod \in Nat /\ StBufmax \in Nat /\ StBufmax < LsnMod
      /\ n \in Nat /\ n >= 1 /\ n <= StStreamed /\ StStreamed \in 0 .. StBufmax
      /\ StReadPtr \in 0 .. StBufmax - 1
  BY <1>b, <1>1, <1>2, <1>3, Sizes, StreamAssumption DEF RingInv
<1>5. expected = OnDisc(first + q) /\ expected \in 0 .. LsnMod - 1
  <2>1. expected = OnDisc(first + q) BY <1>2 DEF Sent
  <2>2. OnDisc(first + q) \in 0 .. LsnMod - 1 BY <1>3, <1>4 DEF OnDisc
  <2> QED BY <2>1, <2>2
<1>6. /\ st_read'.in = "read" /\ st_read'.r = n /\ st_read'.dry = st_read.dry
      /\ st_read'.remaining = st_read.remaining /\ st_read'.sectors = st_read.sectors
      /\ st_read'.rpos = q
  BY <1>1, <1>3 DEF EeTypes
<1> HIDE DEF n, q
<1>7. ASSUME NEW i \in 1 .. n
      PROVE  DmaData[i] \in Int /\ DmaData[i] = OnDisc(first + (q + i) - 1)
  <2> DEFINE k == i - 1
  <2>1. k \in 0 .. StStreamed - 1 /\ k \in Nat BY <1>4
  <2>2. DmaData[i] = mem[Ring][(StReadPtr + i - 1) % StBufmax] BY DEF DmaData, n
  <2>3. StReadPtr + i - 1 = StReadPtr + k BY <1>4
  <2> HIDE DEF k
  <2>4. StReadPtr + k \in Nat /\ StReadPtr + k < StBufmax + StBufmax BY <1>4, <2>1
  <2>5. (StReadPtr + k) % StBufmax = InRing(StReadPtr + k) BY <1>4, <2>4, ModOnce DEF InRing
  <2>6. mem[Ring][InRing(StReadPtr + k)] = OnDisc(expected + k)
    BY <1>3, <2>1 DEF HoldInv, UnreadInv
  <2>7. DmaData[i] = OnDisc(expected + k) BY <2>2, <2>3, <2>5, <2>6
  <2>8. OnDisc(expected + k) \in Int BY <1>4, <1>5, <2>1 DEF OnDisc
  <2>9. OnDisc(expected + k) = OnDisc(first + (q + i) - 1)
    BY <1>3, <1>4, <1>5, <1>2, <2>1 DEF OnDisc, k
  <2> QED BY <2>7, <2>8, <2>9
<1>8. DmaData \in Seq(Int) /\ Len(DmaData) = n
  <2>1. DmaData = [i \in 1 .. n |-> mem[Ring][(StReadPtr + i - 1) % StBufmax]] BY DEF DmaData, n
  <2>2. DmaData \in [1 .. n -> Int] BY <1>7, <2>1
  <2> QED BY <1>4, <2>2
<1>9. SubSeq(st_ee, 1, q) \in Seq(Int) /\ Len(SubSeq(st_ee, 1, q)) = q
      /\ \A i \in 1 .. q : SubSeq(st_ee, 1, q)[i] = st_ee[i]
  <2>1. st_ee \in Seq(Int) /\ Len(st_ee) = q BY <1>2, <1>3 DEF EeTypes, Sent
  <2>2. SubSeq(st_ee, 1, q) = st_ee BY <2>1, <1>3
  <2> QED BY <2>1, <2>2
<1>10. /\ st_ee' \in Seq(Int) /\ Len(st_ee') = q + n
       /\ \A i \in 1 .. q + n : st_ee'[i] = IF i <= q THEN st_ee[i] ELSE DmaData[i - q]
  <2> DEFINE s == SubSeq(st_ee, 1, q)
  <2>1. s \in Seq(Int) /\ Len(s) = q /\ \A i \in 1 .. q : s[i] = st_ee[i] BY <1>9
  <2>2. st_ee' = s \o DmaData BY <1>1
  <2> HIDE DEF s
  <2>3. /\ s \o DmaData \in Seq(Int) /\ Len(s \o DmaData) = q + n
        /\ \A i \in 1 .. q + n : (s \o DmaData)[i] = IF i <= q THEN s[i] ELSE DmaData[i - q]
    BY <2>1, <1>8, ConcatProperties
  <2>4. \A i \in 1 .. q + n : i <= q => i \in 1 .. q BY <1>3, <1>4
  <2> QED BY <2>1, <2>2, <2>3, <2>4
<1>11. \A i \in 1 .. q + n : st_ee'[i] = OnDisc(first + i - 1)
  <2> SUFFICES ASSUME NEW i \in 1 .. q + n PROVE st_ee'[i] = OnDisc(first + i - 1) OBVIOUS
  <2>1. CASE i <= q
    <3>1. i \in 1 .. q BY <1>3, <1>4, <2>1
    <3> QED BY <2>1, <3>1, <1>10, <1>2 DEF Sent
  <2>2. CASE ~(i <= q)
    <3>1. i - q \in 1 .. n /\ q + (i - q) = i BY <1>3, <1>4, <2>2
    <3> QED BY <2>2, <3>1, <1>7, <1>10
  <2> QED BY <2>1, <2>2
<1>12. expected' = OnDisc(first + (q + n))
  <2>1. expected + n \in Nat /\ expected + n < LsnMod + LsnMod BY <1>4, <1>5
  <2>2. expected' = OnDisc(expected + n) BY <1>1, <1>4, <2>1, ModOnce DEF OnDisc
  <2>3. q + n <= st_read.sectors BY <1>2, <1>3, <1>4
  <2> QED BY <1>3, <1>4, <1>5, <2>2, <2>3 DEF OnDisc
<1>13. EeTypes'
  <2>1. st_read' = [st_read EXCEPT !.r = n] /\ n \in Nat BY <1>1, <1>4 DEF n
  <2> QED BY <1>3, <1>10, <2>1 DEF EeTypes
<1>14. pc'[StThread] = "fill"
  BY <1>a, <1>b, <1>1, <1>2 DEF AfterCopy, Goto, Placed, AskedFor
<1>15. Sent(st_read.rpos + st_read.r)' BY <1>1, <1>6, <1>10, <1>11, <1>12 DEF Sent, OnDisc
<1>16. EeReads'
  <2>1. st_read'.r <= st_read'.remaining /\ st_read'.r # 0 BY <1>2, <1>3, <1>4, <1>6
  <2>2. st_read'.rpos + st_read'.remaining = st_read'.sectors BY <1>3, <1>6
  <2> QED BY <1>1, <1>3, <1>6, <1>14, <1>15, <2>1, <2>2 DEF EeReads, BeforeTaking, BehindTaking
<1>17. EeReturns' BY <1>6 DEF EeReturns
<1> QED BY <1>13, <1>16, <1>17 DEF EeInv

\* sceCdStRead has returned something, but not everything: once more, behind
\* what came.
LEMMA EeGoesOn ==
  ASSUME AloneInv, HoldInv, EeInv, StReadAgain
  PROVE  EeInv'
<1> DEFINE m == st_read.remaining - st_read.r
<1>a. StThread \in Actors BY StreamAssumption DEF Actors
<1>1. /\ st_read.in = "read" /\ pc[StThread] = "ready"
      /\ st_read.r >= 1 /\ st_read.remaining > st_read.r
      /\ st_read' = [st_read EXCEPT !.rpos = @ + st_read.r, !.remaining = @ - st_read.r]
      /\ UNCHANGED <<st_ee, first>> /\ ReadNow(m)
  BY DEF StReadAgain, Back, Calls, At
<1>2. /\ StStat = 1 /\ first \in 0 .. LsnMod - 1 /\ st_read.sectors < LsnMod
      /\ st_read.rpos + st_read.remaining = st_read.sectors
      /\ Sent(st_read.rpos + st_read.r)
      /\ st_read.rpos \in Nat /\ st_read.remaining \in Nat /\ st_read.r \in Nat /\ EeTypes
  BY <1>1 DEF EeInv, EeReads, EeTypes, BehindTaking, BeforeTaking
<1>3. m \in Nat /\ m >= 1 BY <1>1, <1>2
<1>4. /\ st_read'.in = "read" /\ st_read'.remaining = m /\ st_read'.sectors = st_read.sectors
      /\ st_read'.rpos = st_read.rpos + st_read.r
  BY <1>1, <1>2 DEF EeTypes
<1>5. EeTypes'
  <2>1. st_read' = [st_read EXCEPT !.rpos = st_read.rpos + st_read.r, !.remaining = m] BY <1>1
  <2>2. st_read.rpos + st_read.r \in Nat BY <1>2
  <2> HIDE DEF m
  <2> QED BY <1>1, <1>2, <1>3, <2>1, <2>2 DEF EeTypes
<1> HIDE DEF m
<1>6. StStat' = 1 /\ expected' = expected BY <1>1, <1>2 DEF ReadNow, sceCdStRead, ring, sthist
<1>7. pc'[StThread] = "stwait"
  BY <1>a, <1>1 DEF ReadNow, sceCdStRead, Goto, AloneInv, Placed
<1>8. AskedFor'
  <2>1. call'.left = m /\ call'.ee /\ ~call'.block BY <1>1 DEF ReadNow
  <2>2. PICK k \in ReadSizes, b \in Blocking, e \in FromEE :
          call' = [NoCall EXCEPT !.then = "read", !.left = k, !.block = b, !.ee = e]
    BY Zenon, <1>1 DEF ReadNow, sceCdStRead
  <2>3. call'.block = b /\ call'.ee = e BY <2>2 DEF NoCall
  <2>4. b \in BOOLEAN /\ e \in BOOLEAN BY StreamAssumption
  <2>5. call'.ee = TRUE /\ call'.block = FALSE BY Zenon, <2>1, <2>3, <2>4
  <2> QED BY <1>4, <2>1, <2>5 DEF AskedFor
<1>9. Sent(st_read.rpos)' BY <1>1, <1>2, <1>4, <1>6 DEF Sent, OnDisc
<1>10. EeReads'
  <2>1. st_read'.rpos + st_read'.remaining = st_read'.sectors BY <1>2, <1>4 DEF m
  <2> QED BY <1>1, <1>2, <1>3, <1>4, <1>6, <1>7, <1>8, <1>9, <2>1 DEF EeReads, BeforeTaking, BehindTaking
<1>11. EeReturns' BY <1>4 DEF EeReturns
<1> QED BY <1>5, <1>10, <1>11 DEF EeInv

\* cdvdSt_read answers with what it has got.
LEMMA EeEnds ==
  ASSUME AloneInv, EeInv, StReadEnds
  PROVE  EeInv'
<1>1. /\ st_read.in = "read" /\ pc[StThread] = "ready" /\ UNCHANGED <<st_ee, first>>
  BY DEF StReadEnds, Back, Calls, At
<1>2. /\ StStat = 1 /\ first \in 0 .. LsnMod - 1 /\ st_read.sectors < LsnMod
      /\ st_read.rpos + st_read.remaining = st_read.sectors
      /\ Sent(st_read.rpos + st_read.r) /\ (st_read.r = 0 => st_read.dry = TRUE)
      /\ st_read.rpos \in Nat /\ st_read.remaining \in Nat /\ st_read.r \in Nat
      /\ st_read.sectors \in Nat /\ EeTypes
  BY <1>1 DEF EeInv, EeReads, EeTypes, BehindTaking, BeforeTaking
<1>3. CASE st_read.r < 1 /\ st_read' = [st_read EXCEPT !.in = "return"]
  <2>1. st_read.r = 0 /\ st_read.rpos + st_read.r = st_read.rpos BY <1>2, <1>3
  <2>2. Sent(st_read.rpos) BY <1>2, <2>1
  <2>3. /\ st_read'.in = "return" /\ st_read'.rpos = st_read.rpos /\ st_read'.dry = st_read.dry
        /\ st_read'.sectors = st_read.sectors
    BY <1>2, <1>3 DEF EeTypes
  <2>4. EeTypes' BY <1>1, <1>2, <1>3 DEF EeTypes
  <2>5. EeReads' BY <2>3 DEF EeReads
  <2>6. st_read.rpos < LsnMod BY <1>2, StreamAssumption
  <2>7. EeReturns' BY <1>1, <1>2, <2>1, <2>2, <2>3, <2>6 DEF EeReturns, Sent, OnDisc
  <2> QED BY <2>4, <2>5, <2>7 DEF EeInv
<1>4. CASE /\ st_read.r = st_read.remaining
           /\ st_read' = [st_read EXCEPT !.in = "return", !.rpos = @ + st_read.r, !.remaining = 0]
  <2> DEFINE p == st_read.rpos + st_read.r
  <2>1. p = st_read.sectors /\ p \in Nat BY <1>2, <1>4
  <2>2. /\ st_read'.in = "return" /\ st_read'.rpos = p /\ st_read'.sectors = p
    BY <1>2, <1>4, <2>1 DEF EeTypes
  <2>3. EeTypes'
    <3>1. st_read' = [st_read EXCEPT !.in = "return", !.rpos = p, !.remaining = 0] BY <1>4
    <3> HIDE DEF p
    <3> QED BY <1>1, <1>2, <2>1, <3>1 DEF EeTypes
  <2>4. Sent(p) BY <1>2
  <2> HIDE DEF p
  <2>5. EeReads' BY <2>2 DEF EeReads
  <2>6. p < LsnMod /\ ~(p < p) BY <1>2, <2>1, StreamAssumption
  <2>7. EeReturns' BY <1>1, <1>2, <2>2, <2>4, <2>6 DEF EeReturns, Sent, OnDisc
  <2> QED BY <2>3, <2>5, <2>7 DEF EeInv
<1> QED BY <1>3, <1>4 DEF StReadEnds

\* The client's steps inside sceCdStRead that neither take nor send.
LEMMA EeInside ==
  ASSUME AloneInv, EeInv, StSteps
  PROVE  EeInv'
<1>a. StThread \in Actors BY StreamAssumption DEF Actors
<1>b. Placed /\ FlowInv /\ StatInv BY DEF AloneInv, ControlInv
<1>1. UNCHANGED <<st_read, st_ee, first>> BY DEF StSteps, fsvonly
<1>2. ASSUME st_read.in = "read"
      PROVE  /\ UNCHANGED <<StStat, expected, call>>
             /\ \/ pc[StThread] \in BeforeTaking /\ pc'[StThread] \in BeforeTaking
                \/ pc[StThread] \in BehindTaking /\ pc'[StThread] \in BehindTaking
  <2>1. /\ StStat = 1 /\ pc[StThread] \in {"stwait", "stclear"} \cup BehindTaking
        /\ ClientStep /\ pc[StThread] \notin {"copy", "dma"}
    BY <1>2 DEF StSteps, EeInv, EeReads, BeforeTaking, BehindTaking
  <2>2. call.then = "start" => pc[StThread] = "stop" BY <1>b, <2>1 DEF StatInv
  <2>3. StReadWait \/ StReadClear \/ Fill(StThread)
    BY <2>1, <2>2 DEF ClientStep, InitLock, StopLock, StartLock, Started, PauseLock, ResumeLock,
       StReadCopy, StReadDma, SyncTest, SyncWake, At, BehindTaking
  <2>4. CASE StReadWait \/ StReadClear
    BY <2>4, <1>a, <1>b DEF StReadWait, StReadClear, At, Goto, Placed, BeforeTaking, stvars, ring, stlocal, sthist
  <2>5. CASE Fill(StThread)
    <3>1. pc[StThread] \in BehindTaking BY <2>1, <2>5 DEF Fill, FillLock, FillFull, FillRead,
            FillKick, FillRefused, FillRearm, At, BehindTaking
    <3>2. ~FillRefused(StThread) /\ ~FillRearm(StThread)
      BY <3>1 DEF FillRefused, FillRearm, At, BehindTaking
    <3>3. RThread # StThread BY StreamAssumption, ActorAssumption
    <3>4. pc'[StThread] \in BehindTaking
      BY <1>a, <1>b, <2>5, <3>2, <3>3 DEF Fill, FillLock, FillFull, FillRead, FillKick, FillReturn,
         At, Goto, Placed, FlowInv, BehindTaking
    <3>5. UNCHANGED <<StStat, expected, call>>
      BY <2>5, <3>2 DEF Fill, FillLock, FillFull, FillRead, FillKick, stvars, ring, stlocal, sthist
    <3> QED BY <3>1, <3>4, <3>5
  <2> QED BY <2>3, <2>4, <2>5
<1> QED BY <1>1, <1>2, EeKept

\* Every step keeps EeInv.
LEMMA EeStep == AloneInv /\ HoldInv /\ EeInv /\ [FsvStNext]_fsvvars => EeInv'
<1> SUFFICES ASSUME AloneInv, HoldInv, EeInv, [FsvStNext]_fsvvars PROVE EeInv' OBVIOUS
<1>1. CASE sceCdStReadIop \/ cdvd_Stsubcmdcall
  <2>1. st_read.in = "none" /\ UNCHANGED <<st_read, st_ee, first>>
    BY <1>1 DEF sceCdStReadIop, cdvd_Stsubcmdcall, fsvonly
  <2> QED BY <2>1, EeKept
<1>2. CASE StReadReturned
  <2>1. st_read'.in = "none" /\ st_ee' = <<>> /\ st_read' = NoStRead
    BY <1>2 DEF StReadReturned, NoStRead
  <2>2. EeTypes' BY <2>1, EmptySeq DEF EeTypes, NoStRead
  <2> QED BY <2>1, <2>2 DEF EeInv, EeReads, EeReturns
<1>3. CASE FsvStBeside
  <2>1. Placed /\ st_alarm = FALSE BY DEF AloneInv, ControlInv, PlaceInv
  <2>2. UNCHANGED <<StStat, expected, call>> /\ pc'[StThread] = pc[StThread]
    <3>1. CASE ReadThread BY <2>1, <3>1, ReadThreadBeside
    <3>2. CASE StmScheduleCb BY <2>1, <3>2 DEF StmScheduleCb
    <3>3. CASE AccuAlarm /\ UNCHANGED stvars
      BY <3>3 DEF AccuAlarm, stvars, ring, stlocal, sthist
    <3> QED BY <1>3, <3>1, <3>2, <3>3 DEF FsvStBeside
  <2>3. UNCHANGED <<st_read, st_ee, first>> BY <1>3 DEF FsvStBeside, fsvonly
  <2> QED BY <2>2, <2>3, EeKept
<1>4. CASE UNCHANGED fsvvars
  BY <1>4, EeKept DEF fsvvars, allvars, vars, stvars, ring, stlocal, sthist
<1> QED BY <1>1, <1>2, <1>3, <1>4, EeBegins, EeTakes, EeSends, EeInside, EeGoesOn, EeEnds
     DEF FsvStNext, FsvStThread

\* The answer of a stream read of the EE is the stream, without gap or
\* repetition, for any sizes and any interleaving of the read thread with the
\* DMA; and only an empty ring makes it shorter than what was asked for.
THEOREM EeGetsTheStream ==
  ASSUME StreamsAlone, ReadsSucceed
  PROVE  FsvStSpec => []EeGetsStream
<1>1. EeInv => EeGetsStream
  <2> SUFFICES ASSUME EeInv, st_read.in = "return" PROVE EeGetsStream BY DEF EeGetsStream
  <2>1. /\ Len(st_ee) = st_read.rpos /\ (st_read.rpos < st_read.sectors => st_read.dry)
        /\ st_read.rpos \in Nat
    BY DEF EeInv, EeReturns, EeTypes
  <2>2. ASSUME NEW i \in 1 .. st_read.rpos PROVE st_ee[i] = (first + i - 1) % LsnMod
    <3>1. /\ first \in 0 .. LsnMod - 1 /\ st_read.rpos < LsnMod /\ LsnMod \in Nat
          /\ st_ee[i] = OnDisc(first + i - 1)
      BY <2>1, StreamAssumption DEF EeInv, EeReturns
    <3>2. first + i - 1 \in Nat /\ first + i - 1 < LsnMod + LsnMod BY <2>1, <3>1
    <3>3. (first + i - 1) % LsnMod = OnDisc(first + i - 1) BY <3>1, <3>2, ModOnce DEF OnDisc
    <3> QED BY <3>1, <3>3
  <2> QED BY <2>1, <2>2 DEF EeGetsStream
<1>2. FsvStInit => EeInv
  <2> SUFFICES ASSUME FsvStInit PROVE EeInv OBVIOUS
  <2>1. EeTypes BY EmptySeq DEF EeTypes, FsvStInit, NoStRead
  <2> QED BY <2>1 DEF EeInv, EeReads, EeReturns, FsvStInit, NoStRead
<1>3. StInit => AloneInv /\ HoldInv BY AloneInit, HoldInit
<1>4. AloneInv /\ HoldInv /\ [StNext]_allvars => (AloneInv /\ HoldInv)' BY AloneStep, HoldStep
<1>5. StSpec => [](AloneInv /\ HoldInv) BY <1>3, <1>4, PTL DEF StSpec
<1>6. AloneInv /\ HoldInv /\ EeInv /\ [FsvStNext]_fsvvars => EeInv' BY EeStep
<1> QED BY <1>1, <1>2, <1>5, <1>6, FsvStreams, PTL DEF FsvStSpec

=============================================================================
