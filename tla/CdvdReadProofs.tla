--------------------------- MODULE CdvdReadProofs ---------------------------
(***************************************************************************)
(* Proofs about CdvdRead, for any set of threads, buffers, requests and    *)
(* priorities: types, the drive lock (one owner, request block kept, no    *)
(* lost wake-up, sceCdSync waits for its own read), the status register    *)
(* and the bounce buffer.  MayRun is never expanded: nothing here depends  *)
(* on how the kernel schedules the threads.                                *)
(***************************************************************************)
EXTENDS CdvdRead, TLAPS

\* DeviceReadSectors is called only when sectors remain; SectorsToRead is a
\* natural number for this reason.
DeviceHasWork == \A a \in Actors : pc[a] = "device" => rd[a].pos < rd[a].len
TypeInv == TypeOK /\ DeviceHasWork

USE DEF PCs, Reading, InTransfer, Waiting, DriveCommands, Actors, AllBuffers

\* The request block _start leaves is a request.
LEMMA NullRequestTyped == NullRequest \in Request
  BY DEF NullRequest, Request

\* The locals of an actor outside cdvdman_read are well typed.
LEMMA IdleReadTyped == IdleRead \in ReadLocals
  BY NullRequestTyped DEF IdleRead, ReadLocals

\* So are the locals cdvdman_read starts with, for any request.
LEMMA ReadOfTyped ==
  ASSUME NEW r \in Request
  PROVE  [IdleRead EXCEPT !.req = r] \in ReadLocals
  BY NullRequestTyped DEF IdleRead, ReadLocals

\* A device transfer leaves memory well typed.
LEMMA WrittenTyped ==
  ASSUME MemoryTypes, NEW b \in AllBuffers, NEW s \in Nat, NEW lsn \in Nat, NEW n \in Nat
  PROVE  Written(b, s, lsn, n) \in [AllBuffers -> [Slots -> Int]]
  <1>1. [i \in Slots |-> IF s <= i /\ i < s + n THEN lsn + (i - s) ELSE mem[b][i]] \in [Slots -> Int]
    BY SizeAssumption DEF MemoryTypes, Slots
  <1> QED BY <1>1 DEF MemoryTypes, Written

\* So does the copy out of the bounce buffer.
LEMMA CopiedTyped ==
  ASSUME MemoryTypes, NEW b \in AllBuffers, NEW s \in Nat, NEW n \in Nat
  PROVE  Copied(b, s, n) \in [AllBuffers -> [Slots -> Int]]
  <1>1. ASSUME NEW i \in Slots, s <= i PROVE mem[Bounce][i - s] \in Int
    <2>1. i - s \in Slots BY <1>1, SizeAssumption DEF Slots
    <2> QED BY <2>1 DEF MemoryTypes
  <1>2. [i \in Slots |-> IF s <= i /\ i < s + n THEN mem[Bounce][i - s] ELSE mem[b][i]] \in [Slots -> Int]
    BY <1>1 DEF MemoryTypes
  <1> QED BY <1>2 DEF MemoryTypes, Copied

\* The type of each local of cdvdman_read.
LEMMA LocalsTyped ==
  ASSUME ThreadTypes, NEW a \in Actors
  PROVE  /\ rd[a] \in ReadLocals
         /\ rd[a].req \in Request
         /\ rd[a].req.lsn \in Nat /\ rd[a].req.sectors \in Nat /\ rd[a].req.off \in Nat
         /\ rd[a].req.buf \in AllBuffers
         /\ rd[a].req.aligned \in BOOLEAN
         /\ rd[a].base \in Nat /\ rd[a].len \in Nat /\ rd[a].pos \in Nat
         /\ rd[a].short \in BOOLEAN
  <1>1. rd[a] \in ReadLocals BY DEF ThreadTypes
  <1>2. rd[a].req \in Request BY <1>1 DEF ReadLocals
  <1> QED BY <1>1, <1>2 DEF ReadLocals, Request

\* Marking a read as cut short keeps its locals well typed.
LEMMA ShortTyped ==
  ASSUME ThreadTypes, NEW a \in Actors, NEW b \in BOOLEAN
  PROVE  [rd EXCEPT ![a].short = b] \in [Actors -> ReadLocals]
  BY DEF ThreadTypes, ReadLocals

\* The length and the target of a device transfer, and that it stays within
\* what cdvdman_read_sectors was asked for.
LEMMA SectorsToReadTyped ==
  ASSUME TypeInv, NEW a \in Actors, pc[a] = "device"
  PROVE  /\ SectorsToRead(a) \in Nat
         /\ SectorsToRead(a) <= rd[a].len - rd[a].pos
         /\ Target(a) \in AllBuffers /\ TargetSlot(a) \in Nat
  <1>1. rd[a].pos < rd[a].len BY DEF TypeInv, DeviceHasWork
  <1>2. SectorsToRead(a) \in Nat /\ SectorsToRead(a) <= rd[a].len - rd[a].pos
    BY <1>1, LocalsTyped, SizeAssumption DEF TypeInv, TypeOK, SectorsToRead, R, Smaller
  <1> QED BY <1>1, <1>2, LocalsTyped DEF TypeInv, TypeOK, Target, TargetSlot, R

\* _start leaves a well-typed state.
LEMMA TypeInit == Init => TypeInv
<1> SUFFICES ASSUME Init PROVE TypeInv OBVIOUS
<1>1. LockTypes BY NullRequestTyped DEF Init, LockTypes
<1>2. RegisterTypes BY DEF Init, RegisterTypes
<1>3. AlarmTypes
  <2>1. alt_read \in BOOLEAN BY FlagAssumption, SMT DEF Init
  <2> QED BY <2>1, Zenon DEF Init, AlarmTypes
<1>4. ThreadTypes BY NullRequestTyped, IdleReadTyped DEF Init, ThreadTypes
<1>5. MemoryTypes BY DEF Init, MemoryTypes, NoData
<1>6. HistoryTypes BY DEF Init, HistoryTypes
<1>7. DeviceHasWork BY DEF Init, DeviceHasWork
<1> QED BY <1>1, <1>2, <1>3, <1>4, <1>5, <1>6, <1>7 DEF TypeInv, TypeOK


\* Every step inside cdvdman_read keeps the types.
LEMMA ExecutesTyped ==
  ASSUME TypeInv, NEW a \in Actors, Executes(a)
  PROVE  TypeInv'
<1>a. LockTypes /\ RegisterTypes /\ AlarmTypes /\ ThreadTypes /\ MemoryTypes /\ HistoryTypes /\ DeviceHasWork
  BY DEF TypeInv, TypeOK
<1> USE DEF locks, regs, cbs, hist, At, Goto, R
<1>1. CASE ReadBegin(a)
  <2>1. ThreadTypes'
    BY <1>a, <1>1, LocalsTyped DEF ReadBegin, ThreadTypes, ReadLocals
  <2> QED BY <1>a, <1>1, <2>1 DEF ReadBegin, TypeInv, TypeOK, LockTypes, RegisterTypes,
       AlarmTypes, MemoryTypes, HistoryTypes, DeviceHasWork
<1>2. CASE BounceTake(a)
  BY <1>2 DEF BounceTake, TypeInv, TypeOK, LockTypes, RegisterTypes, AlarmTypes, ThreadTypes,
       MemoryTypes, HistoryTypes, DeviceHasWork
<1>3. CASE BounceChunk(a)
  <2>1. ThreadTypes'
    <3>1. rd' \in [Actors -> ReadLocals]
      BY <1>a, <1>3, LocalsTyped, SizeAssumption DEF BounceChunk, ThreadTypes, ReadLocals, Smaller
    <3>2. pc' \in [Actors -> PCs] /\ arg' = arg /\ searching' = searching
      BY <1>a, <1>3 DEF BounceChunk, ThreadTypes, PCs, Reading, InTransfer
    <3> QED BY <1>a, <3>1, <3>2 DEF ThreadTypes
  <2>2. LockTypes' BY <1>a, <1>3 DEF BounceChunk, LockTypes, Signalled
  <2>3. DeviceHasWork' BY <1>a, <1>3 DEF BounceChunk, ThreadTypes, DeviceHasWork
  <2>4. AlarmTypes' BY <1>a, <1>3 DEF BounceChunk, AlarmTypes
  <2>5. RegisterTypes' /\ MemoryTypes' /\ HistoryTypes'
    BY <1>a, <1>3 DEF BounceChunk, RegisterTypes, MemoryTypes, HistoryTypes
  <2> QED BY <2>1, <2>2, <2>3, <2>4, <2>5 DEF TypeInv, TypeOK
<1>4. CASE SectorsBegin(a)
  BY <1>4 DEF SectorsBegin, TypeInv, TypeOK, LockTypes, RegisterTypes, AlarmTypes, ThreadTypes,
       MemoryTypes, HistoryTypes, DeviceHasWork
<1>5. CASE SectorsLoop(a)
  <2>1. ThreadTypes'
    <3>1. CASE R(a).pos < R(a).len /\ err = "NO"
      BY <1>a, <1>5, <3>1 DEF SectorsLoop, ThreadTypes
    <3>2. CASE ~(R(a).pos < R(a).len /\ err = "NO")
      <4>1. (rd[a].short \/ rd[a].pos < rd[a].len) \in BOOLEAN OBVIOUS
      <4>2. rd' = [rd EXCEPT ![a].short = rd[a].short \/ rd[a].pos < rd[a].len]
        BY Zenon, <1>5, <3>2 DEF SectorsLoop
      <4>3. rd' \in [Actors -> ReadLocals] BY Zenon, <1>a, <4>1, <4>2, ShortTyped
      <4> QED BY <1>a, <1>5, <3>2, <4>3 DEF SectorsLoop, ThreadTypes
    <3> QED BY <3>1, <3>2
  <2>2. AlarmTypes'
    BY <1>a, <1>5, FlagAssumption DEF SectorsLoop, AlarmTypes
  <2>3. DeviceHasWork'
    BY <1>a, <1>5 DEF SectorsLoop, ThreadTypes, DeviceHasWork
  <2> QED BY <1>a, <1>5, <2>1, <2>2, <2>3 DEF SectorsLoop, TypeInv, TypeOK, LockTypes,
       RegisterTypes, MemoryTypes, HistoryTypes
<1>6. CASE DeviceReadSectors(a)
  <2>1. ThreadTypes'
    BY <1>a, <1>6, LocalsTyped, SectorsToReadTyped DEF DeviceReadSectors, ThreadTypes, ReadLocals
  <2>2. RegisterTypes'
    BY <1>a, <1>6, SectorsToReadTyped DEF DeviceReadSectors, RegisterTypes
  <2>3. MemoryTypes'
    <3>1. rd[a].req.lsn + rd[a].base + rd[a].pos \in Nat BY <1>a, LocalsTyped
    <3>2. pc[a] = "device" BY <1>6 DEF DeviceReadSectors
    <3>3. mem' = Written(Target(a), TargetSlot(a), rd[a].req.lsn + rd[a].base + rd[a].pos,
         SectorsToRead(a))
      BY <1>6 DEF DeviceReadSectors
    <3>4. SectorsToRead(a) \in Nat /\ Target(a) \in AllBuffers /\ TargetSlot(a) \in Nat
      BY <3>2, SectorsToReadTyped
    <3>5. mem' \in [AllBuffers -> [Slots -> Int]] BY Zenon, <1>a, <3>1, <3>3, <3>4, WrittenTyped
    <3> QED BY <3>5 DEF MemoryTypes
  <2>4. DeviceHasWork'
    BY <1>a, <1>6 DEF DeviceReadSectors, ThreadTypes, DeviceHasWork
  <2> QED BY <1>a, <1>6, <2>1, <2>2, <2>3, <2>4 DEF DeviceReadSectors, TypeInv, TypeOK,
       LockTypes, AlarmTypes, HistoryTypes
<1>7. CASE DeviceError(a)
  <2>1. ThreadTypes'
    <3>1. rd' = [rd EXCEPT ![a].short = TRUE] BY Zenon, <1>7 DEF DeviceError
    <3>2. rd' \in [Actors -> ReadLocals] BY Zenon, <1>a, <3>1, ShortTyped
    <3> QED BY <1>a, <1>7, <3>2 DEF DeviceError, ThreadTypes
  <2>2. AlarmTypes'
    BY <1>a, <1>7 DEF DeviceError, AlarmTypes
  <2>3. MemoryTypes'
    <3>1. rd[a].req.lsn + rd[a].base + rd[a].pos \in Nat BY <1>a, LocalsTyped
    <3>2. pc[a] = "device" BY <1>7 DEF DeviceError
    <3>3. PICK n \in 0 .. SectorsToRead(a) - 1 :
            mem' = Written(Target(a), TargetSlot(a), rd[a].req.lsn + rd[a].base + rd[a].pos, n)
      BY <1>7 DEF DeviceError
    <3>4. n \in Nat /\ Target(a) \in AllBuffers /\ TargetSlot(a) \in Nat
      BY <3>2, <3>3, SectorsToReadTyped
    <3>5. mem' \in [AllBuffers -> [Slots -> Int]] BY Zenon, <1>a, <3>1, <3>3, <3>4, WrittenTyped
    <3> QED BY <3>5 DEF MemoryTypes
  <2>4. DeviceHasWork'
    BY <1>a, <1>7 DEF DeviceError, ThreadTypes, DeviceHasWork
  <2> QED BY <1>a, <1>7, <2>1, <2>2, <2>3, <2>4 DEF DeviceError, TypeInv, TypeOK, LockTypes,
       RegisterTypes, HistoryTypes
<1>8. CASE AccuWait(a)
  BY <1>8 DEF AccuWait, TypeInv, TypeOK, LockTypes, RegisterTypes, AlarmTypes, ThreadTypes,
       MemoryTypes, HistoryTypes, DeviceHasWork
<1>9. CASE SectorsEnd(a)
  <2>1. ThreadTypes'
    <3>1. CASE R(a).req.aligned
      BY <1>a, <1>9, <3>1 DEF SectorsEnd, ThreadTypes
    <3>2. CASE ~R(a).req.aligned
      <4>1. rd' = [rd EXCEPT ![a].base = rd[a].base + rd[a].len] BY <1>9, <3>2 DEF SectorsEnd
      <4>2. rd' \in [Actors -> ReadLocals] BY <1>a, <4>1, LocalsTyped DEF ThreadTypes, ReadLocals
      <4> QED BY <1>a, <1>9, <3>2, <4>2 DEF SectorsEnd, ThreadTypes
    <3> QED BY <3>1, <3>2
  <2>2. MemoryTypes'
    <3>1. rd[a].req.off + rd[a].base \in Nat /\ rd[a].len \in Nat /\ rd[a].req.buf \in AllBuffers
      BY <1>a, LocalsTyped
    <3>2. mem' \in {mem, Copied(rd[a].req.buf, rd[a].req.off + rd[a].base, rd[a].len)}
      BY <1>9 DEF SectorsEnd
    <3>3. Copied(rd[a].req.buf, rd[a].req.off + rd[a].base,
         rd[a].len) \in [AllBuffers -> [Slots -> Int]]
      BY Zenon, <1>a, <3>1, CopiedTyped
    <3> QED BY <1>a, <3>2, <3>3 DEF MemoryTypes
  <2>3. DeviceHasWork'
    BY <1>a, <1>9 DEF SectorsEnd, ThreadTypes, DeviceHasWork
  <2> QED BY <1>a, <1>9, <2>1, <2>2, <2>3 DEF SectorsEnd, TypeInv, TypeOK, LockTypes,
       RegisterTypes, AlarmTypes, HistoryTypes
<1>10. CASE ReadEnd(a)
  BY <1>10 DEF ReadEnd, TypeInv, TypeOK, LockTypes, RegisterTypes, AlarmTypes, ThreadTypes,
       MemoryTypes, HistoryTypes, DeviceHasWork
<1>11. CASE ReleaseDrive(a)
  <2>1. ThreadTypes'
    BY <1>a, <1>11, IdleReadTyped DEF ReleaseDrive, ThreadTypes
  <2>2. HistoryTypes'
    BY <1>a, <1>11 DEF ReleaseDrive, HistoryTypes
  <2>3. DeviceHasWork'
    BY <1>a, <1>11 DEF ReleaseDrive, ThreadTypes, DeviceHasWork
  <2> QED BY <1>a, <1>11, <2>1, <2>2, <2>3 DEF ReleaseDrive, TypeInv, TypeOK, LockTypes,
       RegisterTypes, AlarmTypes, MemoryTypes
<1>12. CASE SetDoneEvent(a)
  BY <1>12 DEF SetDoneEvent, TypeInv, TypeOK, LockTypes, RegisterTypes, AlarmTypes, ThreadTypes,
       MemoryTypes, HistoryTypes, DeviceHasWork
<1> QED BY <1>1, <1>2, <1>3, <1>4, <1>5, <1>6, <1>7, <1>8, <1>9, <1>10, <1>11, <1>12 DEF Executes

\* So does taking the drive, in cdvdman_AsyncRead or cdvdman_SyncRead.
LEMMA ReadLockTyped ==
  ASSUME TypeInv, NEW t \in Threads, NEW r \in Request, ReadLock(t, r),
         pc[t] # "device",
         UNCHANGED <<rthread_sema, searchfilesema, regs, cbs, accu_alarm, Stm0Callback, mem,
              searching>>
  PROVE  TypeInv'
<1>a. LockTypes /\ RegisterTypes /\ AlarmTypes /\ ThreadTypes /\ MemoryTypes /\ HistoryTypes /\ DeviceHasWork
  BY DEF TypeInv, TypeOK
<1> USE DEF ReadLock, SyncReadLock, AsyncReadLock, cdvdman_common_lock, Goto
<1>1. LockTypes' BY <1>a DEF LockTypes
<1>2. ThreadTypes' BY <1>a, ReadOfTyped DEF ThreadTypes
<1>3. HistoryTypes' BY <1>a DEF HistoryTypes
<1>4. DeviceHasWork' BY <1>a DEF ThreadTypes, DeviceHasWork
<1>5. RegisterTypes' /\ AlarmTypes' /\ MemoryTypes'
  BY <1>a DEF RegisterTypes, AlarmTypes, MemoryTypes, regs, cbs
<1> QED BY <1>1, <1>2, <1>3, <1>4, <1>5 DEF TypeInv, TypeOK

\* So does every step of a client inside a call ...
LEMMA ThreadStepTyped ==
  ASSUME TypeInv, NEW t \in Threads, ThreadStep(t)
  PROVE  TypeInv'
<1>a. LockTypes /\ RegisterTypes /\ AlarmTypes /\ ThreadTypes /\ MemoryTypes /\ HistoryTypes /\ DeviceHasWork
  BY DEF TypeInv, TypeOK
<1> USE DEF locks, regs, cbs, hist, At, Goto, R
<1>1. CASE Executes(t)
  BY <1>1, ExecutesTyped
<1>2. CASE AsyncReadSignal(t)
  BY <1>2 DEF AsyncReadSignal, TypeInv, TypeOK, LockTypes, RegisterTypes, AlarmTypes,
       ThreadTypes, MemoryTypes, HistoryTypes, DeviceHasWork, Signalled, cdvdman_cb_event
<1>3. CASE SyncReadEvent(t)
  BY <1>3 DEF SyncReadEvent, TypeInv, TypeOK, LockTypes, RegisterTypes, AlarmTypes, ThreadTypes,
       MemoryTypes, HistoryTypes, DeviceHasWork, Signalled, cdvdman_cb_event
<1>4. CASE SyncTest(t)
  BY <1>4 DEF SyncTest, TypeInv, TypeOK, LockTypes, RegisterTypes, AlarmTypes, ThreadTypes,
       MemoryTypes, HistoryTypes, DeviceHasWork
<1>5. CASE SyncWake(t)
  BY <1>5 DEF SyncWake, TypeInv, TypeOK, LockTypes, RegisterTypes, AlarmTypes, ThreadTypes,
       MemoryTypes, HistoryTypes, DeviceHasWork
<1>6. CASE DriveEvent(t)
  BY <1>6 DEF DriveEvent, TypeInv, TypeOK, LockTypes, RegisterTypes, AlarmTypes, ThreadTypes,
       MemoryTypes, HistoryTypes, DeviceHasWork, Signalled, cdvdman_cb_event
<1>7. CASE SearchTake(t)
  BY <1>7 DEF SearchTake, TypeInv, TypeOK, LockTypes, RegisterTypes, AlarmTypes, ThreadTypes,
       MemoryTypes, HistoryTypes, DeviceHasWork
<1>8. CASE SearchParse(t)
  BY <1>8 DEF SearchParse, TypeInv, TypeOK, LockTypes, RegisterTypes, AlarmTypes, ThreadTypes,
       MemoryTypes, HistoryTypes, DeviceHasWork
<1>9. CASE SearchEnd(t)
  BY <1>9 DEF SearchEnd, TypeInv, TypeOK, LockTypes, RegisterTypes, AlarmTypes, ThreadTypes,
       MemoryTypes, HistoryTypes, DeviceHasWork, Signalled, cdvdman_cb_event
<1>10. CASE SearchRead(t)
  <2>1. CASE \E l \in DirSectors : ReadLock(t, DirRequest(l))
    <3>1. PICK l \in DirSectors : ReadLock(t, DirRequest(l)) BY <2>1
    <3>2. DirRequest(l) \in Request BY RequestAssumption DEF DirRequest, Request
    <3> QED BY <1>10, <3>1, <3>2, ReadLockTyped DEF SearchRead
  <2>2. CASE sync_flag = 1 /\ Goto(t, "sfend") /\ UNCHANGED <<sync_flag, intr_ef, cdread, arg,
       rd, hist>>
    BY <1>10, <2>2 DEF SearchRead, TypeInv, TypeOK, LockTypes, RegisterTypes, AlarmTypes,
         ThreadTypes, MemoryTypes, HistoryTypes, DeviceHasWork
  <2> QED BY <1>10, <2>1, <2>2 DEF SearchRead
<1> QED BY <1>1, <1>2, <1>3, <1>4, <1>5, <1>6, <1>7, <1>8, <1>9, <1>10 DEF ThreadStep

\* ... and every call a client may start.
LEMMA ThreadCallTyped ==
  ASSUME TypeInv, NEW t \in Threads, ThreadCall(t)
  PROVE  TypeInv'
<1>a. LockTypes /\ RegisterTypes /\ AlarmTypes /\ ThreadTypes /\ MemoryTypes /\ HistoryTypes /\ DeviceHasWork
  BY DEF TypeInv, TypeOK
<1> USE DEF locks, regs, cbs, hist, At, Goto, R
<1>1. CASE sceCdRead(t)
  BY <1>1, ReadLockTyped, RequestAssumption DEF sceCdRead
<1>2. CASE sceCdSync(t)
  BY <1>2 DEF sceCdSync, TypeInv, TypeOK, LockTypes, RegisterTypes, AlarmTypes, ThreadTypes,
       MemoryTypes, HistoryTypes, DeviceHasWork
<1>3. CASE sceCdDiskReady(t)
  BY <1>3 DEF sceCdDiskReady, TypeInv, TypeOK, LockTypes, RegisterTypes, AlarmTypes, ThreadTypes,
       MemoryTypes, HistoryTypes, DeviceHasWork
<1>4. CASE sceCdCallback(t)
  BY <1>4 DEF sceCdCallback, TypeInv, TypeOK, LockTypes, RegisterTypes, AlarmTypes, ThreadTypes,
       MemoryTypes, HistoryTypes, DeviceHasWork
<1>5. CASE SearchCall(t)
  BY <1>5 DEF SearchCall, TypeInv, TypeOK, LockTypes, RegisterTypes, AlarmTypes, ThreadTypes,
       MemoryTypes, HistoryTypes, DeviceHasWork
<1>6. ASSUME NEW c \in DriveCommands, DriveCommand(t, c) PROVE TypeInv'
  BY <1>6 DEF DriveCommand, TypeInv, TypeOK, LockTypes, RegisterTypes, AlarmTypes, ThreadTypes,
       MemoryTypes, HistoryTypes, DeviceHasWork
<1>7. ASSUME NEW c \in {"GetToc", "SetError"}, SetError(t, c) PROVE TypeInv'
  BY <1>7 DEF SetError, TypeInv, TypeOK, LockTypes, RegisterTypes, AlarmTypes, ThreadTypes,
       MemoryTypes, HistoryTypes, DeviceHasWork
<1> QED BY <1>1, <1>2, <1>3, <1>4, <1>5, <1>6, <1>7 DEF ThreadCall

\* The type invariant is inductive.
LEMMA TypeStep == TypeInv /\ [Next]_vars => TypeInv'
<1> SUFFICES ASSUME TypeInv, [Next]_vars PROVE TypeInv'
  OBVIOUS
<1>a. LockTypes /\ RegisterTypes /\ AlarmTypes /\ ThreadTypes /\ MemoryTypes /\ HistoryTypes /\ DeviceHasWork
  BY DEF TypeInv, TypeOK
<1> USE DEF locks, regs, cbs, hist, At, Goto
<1>1. ASSUME NEW t \in Threads, ThreadStep(t) \/ ThreadCall(t) PROVE TypeInv'
  BY <1>1, ThreadStepTyped, ThreadCallTyped
<1>2. CASE cdread_Take
  <2>1. ThreadTypes' BY <1>a, <1>2, ReadOfTyped DEF cdread_Take, ThreadTypes, LockTypes
  <2>2. DeviceHasWork' BY <1>a, <1>2 DEF cdread_Take, ThreadTypes, DeviceHasWork
  <2> QED BY <1>a, <1>2, <2>1, <2>2 DEF cdread_Take, TypeInv, TypeOK, LockTypes, RegisterTypes,
       AlarmTypes, MemoryTypes, HistoryTypes
<1>3. CASE Executes(RThread)
  BY <1>3, ExecutesTyped
<1>4. CASE cdread_Notify
  BY <1>4 DEF cdread_Notify, TypeInv, TypeOK, LockTypes, RegisterTypes, AlarmTypes, ThreadTypes,
       MemoryTypes, HistoryTypes, DeviceHasWork, cdvdman_cb_event
<1>5. CASE AccuAlarm
  <2>1. AlarmTypes' BY <1>a, <1>5 DEF AccuAlarm, AlarmTypes
  <2> QED BY <1>a, <1>5, <2>1 DEF AccuAlarm, TypeInv, TypeOK, LockTypes, RegisterTypes,
       ThreadTypes, MemoryTypes, HistoryTypes, DeviceHasWork
<1>6. CASE event_alarm_cb
  <2>1. LockTypes'
    <3>1. CASE UNCHANGED <<locks, hist>> BY <1>a, <3>1 DEF LockTypes
    <3>2. ASSUME NEW r \in IntrRequests, AsyncReadIntr(r), UNCHANGED searchfilesema PROVE LockTypes'
      BY <1>a, <3>2, RequestAssumption DEF LockTypes, AsyncReadIntr, cdvdman_common_lock, Signalled
    <3> QED BY <1>6, <3>1, <3>2 DEF event_alarm_cb
  <2>2. AlarmTypes' BY <1>a, <1>6 DEF event_alarm_cb, AlarmTypes
  <2>3. HistoryTypes' BY <1>a, <1>6 DEF event_alarm_cb, HistoryTypes, AsyncReadIntr,
       cdvdman_common_lock
  <2> QED BY <1>a, <1>6, <2>1, <2>2, <2>3 DEF event_alarm_cb, TypeInv, TypeOK, RegisterTypes,
       ThreadTypes, MemoryTypes, DeviceHasWork
<1>7. CASE UNCHANGED vars
  BY <1>a, <1>7 DEF vars, TypeInv, TypeOK, LockTypes, RegisterTypes, AlarmTypes, ThreadTypes,
       MemoryTypes, HistoryTypes, DeviceHasWork
<1> QED BY <1>1, <1>2, <1>3, <1>4, <1>5, <1>6, <1>7 DEF Next, RThreadStep

\* Type correctness of the read path of cdvdman.c.
THEOREM TypeCorrect == Spec => []TypeOK
<1>1. Init => TypeInv BY TypeInit
<1>2. TypeInv => TypeOK BY DEF TypeInv
<1> QED BY <1>1, <1>2, TypeStep, PTL DEF Spec

-----------------------------------------------------------------------------

\* A caller between its critical section and its SignalSema owns the drive,
\* and a read that is not over is the owner's.
SignalOwned == \A t \in Threads : pc[t] = "signal" => owner = t
PendingOwned == \A t \in Threads : outcome[t] = "pending" => sync_flag = 1 /\ owner = t

\* The inductive invariant of the drive lock.
LockInv == OneOwner /\ RequestKept /\ IdleIsSignalled /\ SignalOwned /\ PendingOwned

\* A step that neither takes nor gives back the drive.
Quiet ==
  /\ UNCHANGED <<sync_flag, rthread_sema, cdread, arg, owner>>
  /\ 1 \in intr_ef => 1 \in intr_ef'
  /\ \A t \in Threads : outcome'[t] = "pending" => outcome[t] = "pending"
  /\ \A a \in Actors :
       /\ pc'[a] = "signal" <=> pc[a] = "signal"
       /\ pc'[a] \in Reading <=> pc[a] \in Reading
       /\ pc[a] = "setevent" => pc'[a] = "setevent" \/ 1 \in intr_ef'
       /\ rd'[a].req = rd[a].req

\* A step that leaves the lock alone keeps the invariant.
LEMMA QuietKeepsLockInv ==
  ASSUME TypeInv, LockInv, Quiet
  PROVE  LockInv'
<1> USE DEF LockInv, Quiet
<1>1. OneOwner' BY DEF OneOwner, Holds
<1>2. RequestKept' BY DEF RequestKept
<1>3. IdleIsSignalled' BY DEF IdleIsSignalled
<1>4. SignalOwned' BY DEF SignalOwned
<1>5. PendingOwned' BY DEF PendingOwned
<1> QED BY <1>1, <1>2, <1>3, <1>4, <1>5

\* Inside cdvdman_read, only sync_flag = 0 touches the lock.
LEMMA ExecutesQuiet ==
  ASSUME TypeInv, NEW a \in Actors, Executes(a), ~ReleaseDrive(a)
  PROVE  Quiet
<1> USE DEF locks, hist, At, Goto, R, Quiet
<1>a. ThreadTypes /\ LockTypes BY DEF TypeInv, TypeOK
<1>1. CASE ReadBegin(a) BY <1>1, <1>a DEF ReadBegin, ThreadTypes, ReadLocals
<1>2. CASE BounceTake(a) BY <1>2, <1>a DEF BounceTake, ThreadTypes
<1>3. CASE BounceChunk(a) BY <1>3, <1>a DEF BounceChunk, ThreadTypes, ReadLocals
<1>4. CASE SectorsBegin(a) BY <1>4, <1>a DEF SectorsBegin, ThreadTypes
<1>5. CASE SectorsLoop(a) BY <1>5, <1>a DEF SectorsLoop, ThreadTypes, ReadLocals
<1>6. CASE DeviceReadSectors(a) BY <1>6, <1>a DEF DeviceReadSectors, ThreadTypes, ReadLocals
<1>7. CASE DeviceError(a) BY <1>7, <1>a DEF DeviceError, ThreadTypes, ReadLocals
<1>8. CASE AccuWait(a) BY <1>8, <1>a DEF AccuWait, ThreadTypes
<1>9. CASE SectorsEnd(a) BY <1>9, <1>a DEF SectorsEnd, ThreadTypes, ReadLocals
<1>10. CASE ReadEnd(a) BY <1>10, <1>a DEF ReadEnd, ThreadTypes
<1>11. CASE SetDoneEvent(a) BY <1>11, <1>a DEF SetDoneEvent, ThreadTypes, LockTypes
<1> QED BY <1>1, <1>2, <1>3, <1>4, <1>5, <1>6, <1>7, <1>8, <1>9, <1>10, <1>11 DEF Executes

\* A client's other steps inside a call leave it alone ...
LEMMA ThreadStepQuiet ==
  ASSUME TypeInv, NEW t \in Threads, ThreadStep(t), ~Executes(t), ~AsyncReadSignal(t),
         ~SearchRead(t)
  PROVE  Quiet
<1> USE DEF locks, hist, At, Goto, Quiet
<1>a. ThreadTypes /\ HistoryTypes BY DEF TypeInv, TypeOK
<1>1. CASE SyncReadEvent(t) BY <1>1, <1>a DEF SyncReadEvent, ThreadTypes
<1>2. CASE SyncTest(t) BY <1>2, <1>a DEF SyncTest, ThreadTypes
<1>3. CASE SyncWake(t) BY <1>3, <1>a DEF SyncWake, ThreadTypes
<1>4. CASE DriveEvent(t) BY <1>4, <1>a DEF DriveEvent, ThreadTypes
<1>5. CASE SearchTake(t) BY <1>5, <1>a DEF SearchTake, ThreadTypes
<1>6. CASE SearchParse(t) BY <1>6, <1>a DEF SearchParse, ThreadTypes
<1>7. CASE SearchEnd(t) BY <1>7, <1>a DEF SearchEnd, ThreadTypes, HistoryTypes
<1> QED BY <1>1, <1>2, <1>3, <1>4, <1>5, <1>6, <1>7 DEF ThreadStep

\* ... and so does every call but sceCdRead.
LEMMA ThreadCallQuiet ==
  ASSUME TypeInv, NEW t \in Threads, ThreadCall(t), ~sceCdRead(t)
  PROVE  Quiet
<1> USE DEF locks, hist, At, Goto, Quiet
<1>a. ThreadTypes BY DEF TypeInv, TypeOK
<1>1. CASE sceCdSync(t) BY <1>1, <1>a DEF sceCdSync, ThreadTypes
<1>2. CASE sceCdDiskReady(t) BY <1>2, <1>a DEF sceCdDiskReady, ThreadTypes
<1>3. CASE sceCdCallback(t) BY <1>3, <1>a DEF sceCdCallback, ThreadTypes
<1>4. CASE SearchCall(t) BY <1>4, <1>a DEF SearchCall, ThreadTypes
<1>5. ASSUME NEW c \in DriveCommands, DriveCommand(t, c) PROVE Quiet
  BY <1>5, <1>a DEF DriveCommand, ThreadTypes
<1>6. ASSUME NEW c \in {"GetToc", "SetError"}, SetError(t, c) PROVE Quiet
  BY <1>6, <1>a DEF SetError, ThreadTypes
<1> QED BY <1>1, <1>2, <1>3, <1>4, <1>5, <1>6 DEF ThreadCall

\* cdvdman_common_lock succeeds only when nobody holds the drive.
LEMMA ReadLockKeepsLockInv ==
  ASSUME TypeInv, LockInv, NEW t \in Threads, NEW r \in Request, ReadLock(t, r),
         pc[t] \in {"ready", "sfread"}, UNCHANGED rthread_sema
  PROVE  LockInv'
<1>a. ThreadTypes /\ LockTypes /\ HistoryTypes BY DEF TypeInv, TypeOK
<1>b. sync_flag = 0 /\ sync_flag' = 1 /\ owner' = t /\ t # RThread
  BY ActorAssumption DEF ReadLock, SyncReadLock, AsyncReadLock, cdvdman_common_lock
<1>c. rthread_sema = 0 /\ \A a \in Actors : ~Holds(a)
  BY <1>a, <1>b DEF LockInv, OneOwner, LockTypes
<1>d. \A a \in Actors : pc'[a] = IF a # t THEN pc[a] ELSE IF alt_read THEN "read" ELSE "signal"
  BY <1>a DEF ThreadTypes, ReadLock, SyncReadLock, AsyncReadLock, Goto
<1>1. OneOwner'
  BY <1>a, <1>b, <1>c, <1>d DEF OneOwner, Holds
<1>2. RequestKept'
  <2>1. ~alt_read => cdread' = r /\ arg'[t] = r BY <1>a DEF ReadLock, AsyncReadLock, ThreadTypes
  <2> QED BY <1>b, <1>c, <1>d, <2>1 DEF RequestKept, Holds
<1>3. IdleIsSignalled' BY <1>b DEF IdleIsSignalled
<1>4. SignalOwned' BY <1>b, <1>c, <1>d DEF SignalOwned, Holds
<1>5. PendingOwned'
  BY <1>a, <1>b DEF LockInv, PendingOwned, ReadLock, SyncReadLock, AsyncReadLock,
       cdvdman_common_lock
<1> QED BY <1>1, <1>2, <1>3, <1>4, <1>5 DEF LockInv

\* sync_flag = 0 is executed by the one holder, before SetEventFlag.
LEMMA ReleaseKeepsLockInv ==
  ASSUME TypeInv, LockInv, NEW a \in Actors, ReleaseDrive(a)
  PROVE  LockInv'
<1>a. ThreadTypes /\ LockTypes /\ HistoryTypes BY DEF TypeInv, TypeOK
<1>b. pc[a] = "release" /\ sync_flag' = 0 /\ owner' = NoOwner
  BY DEF ReleaseDrive, At
<1>c. rthread_sema = 0 /\ \A b \in Actors : Holds(b) => b = a
  BY <1>a, <1>b DEF LockInv, OneOwner, LockTypes, Holds
<1>d. \A b \in Actors : pc'[b] = IF b # a THEN pc[b] ELSE "setevent"
  BY <1>a DEF ThreadTypes, ReleaseDrive, Goto
<1>e. rthread_sema' = rthread_sema /\ \A b \in Actors : b # a => rd'[b] = rd[b]
  BY <1>a DEF ReleaseDrive, ThreadTypes
<1>1. OneOwner' BY <1>b, <1>c, <1>d, <1>e DEF OneOwner, Holds
<1>2. RequestKept' BY <1>c, <1>d, <1>e DEF RequestKept, Holds
<1>3. IdleIsSignalled' BY <1>d DEF IdleIsSignalled
<1>4. SignalOwned' BY <1>c, <1>d, <1>b DEF SignalOwned, Holds
<1>5. PendingOwned' BY <1>a DEF LockInv, PendingOwned, ReleaseDrive, HistoryTypes
<1> QED BY <1>1, <1>2, <1>3, <1>4, <1>5 DEF LockInv

\* SignalSema passes the drive and the request block to the read thread.
LEMMA SignalKeepsLockInv ==
  ASSUME TypeInv, LockInv, NEW t \in Threads, AsyncReadSignal(t)
  PROVE  LockInv'
<1>a. ThreadTypes /\ LockTypes BY DEF TypeInv, TypeOK
<1>b. /\ pc[t] = "signal" /\ rthread_sema' = Signalled(rthread_sema)
      /\ UNCHANGED <<sync_flag, intr_ef, cdread, arg, rd, owner, outcome>>
  BY DEF AsyncReadSignal, At, hist
<1>c. rthread_sema = 0 /\ \A b \in Actors : Holds(b) => b = t
  BY <1>a, <1>b DEF LockInv, OneOwner, LockTypes, Holds
<1>d. \A b \in Actors : pc'[b] = IF b # t THEN pc[b] ELSE IF t \in searching THEN "syncwait" ELSE "ready"
  BY <1>a DEF ThreadTypes, AsyncReadSignal, Goto
<1>e. sync_flag = 1 /\ rthread_sema' = 1
  BY <1>b, <1>c DEF LockInv, OneOwner, Holds, Signalled
<1>1. OneOwner' BY <1>b, <1>c, <1>d, <1>e DEF OneOwner, Holds
<1>2. RequestKept'
  BY <1>b, <1>c, <1>d, ActorAssumption DEF LockInv, RequestKept, SignalOwned, Holds
<1>3. IdleIsSignalled' BY <1>b, <1>e DEF IdleIsSignalled
<1>4. SignalOwned' BY <1>b, <1>d DEF LockInv, SignalOwned
<1>5. PendingOwned' BY <1>b DEF LockInv, PendingOwned
<1> QED BY <1>1, <1>2, <1>3, <1>4, <1>5 DEF LockInv

\* The read thread's WaitSema takes both over.
LEMMA TakeKeepsLockInv ==
  ASSUME TypeInv, LockInv, cdread_Take
  PROVE  LockInv'
<1>a. ThreadTypes /\ LockTypes BY DEF TypeInv, TypeOK
<1>b. /\ rthread_sema = 1 /\ rthread_sema' = 0 /\ sync_flag = 1
      /\ UNCHANGED <<sync_flag, intr_ef, cdread, arg, owner, outcome>>
  BY DEF cdread_Take, LockInv, OneOwner, hist
<1>c. \A b \in Actors : ~Holds(b) BY <1>b DEF LockInv, OneOwner
<1>d. \A b \in Actors : pc'[b] = IF b # RThread THEN pc[b] ELSE "read"
  BY <1>a DEF ThreadTypes, cdread_Take, Goto
<1>1. OneOwner' BY <1>b, <1>c, <1>d DEF OneOwner, Holds
<1>2. RequestKept'
  <2>1. rd'[RThread].req = cdread BY <1>a DEF cdread_Take, ThreadTypes, IdleRead
  <2> QED BY <1>b, <1>c, <1>d, <2>1, ActorAssumption DEF RequestKept, Holds
<1>3. IdleIsSignalled' BY <1>b DEF IdleIsSignalled
<1>4. SignalOwned' BY <1>b, <1>d, ActorAssumption DEF LockInv, SignalOwned
<1>5. PendingOwned' BY <1>b DEF LockInv, PendingOwned
<1> QED BY <1>1, <1>2, <1>3, <1>4, <1>5 DEF LockInv

\* A read that the user callback asks for takes the lock the same way.
LEMMA IntrReadKeepsLockInv ==
  ASSUME TypeInv, LockInv, NEW r \in IntrRequests, AsyncReadIntr(r), UNCHANGED <<pc, rd, arg>>
  PROVE  LockInv'
<1>a. ThreadTypes /\ LockTypes /\ HistoryTypes BY DEF TypeInv, TypeOK
<1>b. sync_flag = 0 /\ sync_flag' = 1 /\ owner' = Intr
  BY DEF AsyncReadIntr, cdvdman_common_lock
<1>c. rthread_sema = 0 /\ \A b \in Actors : ~Holds(b)
  BY <1>a, <1>b DEF LockInv, OneOwner, LockTypes
<1>d. rthread_sema' = 1 BY <1>c DEF AsyncReadIntr, Signalled
<1>1. OneOwner' BY <1>b, <1>c, <1>d DEF OneOwner, Holds
<1>2. RequestKept' BY <1>b, <1>c, ActorAssumption DEF RequestKept, Holds
<1>3. IdleIsSignalled' BY <1>b DEF IdleIsSignalled
<1>4. SignalOwned' BY <1>c DEF SignalOwned, Holds
<1>5. PendingOwned'
  BY <1>a, <1>b, ActorAssumption DEF LockInv, PendingOwned, AsyncReadIntr, cdvdman_common_lock
<1> QED BY <1>1, <1>2, <1>3, <1>4, <1>5 DEF LockInv

\* The lock starts free and signalled.
LEMMA LockInit == Init => LockInv
<1> SUFFICES ASSUME Init PROVE LockInv OBVIOUS
<1>1. OneOwner BY DEF Init, OneOwner, Holds
<1>2. RequestKept BY DEF Init, RequestKept
<1>3. IdleIsSignalled BY DEF Init, IdleIsSignalled
<1>4. SignalOwned /\ PendingOwned BY ActorAssumption DEF Init, SignalOwned, PendingOwned
<1> QED BY <1>1, <1>2, <1>3, <1>4 DEF LockInv

\* The lock invariant is inductive, given the types.
LEMMA LockStep == TypeInv /\ LockInv /\ [Next]_vars => LockInv'
<1> SUFFICES ASSUME TypeInv, LockInv, [Next]_vars PROVE LockInv'
  OBVIOUS
<1>a. ThreadTypes BY DEF TypeInv, TypeOK
<1>1. ASSUME NEW a \in Actors, Executes(a) PROVE LockInv'
  BY <1>1, ExecutesQuiet, QuietKeepsLockInv, ReleaseKeepsLockInv
<1>2. ASSUME NEW t \in Threads, SearchRead(t) PROVE LockInv'
  <2>1. ASSUME NEW l \in DirSectors, ReadLock(t, DirRequest(l)) PROVE LockInv'
    <3>1. DirRequest(l) \in Request BY RequestAssumption DEF DirRequest, Request
    <3> QED BY <1>2, <2>1, <3>1, ReadLockKeepsLockInv DEF SearchRead, At
  <2>2. CASE sync_flag = 1 /\ Goto(t, "sfend") /\ UNCHANGED <<sync_flag, intr_ef, cdread, arg,
       rd, hist>>
    <3>1. Quiet BY <1>2, <1>a, <2>2 DEF SearchRead, At, Goto, hist, Quiet, ThreadTypes
    <3> QED BY <3>1, QuietKeepsLockInv
  <2> QED BY <1>2, <2>1, <2>2 DEF SearchRead
<1>3. ASSUME NEW t \in Threads, ThreadStep(t) PROVE LockInv'
  BY <1>1, <1>2, <1>3, SignalKeepsLockInv, ThreadStepQuiet, QuietKeepsLockInv
<1>4. ASSUME NEW t \in Threads, ThreadCall(t) PROVE LockInv'
  <2>1. CASE sceCdRead(t)
    BY <2>1, ReadLockKeepsLockInv, RequestAssumption DEF sceCdRead, At
  <2> QED BY <1>4, <2>1, ThreadCallQuiet, QuietKeepsLockInv
<1>5. CASE cdread_Take BY <1>5, TakeKeepsLockInv
<1>6. CASE cdread_Notify
  <2>1. Quiet BY <1>6, <1>a DEF cdread_Notify, At, Goto, locks, hist, Quiet, ThreadTypes
  <2> QED BY <2>1, QuietKeepsLockInv
<1>7. CASE AccuAlarm
  <2>1. Quiet BY <1>7, <1>a DEF AccuAlarm, hist, Quiet, ThreadTypes
  <2> QED BY <2>1, QuietKeepsLockInv
<1>8. CASE event_alarm_cb
  <2>1. CASE UNCHANGED <<locks, hist>>
    <3>1. Quiet BY <1>8, <2>1 DEF event_alarm_cb, locks, hist, Quiet
    <3> QED BY <3>1, QuietKeepsLockInv
  <2> QED BY <1>8, <2>1, IntrReadKeepsLockInv DEF event_alarm_cb
<1>9. CASE UNCHANGED vars
  <2>1. Quiet BY <1>9 DEF vars, locks, hist, Quiet
  <2> QED BY <2>1, QuietKeepsLockInv
<1> QED BY <1>1, <1>3, <1>4, <1>5, <1>6, <1>7, <1>8, <1>9 DEF Next, RThreadStep

\* Types and lock invariant hold in every reachable state.
LEMMA Invariants == Spec => [](TypeInv /\ LockInv)
  BY TypeInit, TypeStep, LockInit, LockStep, PTL DEF Spec

\* At most one read is between cdvdman_common_lock and sync_flag = 0, and
\* sync_flag says exactly whether there is one, for any number of threads.
THEOREM DriveHasOneOwner == Spec => []OneOwner
<1>1. TypeInv /\ LockInv => OneOwner BY DEF LockInv
<1> QED BY <1>1, Invariants, PTL

\* Nobody overwrites the request block cdread_* of an accepted read before
\* the read thread is done with it.
THEOREM RequestIsKept == Spec => []RequestKept
<1>1. TypeInv /\ LockInv => RequestKept BY DEF LockInv
<1> QED BY <1>1, Invariants, PTL

\* On an idle drive bit 1 of the event flag is set or about to be set.
THEOREM NoLostWakeup == Spec => []IdleIsSignalled
<1>1. TypeInv /\ LockInv => IdleIsSignalled BY DEF LockInv
<1> QED BY <1>1, Invariants, PTL

\* The loop of sceCdSync and sceCdDiskReady is left only on sync_flag = 0.
LEMMA WaiterLeavesIdle ==
  ASSUME TypeInv, [Next]_vars, NEW t \in Threads, pc[t] \in Waiting, pc'[t] \notin Waiting
  PROVE  sync_flag = 0
<1>a. ThreadTypes /\ LockTypes /\ t # RThread BY ActorAssumption DEF TypeInv, TypeOK
<1> USE DEF At, Goto
<1>1. ASSUME NEW a \in Actors, Executes(a) PROVE FALSE
  BY <1>1, <1>a DEF ThreadTypes, Executes, ReadBegin, BounceTake, BounceChunk, SectorsBegin,
       SectorsLoop,
     DeviceReadSectors, DeviceError, AccuWait, SectorsEnd, ReadEnd, ReleaseDrive, SetDoneEvent
<1>2. ASSUME NEW u \in Threads, ThreadStep(u), ~Executes(u) PROVE sync_flag = 0
  BY <1>2, <1>a DEF ThreadTypes, LockTypes, ThreadStep, AsyncReadSignal, SyncReadEvent, SyncTest,
       SyncWake, DriveEvent,
     SearchTake, SearchRead, SearchParse, SearchEnd, ReadLock, SyncReadLock, AsyncReadLock
<1>3. ASSUME NEW u \in Threads, ThreadCall(u) PROVE FALSE
  BY <1>3, <1>a DEF ThreadTypes, ThreadCall, sceCdRead, ReadLock, SyncReadLock, AsyncReadLock,
     sceCdSync, sceCdDiskReady, sceCdCallback, SearchCall, DriveCommand, SetError
<1>4. CASE RThreadStep
  BY <1>1, <1>4, <1>a DEF ThreadTypes, RThreadStep, cdread_Take, cdread_Notify
<1>5. CASE AccuAlarm \/ event_alarm_cb \/ UNCHANGED vars
  BY <1>5, <1>a DEF AccuAlarm, event_alarm_cb, vars
<1> QED BY <1>1, <1>2, <1>3, <1>4, <1>5 DEF Next

\* sceCdSync(0) and sceCdDiskReady(0) never return before the caller's own
\* read is over.
THEOREM SyncWaitsForItsRead == Spec => SyncReturnsAfterRead
<1>1. TypeInv /\ LockInv /\ [Next]_vars
        => [\A t \in Threads : pc[t] \in Waiting /\ pc'[t] \notin Waiting => outcome[t] # "pending"]_vars
  BY WaiterLeavesIdle DEF LockInv, PendingOwned
<1> QED BY <1>1, Invariants, PTL DEF Spec, SyncReturnsAfterRead


-----------------------------------------------------------------------------

\* From status = READ to status = PAUSE in cdvdman_read.
Active == InTransfer \cup {"bounce", "chunk", "done"}
StatusInv == status = "READ" => \E a \in Actors : pc[a] \in Active

\* What a step must do to keep StatusInv.
StatusKept ==
  \/ status' # "READ"
  \/ \E a \in Actors : pc'[a] \in Active
  \/ status' = status /\ \A a \in Actors : pc[a] \in Active => pc'[a] \in Active

\* Only ReadEnd leaves the active part of a read, and it resets status.
LEMMA StatusStep == TypeInv /\ StatusInv /\ [Next]_vars => StatusInv'
<1> SUFFICES ASSUME TypeInv, StatusInv, [Next]_vars PROVE StatusKept
  BY DEF StatusInv, StatusKept
<1>a. ThreadTypes BY DEF TypeInv, TypeOK
<1> USE DEF At, Goto, regs, Active, StatusKept
<1>1. ASSUME NEW a \in Actors, Executes(a) PROVE StatusKept
  <2>1. CASE ReadBegin(a) BY <1>a, <2>1 DEF ReadBegin, ThreadTypes
  <2>2. CASE BounceTake(a) BY <1>a, <2>2 DEF BounceTake, ThreadTypes
  <2>3. CASE BounceChunk(a) BY <1>a, <2>3 DEF BounceChunk, ThreadTypes
  <2>4. CASE SectorsBegin(a) BY <1>a, <2>4 DEF SectorsBegin, ThreadTypes
  <2>5. CASE SectorsLoop(a) BY <1>a, <2>5 DEF SectorsLoop, ThreadTypes
  <2>6. CASE DeviceReadSectors(a) BY <1>a, <2>6 DEF DeviceReadSectors, ThreadTypes
  <2>7. CASE DeviceError(a) BY <1>a, <2>7 DEF DeviceError, ThreadTypes
  <2>8. CASE AccuWait(a) BY <1>a, <2>8 DEF AccuWait, ThreadTypes
  <2>9. CASE SectorsEnd(a) BY <1>a, <2>9 DEF SectorsEnd, ThreadTypes
  <2>10. CASE ReadEnd(a) BY <1>a, <2>10 DEF ReadEnd, ThreadTypes
  <2>11. CASE ReleaseDrive(a) BY <1>a, <2>11 DEF ReleaseDrive, ThreadTypes
  <2>12. CASE SetDoneEvent(a) BY <1>a, <2>12 DEF SetDoneEvent, ThreadTypes
  <2> QED BY <1>1, <2>1, <2>2, <2>3, <2>4, <2>5, <2>6, <2>7, <2>8, <2>9, <2>10, <2>11, <2>12
     DEF Executes
<1>2. ASSUME NEW t \in Threads, ThreadStep(t), ~Executes(t) PROVE StatusKept
  BY <1>a, <1>2 DEF ThreadTypes, ThreadStep, AsyncReadSignal, SyncReadEvent, SyncTest, SyncWake,
       DriveEvent,
     SearchTake, SearchRead, SearchParse, SearchEnd, ReadLock, SyncReadLock, AsyncReadLock
<1>3. ASSUME NEW t \in Threads, ThreadCall(t) PROVE StatusKept
  BY <1>a, <1>3 DEF ThreadTypes, ThreadCall, sceCdRead, ReadLock, SyncReadLock, AsyncReadLock,
     sceCdSync, sceCdDiskReady, sceCdCallback, SearchCall, DriveCommand, SetError
<1>4. CASE cdread_Take BY <1>a, <1>4 DEF cdread_Take, ThreadTypes
<1>5. CASE cdread_Notify BY <1>a, <1>5 DEF cdread_Notify, ThreadTypes
<1>6. CASE AccuAlarm \/ event_alarm_cb \/ UNCHANGED vars
  BY <1>6 DEF AccuAlarm, event_alarm_cb, vars
<1> QED BY <1>1, <1>2, <1>3, <1>4, <1>5, <1>6 DEF Next, RThreadStep

\* cdvdman_stat.status says READ only while a read executes.
THEOREM StatusIsHonest == Spec => []StatusReadMeansBusy
<1>1. Init => StatusInv BY DEF Init, StatusInv
<1>2. StatusInv => StatusReadMeansBusy BY DEF StatusInv, Active, StatusReadMeansBusy
<1> QED BY <1>1, <1>2, TypeInit, TypeStep, StatusStep, PTL DEF Spec

-----------------------------------------------------------------------------

\* Where an actor can be, as far as cdvdman_buf is concerned: only a
\* misaligned read waits for it or chunks through it, a searcher never starts
\* anything else, and its directory read is aligned.
BouncePlace(a) ==
  /\ pc[a] \in {"bounce", "chunk"} => ~rd[a].req.aligned
  /\ a \in searching => /\ pc[a] \notin {"ready", "sfwait"} \cup DriveCommands
                        /\ pc[a] \in Reading => rd[a].req.aligned
  /\ pc[a] \in {"sfread", "parse", "sfend"} => a \in searching
BounceInv == BounceExclusive /\ \A a \in Actors : BouncePlace(a)

\* Only actor a moves.
OthersKeep(a) ==
  \A b \in Actors : b # a =>
    /\ pc'[b] = pc[b] /\ rd'[b] = rd[b]
    /\ b \in searching' <=> b \in searching

\* The three ways a step keeps the invariant: it does not change who uses the
\* buffer, takes the semaphore for a, or gives a's semaphore back.
LEMMA BounceKept ==
  ASSUME TypeInv, BounceInv, NEW a \in Actors, OthersKeep(a), BouncePlace(a)',
         \/ (UsesBounce(a)' <=> UsesBounce(a)) /\ UNCHANGED searchfilesema
         \/ searchfilesema = 1 /\ searchfilesema' = 0 /\ UsesBounce(a)'
         \/ UsesBounce(a) /\ ~UsesBounce(a)' /\ searchfilesema' = Signalled(searchfilesema)
  PROVE  BounceInv'
<1>a. searchfilesema \in {0, 1} BY DEF TypeInv, TypeOK, LockTypes
<1>1. \A b \in Actors : b # a => (UsesBounce(b)' <=> UsesBounce(b))
  BY DEF OthersKeep, UsesBounce
<1>2. BounceExclusive'
  BY <1>a, <1>1 DEF BounceInv, BounceExclusive, Signalled
<1>3. \A b \in Actors : BouncePlace(b)'
  BY DEF OthersKeep, BounceInv, BouncePlace
<1> QED BY <1>2, <1>3 DEF BounceInv

\* Every step inside cdvdman_read is one of them.
LEMMA ExecutesKeepsBounce ==
  ASSUME TypeInv, BounceInv, NEW a \in Actors, Executes(a)
  PROVE  BounceInv'
<1>a. ThreadTypes /\ BouncePlace(a) BY DEF TypeInv, TypeOK, BounceInv
<1>b. rd[a].req.aligned \in BOOLEAN BY <1>a, LocalsTyped
<1> USE DEF At, Goto, R, locks
<1>1. CASE ReadBegin(a)
  <2>1. OthersKeep(a) BY <1>a, <1>1 DEF ReadBegin, ThreadTypes, OthersKeep
  <2>2. BouncePlace(a)' BY <1>a, <1>1 DEF ReadBegin, ThreadTypes, ReadLocals, BouncePlace
  <2> QED BY <1>a, <1>b, <1>1, <2>1, <2>2, BounceKept DEF ReadBegin, ThreadTypes, ReadLocals,
       BouncePlace, UsesBounce
<1>2. CASE BounceTake(a)
  <2>1. OthersKeep(a) BY <1>a, <1>2 DEF BounceTake, ThreadTypes, OthersKeep
  <2>2. BouncePlace(a)' BY <1>a, <1>2 DEF BounceTake, ThreadTypes, BouncePlace
  <2> QED BY <1>a, <1>b, <1>2, <2>1, <2>2, BounceKept DEF BounceTake, ThreadTypes, BouncePlace,
       UsesBounce
<1>3. CASE BounceChunk(a)
  <2>1. OthersKeep(a) BY <1>a, <1>3 DEF BounceChunk, ThreadTypes, OthersKeep
  <2>2. BouncePlace(a)' BY <1>a, <1>3 DEF BounceChunk, ThreadTypes, ReadLocals, BouncePlace
  <2> QED BY <1>a, <1>b, <1>3, <2>1, <2>2, BounceKept DEF BounceChunk, ThreadTypes, ReadLocals,
       BouncePlace, UsesBounce
<1>4. CASE SectorsBegin(a)
  <2>1. OthersKeep(a) BY <1>a, <1>4 DEF SectorsBegin, ThreadTypes, OthersKeep
  <2>2. BouncePlace(a)' BY <1>a, <1>4 DEF SectorsBegin, ThreadTypes, BouncePlace
  <2> QED BY <1>a, <1>b, <1>4, <2>1, <2>2, BounceKept DEF SectorsBegin, ThreadTypes, BouncePlace,
       UsesBounce
<1>5. CASE SectorsLoop(a)
  <2>1. OthersKeep(a) BY <1>a, <1>5 DEF SectorsLoop, ThreadTypes, OthersKeep
  <2>2. BouncePlace(a)' BY <1>a, <1>5 DEF SectorsLoop, ThreadTypes, ReadLocals, BouncePlace
  <2> QED BY <1>a, <1>b, <1>5, <2>1, <2>2, BounceKept DEF SectorsLoop, ThreadTypes, ReadLocals,
       BouncePlace, UsesBounce
<1>6. CASE DeviceReadSectors(a)
  <2>1. OthersKeep(a) BY <1>a, <1>6 DEF DeviceReadSectors, ThreadTypes, OthersKeep
  <2>2. BouncePlace(a)' BY <1>a, <1>6 DEF DeviceReadSectors, ThreadTypes, ReadLocals, BouncePlace
  <2> QED BY <1>a, <1>b, <1>6, <2>1, <2>2, BounceKept DEF DeviceReadSectors, ThreadTypes,
       ReadLocals, BouncePlace, UsesBounce
<1>7. CASE DeviceError(a)
  <2>1. OthersKeep(a) BY <1>a, <1>7 DEF DeviceError, ThreadTypes, OthersKeep
  <2>2. BouncePlace(a)' BY <1>a, <1>7 DEF DeviceError, ThreadTypes, ReadLocals, BouncePlace
  <2> QED BY <1>a, <1>b, <1>7, <2>1, <2>2, BounceKept DEF DeviceError, ThreadTypes, ReadLocals,
       BouncePlace, UsesBounce
<1>8. CASE AccuWait(a)
  <2>1. OthersKeep(a) BY <1>a, <1>8 DEF AccuWait, ThreadTypes, OthersKeep
  <2>2. BouncePlace(a)' BY <1>a, <1>8 DEF AccuWait, ThreadTypes, BouncePlace
  <2> QED BY <1>a, <1>b, <1>8, <2>1, <2>2, BounceKept DEF AccuWait, ThreadTypes, BouncePlace,
       UsesBounce
<1>9. CASE SectorsEnd(a)
  <2>1. OthersKeep(a) BY <1>a, <1>9 DEF SectorsEnd, ThreadTypes, OthersKeep
  <2>2. BouncePlace(a)' BY <1>a, <1>9 DEF SectorsEnd, ThreadTypes, ReadLocals, BouncePlace
  <2> QED BY <1>a, <1>b, <1>9, <2>1, <2>2, BounceKept DEF SectorsEnd, ThreadTypes, ReadLocals,
       BouncePlace, UsesBounce
<1>10. CASE ReadEnd(a)
  <2>1. OthersKeep(a) BY <1>a, <1>10 DEF ReadEnd, ThreadTypes, OthersKeep
  <2>2. BouncePlace(a)' BY <1>a, <1>10 DEF ReadEnd, ThreadTypes, BouncePlace
  <2> QED BY <1>a, <1>b, <1>10, <2>1, <2>2, BounceKept DEF ReadEnd, ThreadTypes, BouncePlace,
       UsesBounce
<1>11. CASE ReleaseDrive(a)
  <2>1. OthersKeep(a) BY <1>a, <1>11 DEF ReleaseDrive, ThreadTypes, OthersKeep
  <2>2. BouncePlace(a)' BY <1>a, <1>11 DEF ReleaseDrive, ThreadTypes, BouncePlace
  <2> QED BY <1>a, <1>b, <1>11, <2>1, <2>2, BounceKept DEF ReleaseDrive, ThreadTypes,
       BouncePlace, UsesBounce
<1>12. CASE SetDoneEvent(a)
  <2>1. OthersKeep(a) BY <1>a, <1>12 DEF SetDoneEvent, ThreadTypes, OthersKeep
  <2>2. BouncePlace(a)' BY <1>a, <1>12 DEF SetDoneEvent, ThreadTypes, BouncePlace
  <2> QED BY <1>a, <1>b, <1>12, <2>1, <2>2, BounceKept DEF SetDoneEvent, ThreadTypes,
       BouncePlace, UsesBounce
<1> QED BY <1>1, <1>2, <1>3, <1>4, <1>5, <1>6, <1>7, <1>8, <1>9, <1>10, <1>11, <1>12 DEF Executes

\* Taking the drive does not touch the buffer.
LEMMA ReadLockKeepsBounce ==
  ASSUME TypeInv, BounceInv, NEW t \in Threads, NEW r \in Request, ReadLock(t, r),
         pc[t] = "ready" \/ (pc[t] = "sfread" /\ r.aligned),
         UNCHANGED <<searchfilesema, searching>>
  PROVE  BounceInv'
<1>a. ThreadTypes /\ BouncePlace(t) BY DEF TypeInv, TypeOK, BounceInv
<1> USE DEF ReadLock, SyncReadLock, AsyncReadLock, Goto, ThreadTypes
<1>1. OthersKeep(t) BY <1>a DEF OthersKeep
<1>2. BouncePlace(t)' BY <1>a DEF BouncePlace, IdleRead
<1> QED BY <1>a, <1>1, <1>2, BounceKept DEF BouncePlace, UsesBounce

\* A client's steps inside a call, cdvdman_findfile included.
LEMMA ThreadStepKeepsBounce ==
  ASSUME TypeInv, BounceInv, NEW t \in Threads, ThreadStep(t)
  PROVE  BounceInv'
<1>a. ThreadTypes /\ BouncePlace(t) BY DEF TypeInv, TypeOK, BounceInv
<1> USE DEF At, Goto, locks
<1>1. CASE Executes(t) BY <1>1, ExecutesKeepsBounce
<1>2. CASE SearchRead(t)
  <2>1. ASSUME NEW l \in DirSectors, ReadLock(t, DirRequest(l)) PROVE BounceInv'
    <3>1. DirRequest(l) \in Request /\ DirRequest(l).aligned BY RequestAssumption DEF DirRequest,
         Request
    <3> QED BY <1>2, <2>1, <3>1, ReadLockKeepsBounce DEF SearchRead
  <2>2. CASE sync_flag = 1 /\ Goto(t, "sfend") /\ UNCHANGED <<sync_flag, intr_ef, cdread, arg,
       rd, hist>>
    <3>1. OthersKeep(t) BY <1>a, <1>2, <2>2 DEF SearchRead, ThreadTypes, OthersKeep
    <3>2. BouncePlace(t)' BY <1>a, <1>2, <2>2 DEF SearchRead, ThreadTypes, BouncePlace
    <3> QED BY <1>a, <1>2, <2>2, <3>1, <3>2, BounceKept DEF SearchRead, ThreadTypes, BouncePlace,
         UsesBounce
  <2> QED BY <1>2, <2>1, <2>2 DEF SearchRead
<1>3. CASE AsyncReadSignal(t)
  <2>1. OthersKeep(t) BY <1>a, <1>3 DEF AsyncReadSignal, ThreadTypes, OthersKeep
  <2>2. BouncePlace(t)' BY <1>a, <1>3 DEF AsyncReadSignal, ThreadTypes, BouncePlace
  <2> QED BY <1>a, <1>3, <2>1, <2>2, BounceKept DEF AsyncReadSignal, ThreadTypes, BouncePlace,
       UsesBounce
<1>4. CASE SyncReadEvent(t)
  <2>1. OthersKeep(t) BY <1>a, <1>4 DEF SyncReadEvent, ThreadTypes, OthersKeep
  <2>2. BouncePlace(t)' BY <1>a, <1>4 DEF SyncReadEvent, ThreadTypes, BouncePlace
  <2> QED BY <1>a, <1>4, <2>1, <2>2, BounceKept DEF SyncReadEvent, ThreadTypes, BouncePlace,
       UsesBounce
<1>5. CASE SyncTest(t)
  <2>1. OthersKeep(t) BY <1>a, <1>5 DEF SyncTest, ThreadTypes, OthersKeep
  <2>2. BouncePlace(t)' BY <1>a, <1>5 DEF SyncTest, ThreadTypes, BouncePlace
  <2> QED BY <1>a, <1>5, <2>1, <2>2, BounceKept DEF SyncTest, ThreadTypes, BouncePlace, UsesBounce
<1>6. CASE SyncWake(t)
  <2>1. OthersKeep(t) BY <1>a, <1>6 DEF SyncWake, ThreadTypes, OthersKeep
  <2>2. BouncePlace(t)' BY <1>a, <1>6 DEF SyncWake, ThreadTypes, BouncePlace
  <2> QED BY <1>a, <1>6, <2>1, <2>2, BounceKept DEF SyncWake, ThreadTypes, BouncePlace, UsesBounce
<1>7. CASE DriveEvent(t)
  <2>1. OthersKeep(t) BY <1>a, <1>7 DEF DriveEvent, ThreadTypes, OthersKeep
  <2>2. BouncePlace(t)' BY <1>a, <1>7 DEF DriveEvent, ThreadTypes, BouncePlace
  <2> QED BY <1>a, <1>7, <2>1, <2>2, BounceKept DEF DriveEvent, ThreadTypes, BouncePlace, UsesBounce
<1>8. CASE SearchTake(t)
  <2>1. OthersKeep(t) BY <1>a, <1>8 DEF SearchTake, ThreadTypes, OthersKeep
  <2>2. BouncePlace(t)' BY <1>a, <1>8 DEF SearchTake, ThreadTypes, BouncePlace
  <2> QED BY <1>a, <1>8, <2>1, <2>2, BounceKept DEF SearchTake, ThreadTypes, BouncePlace, UsesBounce
<1>9. CASE SearchParse(t)
  <2>1. OthersKeep(t) BY <1>a, <1>9 DEF SearchParse, ThreadTypes, OthersKeep
  <2>2. BouncePlace(t)' BY <1>a, <1>9 DEF SearchParse, ThreadTypes, BouncePlace
  <2> QED BY <1>a, <1>9, <2>1, <2>2, BounceKept DEF SearchParse, ThreadTypes, BouncePlace,
       UsesBounce
<1>10. CASE SearchEnd(t)
  <2>1. OthersKeep(t) BY <1>a, <1>10 DEF SearchEnd, ThreadTypes, OthersKeep
  <2>2. BouncePlace(t)' BY <1>a, <1>10 DEF SearchEnd, ThreadTypes, BouncePlace
  <2> QED BY <1>a, <1>10, <2>1, <2>2, BounceKept DEF SearchEnd, ThreadTypes, BouncePlace, UsesBounce
<1> QED BY <1>1, <1>2, <1>3, <1>4, <1>5, <1>6, <1>7, <1>8, <1>9, <1>10 DEF ThreadStep

\* The calls a client may start.
LEMMA ThreadCallKeepsBounce ==
  ASSUME TypeInv, BounceInv, NEW t \in Threads, ThreadCall(t)
  PROVE  BounceInv'
<1>a. ThreadTypes /\ BouncePlace(t) BY DEF TypeInv, TypeOK, BounceInv
<1> USE DEF At, Goto, locks
<1>1. CASE sceCdRead(t)
  BY <1>1, RequestAssumption, ReadLockKeepsBounce DEF sceCdRead
<1>2. CASE ~sceCdRead(t)
  <2>1. OthersKeep(t)
    BY <1>a, <1>2 DEF ThreadCall, sceCdSync, sceCdDiskReady, sceCdCallback, SearchCall,
         DriveCommand, SetError, ThreadTypes, OthersKeep
  <2>2. BouncePlace(t)'
    BY <1>a, <1>2 DEF ThreadCall, sceCdSync, sceCdDiskReady, sceCdCallback, SearchCall,
         DriveCommand, SetError, ThreadTypes, BouncePlace
  <2> QED BY <1>a, <1>2, <2>1, <2>2, BounceKept
    DEF ThreadCall, sceCdSync, sceCdDiskReady, sceCdCallback, SearchCall, DriveCommand, SetError,
         ThreadTypes, BouncePlace, UsesBounce
<1> QED BY <1>1, <1>2

\* The bounce-buffer invariant is inductive, given the types.
LEMMA BounceStep == TypeInv /\ BounceInv /\ [Next]_vars => BounceInv'
<1> SUFFICES ASSUME TypeInv, BounceInv, [Next]_vars PROVE BounceInv'
  OBVIOUS
<1>a. ThreadTypes /\ BouncePlace(RThread) BY DEF TypeInv, TypeOK, BounceInv
<1> USE DEF At, Goto, locks
<1>1. ASSUME NEW t \in Threads, ThreadStep(t) \/ ThreadCall(t) PROVE BounceInv'
  BY <1>1, ThreadStepKeepsBounce, ThreadCallKeepsBounce
<1>2. CASE cdread_Take
  <2>1. OthersKeep(RThread) BY <1>a, <1>2 DEF cdread_Take, ThreadTypes, OthersKeep
  <2>2. RThread \notin searching BY <1>a, ActorAssumption DEF ThreadTypes
  <2>3. BouncePlace(RThread)' BY <1>a, <1>2, <2>2 DEF cdread_Take, ThreadTypes, BouncePlace
  <2> QED BY <1>a, <1>2, <2>1, <2>2, <2>3, BounceKept DEF cdread_Take, ThreadTypes, UsesBounce
<1>3. CASE Executes(RThread) BY <1>3, ExecutesKeepsBounce
<1>4. CASE cdread_Notify
  <2>1. OthersKeep(RThread) BY <1>a, <1>4 DEF cdread_Notify, ThreadTypes, OthersKeep
  <2>2. RThread \notin searching BY <1>a, ActorAssumption DEF ThreadTypes
  <2>3. BouncePlace(RThread)' BY <1>a, <1>4, <2>2 DEF cdread_Notify, ThreadTypes, BouncePlace
  <2> QED BY <1>a, <1>4, <2>1, <2>2, <2>3, BounceKept DEF cdread_Notify, ThreadTypes, UsesBounce
<1>5. CASE AccuAlarm \/ event_alarm_cb \/ UNCHANGED vars
  <2>1. UNCHANGED <<searchfilesema, searching, pc, rd>>
    BY <1>5 DEF AccuAlarm, event_alarm_cb, vars
  <2> QED BY <2>1 DEF BounceInv, BounceExclusive, BouncePlace, UsesBounce
<1> QED BY <1>1, <1>2, <1>3, <1>4, <1>5 DEF Next, RThreadStep

\* Nobody uses the buffer at the start.
LEMMA BounceInit == Init => BounceInv
<1> SUFFICES ASSUME Init PROVE BounceInv OBVIOUS
<1>1. \A a \in Actors : ~UsesBounce(a) BY DEF Init, UsesBounce
<1>2. BounceExclusive BY <1>1 DEF Init, BounceExclusive
<1>3. \A a \in Actors : BouncePlace(a) BY DEF Init, BouncePlace
<1> QED BY <1>2, <1>3 DEF BounceInv

\* cdvdman_searchfilesema really protects cdvdman_buf: one searcher or one
\* misaligned read at a time, and the semaphore is never leaked or over-signalled.
THEOREM BounceBufferIsExclusive == Spec => []BounceExclusive
<1>1. BounceInv => BounceExclusive BY DEF BounceInv
<1> QED BY <1>1, BounceInit, TypeInit, TypeStep, BounceStep, PTL DEF Spec

=============================================================================
