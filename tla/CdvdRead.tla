------------------------------ MODULE CdvdRead ------------------------------
(***************************************************************************)
(* The read path of cdvdman.c: the one-at-a-time drive lock (sync_flag),   *)
(* the read thread, the event flag and semaphores the callers meet on, the *)
(* error/status registers, the bounce buffer for misaligned destinations   *)
(* and the user callback.                                                  *)
(*                                                                         *)
(* Actors are the client threads, the read thread and interrupt context.   *)
(* A critical section (CpuSuspendIntr .. CpuResumeIntr) is one step;       *)
(* everywhere else a step is what runs between two accesses to state that  *)
(* another actor can see.  Sector contents are abstracted to the logical   *)
(* sector number they were read from; sector n of the model stands for     *)
(* sector 13 + n of the disc, as the PS2LOGO sectors below 13 are also     *)
(* decrypted, which is not modelled.                                       *)
(***************************************************************************)
EXTENDS Integers, FiniteSets

CONSTANTS
  Threads,          \* client threads: game threads and CDVDFSV's RPC threads
  RThread,          \* cdvdman_cdread_Thread
  Intr,             \* interrupt context (alarm handlers), as an owner of the drive
  NoOwner,
  Prio,             \* IOP thread priorities: a smaller number is more urgent
  Buffers,          \* destination buffers of the clients
  Bounce,           \* cdvdman_buf
  BufSectors,       \* size of a buffer in the model, in sectors
  BounceSectors,    \* CDVDMAN_BUF_SECTORS
  AccuMax,          \* sectors per transfer under IOPCORE_COMPAT_ACCU_READS
  Requests(_),      \* the reads a thread may ask for
  IntrRequests,     \* the reads the user callback may ask for
  DirSectors,       \* directory sectors cdvdman_locatefile may have to read
  Commands,         \* the other calls the clients make
  AltReads,         \* the settings of IOPCORE_COMPAT_ALT_READ to consider
  AccuReads,        \* IOPCORE_COMPAT_ACCU_READS
  DeviceFails       \* whether DeviceReadSectors may report an error

Actors == Threads \cup {RThread}
AllBuffers == Buffers \cup {Bounce}
Slots == 0 .. BufSectors - 1

\* What the Nat/Int fields hold for a sector nobody has written.
NoData == -1

Request == [lsn: Nat, sectors: Nat, buf: AllBuffers, off: Nat, aligned: BOOLEAN]
Fits(r) == r.off + r.sectors <= BufSectors

DriveCommands == {"Seek", "Standby", "Pause", "Stop", "Break"}
CommandNames == DriveCommands \cup {"GetToc", "DiskReady", "SetError", "Search", "Callback"}

ASSUME ActorAssumption ==
  /\ RThread \notin Threads
  /\ Intr \notin Actors
  /\ NoOwner \notin Actors \cup {Intr}
  /\ Prio \in [Actors -> Nat]
ASSUME SizeAssumption ==
  /\ BufSectors \in Nat
  /\ BounceSectors \in Nat \ {0}
  /\ BounceSectors <= BufSectors
  /\ AccuMax \in Nat \ {0}
  /\ Bounce \notin Buffers
ASSUME RequestAssumption ==
  /\ \A t \in Threads : Requests(t) \subseteq {r \in Request : Fits(r) /\ r.buf \in Buffers}
  /\ IntrRequests \subseteq {r \in Request : Fits(r) /\ r.buf \in Buffers}
  /\ DirSectors \subseteq Nat
ASSUME FlagAssumption ==
  /\ Commands \subseteq CommandNames
  /\ AltReads \subseteq BOOLEAN /\ AccuReads \in BOOLEAN /\ DeviceFails \in BOOLEAN

VARIABLES
  sync_flag,        \* 1 while a read is accepted and not finished
  intr_ef,          \* the bits of cdvdman_stat.intr_ef that are set
  rthread_sema,     \* cdrom_rthread_sema, at most 1
  searchfilesema,   \* cdvdman_searchfilesema, at most 1
  cdread,           \* cdvdman_stat.cdread_lba, cdread_sectors, cdread_buf
  err, status,      \* cdvdman_stat.err, cdvdman_stat.status
  ReadPos,          \* what sceCdGetReadPos reports, in bytes
  user_cb,          \* whether a user callback is registered
  cb_data,          \* reason in the static cb_data of cdvdman_cb_event
  cb_alarm,         \* event_alarm_cb is pending
  alt_read,         \* whether IOPCORE_COMPAT_ALT_READ is set; never changes
  accu_alarm,       \* cdvdemu_read_end_cb is pending
  Stm0Callback,     \* whether the streaming callback is installed
  mem,              \* contents of the buffers
  pc,               \* where each actor is
  arg,              \* the arguments of each client's last accepted sceCdRead
  searching,        \* clients inside cdvdman_findfile
  rd,               \* locals of cdvdman_read and cdvdman_read_sectors
  owner,            \* history: whose read holds the drive
  outcome           \* history: how each client's last accepted read went

locks == <<sync_flag, intr_ef, rthread_sema, searchfilesema, cdread>>
regs  == <<err, status, ReadPos>>
cbs   == <<user_cb, cb_data, cb_alarm, alt_read>>
hist  == <<owner, outcome>>
vars  == <<locks, regs, cbs, accu_alarm, Stm0Callback, mem, pc, arg, searching, rd, hist>>

NullRequest == [lsn |-> 0, sectors |-> 0, buf |-> Bounce, off |-> 0, aligned |-> TRUE]
ReadLocals == [req: Request, base: Nat, len: Nat, pos: Nat, short: BOOLEAN]
IdleRead == [req |-> NullRequest, base |-> 0, len |-> 0, pos |-> 0, short |-> FALSE]

\* Program points inside cdvdman_read, from its first statement to the
\* statement before sync_flag = 0.
InTransfer == {"sectors", "loop", "device", "pace", "endsectors"}
Reading == InTransfer \cup {"read", "bounce", "chunk", "done", "event", "release"}
Waiting == {"syncwait", "waitef"}
PCs == Reading \cup Waiting \cup DriveCommands \cup
       {"ready", "signal", "setevent", "notify", "wait",
        "sfwait", "sfread", "parse", "sfend"}

LockTypes ==
  /\ sync_flag \in {0, 1}
  /\ intr_ef \in SUBSET {1, 8, 4096}
  /\ rthread_sema \in {0, 1}
  /\ searchfilesema \in {0, 1}
  /\ cdread \in Request
RegisterTypes ==
  /\ err \in {"NO", "READ", "ABRT", "READCF"}
  /\ status \in {"READ", "PAUSE", "STOP"}
  /\ ReadPos \in Nat
AlarmTypes ==
  /\ user_cb \in BOOLEAN /\ cb_alarm \in BOOLEAN /\ alt_read \in BOOLEAN
  /\ cb_data \in DriveCommands \cup {"Read"}
  /\ accu_alarm \in BOOLEAN /\ Stm0Callback \in BOOLEAN
ThreadTypes ==
  /\ pc \in [Actors -> PCs]
  /\ arg \in [Threads -> Request]
  /\ searching \in SUBSET Threads
  /\ rd \in [Actors -> ReadLocals]
MemoryTypes == mem \in [AllBuffers -> [Slots -> Int]]
HistoryTypes ==
  /\ owner \in Actors \cup {Intr, NoOwner}
  /\ outcome \in [Threads -> {"none", "pending", "ok", "short"}]

TypeOK ==
  /\ LockTypes /\ RegisterTypes /\ AlarmTypes
  /\ ThreadTypes /\ MemoryTypes /\ HistoryTypes

\* The state _start leaves, with the file system initialised.
Init ==
  /\ sync_flag = 0
  /\ intr_ef = {1}
  /\ rthread_sema = 0
  /\ searchfilesema = 1
  /\ cdread = NullRequest
  /\ err = "NO" /\ status = "PAUSE" /\ ReadPos = 0
  /\ user_cb = FALSE /\ cb_data = "Read" /\ cb_alarm = FALSE
  /\ alt_read \in AltReads
  /\ accu_alarm = FALSE /\ Stm0Callback = FALSE
  /\ mem = [b \in AllBuffers |-> [i \in Slots |-> NoData]]
  /\ pc = [a \in Actors |-> IF a = RThread THEN "wait" ELSE "ready"]
  /\ arg = [t \in Threads |-> NullRequest]
  /\ searching = {}
  /\ rd = [a \in Actors |-> IdleRead]
  /\ owner = NoOwner
  /\ outcome = [t \in Threads |-> "none"]

-----------------------------------------------------------------------------
(***************************************************************************)
(* Scheduling.  The IOP kernel runs the most urgent thread that is not     *)
(* blocked; threads of equal priority interleave freely here.              *)
(***************************************************************************)
Blocked(a) ==
  \/ pc[a] = "ready"                      \* busy elsewhere, or asleep
  \/ pc[a] = "wait" /\ rthread_sema = 0
  \/ pc[a] = "device"
  \/ pc[a] \in {"bounce", "sfwait"} /\ searchfilesema = 0
  \/ pc[a] = "pace" /\ 4096 \notin intr_ef
  \/ pc[a] = "waitef" /\ 1 \notin intr_ef
  \/ pc[a] = "stwait" /\ 8 \notin intr_ef   \* sceCdStRead, in module Streaming

MayRun(a) == \A b \in Actors : Prio[b] < Prio[a] => Blocked(b)

At(a, label) == pc[a] = label /\ MayRun(a)
Goto(a, label) == pc' = [pc EXCEPT ![a] = label]

\* SignalSema on a semaphore with max 1: an excess signal is an error.
Signalled(s) == IF s < 1 THEN s + 1 ELSE s

\* cdvdman_cb_event: the record is static, and setting an alarm that is
\* already pending changes nothing.
cdvdman_cb_event(reason) ==
  /\ cb_data' = IF user_cb THEN reason ELSE cb_data
  /\ cb_alarm' = (cb_alarm \/ user_cb)
  /\ UNCHANGED <<user_cb, alt_read>>

-----------------------------------------------------------------------------
(***************************************************************************)
(* Taking the drive.                                                       *)
(***************************************************************************)

\* Mutant: the test of sync_flag is missing.
LockWithoutTest(a, r) ==
  /\ intr_ef' = intr_ef \ {1}
  /\ sync_flag' = 1
  /\ owner' = a
  /\ outcome' = [t \in Threads |-> IF t = a THEN "pending" ELSE outcome[t]]

\* The successful half of cdvdman_common_lock, by actor a for request r.
cdvdman_common_lock(a, r) ==
  /\ sync_flag = 0
  /\ intr_ef' = intr_ef \ {1}
  /\ sync_flag' = 1
  /\ owner' = a
  /\ outcome' = [t \in Threads |-> IF t = a THEN "pending" ELSE outcome[t]]

\* Mutant: the request block is written before sync_flag is tested.
RequestBeforeLock(t, r) ==
  /\ cdread' = r
  /\ \/ /\ cdvdman_common_lock(t, r)
        /\ arg' = [arg EXCEPT ![t] = r]
        /\ Goto(t, "signal")
     \/ sync_flag = 1 /\ UNCHANGED <<sync_flag, intr_ef, arg, pc, hist>>
  /\ UNCHANGED rd

\* The critical section of cdvdman_AsyncRead, called by thread t.
AsyncReadLock(t, r) ==
  /\ cdvdman_common_lock(t, r)
  /\ cdread' = r
  /\ arg' = [arg EXCEPT ![t] = r]
  /\ Goto(t, "signal")
  /\ UNCHANGED rd

\* The critical section of cdvdman_SyncRead; the caller reads by itself.
SyncReadLock(t, r) ==
  /\ cdvdman_common_lock(t, r)
  /\ arg' = [arg EXCEPT ![t] = r]
  /\ rd' = [rd EXCEPT ![t] = [IdleRead EXCEPT !.req = r]]
  /\ Goto(t, "read")
  /\ UNCHANGED cdread

ReadLock(t, r) == IF alt_read THEN SyncReadLock(t, r) ELSE AsyncReadLock(t, r)

\* sceCdRead accepted.  A refused call (sync_flag = 1) returns 0 and changes
\* nothing.
sceCdRead(t) ==
  /\ At(t, "ready")
  /\ \E r \in Requests(t) : ReadLock(t, r)
  /\ UNCHANGED <<rthread_sema, searchfilesema, regs, cbs, accu_alarm, Stm0Callback, mem, searching>>

\* SignalSema at the end of cdvdman_AsyncRead; cdvdman_locatefile goes on to
\* sceCdSync(0).
AsyncReadSignal(t) ==
  /\ At(t, "signal")
  /\ rthread_sema' = Signalled(rthread_sema)
  /\ Goto(t, IF t \in searching THEN "syncwait" ELSE "ready")
  /\ UNCHANGED <<sync_flag, intr_ef, searchfilesema, cdread, regs, cbs, accu_alarm,
                 Stm0Callback, mem, arg, searching, rd, hist>>

\* cdvdman_AsyncRead in interrupt context runs to its end before any thread.
AsyncReadIntr(r) ==
  /\ cdvdman_common_lock(Intr, r)
  /\ cdread' = r
  /\ rthread_sema' = Signalled(rthread_sema)

-----------------------------------------------------------------------------
(***************************************************************************)
(* cdvdman_read and cdvdman_read_sectors, run by actor a: the read thread, *)
(* or a client inside cdvdman_SyncRead.                                    *)
(***************************************************************************)
R(a) == rd[a]
Target(a) == IF R(a).req.aligned THEN R(a).req.buf ELSE Bounce
\* Mutant: ptr is not advanced from one transfer to the next.
PtrNotAdvanced(a) == IF R(a).req.aligned THEN R(a).req.off ELSE 0

TargetSlot(a) == IF R(a).req.aligned THEN R(a).req.off + R(a).pos ELSE R(a).pos

Smaller(m, n) == IF m < n THEN m ELSE n

\* Mutant: the last sector is left out.
WrittenShort(b, s, lsn, n) ==
  [mem EXCEPT ![b] = [i \in Slots |-> IF s <= i /\ i < s + n - 1 THEN lsn + (i - s) ELSE mem[b][i]]]

\* Memory after n consecutive sectors from lsn went to slot s of buffer b.
Written(b, s, lsn, n) ==
  [mem EXCEPT ![b] = [i \in Slots |-> IF s <= i /\ i < s + n THEN lsn + (i - s) ELSE mem[b][i]]]

\* Mutant: the source offset follows the destination's.
CopiedUnshifted(b, s, n) ==
  [mem EXCEPT ![b] = [i \in Slots |-> IF s <= i /\ i < s + n THEN mem[Bounce][i] ELSE mem[b][i]]]

\* Memory after n sectors were copied from the bounce buffer to slot s of b.
Copied(b, s, n) ==
  [mem EXCEPT ![b] = [i \in Slots |-> IF s <= i /\ i < s + n THEN mem[Bounce][i - s] ELSE mem[b][i]]]

SectorsToRead(a) ==
  LET remaining == R(a).len - R(a).pos
  IN  IF AccuReads THEN Smaller(remaining, AccuMax) ELSE remaining

\* WaitSema(cdrom_rthread_sema) and the call of cdvdman_read.
cdread_Take ==
  /\ At(RThread, "wait")
  /\ rthread_sema = 1
  /\ rthread_sema' = 0
  /\ rd' = [rd EXCEPT ![RThread] = [IdleRead EXCEPT !.req = cdread]]
  /\ Goto(RThread, "read")
  /\ UNCHANGED <<sync_flag, intr_ef, searchfilesema, cdread, regs, cbs, accu_alarm,
                 Stm0Callback, mem, arg, searching, hist>>

ReadBegin(a) ==
  /\ At(a, "read")
  /\ status' = "READ"
  /\ rd' = IF R(a).req.aligned THEN [rd EXCEPT ![a].len = R(a).req.sectors] ELSE rd
  /\ Goto(a, IF R(a).req.aligned THEN "sectors" ELSE "bounce")
  /\ UNCHANGED <<locks, err, ReadPos, cbs, accu_alarm, Stm0Callback, mem, arg, searching, hist>>

\* A misaligned destination: WaitSema(cdvdman_searchfilesema).
BounceTake(a) ==
  /\ At(a, "bounce")
  /\ searchfilesema = 1
  /\ searchfilesema' = 0
  /\ Goto(a, "chunk")
  /\ UNCHANGED <<sync_flag, intr_ef, rthread_sema, cdread, regs, cbs, accu_alarm,
                 Stm0Callback, mem, arg, searching, rd, hist>>

\* The next bounce-buffer chunk, or the end of the misaligned read.
BounceChunk(a) ==
  /\ At(a, "chunk")
  /\ IF R(a).base < R(a).req.sectors
       THEN /\ rd' = [rd EXCEPT ![a].len = Smaller(BounceSectors, R(a).req.sectors - R(a).base),
                                ![a].pos = 0]
            /\ Goto(a, "sectors")
            /\ UNCHANGED searchfilesema
       ELSE /\ searchfilesema' = Signalled(searchfilesema)
            /\ Goto(a, "done")
            /\ UNCHANGED rd
  /\ UNCHANGED <<sync_flag, intr_ef, rthread_sema, cdread, regs, cbs, accu_alarm,
                 Stm0Callback, mem, arg, searching, hist>>

\* cdvdman_read_sectors forgets any earlier error.
SectorsBegin(a) ==
  /\ At(a, "sectors")
  /\ err' = "NO"
  /\ Goto(a, "loop")
  /\ UNCHANGED <<locks, status, ReadPos, cbs, accu_alarm, Stm0Callback, mem, arg, searching, rd, hist>>

\* Head of the transfer loop: stop at the end or on an error, else start the
\* pacing alarm and the transfer.
SectorsLoop(a) ==
  /\ At(a, "loop")
  /\ IF R(a).pos < R(a).len /\ err = "NO"
       THEN /\ Goto(a, "device")
            /\ intr_ef' = IF AccuReads THEN intr_ef \ {4096} ELSE intr_ef
            /\ accu_alarm' = (AccuReads \/ accu_alarm)
            /\ UNCHANGED rd
       ELSE /\ Goto(a, "endsectors")
            /\ rd' = [rd EXCEPT ![a].short = @ \/ R(a).pos < R(a).len]
            /\ UNCHANGED <<intr_ef, accu_alarm>>
  /\ UNCHANGED <<sync_flag, rthread_sema, searchfilesema, cdread, regs, cbs,
                 Stm0Callback, mem, arg, searching, hist>>

\* Mutant: bit 0x1000 is cleared after the transfer instead of before it.
AlarmBitClearedLate(a) ==
  LET n == SectorsToRead(a)
  IN  /\ At(a, "device")
      /\ mem' = Written(Target(a), TargetSlot(a), R(a).req.lsn + R(a).base + R(a).pos, n)
      /\ rd' = [rd EXCEPT ![a].pos = @ + n]
      /\ ReadPos' = ReadPos + 2048 * n
      /\ intr_ef' = intr_ef \ {4096}
      /\ Goto(a, IF AccuReads THEN "pace" ELSE "loop")
      /\ UNCHANGED <<sync_flag, rthread_sema, searchfilesema, cdread, err, status, cbs,
                     accu_alarm, Stm0Callback, arg, searching, hist>>

\* DeviceReadSectors returns 0.
DeviceReadSectors(a) ==
  LET n == SectorsToRead(a)
  IN  /\ At(a, "device")
      /\ mem' = Written(Target(a), TargetSlot(a), R(a).req.lsn + R(a).base + R(a).pos, n)
      /\ rd' = [rd EXCEPT ![a].pos = @ + n]
      /\ ReadPos' = ReadPos + 2048 * n
      /\ Goto(a, IF AccuReads THEN "pace" ELSE "loop")
      /\ UNCHANGED <<locks, err, status, cbs, accu_alarm, Stm0Callback, arg, searching, hist>>

\* Mutant: the failure is not recorded in err.
ErrorForgotten(a) ==
  /\ DeviceFails
  /\ At(a, "device")
  /\ \E n \in 0 .. SectorsToRead(a) - 1 :
       mem' = Written(Target(a), TargetSlot(a), R(a).req.lsn + R(a).base + R(a).pos, n)
  /\ accu_alarm' = FALSE
  /\ rd' = [rd EXCEPT ![a].short = TRUE]
  /\ Goto(a, "endsectors")
  /\ UNCHANGED <<locks, regs, cbs, Stm0Callback, arg, searching, hist>>

\* DeviceReadSectors fails after transferring some part of the sectors.
DeviceError(a) ==
  /\ DeviceFails
  /\ At(a, "device")
  /\ \E n \in 0 .. SectorsToRead(a) - 1 :
       mem' = Written(Target(a), TargetSlot(a), R(a).req.lsn + R(a).base + R(a).pos, n)
  /\ err' = "READ"
  /\ accu_alarm' = FALSE
  /\ rd' = [rd EXCEPT ![a].short = TRUE]
  /\ Goto(a, "endsectors")
  /\ UNCHANGED <<locks, status, ReadPos, cbs, Stm0Callback, arg, searching, hist>>

\* ACCU_READS: sleep until the alarm has set bit 0x1000.
AccuWait(a) ==
  /\ At(a, "pace")
  /\ 4096 \in intr_ef
  /\ Goto(a, "loop")
  /\ UNCHANGED <<locks, regs, cbs, accu_alarm, Stm0Callback, mem, arg, searching, rd, hist>>

\* cdvdemu_read_end_cb.
AccuAlarm ==
  /\ accu_alarm
  /\ accu_alarm' = FALSE
  /\ intr_ef' = intr_ef \cup {4096}
  /\ UNCHANGED <<sync_flag, rthread_sema, searchfilesema, cdread, regs, cbs,
                 Stm0Callback, mem, pc, arg, searching, rd, hist>>

\* cdvdman_read_sectors returns; a misaligned read copies the chunk out,
\* whatever cdvdman_read_sectors returned.
SectorsEnd(a) ==
  /\ At(a, "endsectors")
  /\ IF R(a).req.aligned
       THEN Goto(a, "done") /\ UNCHANGED <<mem, rd>>
       ELSE /\ mem' = Copied(R(a).req.buf, R(a).req.off + R(a).base, R(a).len)
            /\ rd' = [rd EXCEPT ![a].base = @ + R(a).len]
            /\ Goto(a, "chunk")
  /\ UNCHANGED <<locks, regs, cbs, accu_alarm, Stm0Callback, arg, searching, hist>>

\* Mutant: ReadPos is lowered instead of reset.
ReadPosLowered(a) ==
  /\ At(a, "done")
  /\ ReadPos' = ReadPos - 2048 * R(a).req.sectors
  /\ status' = "PAUSE"
  /\ Goto(a, IF a = RThread THEN "release" ELSE "event")
  /\ UNCHANGED <<locks, err, cbs, accu_alarm, Stm0Callback, mem, arg, searching, rd, hist>>

ReadEnd(a) ==
  /\ At(a, "done")
  /\ ReadPos' = 0
  /\ status' = "PAUSE"
  /\ Goto(a, IF a = RThread THEN "release" ELSE "event")
  /\ UNCHANGED <<locks, err, cbs, accu_alarm, Stm0Callback, mem, arg, searching, rd, hist>>

\* cdvdman_SyncRead raises the callback before it releases the drive.
SyncReadEvent(t) ==
  /\ At(t, "event")
  /\ cdvdman_cb_event("Read")
  /\ Goto(t, "release")
  /\ UNCHANGED <<locks, regs, accu_alarm, Stm0Callback, mem, arg, searching, rd, hist>>

\* sync_flag = 0, after cdvdman_read and its locals are gone.
ReleaseDrive(a) ==
  /\ At(a, "release")
  /\ sync_flag' = 0
  /\ owner' = NoOwner
  /\ outcome' = [t \in Threads |-> IF t # owner THEN outcome[t]
                                   ELSE IF R(a).short THEN "short" ELSE "ok"]
  /\ rd' = [rd EXCEPT ![a] = IdleRead]
  /\ Goto(a, "setevent")
  /\ UNCHANGED <<intr_ef, rthread_sema, searchfilesema, cdread, regs, cbs, accu_alarm,
                 Stm0Callback, mem, arg, searching>>

\* Mutant: only bit 8 is set.
OnlyBit8(a) ==
  /\ At(a, "setevent")
  /\ intr_ef' = intr_ef \cup {8}
  /\ Goto(a, IF a = RThread THEN "notify" ELSE IF a \in searching THEN "syncwait" ELSE "ready")
  /\ UNCHANGED <<sync_flag, rthread_sema, searchfilesema, cdread, regs, cbs, accu_alarm,
                 Stm0Callback, mem, arg, searching, rd, hist>>

\* SetEventFlag(intr_ef, 9), a separate step from sync_flag = 0.
SetDoneEvent(a) ==
  /\ At(a, "setevent")
  /\ intr_ef' = intr_ef \cup {1, 8}
  /\ Goto(a, IF a = RThread THEN "notify" ELSE IF a \in searching THEN "syncwait" ELSE "ready")
  /\ UNCHANGED <<sync_flag, rthread_sema, searchfilesema, cdread, regs, cbs, accu_alarm,
                 Stm0Callback, mem, arg, searching, rd, hist>>

\* The read thread, without a streaming callback.
cdread_Notify ==
  /\ At(RThread, "notify")
  /\ ~Stm0Callback
  /\ cdvdman_cb_event("Read")
  /\ Goto(RThread, "wait")
  /\ UNCHANGED <<locks, regs, accu_alarm, Stm0Callback, mem, arg, searching, rd, hist>>

\* event_alarm_cb: the user callback runs and may itself ask for a read.
event_alarm_cb ==
  /\ cb_alarm
  /\ cb_alarm' = FALSE
  /\ \/ UNCHANGED <<locks, hist>>
     \/ /\ \E r \in IntrRequests : AsyncReadIntr(r)
        /\ UNCHANGED searchfilesema
  /\ UNCHANGED <<regs, user_cb, cb_data, alt_read, accu_alarm, Stm0Callback, mem, pc, arg, searching, rd>>

-----------------------------------------------------------------------------
(***************************************************************************)
(* The other calls of a client.                                            *)
(***************************************************************************)

\* sceCdSync(0) on a busy drive; on an idle one it returns at once.
sceCdSync(t) ==
  /\ At(t, "ready")
  /\ sync_flag = 1
  /\ Goto(t, "syncwait")
  /\ UNCHANGED <<locks, regs, cbs, accu_alarm, Stm0Callback, mem, arg, searching, rd, hist>>

\* sceCdDiskReady(0): clears err, then waits as sceCdSync does.
sceCdDiskReady(t) ==
  /\ "DiskReady" \in Commands
  /\ At(t, "ready")
  /\ err' = "NO"
  /\ Goto(t, "syncwait")
  /\ UNCHANGED <<locks, status, ReadPos, cbs, accu_alarm, Stm0Callback, mem, arg, searching, rd, hist>>

\* while (sync_flag) ...: the test of the loop.
SyncTest(t) ==
  /\ At(t, "syncwait")
  /\ Goto(t, IF sync_flag = 1 THEN "waitef" ELSE IF t \in searching THEN "parse" ELSE "ready")
  /\ UNCHANGED <<locks, regs, cbs, accu_alarm, Stm0Callback, mem, arg, searching, rd, hist>>

\* Mutant: an if in place of the while, sync_flag is not tested again.
WakeReturns(t) ==
  /\ At(t, "waitef")
  /\ 1 \in intr_ef
  /\ Goto(t, IF t \in searching THEN "parse" ELSE "ready")
  /\ UNCHANGED <<locks, regs, cbs, accu_alarm, Stm0Callback, mem, arg, searching, rd, hist>>

\* ... WaitEventFlag(intr_ef, 1, WEF_AND): it leaves the bit set.
SyncWake(t) ==
  /\ At(t, "waitef")
  /\ 1 \in intr_ef
  /\ Goto(t, "syncwait")
  /\ UNCHANGED <<locks, regs, cbs, accu_alarm, Stm0Callback, mem, arg, searching, rd, hist>>

\* sceCdSeek, sceCdStandby, sceCdPause, sceCdStop and sceCdBreak set the
\* registers (the first of sceCdBreak's two stores to err is dead, and the
\* compiler drops it) ...
DriveCommand(t, c) ==
  /\ c \in Commands
  /\ At(t, "ready")
  /\ err' = IF c = "Break" THEN "ABRT" ELSE "NO"
  /\ status' = IF c = "Stop" THEN "STOP" ELSE "PAUSE"
  /\ Goto(t, c)
  /\ UNCHANGED <<locks, ReadPos, cbs, accu_alarm, Stm0Callback, mem, arg, searching, rd, hist>>

\* ... and then raise their callback.
DriveEvent(t) ==
  /\ \E c \in DriveCommands : At(t, c) /\ cdvdman_cb_event(c)
  /\ Goto(t, "ready")
  /\ UNCHANGED <<locks, regs, accu_alarm, Stm0Callback, mem, arg, searching, rd, hist>>

\* sceCdGetToc, and sceCdSC(CDSC_SET_ERROR) as CDVDFSV uses it.
SetError(t, c) ==
  /\ c \in Commands
  /\ At(t, "ready")
  /\ err' = IF c = "GetToc" THEN "READ" ELSE "READCF"
  /\ UNCHANGED <<locks, status, ReadPos, cbs, accu_alarm, Stm0Callback, mem, pc, arg, searching, rd, hist>>

sceCdCallback(t) ==
  /\ "Callback" \in Commands
  /\ At(t, "ready")
  /\ \E f \in BOOLEAN : user_cb' = f
  /\ UNCHANGED <<locks, regs, cb_data, cb_alarm, alt_read, accu_alarm, Stm0Callback, mem, pc, arg, searching, rd, hist>>

\* cdvdman_findfile: from its call to WaitSema(cdvdman_searchfilesema).
SearchCall(t) ==
  /\ "Search" \in Commands
  /\ At(t, "ready")
  /\ Goto(t, "sfwait")
  /\ UNCHANGED <<locks, regs, cbs, accu_alarm, Stm0Callback, mem, arg, searching, rd, hist>>

\* Mutant: WaitSema(cdvdman_searchfilesema) is forgotten.
SearchUnprotected(t) ==
  /\ At(t, "sfwait")
  /\ searchfilesema' = 0
  /\ searching' = searching \cup {t}
  /\ Goto(t, "sfread")
  /\ UNCHANGED <<sync_flag, intr_ef, rthread_sema, cdread, regs, cbs, accu_alarm,
                 Stm0Callback, mem, arg, rd, hist>>

\* An empty root directory ends the search at once.
SearchTake(t) ==
  /\ At(t, "sfwait")
  /\ searchfilesema = 1
  /\ searchfilesema' = 0
  /\ searching' = searching \cup {t}
  /\ \E next \in {"sfread", "sfend"} : Goto(t, next)
  /\ UNCHANGED <<sync_flag, intr_ef, rthread_sema, cdread, regs, cbs, accu_alarm,
                 Stm0Callback, mem, arg, rd, hist>>

DirRequest(l) == [lsn |-> l, sectors |-> 1, buf |-> Bounce, off |-> 0, aligned |-> TRUE]

\* cdvdman_locatefile reads one directory sector into cdvdman_buf, or gives
\* up because the drive is busy.
SearchRead(t) ==
  /\ At(t, "sfread")
  /\ \/ \E l \in DirSectors : ReadLock(t, DirRequest(l))
     \/ /\ sync_flag = 1
        /\ Goto(t, "sfend")
        /\ UNCHANGED <<sync_flag, intr_ef, cdread, arg, rd, hist>>
  /\ UNCHANGED <<rthread_sema, searchfilesema, regs, cbs, accu_alarm, Stm0Callback, mem, searching>>

\* The entries of the sector are looked through: the name is there or the
\* directory ends (sfend), or another sector has to be read.
SearchParse(t) ==
  /\ At(t, "parse")
  /\ \E next \in {"sfread", "sfend"} : Goto(t, next)
  /\ UNCHANGED <<locks, regs, cbs, accu_alarm, Stm0Callback, mem, arg, searching, rd, hist>>

SearchEnd(t) ==
  /\ At(t, "sfend")
  /\ searchfilesema' = Signalled(searchfilesema)
  /\ searching' = searching \ {t}
  /\ outcome' = [outcome EXCEPT ![t] = "none"]
  /\ Goto(t, "ready")
  /\ UNCHANGED <<sync_flag, intr_ef, rthread_sema, cdread, regs, cbs, accu_alarm,
                 Stm0Callback, mem, arg, rd, owner>>

-----------------------------------------------------------------------------
\* A thread's steps inside a call, and the calls it may start.
Executes(a) ==
  \/ ReadBegin(a) \/ BounceTake(a) \/ BounceChunk(a)
  \/ SectorsBegin(a) \/ SectorsLoop(a) \/ DeviceReadSectors(a) \/ DeviceError(a)
  \/ AccuWait(a) \/ SectorsEnd(a) \/ ReadEnd(a)
  \/ ReleaseDrive(a) \/ SetDoneEvent(a)

ThreadStep(t) ==
  \/ Executes(t) \/ AsyncReadSignal(t) \/ SyncReadEvent(t)
  \/ SyncTest(t) \/ SyncWake(t) \/ DriveEvent(t)
  \/ SearchTake(t) \/ SearchRead(t) \/ SearchParse(t) \/ SearchEnd(t)

ThreadCall(t) ==
  \/ sceCdRead(t) \/ sceCdSync(t) \/ sceCdDiskReady(t)
  \/ sceCdCallback(t) \/ SearchCall(t)
  \/ \E c \in DriveCommands : DriveCommand(t, c)
  \/ \E c \in {"GetToc", "SetError"} : SetError(t, c)

RThreadStep == cdread_Take \/ Executes(RThread) \/ cdread_Notify

Next ==
  \/ \E t \in Threads : ThreadStep(t) \/ ThreadCall(t)
  \/ RThreadStep
  \/ AccuAlarm
  \/ event_alarm_cb

\* A thread that is inside a call runs when its priority allows it; alarms
\* go off; the device answers.  Clients need not call anything.
Fairness ==
  /\ \A t \in Threads : WF_vars(ThreadStep(t))
  /\ WF_vars(RThreadStep)
  /\ WF_vars(AccuAlarm)
  /\ WF_vars(event_alarm_cb)

Spec == Init /\ [][Next]_vars
FairSpec == Spec /\ Fairness

-----------------------------------------------------------------------------
(***************************************************************************)
(* Properties.                                                             *)
(***************************************************************************)
Holds(a) == pc[a] \in Reading \cup {"signal"}

\* One owner: sync_flag = 1 exactly while one read is between its
\* cdvdman_common_lock and its sync_flag = 0, held by a caller that has yet
\* to signal, by the semaphore, or by the one actor that executes the read.
OneOwner ==
  /\ \A a, b \in Actors : Holds(a) /\ Holds(b) => a = b
  /\ rthread_sema = 1 => \A a \in Actors : ~Holds(a)
  /\ sync_flag = 1 <=> (rthread_sema = 1 \/ \E a \in Actors : Holds(a))

\* The request block cdread_* still holds the arguments of the read that was
\* accepted: from the caller's SignalSema until the read thread has finished
\* with them, no other caller overwrites them.
RequestKept ==
  /\ \A t \in Threads : pc[t] = "signal" => cdread = arg[t]
  /\ rthread_sema = 1 /\ owner \in Threads => cdread = arg[owner]
  /\ pc[RThread] \in Reading => rd[RThread].req = cdread

\* No lost wake-up: when the drive is idle, bit 1 of the event flag is set or
\* about to be set, so no sceCdSync caller stays in WaitEventFlag.
IdleIsSignalled ==
  sync_flag = 0 => 1 \in intr_ef \/ \E a \in Actors : pc[a] = "setevent"

\* Whether the destination of r holds exactly the sectors r asks for.
Delivered(r) ==
  \A i \in 0 .. r.sectors - 1 : mem[r.buf][r.off + i] = r.lsn + i

\* A read that ran to its end delivered every sector to its place, and no
\* later read of anybody else disturbed it: whatever the chunking by
\* ACCU_READS or by the bounce buffer, and for a directory sector as long as
\* its searcher holds cdvdman_searchfilesema.
CompleteReadDelivers ==
  \A t \in Threads : outcome[t] = "ok" => Delivered(arg[t])

\* sceCdSync(0) and sceCdDiskReady(0) return only when the caller's own read
\* is over, even if the event bit was set late by an earlier read.
SyncReturnsAfterRead ==
  [][\A t \in Threads : pc[t] \in Waiting /\ pc'[t] \notin Waiting
                          => outcome[t] # "pending"]_vars

\* status says "reading" only while some actor executes a read.
StatusReadMeansBusy ==
  status = "READ" => \E a \in Actors : pc[a] \in Reading

\* cdvdman_searchfilesema protects cdvdman_buf: at most one of the searchers
\* and the misaligned reads uses it, and it is taken exactly when one does.
UsesBounce(a) ==
  \/ a \in searching
  \/ ~rd[a].req.aligned /\ pc[a] \in InTransfer \cup {"chunk"}
BounceExclusive ==
  /\ \A a, b \in Actors : UsesBounce(a) /\ UsesBounce(b) => a = b
  /\ searchfilesema = 0 <=> \E a \in Actors : UsesBounce(a)

\* A read cut short by a device error or by sceCdBreak leaves an error code
\* behind when it releases the drive.
ShortReadLeavesError ==
  \A a \in Actors : pc[a] = "release" /\ rd[a].short => err # "NO"

\* A misaligned read that waits for the bounce buffer never waits for a
\* searcher that itself waits for that read to finish.
NoSearchDeadlock ==
  ~ \E a \in Actors, t \in searching :
      pc[a] = "bounce" /\ pc[t] = "waitef" /\ sync_flag = 1 /\ 1 \notin intr_ef

\* Every accepted read releases the drive.
ReadsEnd == sync_flag = 1 ~> sync_flag = 0

\* Nobody waits for ever in sceCdSync(0) or sceCdDiskReady(0) on a drive
\* that has become idle for good.
WaitersReturn ==
  \A t \in Threads : <>[](sync_flag = 0) => []<>(pc[t] \notin Waiting)

=============================================================================
