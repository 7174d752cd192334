---------------------------- MODULE CdromFsProofs ----------------------------
(***************************************************************************)
(* The cdrom file system driver, for any threads, discs and calls: its two *)
(* semaphores are held by exactly the calls that took them, and, on what   *)
(* that gives, handles, root directory and the data of a read are right.   *)
(***************************************************************************)
EXTENDS CdromFs, SequenceTheorems, WellFoundedInduction, TLAPS

-----------------------------------------------------------------------------
(***************************************************************************)
(* Types, and where a call may be.                                         *)
(***************************************************************************)
IoCalls == {"open", "close", "read", "lseek", "dread", "devctl"}
InitCalls == {"init", "open", "search", "getstat"}
CallNames == IoCalls \cup InitCalls \cup {"none"}
Places == {"idle", "iosema", "stat", "init", "initdone", "search"} \cup InFsInit \cup Searching \cup HoldsIo
PathNames == {NoLocals.path} \cup UNION {Paths[t] : t \in Threads}
Locals == [call: CallNames, path: PathNames, fd: Int, ok: BOOLEAN, want: Int, size: Int,
           nb: Int, rpos: Int, offset: Int, start: Int]
Handles == [f: Threads \cup {NoThread, Other}, lsn: Int, filesize: Int, position: Int]
DriveReads == [lsn: Int, n: Int, dst: {"raw", "cd_buf", "fs_buf", "user"}, by: Threads]

FsTypes ==
  /\ drive \in DriveReads \cup {NoRead}
  /\ cdinited \in BOOLEAN /\ fs_inited \in BOOLEAN /\ rushed \in BOOLEAN /\ root \in Int
  /\ io_sema \in {0, 1} /\ searchfilesema \in {0, 1}
  /\ fs_buf \in Int /\ cd_buf \in Int
  /\ fdhandles \in [Fds -> Handles]
  /\ privdata \in [Threads -> 0 .. MaxFd]
  /\ at \in [Threads -> Places]
  /\ my \in [Threads -> Locals]
  /\ DOMAIN ubuf = Threads /\ DOMAIN opened = Threads

\* Which call is at which place.
Placed(t) ==
  /\ at[t] = "iosema" => my[t].call \in IoCalls
  /\ at[t] = "stat" => my[t].call = "getstat"
  /\ at[t] \in {"init", "initdone"} \cup InFsInit => my[t].call \in InitCalls
  /\ at[t] \in {"search"} \cup Searching => my[t].call \in {"open", "search", "getstat"}
  /\ at[t] \in {"slot", "opened"} => my[t].call = "open"
  /\ at[t] \in {"search", "opened"} \cup Searching /\ my[t].call = "open" => my[t].fd \in Fds
  /\ at[t] = "ready" => my[t].call \in {"open", "read", "dread", "devctl"}
  /\ at[t] \in {"phase1", "copy1", "phase2", "phase2sync", "phase3", "copy3"} => my[t].call = "read"
  /\ at[t] \in {"dread", "entries"} => my[t].call = "dread"
  /\ at[t] = "leave" => my[t].call \in IoCalls
  /\ at[t] = "opened" => my[t].ok
  /\ my[t].ok => my[t].path \in Files
PlaceInv == \A t \in Threads : Placed(t)

\* A call about a file has one open.
HasFile(t) ==
  at[t] # "idle" /\ my[t].call \in {"read", "close", "lseek", "dread"} =>
     \/ privdata[t] # 0
     \/ my[t].call = "close" /\ at[t] = "leave"
FileOpen == \A t \in Threads : HasFile(t)

SemaInv == FsTypes /\ PlaceInv /\ FileOpen /\ SemaphoresHeld

-----------------------------------------------------------------------------
\* The loop of cdvdman_getfilefreeslot stops: among the free handles is a
\* first one.
LEMMA LeastOne ==
  ASSUME NEW T \in SUBSET Nat, T # {}
  PROVE  \E x \in T : \A y \in T : x <= y
<1> DEFINE R == OpToRel(<, Nat)
<1>1. IsWellFoundedOn(R, Nat) BY NatLessThanWellFounded
<1>2. \A x, y \in Nat : x < y => <<x, y>> \in R BY DEF OpToRel
<1> HIDE DEF R
<1>3. PICK x \in T : \A y \in T : ~ (<<y, x>> \in R) BY <1>1, WFMin
<1>4. T \subseteq Nat /\ x \in Nat OBVIOUS
<1>5. \A y \in T : ~(y < x) BY <1>2, <1>3, <1>4, Zenon
<1> QED BY <1>4, <1>5, SMT

\* A call's locals stay typed whatever numbers it puts into them.
LEMMA LocalsUpdated ==
  ASSUME FsTypes, NEW t \in Threads, NEW l \in Locals
  PROVE  [my EXCEPT ![t] = l] \in [Threads -> Locals]
  BY DEF FsTypes

\* The locals a call begins with.
LEMMA NoLocalsTyped == NoLocals \in Locals /\ NoLocals.call = "none" /\ ~NoLocals.ok
<1>1. NoLocals.path \in PathNames BY DEF PathNames
<1> DEFINE p0 == CHOOSE p \in Files : TRUE
<1>2. NoLocals.path = p0 BY DEF NoLocals
<1> HIDE DEF p0
<1>3. p0 \in PathNames BY <1>1, <1>2
<1> QED BY <1>3 DEF NoLocals, Locals, CallNames, p0

-----------------------------------------------------------------------------
(***************************************************************************)
(* The kinds of steps, as the two semaphores see them.                     *)
(***************************************************************************)
\* Everybody but t is where it was, in the same call.
OthersStay(t) == \A u \in Threads \ {t} : at'[u] = at[u] /\ my'[u] = my[u]

Quiet(t) ==
  /\ OthersStay(t)
  /\ UNCHANGED semas
  /\ InIo(t)' = InIo(t) /\ (at'[t] \in Searching) = (at[t] \in Searching)
IoTaken(t) ==
  /\ OthersStay(t)
  /\ io_sema = 1 /\ io_sema' = 0 /\ searchfilesema' = searchfilesema
  /\ InIo(t)' /\ at[t] \notin Searching /\ at'[t] \notin Searching
IoReturned(t) ==
  /\ OthersStay(t)
  /\ io_sema' = Min2(io_sema + 1, 1) /\ searchfilesema' = searchfilesema
  /\ InIo(t) /\ ~InIo(t)' /\ at[t] \notin Searching /\ at'[t] \notin Searching
SearchTaken(t) ==
  /\ OthersStay(t)
  /\ searchfilesema = 1 /\ searchfilesema' = 0 /\ io_sema' = io_sema
  /\ InIo(t)' = InIo(t) /\ at'[t] \in Searching
SearchReturned(t) ==
  /\ OthersStay(t)
  /\ searchfilesema' = Min2(searchfilesema + 1, 1) /\ io_sema' = io_sema
  /\ InIo(t)' = InIo(t) /\ at[t] \in Searching /\ at'[t] \notin Searching

\* A thread takes a semaphore when nobody holds it and is the only one to give
\* it back: every kind of step keeps both to one holder.
LEMMA KindsKeep ==
  ASSUME FsTypes, SemaphoresHeld, NEW t \in Threads,
         Quiet(t) \/ IoTaken(t) \/ IoReturned(t) \/ SearchTaken(t) \/ SearchReturned(t)
  PROVE  SemaphoresHeld'
<1>1. \A u \in Threads \ {t} : InIo(u)' = InIo(u) /\ (at'[u] \in Searching) = (at[u] \in Searching)
  BY DEF Quiet, IoTaken, IoReturned, SearchTaken, SearchReturned, OthersStay, InIo
<1>2. io_sema \in {0, 1} /\ searchfilesema \in {0, 1} BY DEF FsTypes
<1>3. CASE Quiet(t) BY <1>1, <1>3 DEF Quiet, SemaphoresHeld, semas
<1>4. CASE IoTaken(t) BY <1>1, <1>4 DEF IoTaken, SemaphoresHeld
<1>5. CASE IoReturned(t) BY <1>1, <1>2, <1>5 DEF IoReturned, SemaphoresHeld, Min2
<1>6. CASE SearchTaken(t) BY <1>1, <1>6 DEF SearchTaken, SemaphoresHeld
<1>7. CASE SearchReturned(t) BY <1>1, <1>2, <1>7 DEF SearchReturned, SemaphoresHeld, Min2
<1> QED BY <1>3, <1>4, <1>5, <1>6, <1>7

\* What a step of thread t has to show.
LEMMA ThreadKeeps ==
  ASSUME SemaInv, NEW t \in Threads,
         FsTypes', Placed(t)', HasFile(t)',
         \A u \in Threads \ {t} : privdata'[u] = privdata[u],
         Quiet(t) \/ IoTaken(t) \/ IoReturned(t) \/ SearchTaken(t) \/ SearchReturned(t)
  PROVE  SemaInv'
<1>1. SemaphoresHeld' BY KindsKeep DEF SemaInv
<1>2. OthersStay(t) BY DEF Quiet, IoTaken, IoReturned, SearchTaken, SearchReturned
<1>3. PlaceInv' BY <1>2 DEF SemaInv, PlaceInv, Placed, OthersStay
<1>4. FileOpen' BY <1>2 DEF SemaInv, FileOpen, HasFile, OthersStay
<1> QED BY <1>1, <1>3, <1>4 DEF SemaInv

-----------------------------------------------------------------------------
(***************************************************************************)
(* One lemma for each group of actions.                                    *)
(***************************************************************************)

\* A call begins: outside everything, or in front of cdrom_io_sema.
LEMMA CallsKeep ==
  ASSUME SemaInv, NEW t \in Threads, FsCall(t)
  PROVE  SemaInv'
<1>1. ASSUME NEW c \in Locals, Called(t, c),
             c.call \in CallNames \ {"none"}, ~c.ok,
             c.call \in {"read", "close", "lseek", "dread"} => privdata[t] # 0
      PROVE  SemaInv'
  <2>1. my' \in [Threads -> Locals] BY <1>1, LocalsUpdated DEF Called, SemaInv
  <2>2. at' \in [Threads -> Places] /\ at[t] = "idle"
        /\ at'[t] \in {"init", "stat", "iosema"} /\ my'[t] = c
        /\ OthersStay(t)
        /\ (c.call \in {"search", "init"} => at'[t] = "init")
        /\ (c.call = "getstat" => at'[t] = "stat")
        /\ (c.call \in IoCalls => at'[t] = "iosema")
    BY <1>1 DEF Called, Move, SemaInv, FsTypes, Places, OthersStay, IoCalls, Searches
  <2>3. FsTypes' BY <1>1, <2>1, <2>2 DEF Called, SemaInv, FsTypes, inits, semas, bufs, files
  <2>4. Placed(t)' BY <1>1, <2>2 DEF Placed, InFsInit, Searching, InitCalls, IoCalls, CallNames
  <2>5. HasFile(t)' /\ \A u \in Threads : privdata'[u] = privdata[u]
    BY <1>1, <2>2 DEF HasFile, Called, files
  <2>6. Quiet(t) BY <1>1, <2>2 DEF Quiet, Called, InIo, HoldsIo, Searching, IoCalls
  <2> QED BY <2>3, <2>4, <2>5, <2>6, ThreadKeeps
<1>2. CASE cdrom_open(t)
  <2>1. PICK p \in Paths[t] : Called(t, [NoLocals EXCEPT !.call = "open", !.path = p])
    BY <1>2 DEF cdrom_open
  <2>2. [NoLocals EXCEPT !.call = "open", !.path = p] \in Locals
    BY NoLocalsTyped DEF Locals, CallNames, IoCalls, PathNames
  <2> QED BY <1>1, <2>1, <2>2, NoLocalsTyped DEF CallNames, IoCalls, Locals
<1>3. CASE cdrom_read(t)
  <2>1. PICK n \in ReadSizes : Called(t, [NoLocals EXCEPT !.call = "read", !.size = n, !.want = n])
    BY <1>3 DEF cdrom_read
  <2>2. [NoLocals EXCEPT !.call = "read", !.size = n, !.want = n] \in Locals
    <3>1. n \in Int BY FsAssumption
    <3> QED BY <3>1, NoLocalsTyped DEF Locals, CallNames, IoCalls
  <2> QED BY <1>1, <1>3, <2>1, <2>2, NoLocalsTyped DEF cdrom_read, CallNames, IoCalls, Locals
<1>4. ASSUME NEW c \in {"close", "dread", "lseek", "init", "devctl"} \cup Searches,
             Called(t, [NoLocals EXCEPT !.call = c]),
             c \in {"close", "dread", "lseek"} => privdata[t] # 0
      PROVE  SemaInv'
  <2>1. [NoLocals EXCEPT !.call = c] \in Locals
    BY NoLocalsTyped DEF Locals, CallNames, IoCalls, InitCalls, Searches
  <2> QED BY <1>1, <1>4, <2>1, NoLocalsTyped DEF CallNames, IoCalls, InitCalls, Locals, Searches
<1>5. CASE FileCall(t) BY <1>4, <1>5 DEF FileCall
<1>6. CASE ControlCall(t) BY <1>4, <1>6 DEF ControlCall
<1>7. CASE SearchFile(t) BY <1>4, <1>7 DEF SearchFile, Searches
<1>8. CASE RawRead(t)
  <2>1. [lsn |-> 0, n |-> 1, dst |-> "raw", by |-> t] \in DriveReads BY DEF DriveReads
  <2>2. FsTypes' BY <1>8, <2>1 DEF RawRead, Accepted, SemaInv, FsTypes, inits, semas, bufs, files
  <2>3. Placed(t)' /\ HasFile(t)' /\ \A u \in Threads : privdata'[u] = privdata[u]
    BY <1>8 DEF RawRead, files, SemaInv, PlaceInv, Placed, FileOpen, HasFile
  <2>4. Quiet(t) BY <1>8 DEF RawRead, Quiet, OthersStay, InIo
  <2> QED BY <2>2, <2>3, <2>4, ThreadKeeps
<1> QED BY <1>2, <1>3, <1>5, <1>6, <1>7, <1>8 DEF FsCall

\* A step that only moves the thread, and neither takes a semaphore nor gives
\* one back.
LEMMA MoveKeeps ==
  ASSUME SemaInv, NEW t \in Threads, NEW from, NEW to \in Places, Move(t, from, to),
         FsTypes', UNCHANGED <<semas, my, privdata>>, Placed(t)',
         to # "idle", from \notin {"idle", "leave"},
         (to \in HoldsIo <=> from \in HoldsIo) \/ my[t].call = "open",
         my[t].call = "open" => from # "iosema" /\ to # "iosema",
         (to \in Searching) = (from \in Searching)
  PROVE  SemaInv'
<1>1. OthersStay(t) /\ at'[t] = to /\ at[t] = from
  BY DEF Move, SemaInv, FsTypes, OthersStay
<1>2. InIo(t)' = InIo(t) BY <1>1 DEF InIo
<1>3. Quiet(t) BY <1>1, <1>2 DEF Quiet
<1>4. HasFile(t)' BY <1>1 DEF SemaInv, FileOpen, HasFile
<1> QED BY <1>3, <1>4, ThreadKeeps

\* The file system is initialised outside cdrom_io_sema, or under it for an
\* open.
LEMMA InitsKeep ==
  ASSUME SemaInv, NEW t \in Threads,
         \/ cdvdman_init(t) \/ DeviceFSInit(t) \/ ClearHandles(t) \/ ReadVolume(t)
         \/ SetRoot(t) \/ InitDone(t)
  PROVE  SemaInv'
<1> USE DEF InFsInit, Searching, HoldsIo
<1>0. FsTypes /\ Placed(t) BY DEF SemaInv, PlaceInv
<1>1. PICK from, to : Move(t, from, to) /\ from \in {"init", "initdone"} \cup InFsInit
                       /\ (from \notin {"init", "initdone"} \/ to = "device" \/ to = "initdone"
                             => to \in InFsInit \cup {"initdone"})
                       /\ (from \in {"init", "initdone"} => to \in {"device", "initdone", AfterInit(t)})
  BY DEF cdvdman_init, DeviceFSInit, ClearHandles, ReadVolume, SetRoot, InitDone
<1>2. UNCHANGED <<semas, my, privdata, ubuf, opened, fs_buf, cd_buf>>
  BY DEF cdvdman_init, DeviceFSInit, ClearHandles, ReadVolume, SetRoot, InitDone, bufs, files
<1>3. my[t].call \in InitCalls /\ at[t] = from /\ at' = [at EXCEPT ![t] = to]
  BY <1>0, <1>1 DEF Placed, Move
<1>4. AfterInit(t) = CASE my[t].call = "init" -> "idle" [] my[t].call = "open" -> "ready"
                       [] my[t].call \in Searches -> "search"
  BY DEF AfterInit
<1>5. \/ to \in InFsInit \cup {"initdone"}
      \/ to = "idle" /\ my[t].call = "init"
      \/ to = "ready" /\ my[t].call = "open"
      \/ to = "search" /\ my[t].call \in Searches
  BY <1>1, <1>3, <1>4 DEF InitCalls, Searches
<1>6. to \in Places BY <1>5 DEF Places
<1>7. FsTypes'
  <2>1. drive' \in DriveReads \cup {NoRead}
    <3>1. VolumeSector \in Int /\ [lsn |-> VolumeSector, n |-> 1, dst |-> "cd_buf", by |-> t] \in DriveReads
      BY DEF DriveReads, VolumeSector
    <3> QED BY <1>0, <3>1 DEF FsTypes, cdvdman_init, DeviceFSInit, ClearHandles, ReadVolume, SetRoot,
                            InitDone, Accepted, Refused
  <2>2. cdinited' \in BOOLEAN /\ fs_inited' \in BOOLEAN /\ rushed' \in BOOLEAN
    BY <1>0 DEF FsTypes, cdvdman_init, DeviceFSInit, ClearHandles, ReadVolume, SetRoot, InitDone, inits
  <2>3. root' \in Int
    <3>1. RootLba \in Int BY FsAssumption
    <3> QED BY <1>0, <3>1 DEF FsTypes, cdvdman_init, DeviceFSInit, ClearHandles, ReadVolume, SetRoot,
                            InitDone, inits
  <2>4. fdhandles' \in [Fds -> Handles]
    <3>1. FreeHandle \in Handles BY DEF FreeHandle, Handles
    <3> QED BY <1>0, <3>1 DEF FsTypes, cdvdman_init, DeviceFSInit, ClearHandles, ReadVolume, SetRoot,
                            InitDone, files
  <2>5. at' \in [Threads -> Places] BY <1>0, <1>3, <1>6 DEF FsTypes
  <2> QED BY <1>0, <1>2, <2>1, <2>2, <2>3, <2>4, <2>5 DEF FsTypes, semas
<1>8. at'[t] = to BY <1>0, <1>3 DEF FsTypes
<1>9. CASE to = "idle"
  <2>1. Placed(t)' /\ HasFile(t)' BY <1>0, <1>2, <1>8, <1>9 DEF Placed, HasFile
  <2>2. OthersStay(t) BY <1>0, <1>2, <1>3 DEF OthersStay, FsTypes
  <2>3. Quiet(t) BY <1>1, <1>2, <1>3, <1>5, <1>8, <1>9, <2>2 DEF Quiet, InIo
  <2> QED BY <1>2, <1>7, <2>1, <2>3, ThreadKeeps
<1>10. CASE to # "idle"
  <2>1. Placed(t)' BY <1>0, <1>1, <1>2, <1>3, <1>5, <1>8 DEF Placed, InitCalls, Searches
  <2>2. (to \in HoldsIo <=> from \in HoldsIo) \/ my[t].call = "open"
    BY <1>1, <1>5, <1>10
  <2>3. to # "iosema" /\ from # "iosema" /\ from \notin {"idle", "leave"} BY <1>1, <1>5
  <2>4. to \notin Searching /\ from \notin Searching BY <1>1, <1>5
  <2> QED BY <1>1, <1>2, <1>6, <1>7, <1>10, <2>1, <2>2, <2>3, <2>4, MoveKeeps
<1> QED BY <1>9, <1>10

\* A handle's slot, and what it is set to, keep the table typed.
LEMMA HandleUpdated ==
  ASSUME FsTypes, NEW i, NEW h \in Handles
  PROVE  [fdhandles EXCEPT ![i] = h] \in [Fds -> Handles]
  BY DEF FsTypes

\* The file a thread has open.
LEMMA OpenHandle ==
  ASSUME SemaInv, NEW t \in Threads, at[t] \notin {"idle", "leave"},
         my[t].call \in {"read", "close", "lseek", "dread"}
  PROVE  privdata[t] \in Fds /\ Fh(t) \in Handles
<1>1. privdata[t] # 0 BY DEF SemaInv, FileOpen, HasFile
<1>2. privdata[t] \in 0 .. MaxFd BY DEF SemaInv, FsTypes
<1>3. privdata[t] \in Fds BY <1>1, <1>2, FsAssumption DEF Fds
<1> QED BY <1>3 DEF SemaInv, FsTypes, Fh

\* WaitSema(cdrom_io_sema): the call is under way, alone.
LEMMA IoTakenKeeps ==
  ASSUME SemaInv, NEW t \in Threads, NEW to \in {"init", "ready", "leave"}, Move(t, "iosema", to),
         io_sema = 1, io_sema' = 0, searchfilesema' = searchfilesema,
         FsTypes', \A u \in Threads \ {t} : my'[u] = my[u] /\ privdata'[u] = privdata[u],
         my'[t].call = my[t].call, my'[t].ok = my[t].ok, my'[t].path = my[t].path,
         to = "init" => my[t].call = "open",
         to = "ready" => my[t].call \in {"read", "dread", "devctl"},
         privdata'[t] = privdata[t] \/ (my[t].call = "close" /\ to = "leave")
  PROVE  SemaInv'
<1>1. at' = [at EXCEPT ![t] = to] /\ at[t] = "iosema" /\ at'[t] = to /\ my[t].call \in IoCalls
      /\ (my[t].ok => my[t].path \in Files)
  BY DEF Move, SemaInv, FsTypes, PlaceInv, Placed
<1>2. OthersStay(t) BY <1>1 DEF OthersStay, SemaInv, FsTypes
<1>3. InIo(t)' BY <1>1 DEF InIo, HoldsIo
<1>4. IoTaken(t) BY <1>1, <1>2, <1>3 DEF IoTaken, Searching
<1>5. Placed(t)' BY <1>1 DEF Placed, InitCalls, InFsInit, Searching
<1>6. HasFile(t)' BY <1>1 DEF HasFile, SemaInv, FileOpen
<1> QED BY <1>4, <1>5, <1>6, ThreadKeeps

\* The calls that take cdrom_io_sema keep SemaInv.
LEMMA FileCallsKeep ==
  ASSUME SemaInv, NEW t \in Threads,
         TakeIo(t) \/ TakeIoRead(t) \/ cdrom_close(t) \/ cdrom_lseek(t)
  PROVE  SemaInv'
<1>0. FsTypes BY DEF SemaInv
<1>1. PICK to \in {"init", "ready", "leave"} :
         /\ Move(t, "iosema", to)
         /\ to = "init" => my[t].call = "open"
         /\ to = "ready" => my[t].call \in {"read", "dread", "devctl"}
         /\ my[t].call = "close" => to = "leave"
  BY DEF TakeIo, TakeIoRead, cdrom_close, cdrom_lseek
<1>2. at' \in [Threads -> Places] BY <1>0, <1>1 DEF FsTypes, Move, Places, HoldsIo
<1>3. /\ io_sema = 1 /\ io_sema' = 0 /\ searchfilesema' = searchfilesema
      /\ UNCHANGED <<drive, cdinited, fs_inited, root, rushed, fs_buf, cd_buf, ubuf>>
  BY DEF TakeIo, TakeIoRead, cdrom_close, cdrom_lseek, inits, bufs
<1>4. at[t] = "iosema" BY <1>1 DEF Move
<1>5. CASE TakeIo(t)
  <2>1. UNCHANGED <<my, fdhandles, privdata, opened>> BY <1>5 DEF TakeIo, files
  <2>2. FsTypes' BY <1>0, <1>2, <1>3, <2>1 DEF FsTypes
  <2> QED BY <1>1, <1>3, <2>1, <2>2, IoTakenKeeps
<1>6. CASE TakeIoRead(t)
  <2>1. UNCHANGED <<fdhandles, privdata, opened>> BY <1>6 DEF TakeIoRead, files
  <2>2. PICK l \in Locals : my' = [my EXCEPT ![t] = l] /\ l.call = my[t].call
                                /\ l.ok = my[t].ok /\ l.path = my[t].path
    <3>1. Fh(t) \in Handles BY <1>4, <1>6, OpenHandle DEF TakeIoRead
    <3>2. my[t] \in Locals BY <1>0 DEF FsTypes
    <3>3. Fh(t).filesize - Fh(t).position \in Int /\ Fh(t).position \in Int BY <3>1 DEF Handles
    <3>4. PICK n \in Int, p \in Int : my' = [my EXCEPT ![t].size = n, ![t].start = p]
      BY <1>6, <3>2, <3>3 DEF TakeIoRead, Locals
    <3>5. my' = [my EXCEPT ![t] = [my[t] EXCEPT !.size = n, !.start = p]]
      BY <1>0, <3>4 DEF FsTypes
    <3>6. [my[t] EXCEPT !.size = n, !.start = p] \in Locals BY <3>2 DEF Locals
    <3>7. /\ [my[t] EXCEPT !.size = n, !.start = p].call = my[t].call
          /\ [my[t] EXCEPT !.size = n, !.start = p].ok = my[t].ok
          /\ [my[t] EXCEPT !.size = n, !.start = p].path = my[t].path
      BY <3>2 DEF Locals
    <3> QED BY <3>5, <3>6, <3>7
  <2>3. my' \in [Threads -> Locals] BY <1>0, <2>2, LocalsUpdated
  <2>4. FsTypes' BY <1>0, <1>2, <1>3, <2>1, <2>3 DEF FsTypes
  <2>5. /\ my'[t].call = my[t].call /\ my'[t].ok = my[t].ok /\ my'[t].path = my[t].path
        /\ \A u \in Threads \ {t} : my'[u] = my[u]
    BY <1>0, <2>2 DEF FsTypes
  <2> QED BY <1>1, <1>3, <2>1, <2>4, <2>5, IoTakenKeeps
<1>7. CASE cdrom_close(t)
  <2>1. my' = my BY <1>7 DEF cdrom_close
  <2>2. FreeHandle \in Handles BY DEF FreeHandle, Handles
  <2>3. fdhandles' \in [Fds -> Handles] BY <1>0, <1>7, <2>2, HandleUpdated DEF cdrom_close
  <2>4. privdata' \in [Threads -> 0 .. MaxFd] /\ DOMAIN opened' = Threads
        /\ \A u \in Threads \ {t} : privdata'[u] = privdata[u]
    BY <1>0, <1>7, FsAssumption DEF cdrom_close, FsTypes
  <2>5. FsTypes' BY <1>0, <1>2, <1>3, <2>1, <2>3, <2>4 DEF FsTypes
  <2>6. my[t].call = "close" BY <1>7 DEF cdrom_close
  <2> QED BY <1>1, <1>3, <2>1, <2>4, <2>5, <2>6, IoTakenKeeps
<1>8. CASE cdrom_lseek(t)
  <2>1. UNCHANGED <<my, privdata, opened>> BY <1>8 DEF cdrom_lseek
  <2>2. fdhandles' \in [Fds -> Handles]
    <3>1. privdata[t] \in Fds /\ Fh(t) \in Handles BY <1>4, <1>8, OpenHandle DEF cdrom_lseek
    <3>2. \A o \in SeekOffsets : /\ (Fh(t).position + o) % WordMod \in Int
                                 /\ o % WordMod \in Int
                                 /\ (Fh(t).filesize - o) % WordMod \in Int
      <4>1. \A x \in Int : x % WordMod \in Int BY FsAssumption
      <4>2. \A o \in SeekOffsets : o \in Int BY FsAssumption
      <4> QED BY <3>1, <4>1, <4>2 DEF Handles
    <3>3. PICK p \in Int : fdhandles' = [fdhandles EXCEPT ![privdata[t]].position = Min2(p, Fh(t).filesize)]
      BY <1>8, <3>2 DEF cdrom_lseek
    <3>4. Min2(p, Fh(t).filesize) \in Int BY <3>1 DEF Min2, Handles
    <3>5. fdhandles' = [fdhandles EXCEPT ![privdata[t]] = [Fh(t) EXCEPT !.position = Min2(p, Fh(t).filesize)]]
      BY <1>0, <3>1, <3>3 DEF Fh, FsTypes
    <3>6. [Fh(t) EXCEPT !.position = Min2(p, Fh(t).filesize)] \in Handles BY <3>1, <3>4 DEF Handles
    <3> QED BY <1>0, <3>5, <3>6, HandleUpdated
  <2>3. FsTypes' BY <1>0, <1>2, <1>3, <2>1, <2>2 DEF FsTypes
  <2> QED BY <1>1, <1>3, <2>1, <2>3, IoTakenKeeps
<1> QED BY <1>5, <1>6, <1>7, <1>8

\* SignalSema(cdrom_io_sema).
LEMMA LeaveKeeps ==
  ASSUME SemaInv, NEW t \in Threads, Leave(t)
  PROVE  SemaInv'
<1>0. FsTypes BY DEF SemaInv
<1>1. at' = [at EXCEPT ![t] = "idle"] /\ at[t] = "leave" /\ my[t].call \in IoCalls
  BY DEF Leave, Move, SemaInv, PlaceInv, Placed
<1>2. at' \in [Threads -> Places] /\ at'[t] = "idle" BY <1>0, <1>1 DEF FsTypes, Places
<1>3. my' \in [Threads -> Locals] BY <1>0, NoLocalsTyped, LocalsUpdated DEF Leave
<1>4. FsTypes' BY <1>0, <1>2, <1>3 DEF FsTypes, Leave, inits, files, Min2
<1>5. OthersStay(t) BY <1>0, <1>1 DEF OthersStay, FsTypes, Leave
<1>6. IoReturned(t) BY <1>1, <1>2, <1>5 DEF IoReturned, Leave, InIo, HoldsIo, Searching
<1>7. ~my'[t].ok BY <1>0, NoLocalsTyped DEF Leave, FsTypes
<1>8. Placed(t)' /\ HasFile(t)' BY <1>2, <1>7 DEF Placed, HasFile, InFsInit, Searching
<1>9. privdata' = privdata BY DEF Leave, files
<1> QED BY <1>4, <1>6, <1>8, <1>9, ThreadKeeps

\* The waits that change nothing but the place.
LEMMA WaitsKeep ==
  ASSUME SemaInv, NEW t \in Threads,
         Ready(t) \/ cdrom_getstat(t) \/ Phase2Sync(t)
  PROVE  SemaInv'
<1>0. FsTypes /\ Placed(t) BY DEF SemaInv, PlaceInv
<1>1. UNCHANGED <<drive, inits, semas, bufs, files, my>>
  BY DEF Ready, cdrom_getstat, Phase2Sync
<1>2. PICK from, to : /\ Move(t, from, to)
                      /\ \/ from = "ready" /\ \/ my[t].call = "open" /\ to = "slot"
                                              \/ my[t].call = "read" /\ to \in {"phase1", "leave"}
                                              \/ my[t].call = "dread" /\ to = "dread"
                                              \/ my[t].call = "devctl" /\ to = "leave"
                         \/ from = "stat" /\ to = "init" /\ my[t].call = "getstat"
                         \/ from = "phase2sync" /\ to = "phase3" /\ my[t].call = "read"
  <2>1. CASE Ready(t)
    <3>1. at[t] = "ready" /\ my[t].call \in {"open", "read", "dread", "devctl"}
      BY <1>0, <2>1 DEF Ready, Move, Placed
    <3> QED BY <2>1, <3>1 DEF Ready
  <2>2. CASE cdrom_getstat(t) BY <1>0, <2>2 DEF cdrom_getstat, Move, Placed
  <2>3. CASE Phase2Sync(t) BY <1>0, <2>3 DEF Phase2Sync, Move, Placed
  <2> QED BY <2>1, <2>2, <2>3
<1>3. to \in Places BY <1>2 DEF Places, HoldsIo
<1>4. at' = [at EXCEPT ![t] = to] /\ at[t] = from /\ at'[t] = to BY <1>0, <1>2 DEF Move, FsTypes
<1>5. FsTypes' BY <1>0, <1>1, <1>3, <1>4 DEF FsTypes, inits, semas, bufs, files
<1>6. Placed(t)' BY <1>0, <1>1, <1>2, <1>4 DEF Placed, InitCalls, IoCalls, InFsInit, Searching
<1>7. UNCHANGED <<semas, my, privdata>> BY <1>1 DEF files
<1>8. (to \in HoldsIo <=> from \in HoldsIo) /\ (to \in Searching <=> from \in Searching)
      /\ to # "idle" /\ to # "iosema" /\ from \notin {"idle", "leave", "iosema"}
  BY <1>2 DEF HoldsIo, Searching
<1> QED BY <1>2, <1>3, <1>5, <1>6, <1>7, <1>8, MoveKeeps

\* A step under cdrom_io_sema, the locals changing with the place.
LEMMA InIoKeeps ==
  ASSUME SemaInv, NEW t \in Threads, NEW from \in HoldsIo \ {"leave"}, NEW to \in HoldsIo, Move(t, from, to),
         FsTypes', UNCHANGED <<semas, privdata>>, Placed(t)',
         \A u \in Threads \ {t} : my'[u] = my[u],
         my'[t].call = my[t].call
  PROVE  SemaInv'
<1>1. at[t] = from /\ at'[t] = to /\ OthersStay(t)
  BY DEF Move, SemaInv, FsTypes, OthersStay
<1>2. InIo(t) /\ InIo(t)' BY <1>1 DEF InIo
<1>3. Quiet(t) BY <1>1, <1>2 DEF Quiet, HoldsIo, Searching
<1>4. HasFile(t)' BY <1>1 DEF SemaInv, FileOpen, HasFile, HoldsIo
<1> QED BY <1>3, <1>4, ThreadKeeps

\* The slot of an open, and a directory read.
LEMMA SlotKeeps ==
  ASSUME SemaInv, NEW t \in Threads, cdvdman_getfilefreeslot(t)
  PROVE  SemaInv'
<1>0. FsTypes /\ Placed(t) BY DEF SemaInv, PlaceInv
<1> DEFINE free == {i \in Fds : fdhandles[i].f = NoThread}
           i0 == CHOOSE i \in free : \A k \in free : i <= k
<1>1. UNCHANGED <<drive, inits, semas, bufs, files>> /\ at[t] = "slot" /\ my[t].call = "open"
      /\ (my[t].ok => my[t].path \in Files)
  BY <1>0 DEF cdvdman_getfilefreeslot, Move, Placed
<1>2. CASE my' = [my EXCEPT ![t].fd = i0] /\ free # {} /\ Move(t, "slot", "search")
  <2>1. i0 \in Int /\ i0 \in Fds
    <3>1. Fds \subseteq Nat BY FsAssumption DEF Fds
    <3>2. free \in SUBSET Nat /\ free \subseteq Fds BY <3>1
    <3> HIDE DEF free
    <3>3. \E x \in free : \A y \in free : x <= y BY <1>2, <3>2, LeastOne
    <3>4. i0 \in free BY <3>3
    <3>5. i0 \in Fds BY <3>2, <3>4
    <3> HIDE DEF i0
    <3> QED BY <3>1, <3>5
  <2> HIDE DEF i0
  <2>2. my' = [my EXCEPT ![t] = [my[t] EXCEPT !.fd = i0]] BY <1>0, <1>2 DEF FsTypes
  <2>3. my[t] \in Locals /\ [my[t] EXCEPT !.fd = i0] \in Locals BY <1>0, <2>1 DEF FsTypes, Locals
  <2>4. my' \in [Threads -> Locals] BY <1>0, <2>2, <2>3, LocalsUpdated
  <2>5. at'[t] = "search" /\ at' \in [Threads -> Places] /\ OthersStay(t)
    BY <1>0, <1>2, <2>2 DEF Move, FsTypes, Places, OthersStay
  <2>6. my'[t].call = "open" /\ my'[t].fd = i0 /\ my'[t].ok = my[t].ok /\ my'[t].path = my[t].path
    BY <1>0, <1>1, <2>2, <2>3 DEF FsTypes, Locals
  <2>7. FsTypes' BY <1>0, <1>1, <2>4, <2>5 DEF FsTypes, inits, semas, bufs, files
  <2>8. Placed(t)' /\ HasFile(t)'
    BY <1>1, <2>1, <2>5, <2>6 DEF Placed, HasFile, InFsInit, Searching
  <2>9. Quiet(t) BY <1>1, <2>5, <2>6 DEF Quiet, InIo, Searching, HoldsIo
  <2> QED BY <1>1, <2>7, <2>8, <2>9, ThreadKeeps DEF files
<1>3. CASE my' = my /\ Move(t, "slot", "leave")
  <2>1. at'[t] = "leave" /\ at' \in [Threads -> Places]
    BY <1>0, <1>3 DEF Move, FsTypes, Places, HoldsIo
  <2>2. FsTypes' BY <1>0, <1>1, <1>3, <2>1 DEF FsTypes, inits, semas, bufs, files
  <2>3. Placed(t)' BY <1>1, <1>3, <2>1 DEF Placed, IoCalls, InFsInit, Searching
  <2> QED BY <1>1, <1>3, <2>2, <2>3, InIoKeeps DEF HoldsIo, files
<1> QED BY <1>2, <1>3 DEF cdvdman_getfilefreeslot

\* The search, under cdvdman_searchfilesema.
LEMMA SearchesKeep ==
  ASSUME SemaInv, NEW t \in Threads,
         SearchTake(t) \/ ReadDir(t) \/ cdvdman_locatefile(t) \/ SearchEnd(t)
  PROVE  SemaInv'
<1>0. FsTypes /\ Placed(t) /\ HasFile(t) BY DEF SemaInv, PlaceInv, FileOpen
<1>1. UNCHANGED <<cdinited, fs_inited, root, rushed, fs_buf, cd_buf, ubuf, fdhandles, privdata, opened>>
      /\ io_sema' = io_sema
  BY DEF SearchTake, ReadDir, cdvdman_locatefile, SearchEnd, inits, bufs, files, semas
<1>2. PICK from, to : from \in {"search"} \cup Searching /\ Move(t, from, to)
  BY DEF SearchTake, ReadDir, cdvdman_locatefile, SearchEnd, Searching
<1>3. /\ at' = [at EXCEPT ![t] = to] /\ at[t] = from /\ at'[t] = to
      /\ my[t].call \in {"open", "search", "getstat"}
      /\ my[t].call = "open" => my[t].fd \in Fds
      /\ my[t].ok => my[t].path \in Files
  BY <1>0, <1>2 DEF Move, FsTypes, Placed
<1>4. CASE SearchTake(t)
  <2>1. to \in {"searchend", "dir"} /\ from = "search" /\ my' = my /\ drive' = drive
    BY <1>0, <1>3, <1>4 DEF SearchTake, Move, FsTypes
  <2>2. at' \in [Threads -> Places] BY <1>0, <1>3, <2>1 DEF FsTypes, Places, Searching
  <2>3. FsTypes' BY <1>0, <1>1, <1>4, <2>1, <2>2 DEF FsTypes, SearchTake
  <2>4. SearchTaken(t)
    BY <1>0, <1>1, <1>3, <1>4, <2>1 DEF SearchTaken, SearchTake, OthersStay, FsTypes, InIo, HoldsIo, Searching
  <2>5. Placed(t)' /\ HasFile(t)' BY <1>3, <2>1 DEF Placed, HasFile, InFsInit, Searching
  <2> QED BY <1>1, <2>3, <2>4, <2>5, ThreadKeeps
<1>5. CASE ReadDir(t)
  <2>1. to \in {"searchend", "dirsync"} /\ from = "dir" /\ my' = my /\ UNCHANGED semas
    BY <1>0, <1>3, <1>5 DEF ReadDir, Move, FsTypes
  <2>2. at' \in [Threads -> Places] BY <1>0, <1>3, <2>1 DEF FsTypes, Places, Searching
  <2>3. drive' \in DriveReads \cup {NoRead}
    <3>1. [lsn |-> root, n |-> 1, dst |-> "cd_buf", by |-> t] \in DriveReads BY <1>0 DEF DriveReads, FsTypes
    <3> QED BY <1>0, <1>5, <3>1 DEF FsTypes, ReadDir, Accepted, Refused
  <2>4. FsTypes' BY <1>0, <1>1, <1>5, <2>1, <2>2, <2>3 DEF FsTypes, semas
  <2>5. Quiet(t)
    BY <1>0, <1>3, <2>1 DEF Quiet, OthersStay, FsTypes, InIo, HoldsIo, Searching
  <2>6. Placed(t)' /\ HasFile(t)' BY <1>3, <2>1 DEF Placed, HasFile, InFsInit, Searching
  <2> QED BY <1>1, <2>4, <2>5, <2>6, ThreadKeeps
<1>6. CASE cdvdman_locatefile(t)
  <2>1. to = "searchend" /\ from = "dirsync" /\ drive' = drive /\ UNCHANGED semas
    BY <1>0, <1>3, <1>6 DEF cdvdman_locatefile, Move, FsTypes
  <2>2. at' \in [Threads -> Places] BY <1>0, <1>3, <2>1 DEF FsTypes, Places, Searching
  <2>3. PICK b \in BOOLEAN : /\ my' = [my EXCEPT ![t] = [my[t] EXCEPT !.ok = b]]
                             /\ b => my[t].path \in Files
    BY <1>0, <1>6 DEF cdvdman_locatefile, FsTypes
  <2>4. my[t] \in Locals BY <1>0 DEF FsTypes
  <2>5. [my[t] EXCEPT !.ok = b] \in Locals BY <2>4 DEF Locals
  <2>6. my' \in [Threads -> Locals] BY <1>0, <2>3, <2>5, LocalsUpdated
  <2>7. /\ my'[t].call = my[t].call /\ my'[t].fd = my[t].fd
        /\ my'[t].path = my[t].path /\ my'[t].ok = b
    BY <1>0, <2>3, <2>4 DEF FsTypes, Locals
  <2>8. FsTypes' BY <1>0, <1>1, <2>1, <2>2, <2>6 DEF FsTypes, semas
  <2>9. OthersStay(t) BY <1>0, <1>3, <2>3 DEF OthersStay, FsTypes
  <2>10. Quiet(t) BY <1>3, <2>1, <2>7, <2>9 DEF Quiet, InIo, HoldsIo, Searching
  <2>11. Placed(t)' /\ HasFile(t)' BY <1>3, <2>1, <2>3, <2>7 DEF Placed, HasFile, InFsInit, Searching
  <2> QED BY <1>1, <2>8, <2>10, <2>11, ThreadKeeps
<1>7. CASE SearchEnd(t)
  <2>1. /\ from = "searchend" /\ drive' = drive
        /\ \/ my[t].call \in Searches /\ to = "idle" /\ my' = [my EXCEPT ![t] = NoLocals]
           \/ /\ my[t].call = "open" /\ to \in {"opened", "leave"} /\ my' = my
              /\ to = "opened" => my[t].ok
    BY <1>0, <1>3, <1>7 DEF SearchEnd, Move, FsTypes, Searches
  <2>2. at' \in [Threads -> Places] BY <1>0, <1>3, <2>1 DEF FsTypes, Places, HoldsIo
  <2>3. my' \in [Threads -> Locals] BY <1>0, <2>1, NoLocalsTyped, LocalsUpdated DEF FsTypes
  <2>4. FsTypes' BY <1>0, <1>1, <1>7, <2>1, <2>2, <2>3 DEF FsTypes, SearchEnd, Min2
  <2>5. OthersStay(t) BY <1>0, <1>3, <2>1 DEF OthersStay, FsTypes
  <2>6. InIo(t)' = InIo(t)
    BY <1>0, <1>3, <2>1, NoLocalsTyped DEF FsTypes, InIo, HoldsIo, Searches
  <2>7. SearchReturned(t)
    BY <1>1, <1>3, <1>7, <2>1, <2>5, <2>6 DEF SearchReturned, SearchEnd, Searching
  <2>8. Placed(t)' /\ HasFile(t)'
    BY <1>0, <1>3, <2>1, NoLocalsTyped DEF FsTypes, Placed, HasFile, InFsInit, Searching, IoCalls
  <2> QED BY <1>1, <2>4, <2>7, <2>8, ThreadKeeps
<1> QED BY <1>4, <1>5, <1>6, <1>7

\* The file is open: its handle and its place in the file's private data.
LEMMA OpenedKeeps ==
  ASSUME SemaInv, NEW t \in Threads, cdvdman_open(t)
  PROVE  SemaInv'
<1>0. FsTypes /\ Placed(t) BY DEF SemaInv, PlaceInv
<1> DEFINE p == my[t].path
           h == [f |-> t, lsn |-> Lsn[p], filesize |-> Size[p], position |-> 0]
<1>1. UNCHANGED <<drive, inits, semas, bufs, my>> BY DEF cdvdman_open
<1>2. at[t] = "opened" /\ my[t].call = "open" /\ my[t].fd \in Fds /\ p \in Files
  BY <1>0 DEF cdvdman_open, Move, Placed
<1>3. at'[t] = "leave" /\ at' \in [Threads -> Places] /\ OthersStay(t)
  BY <1>0, <1>1 DEF cdvdman_open, Move, FsTypes, Places, HoldsIo, OthersStay
<1>4. h \in Handles
  <2>1. Lsn[p] \in Int /\ Size[p] \in Int BY <1>2, FsAssumption
  <2> QED BY <2>1 DEF Handles
<1>5. fdhandles' \in [Fds -> Handles] BY <1>0, <1>4, HandleUpdated DEF cdvdman_open
<1>6. privdata' \in [Threads -> 0 .. MaxFd] /\ DOMAIN opened' = Threads
      /\ \A u \in Threads \ {t} : privdata'[u] = privdata[u]
  BY <1>0, <1>2 DEF cdvdman_open, FsTypes, Fds
<1>7. FsTypes' BY <1>0, <1>1, <1>3, <1>5, <1>6 DEF FsTypes, inits, semas, bufs
<1>8. Quiet(t) BY <1>1, <1>2, <1>3 DEF Quiet, InIo, HoldsIo, Searching
<1>9. Placed(t)' /\ HasFile(t)' BY <1>1, <1>2, <1>3 DEF Placed, HasFile, InFsInit, Searching, IoCalls
<1> QED BY <1>6, <1>7, <1>8, <1>9, ThreadKeeps

\* What a phase of cdrom_read that starts a read does.
LEMMA AdvanceKeeps ==
  ASSUME SemaInv, NEW t \in Threads, NEW n \in Int, NEW nb \in Int,
         NEW dst \in {"fs_buf", "user"},
         NEW from \in {"phase1", "phase2", "phase3"}, NEW to \in {"copy1", "phase2sync", "copy3"},
         Advance(t, n, nb, dst, from, to),
         UNCHANGED <<inits, semas, bufs, raws>>
  PROVE  SemaInv'
<1>0. FsTypes /\ Placed(t) BY DEF SemaInv, PlaceInv
<1>1. at[t] = from /\ at' = [at EXCEPT ![t] = to] /\ my[t].call = "read" /\ my[t] \in Locals
  BY <1>0 DEF Advance, Move, Placed, FsTypes
<1>2. privdata[t] \in Fds /\ Fh(t) \in Handles BY <1>1, OpenHandle
<1>3. at'[t] = to /\ at' \in [Threads -> Places] BY <1>0, <1>1 DEF FsTypes, Places, HoldsIo
<1> DEFINE l == [my[t] EXCEPT !.nb = nb, !.size = @ - nb, !.rpos = @ + nb,
                              !.offset = Fh(t).position % SectorSize]
<1>4. Fh(t).position % SectorSize \in Int /\ (Fh(t).position + nb) % WordMod \in Int
      /\ PositionSector(t) \in Int
  BY <1>2, FsAssumption DEF Handles, PositionSector
<1>5. my' = [my EXCEPT ![t] = l] BY <1>0 DEF Advance, FsTypes
<1>6. l \in Locals
  <2>1. \A a, b, c, d \in Int : [my[t] EXCEPT !.nb = a, !.size = b, !.rpos = c, !.offset = d] \in Locals
    BY <1>1 DEF Locals
  <2>2. my[t].size - nb \in Int /\ my[t].rpos + nb \in Int BY <1>1 DEF Locals
  <2> QED BY <1>4, <2>1, <2>2
<1>7. l.call = my[t].call /\ l.ok = my[t].ok /\ l.path = my[t].path BY <1>1 DEF Locals
<1> HIDE DEF l
<1>8. my' \in [Threads -> Locals] /\ my'[t] = l BY <1>0, <1>5, <1>6, LocalsUpdated DEF FsTypes
<1>9. fdhandles' \in [Fds -> Handles]
  <2>1. fdhandles' = [fdhandles EXCEPT ![privdata[t]] =
                        [Fh(t) EXCEPT !.position = (Fh(t).position + nb) % WordMod]]
    BY <1>0, <1>2 DEF Advance, FsTypes, Fh, Handles
  <2>2. [Fh(t) EXCEPT !.position = (Fh(t).position + nb) % WordMod] \in Handles
    <3>1. \A h \in Handles, q \in Int : [h EXCEPT !.position = q] \in Handles BY DEF Handles
    <3> QED BY <1>2, <1>4, <3>1
  <2> QED BY <1>0, <2>1, <2>2, HandleUpdated
<1>10. drive' \in DriveReads
  BY <1>4 DEF Advance, Accepted, DriveReads
<1>11. FsTypes' BY <1>0, <1>3, <1>8, <1>9, <1>10 DEF FsTypes, Advance, inits, semas, bufs
<1>12. Placed(t)' BY <1>0, <1>1, <1>3, <1>7, <1>8 DEF Placed, InFsInit, Searching
<1>13. \A u \in Threads \ {t} : my'[u] = my[u] BY <1>0, <1>5 DEF FsTypes
<1>14. privdata' = privdata BY DEF Advance
<1>15. /\ from \in HoldsIo \ {"leave"} /\ to \in HoldsIo /\ Move(t, from, to)
       /\ UNCHANGED <<semas, privdata>> /\ my'[t].call = my[t].call
  BY <1>1, <1>7, <1>8, <1>14 DEF HoldsIo, Advance
<1> QED BY <1>11, <1>12, <1>13, <1>15, InIoKeeps

\* cdrom_read and cdrom_dread, from phase to phase.
LEMMA PhasesKeep ==
  ASSUME SemaInv, NEW t \in Threads,
         \/ Phase1(t) \/ CopyOut(t, "copy1", "phase2") \/ Phase2(t)
         \/ Phase3(t) \/ CopyOut(t, "copy3", "leave")
         \/ ReadEntries(t) \/ cdrom_dread(t)
  PROVE  SemaInv'
<1>0. FsTypes /\ Placed(t) BY DEF SemaInv, PlaceInv
<1>1. UNCHANGED <<inits, semas, fs_buf, cd_buf, privdata, opened>> /\ DOMAIN ubuf' = Threads
  BY <1>0 DEF Phase1, CopyOut, Phase2, Phase3, ReadEntries, cdrom_dread, bufs, files, Advance, Skip,
              FsTypes
<1>2. at[t] \in {"phase1", "copy1", "phase2", "phase3", "copy3"} => my[t].call = "read"
  BY <1>0 DEF Placed
<1>3. at[t] \in {"phase1", "copy1", "phase2", "phase3", "copy3"} => privdata[t] \in Fds /\ Fh(t) \in Handles
  BY <1>2, OpenHandle
<1>4. my[t] \in Locals BY <1>0 DEF FsTypes
\* A step that changes neither the locals nor the drive.
<1>5. ASSUME NEW from \in {"phase1", "copy1", "phase2", "phase3", "copy3", "dread", "entries"},
             NEW to \in {"phase2", "phase3", "leave", "entries"}, Move(t, from, to),
             to \in {"phase2", "phase3"} => my[t].call = "read",
             to = "entries" => my[t].call = "dread",
             my' = my, drive' \in DriveReads \cup {NoRead}, fdhandles' \in [Fds -> Handles]
      PROVE  SemaInv'
  <2>1. at[t] = from /\ at'[t] = to /\ at' \in [Threads -> Places]
    BY <1>0, <1>5 DEF Move, FsTypes, Places, HoldsIo
  <2>2. FsTypes' BY <1>0, <1>1, <1>5, <2>1 DEF FsTypes, inits, semas
  <2>3. Placed(t)' BY <1>0, <1>5, <2>1 DEF Placed, InFsInit, Searching, IoCalls
  <2> QED BY <1>1, <1>5, <2>2, <2>3, InIoKeeps DEF HoldsIo
<1>6. ASSUME NEW from \in {"phase1", "phase2", "phase3"}, NEW to \in {"phase2", "phase3", "leave"},
             Skip(t, from, to)
      PROVE  SemaInv'
  <2>1. at[t] = from BY <1>6 DEF Skip, Move
  <2> QED BY <1>0, <1>2, <1>5, <1>6, <2>1 DEF Skip, files, FsTypes
<1>7. CASE Phase1(t)
  <2>1. Fh(t).position % SectorSize \in Int BY <1>3, <1>7, FsAssumption DEF Phase1, Handles
  <2>2. Min2(SectorSize - (Fh(t).position % SectorSize), my[t].size) \in Int
    <3>1. \A x \in Int : Min2(SectorSize - x, my[t].size) \in Int
      BY <1>4, FsAssumption DEF Min2, Locals
    <3> QED BY <2>1, <3>1
  <2> QED BY <1>6, <1>7, <2>2, AdvanceKeeps DEF Phase1
<1>8. CASE Phase2(t)
  <2>1. my[t].size \div SectorSize \in Int BY <1>4, FsAssumption DEF Locals
  <2>2. (my[t].size \div SectorSize) * SectorSize \in Int BY <2>1, FsAssumption
  <2> QED BY <1>6, <1>8, <2>1, <2>2, AdvanceKeeps DEF Phase2
<1>9. CASE Phase3(t)
  <2>1. my[t].size \in Int BY <1>4 DEF Locals
  <2> QED BY <1>6, <1>9, <2>1, AdvanceKeeps DEF Phase3
<1>10. ASSUME NEW from \in {"copy1", "copy3"}, NEW to \in {"phase2", "leave"}, CopyOut(t, from, to)
       PROVE  SemaInv'
  <2>1. at[t] = from /\ UNCHANGED <<my, drive, fdhandles>> BY <1>10 DEF CopyOut, Move, files
  <2> QED BY <1>0, <1>2, <1>5, <1>10, <2>1 DEF CopyOut, FsTypes
<1>11. CASE ReadEntries(t)
  <2>1. at[t] = "dread" /\ my' = my /\ fdhandles' = fdhandles /\ my[t].call = "dread"
        /\ (Move(t, "dread", "entries") \/ Move(t, "dread", "leave"))
    BY <1>0, <1>11 DEF ReadEntries, Move, files, Placed
  <2>2. Fh(t) \in Handles BY <2>1, OpenHandle
  <2>3. [lsn |-> Fh(t).lsn, n |-> 1, dst |-> "fs_buf", by |-> t] \in DriveReads
    BY <2>2 DEF Handles, DriveReads
  <2>4. drive' \in DriveReads \cup {NoRead}
    BY <1>0, <1>11, <2>3 DEF ReadEntries, Accepted, Refused, FsTypes
  <2> QED BY <1>0, <1>5, <2>1, <2>4 DEF FsTypes
<1>12. CASE cdrom_dread(t)
  <2>1. at[t] = "entries" /\ my[t].call = "dread" /\ my' = my /\ drive' = drive
        /\ Move(t, "entries", "leave")
    BY <1>0, <1>12 DEF cdrom_dread, Move, Placed
  <2>2. privdata[t] \in Fds /\ Fh(t) \in Handles BY <2>1, OpenHandle
  <2>3. PICK n \in Int : fdhandles' = [fdhandles EXCEPT ![privdata[t]].position = @ + n]
    <3>1. Fh(t).filesize - Fh(t).position \in Int BY <2>2 DEF Handles
    <3>2. \A n \in 0 .. Fh(t).filesize - Fh(t).position : n \in Int BY <3>1
    <3> QED BY <1>12, <3>2 DEF cdrom_dread
  <2>4. fdhandles' = [fdhandles EXCEPT ![privdata[t]] = [Fh(t) EXCEPT !.position = @ + n]]
    BY <1>0, <2>2, <2>3 DEF Fh, FsTypes, Handles
  <2>5. [Fh(t) EXCEPT !.position = @ + n] \in Handles BY <2>2 DEF Handles
  <2>6. fdhandles' \in [Fds -> Handles] BY <1>0, <2>4, <2>5, HandleUpdated
  <2> QED BY <1>0, <1>5, <2>1, <2>6 DEF FsTypes
<1> QED BY <1>7, <1>8, <1>9, <1>10, <1>11, <1>12

\* The drive and the threads outside the model move nobody.
LEMMA RestKeeps ==
  ASSUME SemaInv, DriveDone \/ OtherFile
  PROVE  SemaInv'
<1>0. FsTypes BY DEF SemaInv
<1>1. UNCHANGED <<inits, semas, privdata, opened, at, my>>
  BY DEF DriveDone, OtherFile, files
<1>2. FsTypes'
  <2>1. CASE DriveDone
    <3>1. drive \in DriveReads BY <1>0, <2>1 DEF DriveDone, Finished, DriveIdle, FsTypes
    <3>2. drive.lsn \in Int BY <3>1 DEF DriveReads
    <3>3. fs_buf' \in Int /\ cd_buf' \in Int BY <1>0, <2>1, <3>2 DEF DriveDone, FsTypes
    <3>4. drive' = NoRead /\ DOMAIN ubuf' = Threads /\ fdhandles' = fdhandles
      BY <1>0, <2>1 DEF DriveDone, Finished, FsTypes, files
    <3> QED BY <1>0, <1>1, <3>3, <3>4 DEF FsTypes, inits, semas
  <2>2. CASE OtherFile
    <3>1. UNCHANGED <<drive, bufs>> BY <2>2 DEF OtherFile
    <3>2. FreeHandle \in Handles BY DEF FreeHandle, Handles
    <3>3. PICK i \in Fds, h \in Handles : fdhandles' = [fdhandles EXCEPT ![i] = h]
      <4>1. \A i \in Fds : /\ fdhandles[i] \in Handles
                           /\ [fdhandles[i] EXCEPT !.f = Other] \in Handles
                           /\ [fdhandles EXCEPT ![i].f = Other] = [fdhandles EXCEPT ![i] = [fdhandles[i] EXCEPT !.f = Other]]
        BY <1>0 DEF FsTypes, Handles
      <4> QED BY <2>2, <3>2, <4>1 DEF OtherFile
    <3>4. fdhandles' \in [Fds -> Handles] BY <1>0, <3>3, HandleUpdated
    <3> QED BY <1>0, <1>1, <3>1, <3>4 DEF FsTypes, inits, semas, bufs
  <2> QED BY <2>1, <2>2
<1>3. PlaceInv' /\ FileOpen' BY <1>1 DEF SemaInv, PlaceInv, Placed, FileOpen, HasFile
<1>4. SemaphoresHeld' BY <1>1 DEF SemaInv, SemaphoresHeld, InIo, semas
<1> QED BY <1>2, <1>3, <1>4 DEF SemaInv

\* The start, every step, and so every state.
LEMMA SemaStart == FsInit => SemaInv
<1> SUFFICES ASSUME FsInit PROVE SemaInv OBVIOUS
<1>1. FreeHandle \in Handles BY DEF FreeHandle, Handles
<1>2. FsTypes
  <2>1. fdhandles \in [Fds -> Handles] BY <1>1 DEF FsInit
  <2>2. my \in [Threads -> Locals] BY NoLocalsTyped DEF FsInit
  <2>3. at \in [Threads -> Places] BY DEF FsInit, Places
  <2>4. privdata \in [Threads -> 0 .. MaxFd] BY FsAssumption DEF FsInit
  <2>5. DOMAIN ubuf = Threads /\ DOMAIN opened = Threads BY DEF FsInit
  <2>6. fs_buf \in Int /\ cd_buf \in Int /\ root \in Int BY DEF FsInit, NoData
  <2> QED BY <2>1, <2>2, <2>3, <2>4, <2>5, <2>6 DEF FsInit, FsTypes
<1>3. PlaceInv /\ FileOpen
  BY NoLocalsTyped DEF FsInit, PlaceInv, Placed, FileOpen, HasFile, InFsInit, Searching
<1>4. SemaphoresHeld BY DEF FsInit, SemaphoresHeld, InIo, HoldsIo, Searching
<1> QED BY <1>2, <1>3, <1>4 DEF SemaInv

LEMMA SemaStep == SemaInv /\ [FsNext]_fsvars => SemaInv'
<1> SUFFICES ASSUME SemaInv, [FsNext]_fsvars PROVE SemaInv' OBVIOUS
<1>1. CASE UNCHANGED fsvars
  BY <1>1 DEF fsvars, inits, semas, bufs, files, SemaInv, FsTypes, PlaceInv, Placed, FileOpen, HasFile,
              SemaphoresHeld, InIo
<1>2. CASE DriveDone \/ OtherFile BY <1>2, RestKeeps
<1>3. ASSUME NEW t \in Threads, FsCall(t) PROVE SemaInv' BY <1>3, CallsKeep
<1>4. ASSUME NEW t \in Threads, FsStep(t) PROVE SemaInv'
  BY <1>4, InitsKeep, FileCallsKeep, LeaveKeeps, WaitsKeep, SlotKeeps, SearchesKeep, OpenedKeeps,
     PhasesKeep, Zenon DEF FsStep
<1> QED BY <1>1, <1>2, <1>3, <1>4 DEF FsNext

LEMMA SemaAlways == FsSpec => []SemaInv
  BY SemaStart, SemaStep, PTL DEF FsSpec

\* cdrom_io_sema is held by exactly the thread that is in a file call and
\* cdvdman_searchfilesema by exactly the one that searches, on every path
\* through open, read, dread, close, lseek, getstat and the initialisation.
THEOREM SemaphoresKept == FsSpec => []SemaphoresHeld
  BY SemaAlways, PTL DEF SemaInv

-----------------------------------------------------------------------------
(***************************************************************************)
(* First-use initialisation.  A file is only open, and a directory only    *)
(* searched, once the file system was initialised, and until two first     *)
(* calls get in each other's way only one thread is in fs_init, before     *)
(* that.                                                                   *)
(***************************************************************************)
Initialises == InFsInit \cup {"initdone"}
PastInit(t) ==
  \/ privdata[t] # 0
  \/ at[t] \in {"search", "slot", "opened"} \cup Searching
  \/ at[t] = "ready" /\ my[t].call = "open"

FirstInv ==
  /\ cdinited => fs_inited
  /\ \A t \in Threads : at[t] = "initdone" \/ PastInit(t) => fs_inited
OneInit ==
  ~rushed => /\ \A t, u \in Threads : at[t] \in InFsInit /\ at[u] \in InFsInit => t = u
             /\ \A t \in Threads : at[t] \in InFsInit => ~fs_inited
InitInv == FirstInv /\ OneInit

InitStep(t) ==
  \/ cdvdman_init(t) \/ DeviceFSInit(t) \/ ClearHandles(t) \/ ReadVolume(t)
  \/ SetRoot(t) \/ InitDone(t)

\* What a step of thread t leaves to the others.
StaysApart(t) == OthersStay(t) /\ \A u \in Threads \ {t} : privdata'[u] = privdata[u]

\* A step of a thread outside the initialisation.
OutsideInit(t) ==
  /\ UNCHANGED inits
  /\ StaysApart(t)
  /\ at[t] \notin Initialises /\ at'[t] \notin Initialises
  /\ PastInit(t)' => PastInit(t)

\* A call that begins, and a step of a call outside the initialisation, leaves the initialisation alone.
LEMMA CallsOutside ==
  ASSUME SemaInv, NEW t \in Threads, FsCall(t)
  PROVE  OutsideInit(t)
<1>0. FsTypes BY DEF SemaInv
<1> USE DEF Initialises, InFsInit, Searching
<1>1. ASSUME NEW c, Called(t, c), c.call \in CallNames \ {"none"} PROVE OutsideInit(t)
  <2>1. at[t] = "idle" /\ at'[t] \in {"init", "stat", "iosema"} /\ OthersStay(t) /\ privdata' = privdata
    BY <1>0, <1>1 DEF Called, Move, FsTypes, OthersStay, files
  <2> QED BY <1>1, <2>1 DEF OutsideInit, StaysApart, PastInit, Called
<1>2. CASE RawRead(t)
  <2>1. UNCHANGED <<inits, at, my, privdata>> /\ at[t] = "idle" BY <1>2 DEF RawRead, files
  <2> QED BY <2>1 DEF OutsideInit, StaysApart, OthersStay, PastInit
<1>3. \A p : [NoLocals EXCEPT !.call = "open", !.path = p].call = "open" BY DEF NoLocals
<1>4. \A n : [NoLocals EXCEPT !.call = "read", !.size = n, !.want = n].call = "read" BY DEF NoLocals
<1>5. \A c : [NoLocals EXCEPT !.call = c].call = c BY DEF NoLocals
<1>6. CASE cdrom_open(t) BY <1>1, <1>3, <1>6 DEF cdrom_open, CallNames, IoCalls
<1>7. CASE cdrom_read(t) BY <1>1, <1>4, <1>7 DEF cdrom_read, CallNames, IoCalls
<1>8. ASSUME NEW c \in CallNames \ {"none"}, Called(t, [NoLocals EXCEPT !.call = c])
      PROVE  OutsideInit(t)
  BY <1>1, <1>5, <1>8
<1>9. CASE FileCall(t) \/ ControlCall(t) \/ SearchFile(t)
  BY <1>8, <1>9 DEF FileCall, ControlCall, SearchFile, CallNames, IoCalls, InitCalls, Searches
<1> QED BY <1>2, <1>6, <1>7, <1>9 DEF FsCall

\* The other steps leave it alone as well.
LEMMA StepsOutside ==
  ASSUME SemaInv, NEW t \in Threads, FsStep(t), ~InitStep(t)
  PROVE  OutsideInit(t)
<1>0. FsTypes /\ Placed(t) BY DEF SemaInv, PlaceInv
<1> USE DEF Initialises, InFsInit, Searching
<1>1. CASE TakeIo(t) \/ TakeIoRead(t) \/ cdrom_close(t) \/ cdrom_lseek(t)
  <2>1. UNCHANGED inits BY <1>1 DEF TakeIo, TakeIoRead, cdrom_close, cdrom_lseek
  <2>2. at[t] = "iosema" /\ at'[t] \in {"init", "ready", "leave"}
        /\ (at'[t] = "ready" => my'[t].call # "open")
    BY <1>0, <1>1 DEF TakeIo, TakeIoRead, cdrom_close, cdrom_lseek, Move, FsTypes, Locals
  <2>3. StaysApart(t) /\ (privdata'[t] # 0 => privdata[t] # 0)
    BY <1>0, <1>1 DEF TakeIo, TakeIoRead, cdrom_close, cdrom_lseek, Move, FsTypes, StaysApart,
                      OthersStay, files
  <2> QED BY <2>1, <2>2, <2>3 DEF OutsideInit, PastInit
<1>2. CASE Leave(t) \/ Ready(t) \/ cdrom_getstat(t) \/ Phase2Sync(t)
  <2>1. UNCHANGED inits /\ privdata' = privdata /\ OthersStay(t)
    BY <1>0, <1>2 DEF Leave, Ready, cdrom_getstat, Phase2Sync, files, Move, FsTypes, OthersStay
  <2>2. \/ at[t] = "leave" /\ at'[t] = "idle"
        \/ at[t] = "stat" /\ at'[t] = "init"
        \/ at[t] = "phase2sync" /\ at'[t] = "phase3"
        \/ at[t] = "ready" /\ at'[t] \in {"slot", "phase1", "leave", "dread"}
           /\ (at'[t] = "slot" => my[t].call = "open")
    BY <1>0, <1>2 DEF Leave, Ready, cdrom_getstat, Phase2Sync, Move, FsTypes, Placed
  <2> QED BY <2>1, <2>2 DEF OutsideInit, PastInit, StaysApart
<1>3. CASE cdvdman_getfilefreeslot(t) \/ SearchTake(t) \/ ReadDir(t) \/ cdvdman_locatefile(t)
           \/ SearchEnd(t) \/ cdvdman_open(t)
  <2>1. UNCHANGED inits /\ StaysApart(t)
    BY <1>0, <1>3 DEF cdvdman_getfilefreeslot, SearchTake, ReadDir, cdvdman_locatefile, SearchEnd,
                      cdvdman_open, files, Move, FsTypes, OthersStay, StaysApart
  <2>2. at[t] \in {"slot", "search", "opened"} \cup Searching
        /\ at'[t] \in {"search", "leave", "idle", "opened"} \cup Searching
    BY <1>0, <1>3 DEF cdvdman_getfilefreeslot, SearchTake, ReadDir, cdvdman_locatefile, SearchEnd,
                      cdvdman_open, Move, FsTypes
  <2> QED BY <2>1, <2>2 DEF OutsideInit, PastInit
<1>4. CASE \/ Phase1(t) \/ CopyOut(t, "copy1", "phase2") \/ Phase2(t) \/ Phase3(t)
           \/ CopyOut(t, "copy3", "leave") \/ ReadEntries(t) \/ cdrom_dread(t)
  <2>1. UNCHANGED inits /\ privdata' = privdata /\ OthersStay(t)
    BY <1>0, <1>4 DEF Phase1, Phase2, Phase3, CopyOut, ReadEntries, cdrom_dread, Advance, Skip, files,
                      Move, FsTypes, OthersStay
  <2>2. at[t] \notin {"search", "slot", "opened", "ready", "iosema"} \cup Searching \cup Initialises
        /\ at'[t] \in HoldsIo \ {"ready", "slot", "opened"}
    BY <1>0, <1>4 DEF Phase1, Phase2, Phase3, CopyOut, ReadEntries, cdrom_dread, Advance, Skip, Move,
                      FsTypes, HoldsIo
  <2> QED BY <2>1, <2>2 DEF OutsideInit, PastInit, StaysApart, HoldsIo
<1> QED BY <1>1, <1>2, <1>3, <1>4, Zenon DEF FsStep, InitStep

\* The steps of the initialisation, as others see them.
LEMMA InitSteps ==
  ASSUME SemaInv, NEW t \in Threads, InitStep(t)
  PROVE  /\ StaysApart(t) /\ UNCHANGED <<my, privdata>>
         /\ \/ cdvdman_init(t) /\ at[t] = "init" /\ UNCHANGED <<cdinited, fs_inited, root>>
            \/ /\ at[t] \in InFsInit /\ at'[t] \in InFsInit /\ UNCHANGED <<cdinited, fs_inited, root>>
               /\ rushed => rushed'
            \/ SetRoot(t) /\ at[t] = "volumesync" /\ at'[t] = "initdone"
               /\ fs_inited' = TRUE /\ UNCHANGED <<cdinited, rushed>>
            \/ InitDone(t) /\ at[t] = "initdone" /\ cdinited' = TRUE /\ UNCHANGED <<fs_inited, root, rushed>>
<1>0. FsTypes BY DEF SemaInv
<1>1. StaysApart(t) /\ UNCHANGED <<my, privdata>>
  BY <1>0 DEF InitStep, cdvdman_init, DeviceFSInit, ClearHandles, ReadVolume, SetRoot, InitDone, files,
              Move, FsTypes, StaysApart, OthersStay
<1>2. CASE cdvdman_init(t) BY <1>1, <1>2 DEF cdvdman_init, Move
<1>3. CASE DeviceFSInit(t) \/ ClearHandles(t) \/ ReadVolume(t)
  <2>1. UNCHANGED <<cdinited, fs_inited, root>> /\ (rushed => rushed')
    BY <1>3 DEF DeviceFSInit, ClearHandles, ReadVolume, inits
  <2>2. at[t] \in InFsInit /\ at'[t] \in InFsInit
    BY <1>0, <1>3 DEF DeviceFSInit, ClearHandles, ReadVolume, Move, FsTypes, InFsInit
  <2> QED BY <1>1, <2>1, <2>2
<1>4. CASE SetRoot(t) BY <1>0, <1>1, <1>4 DEF SetRoot, Move, FsTypes
<1>5. CASE InitDone(t) BY <1>0, <1>1, <1>5 DEF InitDone, Move, FsTypes
<1> QED BY <1>2, <1>3, <1>4, <1>5 DEF InitStep

\* Where a thread goes on after its initialisation.
LEMMA AfterInits ==
  ASSUME SemaInv, NEW t \in Threads, at[t] \in {"init", "initdone"}
  PROVE  /\ AfterInit(t) \in {"idle", "ready", "search"}
         /\ my[t].call = "init" <=> AfterInit(t) = "idle"
<1>1. my[t].call \in InitCalls BY DEF SemaInv, PlaceInv, Placed
<1> QED BY <1>1 DEF AfterInit, InitCalls, Searches

\* Every step keeps InitInv.
LEMMA InitInvStep ==
  ASSUME SemaInv, InitInv, [FsNext]_fsvars
  PROVE  InitInv'
<1>0. FsTypes BY DEF SemaInv
<1> USE DEF InitInv, FirstInv, OneInit
<1>1. CASE UNCHANGED fsvars BY <1>1 DEF fsvars, inits, files, PastInit
<1>2. CASE DriveDone \/ OtherFile
  <2>1. UNCHANGED <<inits, at, my, privdata>> BY <1>2 DEF DriveDone, OtherFile, files
  <2> QED BY <2>1 DEF inits, PastInit
<1>3. ASSUME NEW t \in Threads, OutsideInit(t) PROVE InitInv'
  <2>1. UNCHANGED inits /\ at[t] \notin Initialises /\ at'[t] \notin Initialises
        /\ (PastInit(t)' => PastInit(t))
        /\ \A u \in Threads \ {t} : at'[u] = at[u] /\ (PastInit(u)' <=> PastInit(u))
    BY <1>3 DEF OutsideInit, StaysApart, OthersStay, PastInit
  <2> QED BY <2>1 DEF inits, Initialises
<1>4. ASSUME NEW t \in Threads, InitStep(t) PROVE InitInv'
  <2>1. \A u \in Threads \ {t} : at'[u] = at[u] /\ (PastInit(u)' <=> PastInit(u))
    BY <1>4, InitSteps DEF StaysApart, OthersStay, PastInit
  <2>2. my' = my /\ privdata' = privdata BY <1>4, InitSteps
  <2>3. CASE cdvdman_init(t) /\ at[t] = "init" /\ UNCHANGED <<cdinited, fs_inited, root>>
    <3>1. at'[t] = IF cdinited THEN AfterInit(t) ELSE IF fs_inited THEN "initdone" ELSE "device"
      BY <1>0, <2>3 DEF cdvdman_init, Move, FsTypes
    <3>2. rushed' = (rushed \/ (~cdinited /\ \E u \in Threads \ {t} : at[u] \in InFsInit))
      BY <2>3 DEF cdvdman_init
    <3>3. AfterInit(t) \notin Initialises
      BY <2>3, AfterInits DEF Initialises, InFsInit
    <3>4. FirstInv'
      <4>1. (at'[t] = "initdone" \/ PastInit(t)') => fs_inited
        BY <2>2, <3>1, <3>3 DEF PastInit, Initialises, Searching
      <4> QED BY <2>1, <2>3, <4>1
    <3>5. at'[t] \in InFsInit => ~cdinited /\ ~fs_inited
      BY <3>1, <3>3 DEF Initialises, InFsInit
    <3>6. OneInit' BY <2>1, <2>3, <3>2, <3>5
    <3> QED BY <3>4, <3>6
  <2>4. CASE /\ at[t] \in InFsInit /\ at'[t] \in InFsInit /\ UNCHANGED <<cdinited, fs_inited, root>>
             /\ rushed => rushed'
    <3>1. ~(at'[t] = "initdone") /\ (PastInit(t)' => PastInit(t))
      BY <2>2, <2>4 DEF PastInit, InFsInit, Searching
    <3>2. ~rushed' => ~rushed BY <2>4
    <3> QED BY <2>1, <2>4, <3>1, <3>2
  <2>5. CASE /\ SetRoot(t) /\ at[t] = "volumesync" /\ at'[t] = "initdone"
             /\ fs_inited' = TRUE /\ UNCHANGED <<cdinited, rushed>>
    <3>1. at[t] \in InFsInit /\ at'[t] \notin InFsInit BY <2>5 DEF InFsInit
    <3> QED BY <2>1, <2>5, <3>1
  <2>6. CASE /\ InitDone(t) /\ at[t] = "initdone" /\ cdinited' = TRUE
             /\ UNCHANGED <<fs_inited, root, rushed>>
    <3>1. fs_inited BY <2>6
    <3>2. at'[t] = AfterInit(t) BY <1>0, <2>6 DEF InitDone, Move, FsTypes
    <3>3. at'[t] \notin InFsInit BY <2>6, <3>2, AfterInits DEF InFsInit
    <3> QED BY <2>1, <2>6, <3>1, <3>3
  <2> QED BY <1>4, <2>3, <2>4, <2>5, <2>6, InitSteps
<1> QED BY <1>1, <1>2, <1>3, <1>4, CallsOutside, StepsOutside DEF FsNext

-----------------------------------------------------------------------------
(***************************************************************************)
(* Who a read under way belongs to: the thread that waits for it.          *)
(***************************************************************************)
WaitsAt(dst) ==
  CASE dst = "cd_buf" -> {"volumesync", "dirsync"}
    [] dst = "fs_buf" -> {"copy1", "copy3", "entries"}
    [] dst = "user" -> {"phase2sync"}
    [] dst = "raw" -> Places
DriveInv == ~DriveIdle => at[drive.by] \in WaitsAt(drive.dst)

\* Whoever waits for a read stays where it is until the drive is idle.
LEMMA WaiterStays ==
  ASSUME SemaInv, NEW t \in Threads, FsCall(t) \/ FsStep(t),
         at[t] \in {"volumesync", "dirsync", "copy1", "copy3", "entries", "phase2sync"}
  PROVE  DriveIdle /\ drive' = drive
<1>1. ~FsCall(t)
  BY DEF FsCall, cdrom_open, cdrom_read, FileCall, ControlCall, SearchFile, Called, RawRead, Move
<1>2. \/ SetRoot(t) \/ cdvdman_locatefile(t) \/ CopyOut(t, "copy1", "phase2")
      \/ CopyOut(t, "copy3", "leave") \/ cdrom_dread(t) \/ Phase2Sync(t)
  BY <1>1 DEF FsStep, TakeIo, TakeIoRead, cdrom_close, cdrom_lseek, Leave, cdvdman_init, DeviceFSInit,
     ClearHandles, ReadVolume, InitDone, Ready, cdrom_getstat, cdvdman_getfilefreeslot, SearchTake,
     ReadDir, SearchEnd, cdvdman_open, Phase1, Phase2, Phase3, ReadEntries, Move, Advance, Skip
<1> QED BY <1>2 DEF SetRoot, cdvdman_locatefile, CopyOut, cdrom_dread, Phase2Sync

\* A step either leaves the drive alone or starts a read and waits for it.
LEMMA Starts ==
  ASSUME SemaInv, NEW t \in Threads, FsCall(t) \/ FsStep(t)
  PROVE  \/ drive' = drive
         \/ DriveIdle /\ drive' \in DriveReads /\ drive'.by = t /\ at'[t] \in WaitsAt(drive'.dst)
<1>0. FsTypes /\ Placed(t) /\ FsTypes'
  <2>1. SemaInv' BY SemaStep DEF FsNext
  <2> QED BY <2>1 DEF SemaInv, PlaceInv
<1>1. CASE FsCall(t)
  <2>1. CASE RawRead(t)
    <3>1. [lsn |-> 0, n |-> 1, dst |-> "raw", by |-> t] \in DriveReads BY DEF DriveReads
    <3> QED BY <1>0, <2>1, <3>1 DEF RawRead, Accepted, DriveReads, WaitsAt, FsTypes
  <2>2. CASE ~RawRead(t)
    BY <1>1, <2>2 DEF FsCall, cdrom_open, cdrom_read, FileCall, ControlCall, SearchFile, Called
  <2> QED BY <2>1, <2>2
<1>2. CASE ReadVolume(t) \/ ReadDir(t) \/ ReadEntries(t)
  <2>1. CASE drive' = drive BY <2>1
  <2>2. CASE drive' # drive
    <3>1. ASSUME NEW l, NEW d \in {"cd_buf", "fs_buf"},
                 Accepted([lsn |-> l, n |-> 1, dst |-> d, by |-> t]), at'[t] \in WaitsAt(d)
          PROVE  DriveIdle /\ drive' \in DriveReads /\ drive'.by = t /\ at'[t] \in WaitsAt(drive'.dst)
      <4>1. drive' = [lsn |-> l, n |-> 1, dst |-> d, by |-> t] /\ DriveIdle BY <3>1 DEF Accepted
      <4>2. drive' # NoRead BY <2>2, <4>1 DEF DriveIdle
      <4> QED BY <1>0, <3>1, <4>1, <4>2 DEF FsTypes
    <3>2. CASE ReadVolume(t)
      <4>1. Accepted([lsn |-> VolumeSector, n |-> 1, dst |-> "cd_buf", by |-> t])
        BY <2>2, <3>2 DEF ReadVolume, Refused
      <4>2. at'[t] \in WaitsAt("cd_buf") BY <1>0, <3>2 DEF ReadVolume, Move, FsTypes, WaitsAt
      <4> QED BY <3>1, <4>1, <4>2
    <3>3. CASE ReadDir(t)
      <4>1. Accepted([lsn |-> root, n |-> 1, dst |-> "cd_buf", by |-> t]) /\ Move(t, "dir", "dirsync")
        BY <2>2, <3>3 DEF ReadDir, Refused
      <4>2. at'[t] \in WaitsAt("cd_buf") BY <1>0, <4>1 DEF Move, FsTypes, WaitsAt
      <4> QED BY <3>1, <4>1, <4>2
    <3>4. CASE ReadEntries(t)
      <4>1. Accepted([lsn |-> Fh(t).lsn, n |-> 1, dst |-> "fs_buf", by |-> t]) /\ Move(t, "dread", "entries")
        BY <2>2, <3>4 DEF ReadEntries, Refused
      <4>2. at'[t] \in WaitsAt("fs_buf") BY <1>0, <4>1 DEF Move, FsTypes, WaitsAt
      <4> QED BY <3>1, <4>1, <4>2
    <3> QED BY <1>2, <3>2, <3>3, <3>4
  <2> QED BY <2>1, <2>2
<1>3. CASE Phase1(t) \/ Phase2(t) \/ Phase3(t)
  <2>1. CASE drive' = drive BY <2>1
  <2>2. CASE drive' # drive
    <3>1. ASSUME NEW n, NEW nb, NEW d, NEW from, NEW to, Advance(t, n, nb, d, from, to), to \in WaitsAt(d)
          PROVE  DriveIdle /\ drive' \in DriveReads /\ drive'.by = t /\ at'[t] \in WaitsAt(drive'.dst)
      <4>1. /\ drive' = [lsn |-> PositionSector(t), n |-> n, dst |-> d, by |-> t] /\ DriveIdle
            /\ at'[t] = to
        BY <1>0, <3>1 DEF Advance, Accepted, Move, FsTypes
      <4>2. drive' # NoRead BY <2>2, <4>1 DEF DriveIdle
      <4> QED BY <1>0, <3>1, <4>1, <4>2 DEF FsTypes
    <3>2. "copy1" \in WaitsAt("fs_buf") /\ "copy3" \in WaitsAt("fs_buf") /\ "phase2sync" \in WaitsAt("user")
      BY DEF WaitsAt
    <3>3. CASE Phase1(t) BY <2>2, <3>1, <3>2, <3>3 DEF Phase1, Skip
    <3>4. CASE Phase2(t) BY <2>2, <3>1, <3>2, <3>4 DEF Phase2, Skip
    <3>5. CASE Phase3(t) BY <2>2, <3>1, <3>2, <3>5 DEF Phase3, Skip
    <3> QED BY <1>3, <3>3, <3>4, <3>5
  <2> QED BY <2>1, <2>2
<1>4. CASE FsStep(t) /\ ~ReadVolume(t) /\ ~ReadDir(t) /\ ~ReadEntries(t)
           /\ ~Phase1(t) /\ ~Phase2(t) /\ ~Phase3(t)
  <2>1. drive' = drive
    BY <1>4 DEF FsStep, TakeIo, TakeIoRead, cdrom_close, cdrom_lseek, Leave, cdvdman_init, DeviceFSInit,
       ClearHandles, SetRoot, InitDone, Ready, cdrom_getstat, cdvdman_getfilefreeslot, SearchTake,
       cdvdman_locatefile, SearchEnd, cdvdman_open, CopyOut, Phase2Sync, cdrom_dread
  <2> QED BY <2>1
<1> QED BY <1>1, <1>2, <1>3, <1>4

\* Every step keeps DriveInv.
LEMMA DriveInvStep ==
  ASSUME SemaInv, DriveInv, [FsNext]_fsvars
  PROVE  DriveInv'
<1>1. CASE UNCHANGED fsvars BY <1>1 DEF fsvars, DriveInv, DriveIdle
<1>2. CASE DriveDone \/ OtherFile
  BY <1>2 DEF DriveDone, OtherFile, Finished, DriveInv, DriveIdle
<1>3. ASSUME NEW t \in Threads, FsCall(t) \/ FsStep(t) PROVE DriveInv'
  <2>0. FsTypes /\ SemaInv'
    <3>1. SemaInv' BY <1>3, SemaStep DEF FsNext
    <3> QED BY <3>1 DEF SemaInv
  <2>1. CASE drive' = drive
    <3>1. SUFFICES ASSUME ~DriveIdle PROVE at'[drive.by] \in WaitsAt(drive.dst)
      BY <2>1 DEF DriveInv, DriveIdle
    <3>2. drive \in DriveReads /\ drive.by \in Threads
      BY <2>0, <3>1 DEF FsTypes, DriveIdle, DriveReads
    <3>3. CASE drive.by # t
      <4>1. OthersStay(t)
        BY <1>3, CallsOutside, StepsOutside, InitSteps DEF OutsideInit, StaysApart
      <4> QED BY <3>1, <3>2, <3>3, <4>1 DEF OthersStay, DriveInv
    <3>4. CASE drive.by = t /\ drive.dst # "raw"
      <4>1. at[t] \in {"volumesync", "dirsync", "copy1", "copy3", "entries", "phase2sync"}
        BY <3>1, <3>2, <3>4 DEF DriveInv, WaitsAt, DriveReads
      <4> QED BY <1>3, <3>1, <4>1, WaiterStays
    <3>5. CASE drive.by = t /\ drive.dst = "raw"
      BY <2>0, <3>2, <3>5 DEF SemaInv, FsTypes, WaitsAt
    <3> QED BY <3>3, <3>4, <3>5
  <2>2. CASE drive'.by = t /\ at'[t] \in WaitsAt(drive'.dst)
    BY <2>2 DEF DriveInv
  <2> QED BY <1>3, <2>1, <2>2, Starts
<1> QED BY <1>1, <1>2, <1>3 DEF FsNext

-----------------------------------------------------------------------------
(***************************************************************************)
(* The root directory: until two first calls get in each other's way, the  *)
(* one thread that waits for the volume descriptor finds it in cdvdman_buf.*)
(***************************************************************************)
RootRead ==
  ~rushed => \A t \in Threads : at[t] = "volumesync" =>
    IF ~DriveIdle /\ drive.dst = "cd_buf" THEN drive.lsn = VolumeSector ELSE cd_buf = VolumeSector
RootKnown == fs_inited /\ ~rushed => root = RootLba
RootInv == RootRead /\ RootKnown

\* Every step keeps RootInv.
LEMMA RootInvStep ==
  ASSUME SemaInv, InitInv, DriveInv, RootInv, [FsNext]_fsvars
  PROVE  RootInv'
<1>0. FsTypes /\ InitInv' /\ SemaInv' BY InitInvStep, SemaStep DEF SemaInv
<1> USE DEF RootInv, RootRead, RootKnown
<1>1. CASE UNCHANGED fsvars BY <1>1 DEF fsvars, inits, bufs, DriveIdle
<1>2. CASE DriveDone \/ OtherFile
  <2>1. UNCHANGED <<inits, at>> BY <1>2 DEF DriveDone, OtherFile
  <2>2. CASE DriveDone
    <3>1. ~DriveIdle /\ DriveIdle' BY <2>2 DEF DriveDone, Finished, DriveIdle
    <3>2. cd_buf' = IF drive.dst = "cd_buf" THEN drive.lsn ELSE cd_buf BY <2>2 DEF DriveDone
    <3> QED BY <2>1, <3>1, <3>2 DEF inits
  <2>3. CASE OtherFile
    <3>1. UNCHANGED <<drive, cd_buf>> BY <2>3 DEF OtherFile, bufs
    <3> QED BY <2>1, <3>1 DEF inits, DriveIdle
  <2> QED BY <1>2, <2>2, <2>3
<1>3. ASSUME NEW t \in Threads, FsCall(t) \/ FsStep(t) PROVE RootInv'
  <2>1. cd_buf' = cd_buf
    BY <1>3 DEF FsCall, cdrom_open, cdrom_read, FileCall, ControlCall, SearchFile, Called, RawRead,
       FsStep, TakeIo, TakeIoRead, cdrom_close, cdrom_lseek, Leave, cdvdman_init, DeviceFSInit,
       ClearHandles, ReadVolume, SetRoot, InitDone, Ready, cdrom_getstat, cdvdman_getfilefreeslot,
       SearchTake, ReadDir, cdvdman_locatefile, SearchEnd, cdvdman_open, Phase1, Phase2, Phase3, CopyOut,
       Phase2Sync, ReadEntries, cdrom_dread, bufs
  <2>2. OthersStay(t)
    BY <1>3, CallsOutside, StepsOutside, InitSteps DEF OutsideInit, StaysApart
  <2>3. RootKnown'
    <3>1. CASE SetRoot(t)
      <4>1. at[t] = "volumesync" /\ DriveIdle /\ (cd_buf = VolumeSector => root' = RootLba)
        BY <3>1 DEF SetRoot, Move
      <4>2. ~rushed => cd_buf = VolumeSector BY <4>1
      <4>3. rushed' = rushed BY <3>1 DEF SetRoot
      <4> QED BY <4>1, <4>2, <4>3
    <3>2. CASE ~SetRoot(t)
      <4>1. fs_inited' = fs_inited /\ root' = root /\ (~rushed' => ~rushed)
        <5>1. CASE InitStep(t) BY <3>2, <5>1, InitSteps DEF cdvdman_init
        <5>2. CASE ~InitStep(t)
          BY <1>3, <5>2, CallsOutside, StepsOutside DEF OutsideInit, inits
        <5> QED BY <5>1, <5>2
      <4> QED BY <4>1
    <3> QED BY <3>1, <3>2
  <2>4. ASSUME ~rushed', NEW u \in Threads, at'[u] = "volumesync"
        PROVE  IF ~DriveIdle' /\ drive'.dst = "cd_buf" THEN drive'.lsn = VolumeSector
                                                       ELSE cd_buf' = VolumeSector
    <3>1. at'[u] \in InFsInit BY <2>4 DEF InFsInit
    <3>2. CASE u = t
      <4>1. InitStep(t)
        <5>1. at'[t] \in Initialises BY <3>1, <3>2 DEF Initialises
        <5> QED BY <1>3, <5>1, CallsOutside, StepsOutside DEF OutsideInit
      <4>2. ReadVolume(t)
        BY <1>0, <2>4, <3>2, <4>1, InitSteps, AfterInits DEF InitStep, cdvdman_init, DeviceFSInit, ClearHandles, SetRoot,
           InitDone, Move, FsTypes
      <4>3. Accepted([lsn |-> VolumeSector, n |-> 1, dst |-> "cd_buf", by |-> t])
        BY <2>4, <4>2 DEF ReadVolume
      <4>4. drive' = [lsn |-> VolumeSector, n |-> 1, dst |-> "cd_buf", by |-> t] BY <4>3 DEF Accepted
      <4>5. drive' # NoRead
        <5>1. VolumeSector \in Int BY DEF VolumeSector
        <5>2. [lsn |-> VolumeSector, n |-> 1, dst |-> "cd_buf", by |-> t] \in DriveReads
          BY <5>1 DEF DriveReads
        <5> QED BY <4>4, <5>2, FsAssumption DEF DriveReads
      <4> QED BY <4>4, <4>5 DEF DriveIdle
    <3>3. CASE u # t
      <4>1. at[u] = "volumesync" BY <2>2, <2>4, <3>3 DEF OthersStay
      <4>2. ~rushed
        BY <1>3, <2>4, InitSteps, CallsOutside, StepsOutside DEF OutsideInit, inits, cdvdman_init
      <4>3. CASE drive' = drive BY <2>1, <4>1, <4>2, <4>3 DEF DriveIdle
      <4>4. CASE DriveIdle /\ drive'.by = t /\ at'[t] \in WaitsAt(drive'.dst)
        <5>1. cd_buf' = VolumeSector BY <2>1, <4>1, <4>2, <4>4
        <5>2. drive'.dst # "cd_buf"
          <6>1. SUFFICES ASSUME drive'.dst = "cd_buf" PROVE FALSE OBVIOUS
          <6>2. at'[t] \in {"volumesync", "dirsync"} BY <4>4, <6>1 DEF WaitsAt
          <6>3. ~fs_inited' /\ at'[t] \notin InFsInit
            BY <1>0, <2>4, <3>1, <3>3 DEF InitInv, OneInit
          <6>4. at'[t] = "dirsync" BY <6>2, <6>3 DEF InFsInit
          <6>5. PastInit(t)' BY <6>4 DEF PastInit, Searching
          <6> QED BY <1>0, <6>3, <6>5 DEF InitInv, FirstInv
        <5> QED BY <5>1, <5>2
      <4> QED BY <1>3, <4>3, <4>4, Starts
    <3> QED BY <3>2, <3>3
  <2> QED BY <2>3, <2>4
<1> QED BY <1>1, <1>2, <1>3 DEF FsNext

-----------------------------------------------------------------------------
(***************************************************************************)
(* The handles: the slot an open found stays free until it is taken, since *)
(* only the thread with cdrom_io_sema takes or frees one.                  *)
(***************************************************************************)
Opening(t) == my[t].call = "open" /\ at[t] \in {"search", "opened"} \cup Searching
SlotFree == ~rushed => \A t \in Threads : Opening(t) => fdhandles[my[t].fd].f = NoThread
NotYetOpen ==
  \A t \in Threads : my[t].call = "open" /\ at[t] \notin {"idle", "leave"} => privdata[t] = 0
HandleInv == SlotFree /\ NotYetOpen /\ HandlesKept

SameOwners == \A i \in Fds : fdhandles'[i].f = fdhandles[i].f

\* Only four operations give a handle to a file or take it away.
LEMMA OwnersStay ==
  ASSUME SemaInv, NEW t \in Threads, FsCall(t) \/ FsStep(t),
         ~cdrom_close(t), ~ClearHandles(t), ~cdvdman_open(t)
  PROVE  SameOwners
<1>0. FsTypes BY DEF SemaInv
<1> USE DEF SameOwners
<1>1. CASE fdhandles' = fdhandles BY <1>1
<1>2. ASSUME NEW p, at[t] \notin {"idle", "leave"}, my[t].call \in {"read", "lseek", "dread"},
             fdhandles' = [fdhandles EXCEPT ![privdata[t]].position = p]
      PROVE  SameOwners
  <2>1. privdata[t] \in Fds BY <1>2, OpenHandle
  <2> QED BY <1>0, <1>2, <2>1 DEF FsTypes, Handles
<1>3. CASE cdrom_lseek(t)
  <2>1. at[t] = "iosema" BY <1>3 DEF cdrom_lseek, Move
  <2> QED BY <1>2, <1>3, <2>1 DEF cdrom_lseek
<1>4. CASE cdrom_dread(t)
  <2>1. at[t] = "entries" /\ my[t].call = "dread"
    BY <1>4 DEF cdrom_dread, Move, SemaInv, PlaceInv, Placed
  <2>2. privdata[t] \in Fds BY <2>1, OpenHandle
  <2>3. PICK n : fdhandles' = [fdhandles EXCEPT ![privdata[t]].position = @ + n] BY <1>4 DEF cdrom_dread
  <2>4. fdhandles' = [fdhandles EXCEPT ![privdata[t]].position = fdhandles[privdata[t]].position + n]
    BY <2>3
  <2> QED BY <1>2, <2>1, <2>4
<1>5. CASE Phase1(t) \/ Phase2(t) \/ Phase3(t)
  <2>1. my[t].call = "read" /\ at[t] \in {"phase1", "phase2", "phase3"}
    BY <1>0, <1>5 DEF Phase1, Phase2, Phase3, SemaInv, PlaceInv, Placed
  <2>2. ASSUME NEW n, NEW nb, NEW d, NEW from, NEW to, Advance(t, n, nb, d, from, to)
        PROVE  SameOwners
    <3>1. fdhandles' = [fdhandles EXCEPT ![privdata[t]].position = (fdhandles[privdata[t]].position + nb) % WordMod]
      BY <2>2 DEF Advance
    <3> QED BY <1>2, <2>1, <3>1
  <2>3. CASE Phase1(t) BY <1>1, <2>2, <2>3 DEF Phase1, Skip, files
  <2>4. CASE Phase2(t) BY <1>1, <2>2, <2>4 DEF Phase2, Skip, files
  <2>5. CASE Phase3(t) BY <1>1, <2>2, <2>5 DEF Phase3, Skip, files
  <2> QED BY <1>5, <2>3, <2>4, <2>5
<1>6. CASE FsCall(t)
  BY <1>1, <1>6 DEF FsCall, cdrom_open, cdrom_read, FileCall, ControlCall, SearchFile, Called, RawRead, files
<1>7. CASE /\ FsStep(t) /\ ~cdrom_lseek(t) /\ ~cdrom_dread(t) /\ ~Phase1(t) /\ ~Phase2(t) /\ ~Phase3(t)
           /\ ~cdrom_close(t) /\ ~ClearHandles(t) /\ ~cdvdman_open(t)
  BY <1>1, <1>7 DEF FsStep, TakeIo, TakeIoRead, Leave, cdvdman_init, DeviceFSInit, ReadVolume, SetRoot, InitDone,
     Ready, cdrom_getstat, cdvdman_getfilefreeslot, SearchTake, ReadDir, cdvdman_locatefile, SearchEnd,
     CopyOut, Phase2Sync, ReadEntries, files
<1> QED BY <1>3, <1>4, <1>5, <1>6, <1>7

\* Only an open and a close change what a thread has open, and an open goes
\* on with the slot it found.
LEMMA OpensStay ==
  ASSUME SemaInv, NEW t \in Threads, FsCall(t) \/ FsStep(t), NotYetOpen,
         ~cdrom_close(t), ~cdvdman_open(t)
  PROVE  /\ privdata' = privdata
         /\ my'[t].call = "open" /\ at'[t] \notin {"idle", "leave"} => privdata[t] = 0
         /\ Opening(t)' => \/ Opening(t) /\ my'[t].fd = my[t].fd
                           \/ fdhandles[my'[t].fd].f = NoThread /\ fdhandles' = fdhandles
<1>0. FsTypes /\ SemaInv'
  <2>1. SemaInv' BY SemaStep DEF FsNext
  <2> QED BY <2>1 DEF SemaInv
<1>1. privdata' = privdata
  BY DEF FsCall, cdrom_open, cdrom_read, FileCall, ControlCall, SearchFile, Called, RawRead,
     FsStep, TakeIo, TakeIoRead, cdrom_lseek, Leave, cdvdman_init, DeviceFSInit,
     ClearHandles, ReadVolume, SetRoot, InitDone, Ready, cdrom_getstat, cdvdman_getfilefreeslot,
     SearchTake, ReadDir, cdvdman_locatefile, SearchEnd, Phase1, Phase2, Phase3, CopyOut,
     Phase2Sync, ReadEntries, cdrom_dread, Advance, Skip, files
<1>2. CASE FsCall(t)
  <2>1. CASE RawRead(t)
    <3>1. my' = my /\ at' = at BY <2>1 DEF RawRead
    <3> QED BY <1>1, <3>1 DEF NotYetOpen, Opening
  <2>2. CASE ~RawRead(t)
    <3>1. at'[t] \in {"init", "stat", "iosema"}
      BY <1>0, <1>2, <2>2 DEF FsCall, cdrom_open, cdrom_read, FileCall, ControlCall, SearchFile, Called, Move,
         FsTypes
    <3>2. my'[t].call = "open" => privdata[t] = 0
      <4>1. CASE cdrom_open(t) BY <4>1 DEF cdrom_open
      <4>2. CASE ~cdrom_open(t)
        <5>1. \A n : [NoLocals EXCEPT !.call = "read", !.size = n, !.want = n].call = "read" BY DEF NoLocals
        <5>2. \A c : [NoLocals EXCEPT !.call = c].call = c BY DEF NoLocals
        <5>3. PICK c : my' = [my EXCEPT ![t] = c] /\ c.call # "open"
          <6>1. CASE cdrom_read(t) BY <5>1, <6>1 DEF cdrom_read, Called
          <6>2. CASE FileCall(t) \/ ControlCall(t) \/ SearchFile(t)
            BY <5>2, <6>2 DEF FileCall, ControlCall, SearchFile, Called, Searches
          <6> QED BY <1>2, <2>2, <4>2, <6>1, <6>2 DEF FsCall
        <5> QED BY <1>0, <5>3 DEF FsTypes
      <4> QED BY <4>1, <4>2
    <3> QED BY <1>1, <3>1, <3>2 DEF Opening, Searching
  <2> QED BY <2>1, <2>2
<1>3. CASE cdvdman_getfilefreeslot(t)
  <2>1. at[t] = "slot" /\ my[t].call = "open" /\ fdhandles' = fdhandles
    BY <1>3 DEF cdvdman_getfilefreeslot, Move, SemaInv, PlaceInv, Placed, files
  <2>2. privdata[t] = 0 BY <2>1 DEF NotYetOpen
  <2> DEFINE free == {i \in Fds : fdhandles[i].f = NoThread}
             i0 == CHOOSE i \in free : \A k \in free : i <= k
  <2>3. Opening(t)' => my' = [my EXCEPT ![t].fd = i0] /\ free # {}
    BY <1>0, <1>3 DEF Opening, cdvdman_getfilefreeslot, Move, FsTypes, Searching
  <2>4. free # {} => i0 \in free
    <3>1. Fds \subseteq Nat BY FsAssumption DEF Fds
    <3>2. free \in SUBSET Nat BY <3>1
    <3> HIDE DEF free
    <3>3. SUFFICES ASSUME free # {} PROVE i0 \in free OBVIOUS
    <3>4. \E x \in free : \A y \in free : x <= y BY <3>2, <3>3, LeastOne
    <3> QED BY <3>4
  <2> HIDE DEF i0
  <2>5. Opening(t)' => my'[t].fd = i0 /\ i0 \in free
    BY <1>0, <2>3, <2>4 DEF FsTypes, Locals
  <2> QED BY <1>1, <2>1, <2>2, <2>5
<1>4. CASE FsStep(t) /\ ~cdvdman_getfilefreeslot(t) /\ ~InitStep(t)
  <2>1. /\ my'[t].call = "open" /\ at'[t] \notin {"idle", "leave"}
           => my[t].call = "open" /\ at[t] \notin {"idle", "leave"}
        /\ Opening(t)' => Opening(t) /\ my'[t].fd = my[t].fd
    <3>1. CASE TakeIo(t) \/ TakeIoRead(t) \/ cdrom_lseek(t) \/ Leave(t) \/ Ready(t) \/ cdrom_getstat(t)
      <4>1. /\ at'[t] = "idle" \/ (my'[t].call = my[t].call /\ at[t] \notin {"idle", "leave"})
            /\ at'[t] \notin {"search", "opened"} \cup Searching
        <5>1. CASE TakeIo(t) \/ cdrom_lseek(t)
          BY <1>0, <5>1 DEF TakeIo, cdrom_lseek, Move, FsTypes, Searching
        <5>2. CASE TakeIoRead(t)
          <6>1. at[t] = "iosema" /\ at'[t] = "ready" BY <1>0, <5>2 DEF TakeIoRead, Move, FsTypes
          <6>2. my'[t].call = my[t].call BY <1>0, <5>2 DEF TakeIoRead, FsTypes, Locals
          <6> QED BY <6>1, <6>2 DEF Searching
        <5>3. CASE Leave(t) BY <1>0, <5>3 DEF Leave, Move, FsTypes, Searching
        <5>4. CASE Ready(t)
          BY <1>0, <5>4 DEF Ready, Move, FsTypes, Searching, SemaInv, PlaceInv, Placed
        <5>5. CASE cdrom_getstat(t) BY <1>0, <5>5 DEF cdrom_getstat, Move, FsTypes, Searching
        <5> QED BY <3>1, <5>1, <5>2, <5>3, <5>4, <5>5
      <4> QED BY <4>1 DEF Opening
    <3>2. CASE SearchTake(t) \/ ReadDir(t) \/ SearchEnd(t)
      <4>1. /\ at[t] \in {"search"} \cup Searching
            /\ my' = my \/ at'[t] = "idle"
        BY <1>0, <3>2 DEF SearchTake, ReadDir, SearchEnd, Move, FsTypes, Searching
      <4> QED BY <4>1 DEF Opening, Searching
    <3>3. CASE cdvdman_locatefile(t)
      <4>1. at[t] \in Searching /\ my'[t].call = my[t].call /\ my'[t].fd = my[t].fd
        BY <1>0, <3>3 DEF cdvdman_locatefile, Move, FsTypes, Searching, Locals
      <4> QED BY <4>1 DEF Opening, Searching
    <3>4. CASE \/ Phase1(t) \/ CopyOut(t, "copy1", "phase2") \/ Phase2(t) \/ Phase3(t) \/ Phase2Sync(t)
               \/ CopyOut(t, "copy3", "leave") \/ ReadEntries(t) \/ cdrom_dread(t)
      <4>1. at[t] \in {"phase1", "copy1", "phase2", "phase2sync", "phase3", "copy3", "dread", "entries"}
            /\ at'[t] \in HoldsIo \ {"opened"} /\ my'[t].call = my[t].call
        <5>1. CASE Phase1(t) \/ Phase2(t) \/ Phase3(t)
          <6>1. CASE Phase1(t) BY <1>0, <6>1 DEF Phase1, Advance, Skip, Move, FsTypes, HoldsIo, Locals
          <6>2. CASE Phase2(t) BY <1>0, <6>2 DEF Phase2, Advance, Skip, Move, FsTypes, HoldsIo, Locals
          <6>3. CASE Phase3(t) BY <1>0, <6>3 DEF Phase3, Advance, Skip, Move, FsTypes, HoldsIo, Locals
          <6> QED BY <5>1, <6>1, <6>2, <6>3
        <5>2. CASE CopyOut(t, "copy1", "phase2") \/ CopyOut(t, "copy3", "leave")
          BY <1>0, <5>2 DEF CopyOut, Move, FsTypes, HoldsIo, Locals
        <5>3. CASE Phase2Sync(t) \/ ReadEntries(t) \/ cdrom_dread(t)
          <6>1. CASE Phase2Sync(t) BY <1>0, <6>1 DEF Phase2Sync, Move, FsTypes, HoldsIo, Locals
          <6>2. CASE ReadEntries(t) BY <1>0, <6>2 DEF ReadEntries, Move, FsTypes, HoldsIo, Locals
          <6>3. CASE cdrom_dread(t) BY <1>0, <6>3 DEF cdrom_dread, Move, FsTypes, HoldsIo, Locals
          <6> QED BY <5>3, <6>1, <6>2, <6>3
        <5> QED BY <3>4, <5>1, <5>2, <5>3
      <4>2. my[t].call \in {"read", "dread"} BY <4>1 DEF SemaInv, PlaceInv, Placed
      <4> QED BY <4>1, <4>2 DEF Opening
    <3> QED BY <1>4, <3>1, <3>2, <3>3, <3>4, Zenon DEF FsStep, InitStep
  <2> QED BY <1>1, <2>1 DEF NotYetOpen
<1>5. CASE InitStep(t)
  <2>1. my' = my /\ at[t] \in {"init"} \cup Initialises
    BY <1>5, InitSteps DEF Initialises, InFsInit
  <2>2. at'[t] \in Initialises \cup {"idle", "ready"} \/ my[t].call # "open"
    BY <1>0, <1>5, <2>1, AfterInits DEF InitStep, cdvdman_init, DeviceFSInit, ClearHandles, ReadVolume, SetRoot, InitDone, Move,
       FsTypes, Initialises, InFsInit, AfterInit, Searches
  <2>3. ~Opening(t)' BY <2>1, <2>2 DEF Opening, Initialises, InFsInit, Searching
  <2> QED BY <1>1, <2>1, <2>3 DEF NotYetOpen, Initialises, InFsInit
<1> QED BY <1>2, <1>3, <1>4, <1>5

\* Who is opening holds cdrom_io_sema.
LEMMA OpeningAlone ==
  ASSUME SemaInv, NEW t \in Threads, NEW u \in Threads, Opening(u), InIo(t)
  PROVE  u = t
<1>1. InIo(u) BY DEF Opening, InIo, Searching
<1> QED BY <1>1 DEF SemaInv, SemaphoresHeld

\* Every step keeps HandleInv.
LEMMA HandleInvStep ==
  ASSUME SemaInv, InitInv, HandleInv, [FsNext]_fsvars
  PROVE  HandleInv'
<1>0. FsTypes /\ InitInv' /\ SemaInv' BY InitInvStep, SemaStep DEF SemaInv
<1> USE DEF HandleInv
<1>1. CASE UNCHANGED fsvars
  BY <1>1 DEF fsvars, inits, files, SlotFree, Opening, NotYetOpen, HandlesKept
<1>2. CASE DriveDone
  <2>1. UNCHANGED <<inits, files, at, my>> BY <1>2 DEF DriveDone
  <2> QED BY <2>1 DEF inits, files, SlotFree, Opening, NotYetOpen, HandlesKept
<1>3. CASE OtherFile
  <2>1. UNCHANGED <<inits, privdata, at, my>> /\ io_sema = 1 BY <1>3 DEF OtherFile
  <2>2. \A t \in Threads : ~Opening(t)
    <3>1. \A t \in Threads : ~InIo(t) BY <2>1 DEF SemaInv, SemaphoresHeld
    <3> QED BY <3>1 DEF Opening, InIo, Searching
  <2>3. \A i \in Fds : \/ fdhandles'[i].f = fdhandles[i].f
                       \/ fdhandles'[i].f \notin Threads /\ fdhandles[i].f \notin Threads
    <3>1. NoThread \notin Threads /\ Other \notin Threads BY FsAssumption
    <3>2. FreeHandle.f = NoThread BY DEF FreeHandle
    <3>3. PICK i \in Fds : \/ fdhandles[i].f = Other /\ fdhandles' = [fdhandles EXCEPT ![i] = FreeHandle]
                           \/ fdhandles[i].f = NoThread /\ fdhandles' = [fdhandles EXCEPT ![i].f = Other]
      BY <1>3 DEF OtherFile
    <3>4. \A k \in Fds : k # i => fdhandles'[k] = fdhandles[k] BY <1>0, <3>3 DEF FsTypes
    <3>5. fdhandles'[i].f \in {NoThread, Other} /\ fdhandles[i].f \in {NoThread, Other}
      BY <1>0, <3>2, <3>3 DEF FsTypes, Handles
    <3> QED BY <3>1, <3>4, <3>5
  <2>4. SlotFree' /\ NotYetOpen' BY <2>1, <2>2 DEF SlotFree, Opening, NotYetOpen
  <2>5. HandlesKept' BY <2>1, <2>3 DEF HandlesKept, inits
  <2> QED BY <2>4, <2>5
<1>4. ASSUME NEW t \in Threads, cdrom_close(t) PROVE HandleInv'
  <2>1. my[t].call = "close" /\ at[t] = "iosema" /\ io_sema = 1 /\ UNCHANGED <<inits, my>>
        /\ at' = [at EXCEPT ![t] = "leave"]
    BY <1>4 DEF cdrom_close, Move
  <2>2. privdata[t] \in Fds BY <2>1, OpenHandle
  <2>3. \A u \in Threads : ~Opening(u)
    <3>1. \A u \in Threads : ~InIo(u) BY <2>1 DEF SemaInv, SemaphoresHeld
    <3> QED BY <3>1 DEF Opening, InIo, Searching
  <2>4. \A u \in Threads : Opening(u)' => Opening(u)
    BY <1>0, <2>1 DEF Opening, FsTypes, Searching
  <2>5. /\ privdata'[t] = 0 /\ \A u \in Threads \ {t} : privdata'[u] = privdata[u]
        /\ fdhandles'[privdata[t]].f = NoThread
        /\ \A i \in Fds : i # privdata[t] => fdhandles'[i] = fdhandles[i]
    BY <1>0, <1>4, <2>2 DEF cdrom_close, FsTypes, FreeHandle
  <2>6. SlotFree' BY <2>3, <2>4 DEF SlotFree
  <2>7. NotYetOpen' BY <1>0, <2>1, <2>5 DEF NotYetOpen, FsTypes
  <2>8. HandlesKept'
    <3>1. SUFFICES ASSUME ~rushed PROVE \A i \in Fds, u \in Threads : fdhandles'[i].f = u <=> privdata'[u] = i
      BY <2>1 DEF HandlesKept, inits
    <3>2. \A i \in Fds, u \in Threads : fdhandles[i].f = u <=> privdata[u] = i BY <3>1 DEF HandlesKept
    <3>3. 0 \notin Fds /\ NoThread \notin Threads BY FsAssumption DEF Fds
    <3> QED BY <2>2, <2>5, <3>2, <3>3
  <2> QED BY <2>6, <2>7, <2>8
<1>5. ASSUME NEW t \in Threads, ClearHandles(t) PROVE HandleInv'
  <2>1. at[t] = "memset" /\ UNCHANGED <<inits, my, privdata>> /\ at' = [at EXCEPT ![t] = "volume"]
        /\ fdhandles' = [i \in Fds |-> FreeHandle]
    BY <1>5 DEF ClearHandles, Move
  <2>2. ~rushed => \A u \in Threads : privdata[u] = 0
    BY <2>1 DEF InitInv, OneInit, FirstInv, InFsInit, PastInit
  <2>3. \A u \in Threads : Opening(u)' => Opening(u) /\ my[u].fd \in Fds
    BY <1>0, <2>1 DEF Opening, FsTypes, Searching, SemaInv, PlaceInv, Placed
  <2>4. \A i \in Fds : fdhandles'[i].f = NoThread BY <2>1 DEF FreeHandle
  <2>5. SlotFree' BY <2>1, <2>3, <2>4 DEF SlotFree
  <2>6. NotYetOpen' BY <1>0, <2>1 DEF NotYetOpen, FsTypes
  <2>7. HandlesKept'
    <3>1. 0 \notin Fds /\ NoThread \notin Threads BY FsAssumption DEF Fds
    <3> QED BY <2>1, <2>2, <2>4, <3>1 DEF HandlesKept, inits
  <2> QED BY <2>5, <2>6, <2>7
<1>6. ASSUME NEW t \in Threads, cdvdman_open(t) PROVE HandleInv'
  <2>1. my[t].call = "open" /\ at[t] = "opened" /\ UNCHANGED <<inits, my>>
        /\ at' = [at EXCEPT ![t] = "leave"]
    BY <1>0, <1>6 DEF cdvdman_open, Move, SemaInv, PlaceInv, Placed
  <2>2. my[t].fd \in Fds /\ InIo(t) /\ Opening(t) /\ privdata[t] = 0
    BY <2>1 DEF SemaInv, PlaceInv, Placed, InIo, HoldsIo, Opening, NotYetOpen
  <2>3. \A u \in Threads : ~Opening(u)'
    <3>1. \A u \in Threads \ {t} : ~Opening(u) BY <2>2, OpeningAlone
    <3> QED BY <1>0, <2>1, <3>1 DEF Opening, FsTypes, Searching
  <2>4. /\ privdata'[t] = my[t].fd /\ \A u \in Threads \ {t} : privdata'[u] = privdata[u]
        /\ fdhandles'[my[t].fd].f = t
        /\ \A i \in Fds : i # my[t].fd => fdhandles'[i] = fdhandles[i]
    BY <1>0, <1>6, <2>2 DEF cdvdman_open, FsTypes
  <2>5. SlotFree' BY <2>3 DEF SlotFree
  <2>6. NotYetOpen' BY <1>0, <2>1, <2>4 DEF NotYetOpen, FsTypes
  <2>7. HandlesKept'
    <3>1. SUFFICES ASSUME ~rushed PROVE \A i \in Fds, u \in Threads : fdhandles'[i].f = u <=> privdata'[u] = i
      BY <2>1 DEF HandlesKept, inits
    <3>2. \A i \in Fds, u \in Threads : fdhandles[i].f = u <=> privdata[u] = i BY <3>1 DEF HandlesKept
    <3>3. 0 \notin Fds /\ NoThread \notin Threads BY FsAssumption DEF Fds
    <3>4. fdhandles[my[t].fd].f = NoThread BY <2>2, <3>1 DEF SlotFree
    <3> QED BY <2>2, <2>4, <3>2, <3>3, <3>4
  <2> QED BY <2>5, <2>6, <2>7
<1>7. ASSUME NEW t \in Threads, FsCall(t) \/ FsStep(t),
             ~cdrom_close(t), ~ClearHandles(t), ~cdvdman_open(t)
      PROVE  HandleInv'
  <2>1. SameOwners BY <1>7, OwnersStay
  <2>2. OthersStay(t) BY <1>7, CallsOutside, StepsOutside, InitSteps DEF OutsideInit, StaysApart
  <2>3. ~rushed' => ~rushed
    BY <1>7, InitSteps, CallsOutside, StepsOutside DEF OutsideInit, inits, cdvdman_init
  <2>4. /\ privdata' = privdata
        /\ my'[t].call = "open" /\ at'[t] \notin {"idle", "leave"} => privdata[t] = 0
        /\ Opening(t)' => \/ Opening(t) /\ my'[t].fd = my[t].fd
                          \/ fdhandles[my'[t].fd].f = NoThread /\ fdhandles' = fdhandles
    BY <1>7, OpensStay
  <2>5. NotYetOpen' BY <2>2, <2>4 DEF NotYetOpen, OthersStay
  <2>6. HandlesKept' BY <2>1, <2>3, <2>4 DEF HandlesKept, SameOwners
  <2>7. \A u \in Threads : Opening(u)' => my'[u].fd \in Fds
    BY <1>0 DEF SemaInv, PlaceInv, Placed, Opening
  <2>8. SlotFree'
    <3>1. SUFFICES ASSUME ~rushed', NEW u \in Threads, Opening(u)' PROVE fdhandles'[my'[u].fd].f = NoThread
      BY DEF SlotFree
    <3>2. CASE u # t
      <4>1. Opening(u) /\ my'[u] = my[u] BY <2>2, <3>1, <3>2 DEF OthersStay, Opening
      <4> QED BY <2>1, <2>3, <2>7, <3>1, <4>1 DEF SlotFree, SameOwners
    <3>3. CASE u = t BY <2>1, <2>3, <2>4, <2>7, <3>1, <3>3 DEF SlotFree, SameOwners
    <3> QED BY <3>2, <3>3
  <2> QED BY <2>5, <2>6, <2>8
<1> QED BY <1>1, <1>2, <1>3, <1>4, <1>5, <1>6, <1>7 DEF FsNext

\* The invariants of this part at the start, and in every state.
LEMMA FilesStart == FsInit => InitInv /\ DriveInv /\ RootInv /\ HandleInv
<1> SUFFICES ASSUME FsInit PROVE InitInv /\ DriveInv /\ RootInv /\ HandleInv OBVIOUS
<1>1. InitInv
  BY DEF FsInit, InitInv, FirstInv, OneInit, PastInit, InFsInit, Searching
<1>2. DriveInv BY DEF FsInit, DriveInv, DriveIdle
<1>3. RootInv BY DEF FsInit, RootInv, RootRead, RootKnown
<1>4. SlotFree /\ NotYetOpen BY DEF FsInit, SlotFree, NotYetOpen, Opening, Searching
<1>5. HandlesKept
  <2>1. 0 \notin Fds /\ NoThread \notin Threads BY FsAssumption DEF Fds
  <2> QED BY <2>1 DEF FsInit, HandlesKept, FreeHandle
<1> QED BY <1>1, <1>2, <1>3, <1>4, <1>5 DEF HandleInv

FilesInv == SemaInv /\ InitInv /\ DriveInv /\ RootInv /\ HandleInv

LEMMA FilesAlways == FsSpec => []FilesInv
<1>1. FsInit => FilesInv BY SemaStart, FilesStart DEF FilesInv
<1>2. FilesInv /\ [FsNext]_fsvars => FilesInv'
  BY SemaStep, InitInvStep, DriveInvStep, RootInvStep, HandleInvStep DEF FilesInv
<1> QED BY <1>1, <1>2, PTL DEF FsSpec

\* A handle belongs to the file it was given to as long as that is open, and
\* is free otherwise, whatever fs_init, open and close of other threads do,
\* until two first calls run fs_init together.
THEOREM HandlesStayKept == FsSpec => []HandlesKept
<1>1. FilesInv => HandlesKept BY DEF FilesInv, HandleInv
<1> QED BY <1>1, FilesAlways, PTL

-----------------------------------------------------------------------------
(***************************************************************************)
(* The data of cdrom_read.  pos0 is where the read under way, or the one   *)
(* whose data is to be copied, starts in the file.                         *)
(***************************************************************************)
FileData(t) == privdata[t] # 0 =>
  /\ opened[t] \in Files
  /\ Fh(t).lsn = Lsn[opened[t]] /\ Fh(t).filesize = Size[opened[t]]
  /\ Fh(t).position \in 0 .. Fh(t).filesize

\* How much is read, how much is asked for still, and where in the file.
Copying == {"copy1", "copy3", "phase2sync"}
ReadPlaces == {"ready", "phase1", "phase2", "phase3", "leave"} \cup Copying
Amounts(t) ==
  LET m == my[t]
  IN  /\ m.want \in ReadSizes /\ m.size \in Nat /\ m.rpos \in Nat /\ m.start \in 0 .. Size[opened[t]]
      /\ m.rpos + m.size = Min2(m.want, Size[opened[t]] - m.start)
      /\ Fh(t).position = m.start + m.rpos
Pos0(t) == my[t].start + my[t].rpos - my[t].nb
Sector0(t) == Lsn[opened[t]] + Pos0(t) \div SectorSize
AtBoundary(t) == my[t].size = 0 \/ (my[t].start + my[t].rpos) % SectorSize = 0
Phases(t) ==
  LET m == my[t]
  IN  /\ at[t] \in {"ready", "phase1"} => m.rpos = 0
      /\ at[t] \in Copying => m.nb \in 0 .. m.rpos
      /\ at[t] = "copy1" => m.offset = Pos0(t) % SectorSize
      /\ at[t] \in {"copy3", "phase2sync"} => Pos0(t) % SectorSize = 0
      /\ at[t] \in {"copy1", "phase2", "phase2sync", "phase3"} => AtBoundary(t)
      /\ at[t] \in {"phase2sync", "phase3"} => m.size < SectorSize
      /\ at[t] \in {"copy3", "leave"} => m.size = 0

\* What is in the caller's buffer, and where the rest is.
Pending(dst) == ~DriveIdle /\ drive.dst = dst
UpTo(t, n) == ubuf[t] = Content(Lsn[opened[t]] * SectorSize + my[t].start, n)
Buffers(t) ==
  LET m == my[t]
  IN  /\ at[t] \in {"copy1", "copy3"} =>
           /\ UpTo(t, m.rpos - m.nb)
           /\ IF Pending("fs_buf") THEN drive.lsn = Sector0(t) ELSE fs_buf = Sector0(t)
      /\ at[t] = "phase2sync" =>
           IF Pending("user")
              THEN drive.lsn = Sector0(t) /\ drive.n * SectorSize = m.nb /\ UpTo(t, m.rpos - m.nb)
              ELSE UpTo(t, m.rpos)
      /\ at[t] \notin Copying => UpTo(t, m.rpos)

Reads(t) == my[t].call = "read" /\ at[t] \in ReadPlaces
DataInv(t) ==
  /\ FileData(t)
  /\ my[t].call = "read" /\ at[t] = "iosema" => my[t].size = my[t].want /\ my[t].rpos = 0 /\ my[t].want \in ReadSizes
  /\ Reads(t) => Amounts(t) /\ Phases(t) /\ Buffers(t)
  /\ ~Reads(t) => ubuf[t] = <<>>
ReadInv == ~rushed => \A t \in Threads : DataInv(t)

\* Sectors and the rest.
LEMMA DivMod ==
  ASSUME NEW d \in Nat \ {0}, NEW x \in Nat
  PROVE  x = (x \div d) * d + (x % d) /\ x \div d \in Nat /\ x % d \in 0 .. d - 1
<1>1. x = (x \div d) * d + (x % d) OBVIOUS
<1>2. x \div d \in Nat OBVIOUS
<1>3. x % d \in 0 .. d - 1 OBVIOUS
<1> QED BY <1>1, <1>2, <1>3

\* Neighbouring pieces of the disc make one piece.
LEMMA ContentTyped ==
  ASSUME NEW a \in Int, NEW n \in Nat
  PROVE  /\ Content(a, n) \in Seq(Int) /\ Len(Content(a, n)) = n
         /\ \A i \in 1 .. n : Content(a, n)[i] = a + i - 1
  BY DEF Content

\* Nothing, and two pieces that follow each other.
LEMMA NoContent == \A a \in Int : Content(a, 0) = <<>>
  BY ContentTyped, EmptySeq

LEMMA ContentJoins ==
  ASSUME NEW a \in Int, NEW n \in Nat, NEW m \in Nat
  PROVE  Content(a, n) \o Content(a + n, m) = Content(a, n + m)
<1> DEFINE s == Content(a, n)
           r == Content(a + n, m)
           q == Content(a, n + m)
<1>1. /\ s \in Seq(Int) /\ Len(s) = n /\ \A i \in 1 .. n : s[i] = a + i - 1
      /\ r \in Seq(Int) /\ Len(r) = m /\ \A i \in 1 .. m : r[i] = a + n + i - 1
      /\ q \in Seq(Int) /\ Len(q) = n + m /\ \A i \in 1 .. n + m : q[i] = a + i - 1
  <2>1. a + n \in Int /\ n + m \in Nat OBVIOUS
  <2> QED BY <2>1, ContentTyped
<1> HIDE DEF s, r, q
<1>2. s \o r \in Seq(Int) /\ Len(s \o r) = n + m BY <1>1, ConcatProperties
<1>3. ASSUME NEW i \in 1 .. n + m PROVE (s \o r)[i] = q[i]
  <2>1. (s \o r)[i] = IF i <= Len(s) THEN s[i] ELSE r[i - Len(s)] BY <1>1, ConcatProperties
  <2>2. CASE i <= n
    <3>1. i \in 1 .. n BY <2>2
    <3> QED BY <1>1, <2>1, <2>2, <3>1
  <2>3. CASE ~(i <= n)
    <3>1. i - n \in 1 .. m BY <2>3
    <3>2. r[i - n] = a + n + (i - n) - 1 BY <1>1, <3>1
    <3>3. (s \o r)[i] = r[i - n] BY <1>1, <2>1, <2>3
    <3> QED BY <1>1, <3>2, <3>3
  <2> QED BY <2>2, <2>3, Zenon
<1>4. s \o r = q BY <1>1, <1>2, <1>3, SeqEqual
<1> QED BY <1>4 DEF s, r, q

\* A thread keeps what its reads need as long as nothing of its own changes
\* and the buffer it waits for is not given to another read.
LEMMA DataKept ==
  ASSUME NEW u \in Threads, DataInv(u),
         at'[u] = at[u], my'[u] = my[u], privdata'[u] = privdata[u], opened'[u] = opened[u],
         ubuf'[u] = ubuf[u],
         privdata[u] # 0 => Fh(u)' = Fh(u),
         Reads(u) => privdata[u] # 0,
         at[u] \in {"copy1", "copy3"} => /\ fs_buf' = fs_buf
                                         /\ Pending("fs_buf")' <=> Pending("fs_buf")
                                         /\ Pending("fs_buf") => drive' = drive,
         at[u] = "phase2sync" => /\ Pending("user")' <=> Pending("user")
                                 /\ Pending("user") => drive' = drive
  PROVE  DataInv(u)'
<1>1. FileData(u)' BY DEF DataInv, FileData
<1>2. Reads(u)' <=> Reads(u) BY DEF Reads
<1>3. Reads(u) => Amounts(u)' BY DEF DataInv, Amounts
<1>4. Reads(u) => Phases(u)' BY DEF DataInv, Phases, Pos0, AtBoundary
<1>5. Reads(u) => Buffers(u)'
  <2>1. Sector0(u)' = Sector0(u) /\ \A n : UpTo(u, n)' <=> UpTo(u, n) BY DEF Sector0, Pos0, UpTo
  <2> QED BY <2>1 DEF DataInv, Buffers
<1> QED BY <1>1, <1>2, <1>3, <1>4, <1>5 DEF DataInv

\* Every step keeps FilesInv.
LEMMA FilesStep == FilesInv /\ [FsNext]_fsvars => FilesInv'
  BY SemaStep, InitInvStep, DriveInvStep, RootInvStep, HandleInvStep DEF FilesInv

\* A step of thread t leaves the buffers and files of the others alone.
LEMMA OthersBuffers ==
  ASSUME FilesInv, NEW t \in Threads, FsCall(t) \/ FsStep(t), NEW u \in Threads \ {t}
  PROVE  ubuf'[u] = ubuf[u] /\ opened'[u] = opened[u] /\ fs_buf' = fs_buf
<1>0. FsTypes BY DEF FilesInv, SemaInv
<1>1. CASE FsCall(t)
  BY <1>1 DEF FsCall, cdrom_open, cdrom_read, FileCall, ControlCall, SearchFile, Called, RawRead, bufs, files
<1>2. CASE cdrom_close(t) BY <1>0, <1>2 DEF cdrom_close, bufs, FsTypes
<1>3. CASE cdvdman_open(t) BY <1>0, <1>3 DEF cdvdman_open, bufs, FsTypes
<1>4. CASE Leave(t) BY <1>0, <1>4 DEF Leave, files, FsTypes
<1>5. CASE CopyOut(t, "copy1", "phase2") \/ CopyOut(t, "copy3", "leave")
  BY <1>0, <1>5 DEF CopyOut, files, FsTypes
<1>6. CASE Phase1(t) \/ Phase2(t) \/ Phase3(t) BY <1>6 DEF Phase1, Phase2, Phase3, Advance, Skip, files, bufs
<1>7. CASE FsStep(t) /\ ~cdrom_close(t) /\ ~cdvdman_open(t) /\ ~Leave(t) /\ ~CopyOut(t, "copy1", "phase2")
           /\ ~CopyOut(t, "copy3", "leave") /\ ~Phase1(t) /\ ~Phase2(t) /\ ~Phase3(t)
  BY <1>7 DEF FsStep, TakeIo, TakeIoRead, cdrom_lseek, cdvdman_init, DeviceFSInit, ClearHandles,
     ReadVolume, SetRoot, InitDone, Ready, cdrom_getstat, cdvdman_getfilefreeslot, SearchTake, ReadDir,
     cdvdman_locatefile, SearchEnd, Phase2Sync, ReadEntries, cdrom_dread, files, bufs
<1> QED BY <1>1, <1>2, <1>3, <1>4, <1>5, <1>6, <1>7

\* A step of another thread does not touch the handle a read uses,
LEMMA OthersHandles ==
  ASSUME FilesInv, ~rushed', NEW t \in Threads, FsCall(t) \/ FsStep(t), NEW u \in Threads \ {t},
         privdata[u] # 0
  PROVE  Fh(u)' = Fh(u)
<1>0. FsTypes /\ SemaInv BY DEF FilesInv, SemaInv
<1>1. ~rushed /\ privdata'[u] = privdata[u]
  BY <1>0, InitSteps, CallsOutside, StepsOutside DEF OutsideInit, inits, cdvdman_init, StaysApart
<1>2. privdata[u] \in Fds /\ fdhandles[privdata[u]].f = u
  <2>1. privdata[u] \in Fds BY <1>0, FsAssumption DEF FsTypes, Fds
  <2> QED BY <1>1, <2>1 DEF FilesInv, HandleInv, HandlesKept
<1>3. CASE fdhandles' = fdhandles BY <1>1, <1>3 DEF Fh
<1>4. ASSUME NEW i, NEW h, fdhandles' = [fdhandles EXCEPT ![i] = h], i # privdata[u] PROVE Fh(u)' = Fh(u)
  BY <1>0, <1>1, <1>2, <1>4 DEF Fh, FsTypes
<1>5. \A i \in Fds : fdhandles[i].f # u => i # privdata[u] BY <1>2
<1>6. privdata[t] # privdata[u]
  <2>1. privdata[t] \in Fds => fdhandles[privdata[t]].f = t
    BY <1>1 DEF FilesInv, HandleInv, HandlesKept
  <2> QED BY <1>2, <2>1
<1>7. CASE cdrom_close(t) BY <1>4, <1>6, <1>7 DEF cdrom_close
<1>8. CASE cdvdman_open(t)
  <2>1. Opening(t) /\ my[t].fd \in Fds
    BY <1>0, <1>8 DEF cdvdman_open, Move, Opening, SemaInv, PlaceInv, Placed
  <2>2. fdhandles[my[t].fd].f = NoThread BY <1>1, <2>1 DEF FilesInv, HandleInv, SlotFree
  <2>3. my[t].fd # privdata[u]
    <3>1. NoThread # u BY FsAssumption
    <3> QED BY <1>2, <2>2, <3>1
  <2> QED BY <1>4, <1>8, <2>3 DEF cdvdman_open
<1>9. CASE ClearHandles(t)
  <2>1. at[t] = "memset" BY <1>9 DEF ClearHandles, Move
  <2>2. FALSE
    BY <1>1, <2>1 DEF FilesInv, InitInv, OneInit, FirstInv, InFsInit, PastInit
  <2> QED BY <2>2
<1>10. ASSUME NEW p, fdhandles' = [fdhandles EXCEPT ![privdata[t]].position = p] PROVE Fh(u)' = Fh(u)
  BY <1>0, <1>1, <1>2, <1>6, <1>10 DEF Fh, FsTypes
<1>11. CASE cdrom_lseek(t) BY <1>10, <1>11 DEF cdrom_lseek
<1>12. CASE cdrom_dread(t)
  <2>1. PICK n : fdhandles' = [fdhandles EXCEPT ![privdata[t]].position = fdhandles[privdata[t]].position + n]
    BY <1>12 DEF cdrom_dread
  <2> QED BY <1>10, <2>1
<1>13. CASE Phase1(t) \/ Phase2(t) \/ Phase3(t)
  <2>2. ASSUME NEW n, NEW nb, NEW d, NEW from, NEW to, Advance(t, n, nb, d, from, to)
        PROVE  Fh(u)' = Fh(u)
    <3>1. fdhandles' = [fdhandles EXCEPT ![privdata[t]].position = (fdhandles[privdata[t]].position + nb) % WordMod]
      BY <2>2 DEF Advance
    <3> QED BY <1>10, <3>1
  <2>3. CASE Phase1(t) BY <1>3, <2>2, <2>3 DEF Phase1, Skip, files
  <2>4. CASE Phase2(t) BY <1>3, <2>2, <2>4 DEF Phase2, Skip, files
  <2>5. CASE Phase3(t) BY <1>3, <2>2, <2>5 DEF Phase3, Skip, files
  <2> QED BY <1>13, <2>3, <2>4, <2>5
<1>14. CASE FsCall(t)
  BY <1>3, <1>14 DEF FsCall, cdrom_open, cdrom_read, FileCall, ControlCall, SearchFile, Called, RawRead, files
<1>15. CASE /\ FsStep(t) /\ ~cdrom_lseek(t) /\ ~cdrom_dread(t) /\ ~Phase1(t) /\ ~Phase2(t) /\ ~Phase3(t)
            /\ ~cdrom_close(t) /\ ~ClearHandles(t) /\ ~cdvdman_open(t)
  BY <1>3, <1>15 DEF FsStep, TakeIo, TakeIoRead, Leave, cdvdman_init, DeviceFSInit, ReadVolume, SetRoot, InitDone,
     Ready, cdrom_getstat, cdvdman_getfilefreeslot, SearchTake, ReadDir, cdvdman_locatefile, SearchEnd,
     CopyOut, Phase2Sync, ReadEntries, files
<1> QED BY <1>7, <1>8, <1>9, <1>11, <1>12, <1>13, <1>14, <1>15

\* A thread that reads has a file open, and cdrom_io_sema.
LEMMA ReaderHolds ==
  ASSUME SemaInv, NEW t \in Threads, Reads(t)
  PROVE  InIo(t) /\ privdata[t] # 0 /\ privdata[t] \in Fds /\ Fh(t) \in Handles
<1>1. InIo(t) BY DEF Reads, ReadPlaces, Copying, InIo, HoldsIo
<1>2. privdata[t] # 0 BY DEF Reads, ReadPlaces, Copying, SemaInv, FileOpen, HasFile
<1>3. privdata[t] \in Fds BY <1>2, FsAssumption DEF SemaInv, FsTypes, Fds
<1> QED BY <1>1, <1>2, <1>3 DEF SemaInv, FsTypes, Fh

\* nor the buffers it fills.
LEMMA OthersData ==
  ASSUME FilesInv, ~rushed', NEW t \in Threads, FsCall(t) \/ FsStep(t), NEW u \in Threads \ {t},
         DataInv(u)
  PROVE  DataInv(u)'
<1>0. FsTypes /\ SemaInv /\ SemaInv' BY SemaStep DEF FilesInv, SemaInv, FsNext
<1>1. at'[u] = at[u] /\ my'[u] = my[u] /\ privdata'[u] = privdata[u]
  BY <1>0, CallsOutside, StepsOutside, InitSteps DEF OutsideInit, StaysApart, OthersStay
<1>2. ubuf'[u] = ubuf[u] /\ opened'[u] = opened[u] /\ fs_buf' = fs_buf BY OthersBuffers
<1>3. privdata[u] # 0 => Fh(u)' = Fh(u) BY OthersHandles
<1>4. Reads(u) => privdata[u] # 0 BY <1>0, ReaderHolds
\* t starts no read that would be delivered where u waits for its own.
<1>5. ASSUME NEW d \in {"fs_buf", "user"}, at[u] \in Copying
      PROVE  (Pending(d)' <=> Pending(d)) /\ (Pending(d) => drive' = drive)
  <2>1. CASE drive' = drive BY <2>1 DEF Pending, DriveIdle
  <2>2. CASE DriveIdle /\ at'[t] \in WaitsAt(drive'.dst)
    <3>1. drive'.dst # d
      <4>1. SUFFICES ASSUME drive'.dst = d PROVE FALSE OBVIOUS
      <4>2. at'[t] \in {"copy1", "copy3", "entries", "phase2sync"} BY <2>2, <4>1 DEF WaitsAt
      <4>3. InIo(t)' /\ InIo(u)' BY <1>1, <1>5, <4>2 DEF InIo, HoldsIo, Copying
      <4> QED BY <1>0, <4>3 DEF SemaInv, SemaphoresHeld
    <3> QED BY <2>2, <3>1 DEF Pending
  <2> QED BY <1>0, <2>1, <2>2, Starts
<1> QED BY <1>1, <1>2, <1>3, <1>4, <1>5, DataKept DEF Copying

\* Outside cdrom_read, with the files as they were.
LEMMA NotReading ==
  ASSUME NEW t \in Threads, DataInv(t), ~Reads(t), ~Reads(t)', UNCHANGED files, ubuf' = ubuf,
         ~(my'[t].call = "read" /\ at'[t] = "iosema")
  PROVE  DataInv(t)'
  BY DEF DataInv, FileData, Fh, files

\* A thread that begins a call has read nothing yet.
LEMMA OwnCall ==
  ASSUME FilesInv, NEW t \in Threads, FsCall(t), DataInv(t)
  PROVE  DataInv(t)'
<1>0. FsTypes BY DEF FilesInv, SemaInv
<1>1. at[t] = "idle" /\ ~Reads(t) /\ ubuf' = ubuf /\ UNCHANGED files
  BY DEF FsCall, cdrom_open, cdrom_read, FileCall, ControlCall, SearchFile, Called, RawRead, bufs, Move,
     Reads, ReadPlaces, Copying
<1>2. at'[t] \in {"init", "stat", "iosema", "idle"}
  BY <1>0 DEF FsCall, cdrom_open, cdrom_read, FileCall, ControlCall, SearchFile, Called, RawRead, Move, FsTypes
<1>3. ~Reads(t)' BY <1>2 DEF Reads, ReadPlaces, Copying
<1>4. CASE cdrom_read(t)
  <2>1. PICK n \in ReadSizes : my' = [my EXCEPT ![t] = [NoLocals EXCEPT !.call = "read", !.size = n, !.want = n]]
    BY <1>4 DEF cdrom_read, Called
  <2>2. my'[t].size = n /\ my'[t].want = n /\ my'[t].rpos = 0
    BY <1>0, <2>1 DEF FsTypes, NoLocals
  <2>3. FileData(t)' BY <1>1 DEF DataInv, FileData, Fh, files
  <2> QED BY <1>1, <1>3, <2>2, <2>3 DEF DataInv
<1>5. CASE ~cdrom_read(t)
  <2>1. my'[t].call # "read" \/ at'[t] = "idle"
    <3>1. CASE RawRead(t) BY <1>1, <3>1 DEF RawRead
    <3>2. CASE cdrom_open(t)
      <4>1. \A p : [NoLocals EXCEPT !.call = "open", !.path = p].call = "open" BY DEF NoLocals
      <4> QED BY <1>0, <3>2, <4>1 DEF cdrom_open, Called, FsTypes
    <3>3. CASE FileCall(t) \/ ControlCall(t) \/ SearchFile(t)
      <4>1. \A c : [NoLocals EXCEPT !.call = c].call = c BY DEF NoLocals
      <4>2. PICK c : my' = [my EXCEPT ![t] = [NoLocals EXCEPT !.call = c]] /\ c # "read"
        BY <3>3 DEF FileCall, ControlCall, SearchFile, Called, Searches
      <4> QED BY <1>0, <4>1, <4>2 DEF FsTypes
    <3> QED BY <1>5, <3>1, <3>2, <3>3 DEF FsCall
  <2> QED BY <1>1, <1>3, <2>1, NotReading
<1> QED BY <1>4, <1>5

\* The positions lseek and dread leave behind.
LEMMA Repositioned ==
  ASSUME FilesInv, NEW t \in Threads, DataInv(t), ~Reads(t), ~Reads(t)', NEW p,
         privdata[t] \in Fds, p \in 0 .. Fh(t).filesize,
         fdhandles' = [fdhandles EXCEPT ![privdata[t]].position = p],
         UNCHANGED <<privdata, opened, ubuf>>,
         ~(my'[t].call = "read" /\ at'[t] = "iosema")
  PROVE  DataInv(t)'
<1>0. FsTypes BY DEF FilesInv, SemaInv
<1>1. Fh(t)' = [Fh(t) EXCEPT !.position = p] /\ Fh(t) \in Handles BY <1>0 DEF Fh, FsTypes
<1>2. Fh(t)'.position = p /\ Fh(t)'.lsn = Fh(t).lsn /\ Fh(t)'.filesize = Fh(t).filesize
  BY <1>1 DEF Handles
<1> QED BY <1>2 DEF DataInv, FileData

\* Nor has one in another call.
LEMMA OwnOther ==
  ASSUME FilesInv, ~rushed, ~rushed', NEW t \in Threads, DataInv(t), my[t].call # "read", FsStep(t)
  PROVE  DataInv(t)'
<1>0. FsTypes /\ Placed(t) /\ SemaInv BY DEF FilesInv, SemaInv, PlaceInv
<1>1. ~Reads(t) /\ ubuf[t] = <<>> BY DEF Reads, DataInv
<1>2. CASE Leave(t)
  <2>1. my'[t] = NoLocals /\ ubuf'[t] = <<>> /\ UNCHANGED files BY <1>0, <1>2 DEF Leave, FsTypes
  <2>2. my'[t].call = "none" BY <2>1, NoLocalsTyped
  <2>3. FileData(t)' BY <2>1 DEF DataInv, FileData, Fh, files
  <2> QED BY <2>1, <2>2, <2>3 DEF DataInv, Reads
<1>3. CASE cdrom_close(t)
  <2>1. my' = my /\ ubuf' = ubuf /\ privdata'[t] = 0 BY <1>0, <1>3 DEF cdrom_close, bufs, FsTypes
  <2> QED BY <1>1, <2>1 DEF DataInv, FileData, Reads
<1>4. CASE cdrom_lseek(t)
  <2>1. my' = my /\ UNCHANGED <<privdata, opened, ubuf>> BY <1>4 DEF cdrom_lseek, bufs
  <2>2. at[t] = "iosema" /\ my[t].call = "lseek" BY <1>4 DEF cdrom_lseek, Move
  <2>3. privdata[t] \in Fds /\ Fh(t) \in Handles BY <1>0, <2>2, OpenHandle
  <2>4. Fh(t).position \in Nat /\ Fh(t).filesize \in Nat
    <3>1. privdata[t] # 0 BY <2>3, FsAssumption DEF Fds
    <3> QED BY <2>3, <3>1, FsAssumption DEF DataInv, FileData, Handles
  <2>5. \A x \in Int : x % WordMod \in Nat BY FsAssumption
  <2>6. PICK p \in Nat : fdhandles' = [fdhandles EXCEPT ![privdata[t]].position = Min2(p, Fh(t).filesize)]
    <3>1. \A o \in SeekOffsets : /\ (Fh(t).position + o) % WordMod \in Nat
                                 /\ o % WordMod \in Nat
                                 /\ (Fh(t).filesize - o) % WordMod \in Nat
      <4>1. \A o \in SeekOffsets : o \in Int BY FsAssumption
      <4> QED BY <2>4, <2>5, <4>1
    <3> QED BY <1>4, <3>1 DEF cdrom_lseek
  <2>7. Min2(p, Fh(t).filesize) \in 0 .. Fh(t).filesize BY <2>4 DEF Min2
  <2> QED BY <1>1, <2>1, <2>3, <2>6, <2>7, Repositioned DEF Reads
<1>5. CASE cdrom_dread(t)
  <2>1. my' = my /\ UNCHANGED <<privdata, opened, ubuf>> BY <1>5 DEF cdrom_dread, bufs
  <2>2. at[t] = "entries" /\ my[t].call = "dread" BY <1>0, <1>5 DEF cdrom_dread, Move, Placed
  <2>3. privdata[t] \in Fds /\ Fh(t) \in Handles BY <1>0, <2>2, OpenHandle
  <2>4. Fh(t).position \in 0 .. Fh(t).filesize /\ Fh(t).filesize \in Int
    <3>1. privdata[t] # 0 BY <2>3, FsAssumption DEF Fds
    <3> QED BY <2>3, <3>1 DEF DataInv, FileData, Handles
  <2>5. PICK n \in 0 .. Fh(t).filesize - Fh(t).position :
          fdhandles' = [fdhandles EXCEPT ![privdata[t]].position = fdhandles[privdata[t]].position + n]
    BY <1>5 DEF cdrom_dread
  <2>6. fdhandles[privdata[t]].position + n \in 0 .. Fh(t).filesize BY <2>4 DEF Fh
  <2> QED BY <1>1, <2>1, <2>3, <2>5, <2>6, Repositioned DEF Reads
<1>6. CASE cdvdman_open(t)
  <2> DEFINE p == my[t].path
  <2>1. at[t] = "opened" /\ my[t].call = "open" /\ my[t].fd \in Fds /\ p \in Files
    BY <1>0, <1>6 DEF cdvdman_open, Move, Placed
  <2>2. privdata'[t] = my[t].fd /\ opened'[t] = p /\ my' = my /\ ubuf' = ubuf
        /\ fdhandles'[my[t].fd] = [f |-> t, lsn |-> Lsn[p], filesize |-> Size[p], position |-> 0]
    BY <1>0, <1>6, <2>1 DEF cdvdman_open, bufs, FsTypes
  <2>3. Fh(t)' = [f |-> t, lsn |-> Lsn[p], filesize |-> Size[p], position |-> 0] BY <2>2 DEF Fh
  <2>4. Size[p] \in Nat BY <2>1, FsAssumption
  <2>5. FileData(t)' BY <2>1, <2>2, <2>3, <2>4 DEF FileData
  <2> QED BY <1>1, <2>2, <2>5 DEF DataInv, Reads
<1>7. CASE ClearHandles(t)
  <2>1. at[t] = "memset" /\ my' = my /\ UNCHANGED <<privdata, ubuf>> BY <1>7 DEF ClearHandles, Move, bufs
  <2>2. privdata[t] = 0
    BY <2>1 DEF FilesInv, InitInv, OneInit, FirstInv, InFsInit, PastInit
  <2> QED BY <1>1, <2>1, <2>2 DEF DataInv, FileData, Reads
<1>8. CASE /\ ~Leave(t) /\ ~cdrom_close(t) /\ ~cdrom_lseek(t) /\ ~cdrom_dread(t) /\ ~cdvdman_open(t)
           /\ ~ClearHandles(t)
  <2>1. /\ ~TakeIoRead(t) /\ ~Phase1(t) /\ ~Phase2(t) /\ ~Phase3(t) /\ ~Phase2Sync(t)
        /\ ~CopyOut(t, "copy1", "phase2") /\ ~CopyOut(t, "copy3", "leave")
    BY <1>0 DEF Placed, TakeIoRead, Phase1, Phase2, Phase3, Phase2Sync, CopyOut, Move
  <2>2. ubuf' = ubuf /\ UNCHANGED files
    BY <1>8, <2>1 DEF FsStep, TakeIo, cdvdman_init, DeviceFSInit, ReadVolume, SetRoot, InitDone,
       Ready, cdrom_getstat, cdvdman_getfilefreeslot, SearchTake, ReadDir, cdvdman_locatefile, SearchEnd,
       ReadEntries, bufs
  <2>3. my'[t].call # "read"
    <3>1. CASE my' = my BY <3>1
    <3>2. CASE cdvdman_getfilefreeslot(t) \/ cdvdman_locatefile(t)
      BY <1>0, <3>2 DEF cdvdman_getfilefreeslot, cdvdman_locatefile, FsTypes, Locals
    <3>3. CASE SearchEnd(t) BY <1>0, <3>3, NoLocalsTyped DEF SearchEnd, FsTypes
    <3> QED BY <1>8, <2>1, <3>1, <3>2, <3>3 DEF FsStep, TakeIo, cdvdman_init, DeviceFSInit, ReadVolume,
       SetRoot, InitDone, Ready, cdrom_getstat, SearchTake, ReadDir, ReadEntries
  <2> QED BY <1>1, <2>2, <2>3, NotReading DEF Reads
<1> QED BY <1>2, <1>3, <1>4, <1>5, <1>6, <1>7, <1>8

-----------------------------------------------------------------------------
(***************************************************************************)
(* The phases of cdrom_read.                                               *)
(***************************************************************************)
LEMMA WholeSectors ==
  ASSUME NEW d \in Nat \ {0}, NEW k \in Nat
  PROVE  (k * d) % d = 0
<1>1. k * d \in Nat OBVIOUS
<1> DEFINE q == (k * d) \div d
           r == (k * d) % d
<1>2. k * d = q * d + r /\ q \in Nat /\ r \in 0 .. d - 1 BY <1>1, DivMod
<1> HIDE DEF q, r
<1>3. (k - q) * d = r BY <1>2
<1>4. k - q = 0
  <2>1. CASE k - q >= 1
    <3>1. (k - q) * d >= d BY <1>2, <2>1
    <3> QED BY <1>2, <1>3, <3>1
  <2>2. CASE k - q <= -1
    <3>1. (k - q) * d < 0 BY <1>2, <2>2
    <3> QED BY <1>2, <1>3, <3>1
  <2> QED BY <1>2, <2>1, <2>2
<1>5. r = 0 BY <1>2, <1>3, <1>4
<1> QED BY <1>5 DEF r

\* The numbers of a call that reads.
LEMMA ReadNumbers ==
  ASSUME FilesInv, NEW t \in Threads, DataInv(t), Reads(t)
  PROVE  /\ opened[t] \in Files /\ Fh(t).lsn = Lsn[opened[t]]
         /\ Lsn[opened[t]] \in Nat /\ Size[opened[t]] \in Nat /\ Fh(t).filesize = Size[opened[t]]
         /\ my[t].size \in Nat /\ my[t].rpos \in Nat /\ my[t].start \in Nat
         /\ Fh(t).position = my[t].start + my[t].rpos
         /\ Fh(t).position + my[t].size <= Size[opened[t]]
         /\ Size[opened[t]] < WordMod
         /\ SectorSize \in Nat \ {0}
         /\ Lsn[opened[t]] * SectorSize + my[t].start \in Nat
<1>1. privdata[t] # 0 BY ReaderHolds DEF FilesInv
<1>2. opened[t] \in Files /\ Fh(t).lsn = Lsn[opened[t]] /\ Fh(t).filesize = Size[opened[t]]
  BY <1>1 DEF DataInv, FileData
<1>3. Lsn[opened[t]] \in Nat /\ Size[opened[t]] \in Nat BY <1>2, FsAssumption
<1>4. Amounts(t) BY DEF DataInv
<1>5. my[t].want \in ReadSizes /\ my[t].want \in Nat BY <1>4, FsAssumption DEF Amounts
<1>6. Size[opened[t]] + my[t].want < WordMod BY <1>2, <1>5, FsAssumption
<1>7. Size[opened[t]] < WordMod BY <1>3, <1>5, <1>6, FsAssumption
<1>8. /\ my[t].size \in Nat /\ my[t].rpos \in Nat /\ my[t].start \in 0 .. Size[opened[t]]
      /\ my[t].rpos + my[t].size = Min2(my[t].want, Size[opened[t]] - my[t].start)
      /\ Fh(t).position = my[t].start + my[t].rpos
  BY <1>4 DEF Amounts
<1>9. my[t].start \in Nat /\ Fh(t).position + my[t].size <= Size[opened[t]]
  BY <1>3, <1>5, <1>8 DEF Min2
<1>10. SectorSize \in Nat \ {0} BY FsAssumption
<1>11. Lsn[opened[t]] * SectorSize \in Nat BY <1>3, <1>10
<1> QED BY <1>2, <1>3, <1>7, <1>8, <1>9, <1>10, <1>11

\* cdrom_read begins: clamped to the end of the file.
LEMMA TakeReadData ==
  ASSUME FilesInv, NEW t \in Threads, DataInv(t), TakeIoRead(t)
  PROVE  DataInv(t)'
<1>0. FsTypes BY DEF FilesInv, SemaInv
<1>1. at[t] = "iosema" /\ at'[t] = "ready" /\ my[t].call = "read" /\ UNCHANGED <<bufs, files>>
  BY <1>0 DEF TakeIoRead, Move, FsTypes
<1>2. privdata[t] # 0 /\ Fh(t)' = Fh(t) /\ FileData(t) /\ FileData(t)' /\ ubuf'[t] = <<>> /\ opened' = opened
  <2>1. privdata[t] # 0 BY <1>1, OpenHandle, FsAssumption DEF FilesInv, Fds
  <2> QED BY <1>1, <2>1 DEF DataInv, FileData, Fh, files, bufs, Reads, ReadPlaces, Copying
<1> DEFINE f == opened[t]
           h == Fh(t)
           m == my[t]
           n == IF (h.position + m.size) % WordMod > h.filesize THEN h.filesize - h.position ELSE m.size
<1>3. f \in Files /\ h.filesize = Size[f] /\ h.position \in 0 .. Size[f] BY <1>2 DEF FileData
<1>4. m.size = m.want /\ m.rpos = 0 /\ m.want \in ReadSizes BY <1>1 DEF DataInv
<1>5. Size[f] \in Nat /\ Lsn[f] \in Nat /\ m.want \in Nat /\ Size[f] + m.want < WordMod /\ WordMod \in Nat \ {0}
  BY <1>3, <1>4, FsAssumption
<1> HIDE DEF f, h, m
<1>6. (h.position + m.size) % WordMod = h.position + m.size
  <2>1. h.position + m.size \in Nat /\ h.position + m.size < WordMod BY <1>3, <1>4, <1>5
  <2> QED BY <1>5, <2>1
<1>7. n = Min2(m.want, Size[f] - h.position) /\ n \in Nat
  BY <1>3, <1>4, <1>5, <1>6 DEF Min2
<1>8. my' = [my EXCEPT ![t].size = n, ![t].start = h.position] BY DEF TakeIoRead, h, m
<1> HIDE DEF n
<1>9. /\ my'[t].size = n /\ my'[t].start = h.position /\ my'[t].want = m.want /\ my'[t].rpos = m.rpos
      /\ my'[t].call = m.call
  BY <1>0, <1>8 DEF FsTypes, Locals, m
<1>10. Amounts(t)'
  <2>1. my'[t].want \in ReadSizes /\ my'[t].size \in Nat /\ my'[t].rpos \in Nat
        /\ my'[t].start \in 0 .. Size[f]
    BY <1>3, <1>4, <1>7, <1>9
  <2>2. my'[t].rpos + my'[t].size = Min2(my'[t].want, Size[f] - my'[t].start) BY <1>4, <1>7, <1>9
  <2>3. Fh(t)'.position = my'[t].start + my'[t].rpos BY <1>2, <1>3, <1>4, <1>5, <1>9 DEF h
  <2> QED BY <1>2, <2>1, <2>2, <2>3 DEF Amounts, f
<1>11. Phases(t)' BY <1>1, <1>4, <1>9 DEF Phases, Copying
<1>12. Buffers(t)'
  <2>1. Lsn[f] * SectorSize + my'[t].start \in Int
    <3>1. Lsn[f] * SectorSize \in Int BY <1>5, FsAssumption
    <3> QED BY <1>3, <1>5, <1>9, <3>1
  <2>2. UpTo(t, my[t].rpos)' BY <1>2, <1>4, <1>9, <2>1, NoContent DEF UpTo, f, m
  <2> QED BY <1>1, <1>9, <2>2 DEF Buffers, Copying, UpTo, m
<1>13. Reads(t)' BY <1>1, <1>9 DEF Reads, ReadPlaces, m
<1> QED BY <1>1, <1>2, <1>10, <1>11, <1>12, <1>13 DEF DataInv

\* sceCdDiskReady over: a call that has something to read goes to phase 1.
LEMMA ReadyData ==
  ASSUME FilesInv, NEW t \in Threads, DataInv(t), Ready(t), my[t].call = "read"
  PROVE  DataInv(t)'
<1>0. FsTypes BY DEF FilesInv, SemaInv
<1>1. /\ at[t] = "ready" /\ at'[t] = IF my[t].size > 0 THEN "phase1" ELSE "leave"
      /\ my' = my /\ ubuf' = ubuf /\ UNCHANGED files
  BY <1>0 DEF Ready, Move, FsTypes, bufs
<1>2. Reads(t) /\ Reads(t)' BY <1>1 DEF Reads, ReadPlaces
<1>3. FileData(t)' /\ Amounts(t)' BY <1>1, <1>2 DEF DataInv, FileData, Amounts, Fh, files
<1>4. my[t].size \in Nat /\ my[t].rpos = 0 BY <1>1, <1>2 DEF DataInv, Amounts, Phases
<1>5. Phases(t)' BY <1>1, <1>4 DEF Phases, Copying
<1>6. UpTo(t, my[t].rpos) BY <1>1, <1>2 DEF DataInv, Buffers, Copying
<1>7. Buffers(t)' BY <1>1, <1>6 DEF Buffers, Copying, UpTo, files
<1> QED BY <1>1, <1>2, <1>3, <1>5, <1>7 DEF DataInv

\* An accepted read of n sectors for nb units: it starts at the position, and
\* what is in the buffer already ends there.
LEMMA AdvanceData ==
  ASSUME FilesInv, NEW t \in Threads, DataInv(t), NEW n \in Int, NEW nb \in 0 .. my[t].size,
         NEW dst \in {"fs_buf", "user"},
         NEW from \in {"phase1", "phase2", "phase3"}, NEW to \in Copying,
         Reads(t), at[t] = from, Advance(t, n, nb, dst, from, to), UNCHANGED bufs
  PROVE  /\ at'[t] = to /\ my'[t].call = "read"
         /\ my'[t].nb = nb /\ my'[t].size = my[t].size - nb /\ my'[t].rpos = my[t].rpos + nb
         /\ my'[t].start = my[t].start /\ my'[t].offset = Pos0(t)' % SectorSize
         /\ FileData(t)' /\ Amounts(t)' /\ UpTo(t, my[t].rpos - my[t].nb)'
         /\ Pos0(t)' = Fh(t).position /\ Pos0(t)' = my[t].start + my[t].rpos
         /\ Pending(dst)' /\ drive'.lsn = Sector0(t)' /\ drive'.n = n
         /\ my'[t].nb \in 0 .. my'[t].rpos
<1>0. FsTypes /\ SemaInv BY DEF FilesInv, SemaInv
<1>1. /\ privdata[t] \in Fds /\ privdata[t] # 0 /\ Fh(t) \in Handles
  BY <1>0, ReaderHolds
<1> DEFINE m == my[t]
           h == Fh(t)
           f == opened[t]
<1>2. /\ f \in Files /\ h.lsn = Lsn[f] /\ h.filesize = Size[f]
      /\ Size[f] \in Nat /\ Lsn[f] \in Nat /\ m.size \in Nat /\ m.rpos \in Nat /\ m.start \in Nat
      /\ h.position = m.start + m.rpos /\ h.position + m.size <= Size[f]
      /\ Size[f] < WordMod /\ SectorSize \in Nat \ {0}
  BY ReadNumbers
<1>3. /\ at'[t] = to
      /\ my' = [my EXCEPT ![t] = [m EXCEPT !.nb = nb, !.size = m.size - nb, !.rpos = m.rpos + nb,
                                           !.offset = h.position % SectorSize]]
      /\ fdhandles' = [fdhandles EXCEPT ![privdata[t]] = [h EXCEPT !.position = (h.position + nb) % WordMod]]
      /\ privdata' = privdata /\ opened' = opened /\ ubuf' = ubuf
      /\ drive' = [lsn |-> PositionSector(t), n |-> n, dst |-> dst, by |-> t]
  <2>1. my' = [my EXCEPT ![t] = [m EXCEPT !.nb = nb, !.size = m.size - nb, !.rpos = m.rpos + nb,
                                           !.offset = h.position % SectorSize]]
    BY <1>0 DEF Advance, FsTypes
  <2>2. fdhandles' = [fdhandles EXCEPT ![privdata[t]] = [h EXCEPT !.position = (h.position + nb) % WordMod]]
    BY <1>0, <1>1 DEF Advance, FsTypes, Fh, Handles
  <2> QED BY <1>0, <2>1, <2>2 DEF Advance, Move, FsTypes, bufs, Accepted
<1>4. /\ my'[t].call = m.call /\ my'[t].want = m.want /\ my'[t].start = m.start
      /\ my'[t].nb = nb /\ my'[t].size = m.size - nb /\ my'[t].rpos = m.rpos + nb
      /\ my'[t].offset = h.position % SectorSize
  BY <1>0, <1>3 DEF FsTypes, Locals
<1>5. (h.position + nb) % WordMod = h.position + nb
  <2>1. nb \in 0 .. m.size OBVIOUS
  <2> HIDE DEF m, h, f
  <2>2. nb \in Nat /\ nb <= m.size BY <1>2, <2>1
  <2>3. h.position \in Nat BY <1>2
  <2>4. h.position + nb <= Size[f] BY <1>2, <2>2, <2>3
  <2>5. h.position + nb \in Nat /\ h.position + nb < WordMod BY <1>2, <2>2, <2>3, <2>4, FsAssumption
  <2>6. \A x \in Nat : x < WordMod => x % WordMod = x BY FsAssumption
  <2> QED BY <2>5, <2>6
<1>6. /\ Fh(t)'.position = h.position + nb /\ Fh(t)'.lsn = h.lsn /\ Fh(t)'.filesize = h.filesize
  BY <1>0, <1>1, <1>3, <1>5 DEF Fh, FsTypes, Handles
<1>7. m.call = "read" BY DEF Reads
<1>8. Pos0(t)' = h.position
  BY <1>2, <1>4 DEF Pos0
<1>9. FileData(t)'
  <2>1. h.position + nb \in 0 .. Size[f] BY <1>2
  <2> QED BY <1>2, <1>3, <1>6, <2>1 DEF FileData
<1>10. Amounts(t)'
  <2>1. Amounts(t) BY DEF DataInv
  <2>2. m.size - nb \in Nat /\ m.rpos + nb \in Nat /\ (m.rpos + nb) + (m.size - nb) = m.rpos + m.size BY <1>2
  <2>3. Fh(t)'.position = m.start + (m.rpos + nb) BY <1>2, <1>6
  <2> QED BY <1>3, <1>4, <2>1, <2>2, <2>3 DEF Amounts
<1>11. UpTo(t, my[t].rpos - my[t].nb)'
  <2>1. UpTo(t, m.rpos) BY DEF DataInv, Buffers, Copying
  <2>2. my'[t].rpos - my'[t].nb = m.rpos BY <1>2, <1>4
  <2> QED BY <1>3, <1>4, <2>1, <2>2 DEF UpTo
<1>12. Pending(dst)' /\ drive'.n = n
  <2>1. PositionSector(t) \in Int
    <3>1. h.position \in Nat BY <1>2
    <3>2. h.position \div SectorSize \in Int BY <1>2, <3>1, DivMod
    <3> QED BY <1>2, <3>2 DEF PositionSector
  <2>2. drive' # NoRead BY <1>3, <2>1, FsAssumption
  <2> QED BY <1>3, <2>2 DEF Pending, DriveIdle
<1>13. drive'.lsn = Sector0(t)'
  <2>1. drive'.lsn = h.lsn + h.position \div SectorSize BY <1>3 DEF PositionSector
  <2>2. Sector0(t)' = Lsn[f] + Pos0(t)' \div SectorSize BY <1>3 DEF Sector0
  <2> QED BY <1>2, <1>8, <2>1, <2>2
<1>14. my'[t].nb \in 0 .. my'[t].rpos BY <1>2, <1>4
<1>15. my'[t].offset = Pos0(t)' % SectorSize BY <1>4, <1>8
<1>16. Pos0(t)' = m.start + m.rpos BY <1>2, <1>8
<1> QED BY <1>3, <1>4, <1>7, <1>8, <1>9, <1>10, <1>11, <1>12, <1>13, <1>14, <1>15, <1>16

\* A step of a read that moves no data.
LEMMA ReadGoesOn ==
  ASSUME FilesInv, NEW t \in Threads, DataInv(t), Reads(t), at'[t] \in ReadPlaces,
         UNCHANGED my, UNCHANGED files, UNCHANGED ubuf, Phases(t)', UpTo(t, my[t].rpos),
         at'[t] \notin Copying
  PROVE  DataInv(t)'
<1>1. FileData(t)' /\ Amounts(t)' BY DEF DataInv, FileData, Amounts, Fh, files
<1>2. Buffers(t)' BY DEF Buffers, Copying, UpTo, files
<1>3. Reads(t)' BY DEF Reads
<1> QED BY <1>1, <1>2, <1>3 DEF DataInv, Reads, ReadPlaces, Copying

\* Phase 1: the rest of the sector the position lies in.
LEMMA Phase1Data ==
  ASSUME FilesInv, NEW t \in Threads, DataInv(t), Phase1(t)
  PROVE  DataInv(t)'
<1>0. FsTypes /\ Placed(t) BY DEF FilesInv, SemaInv, PlaceInv
<1>1. at[t] = "phase1" /\ Reads(t) BY <1>0 DEF Phase1, Placed, Reads, ReadPlaces
<1> DEFINE m == my[t]
           h == Fh(t)
           off == h.position % SectorSize
           nb == Min2(SectorSize - off, m.size)
<1>2. m.size \in Nat /\ m.rpos \in Nat /\ m.start \in Nat /\ h.position = m.start + m.rpos /\ SectorSize \in Nat \ {0}
  BY <1>1, ReadNumbers
<1>3. /\ h.position = (h.position \div SectorSize) * SectorSize + off
      /\ h.position \div SectorSize \in Nat /\ off \in 0 .. SectorSize - 1
  <2>1. h.position \in Nat BY <1>2
  <2> QED BY <1>2, <2>1, DivMod
<1>4. CASE off # 0
  <2>1. Advance(t, 1, nb, "fs_buf", "phase1", "copy1") BY <1>4 DEF Phase1
  <2>2. nb \in 0 .. my[t].size
    <3> HIDE DEF h, off
    <3> QED BY <1>2, <1>3 DEF Min2
  <2>3. UNCHANGED bufs BY DEF Phase1
  <2>4. /\ at'[t] = "copy1" /\ my'[t].call = "read"
        /\ my'[t].nb = nb /\ my'[t].size = my[t].size - nb /\ my'[t].rpos = my[t].rpos + nb
        /\ my'[t].start = my[t].start /\ my'[t].offset = Pos0(t)' % SectorSize
        /\ FileData(t)' /\ Amounts(t)' /\ UpTo(t, my[t].rpos - my[t].nb)'
        /\ Pending("fs_buf")' /\ drive'.lsn = Sector0(t)'
        /\ my'[t].nb \in 0 .. my'[t].rpos
    <3> HIDE DEF nb
    <3>1. "copy1" \in Copying /\ 1 \in Int BY DEF Copying
    <3> QED BY <1>1, <2>1, <2>2, <2>3, <3>1, AdvanceData
  <2>5. AtBoundary(t)'
    <3>1. CASE nb = m.size
      <4> HIDE DEF nb, h, off
      <4> QED BY <1>2, <2>4, <3>1 DEF AtBoundary
    <3>2. CASE nb # m.size
      <4> HIDE DEF h
      <4>1. nb = SectorSize - off BY <3>2 DEF Min2
      <4> HIDE DEF nb, off
      <4> DEFINE q == h.position \div SectorSize
      <4>2. h.position = q * SectorSize + off /\ q \in Nat /\ off \in Int BY <1>3
      <4> HIDE DEF q
      <4>3. m.start + (m.rpos + nb) = (q + 1) * SectorSize
        BY <1>2, <4>1, <4>2
      <4>4. (m.start + (m.rpos + nb)) % SectorSize = 0
        <5>1. q + 1 \in Nat BY <4>2
        <5> QED BY <1>2, <4>3, <5>1, WholeSectors
      <4> QED BY <2>4, <4>4 DEF AtBoundary
    <3> QED BY <3>1, <3>2
  <2>6. Phases(t)' BY <2>4, <2>5 DEF Phases, Copying
  <2>7. Buffers(t)' BY <2>4 DEF Buffers, Copying
  <2> QED BY <2>4, <2>6, <2>7 DEF DataInv, Reads, ReadPlaces, Copying
<1>5. CASE off = 0
  <2>1. Skip(t, "phase1", "phase2") /\ ubuf' = ubuf BY <1>5 DEF Phase1, bufs
  <2>2. at'[t] = "phase2" /\ my' = my /\ UNCHANGED files BY <1>0, <2>1 DEF Skip, Move, FsTypes
  <2>3. AtBoundary(t)' BY <1>2, <1>5, <2>2 DEF AtBoundary
  <2>4. Phases(t)' BY <2>2, <2>3 DEF Phases, Copying
  <2>5. UpTo(t, my[t].rpos) BY <1>1 DEF DataInv, Buffers, Copying
  <2> QED BY <1>1, <2>1, <2>2, <2>4, <2>5, ReadGoesOn DEF ReadPlaces, Copying
<1> QED BY <1>4, <1>5

\* Phase 2: whole sectors.
LEMMA Phase2Data ==
  ASSUME FilesInv, NEW t \in Threads, DataInv(t), Phase2(t)
  PROVE  DataInv(t)'
<1>0. FsTypes /\ Placed(t) BY DEF FilesInv, SemaInv, PlaceInv
<1>1. at[t] = "phase2" /\ Reads(t) BY <1>0 DEF Phase2, Placed, Reads, ReadPlaces
<1> DEFINE m == my[t]
           h == Fh(t)
           n == m.size \div SectorSize
           nb == n * SectorSize
<1>2. m.size \in Nat /\ m.rpos \in Nat /\ m.start \in Nat /\ h.position = m.start + m.rpos /\ SectorSize \in Nat \ {0}
  BY <1>1, ReadNumbers
<1>3. /\ m.size = n * SectorSize + (m.size % SectorSize) /\ n \in Nat
      /\ m.size % SectorSize \in 0 .. SectorSize - 1
  BY <1>2, DivMod
<1>4. AtBoundary(t) BY <1>1 DEF DataInv, Phases
<1>5. CASE n > 0
  <2>1. Advance(t, n, nb, "user", "phase2", "phase2sync") BY <1>5 DEF Phase2
  <2>2. nb \in 0 .. my[t].size /\ m.size - nb < SectorSize /\ nb > 0
    <3> DEFINE r == m.size % SectorSize
    <3>1. m.size = nb + r /\ r \in 0 .. SectorSize - 1 BY <1>3
    <3>2. nb \in Nat /\ nb > 0
      <4> HIDE DEF n
      <4> QED BY <1>2, <1>3, <1>5
    <3> HIDE DEF r, nb
    <3> QED BY <1>2, <3>1, <3>2
  <2>3. UNCHANGED bufs BY DEF Phase2
  <2> HIDE DEF nb, n
  <2>4. /\ at'[t] = "phase2sync" /\ my'[t].call = "read"
        /\ my'[t].nb = nb /\ my'[t].size = my[t].size - nb /\ my'[t].rpos = my[t].rpos + nb
        /\ my'[t].start = my[t].start
        /\ FileData(t)' /\ Amounts(t)' /\ UpTo(t, my[t].rpos - my[t].nb)'
        /\ Pos0(t)' = my[t].start + my[t].rpos
        /\ Pending("user")' /\ drive'.lsn = Sector0(t)' /\ drive'.n = n
        /\ my'[t].nb \in 0 .. my'[t].rpos
    <3>1. "phase2sync" \in Copying /\ n \in Int BY <1>3 DEF Copying
    <3> QED BY <1>1, <2>1, <2>2, <2>3, <3>1, AdvanceData
  <2>5. (m.start + m.rpos) % SectorSize = 0
    <3>1. m.size # 0 BY <1>2, <2>2
    <3> QED BY <1>4, <3>1 DEF AtBoundary
  <2>6. AtBoundary(t)'
    <3> DEFINE q == (m.start + m.rpos) \div SectorSize
               r == (m.start + m.rpos) % SectorSize
    <3>1. m.start + m.rpos = q * SectorSize + r /\ q \in Nat
      <4>1. m.start + m.rpos \in Nat BY <1>2
      <4> QED BY <1>2, <4>1, DivMod
    <3>2. r = 0 BY <2>5
    <3> HIDE DEF q, r
    <3>3. m.start + (m.rpos + nb) = (q + n) * SectorSize
      <4>1. \A x, y, d \in Int : x * d + y * d = (x + y) * d OBVIOUS
      <4>2. q * SectorSize + n * SectorSize = (q + n) * SectorSize
        <5>1. q \in Int /\ n \in Int /\ SectorSize \in Int BY <1>2, <1>3, <3>1
        <5> QED BY <4>1, <5>1
      <4>3. nb \in Int /\ q * SectorSize \in Int
        <5>1. \A x, d \in Nat : x * d \in Int OBVIOUS
        <5> QED BY <1>2, <1>3, <3>1, <5>1 DEF nb
      <4>4. m.start + m.rpos = q * SectorSize BY <4>3, <3>1, <3>2
      <4>5. m.start + (m.rpos + nb) = q * SectorSize + nb BY <1>2, <4>3, <4>4
      <4> QED BY <4>2, <4>5 DEF nb
    <3>4. (m.start + (m.rpos + nb)) % SectorSize = 0
      <4>1. q + n \in Nat BY <1>3, <3>1
      <4> QED BY <1>2, <3>3, <4>1, WholeSectors
    <3> QED BY <2>4, <3>4 DEF AtBoundary
  <2>7. Phases(t)' BY <2>2, <2>4, <2>5, <2>6 DEF Phases, Copying
  <2>8. Buffers(t)' BY <2>4 DEF Buffers, Copying, nb
  <2> QED BY <2>4, <2>7, <2>8 DEF DataInv, Reads, ReadPlaces, Copying
<1>6. CASE ~(n > 0)
  <2>1. Skip(t, "phase2", "phase3") /\ ubuf' = ubuf BY <1>6 DEF Phase2, bufs
  <2>2. at'[t] = "phase3" /\ my' = my /\ UNCHANGED files BY <1>0, <2>1 DEF Skip, Move, FsTypes
  <2>3. m.size < SectorSize
    <3> DEFINE r == m.size % SectorSize
    <3>1. n = 0 BY <1>3, <1>6
    <3>2. m.size = n * SectorSize + r /\ r \in 0 .. SectorSize - 1 BY <1>3
    <3> HIDE DEF n, r
    <3> QED BY <1>2, <3>1, <3>2
  <2>4. Phases(t)' BY <1>4, <2>2, <2>3 DEF Phases, Copying, AtBoundary
  <2>5. UpTo(t, my[t].rpos) BY <1>1 DEF DataInv, Buffers, Copying
  <2> QED BY <1>1, <2>1, <2>2, <2>4, <2>5, ReadGoesOn DEF ReadPlaces, Copying
<1> QED BY <1>5, <1>6

\* Phase 3: what is left of the last sector.
LEMMA Phase3Data ==
  ASSUME FilesInv, NEW t \in Threads, DataInv(t), Phase3(t)
  PROVE  DataInv(t)'
<1>0. FsTypes /\ Placed(t) BY DEF FilesInv, SemaInv, PlaceInv
<1>1. at[t] = "phase3" /\ Reads(t) BY <1>0 DEF Phase3, Placed, Reads, ReadPlaces
<1>2. my[t].size \in Nat BY <1>1, ReadNumbers
<1>3. AtBoundary(t) BY <1>1 DEF DataInv, Phases
<1>4. CASE my[t].size > 0
  <2>1. Advance(t, 1, my[t].size, "fs_buf", "phase3", "copy3") /\ UNCHANGED bufs BY <1>4 DEF Phase3
  <2>2. /\ at'[t] = "copy3" /\ my'[t].call = "read" /\ my'[t].size = my[t].size - my[t].size
        /\ FileData(t)' /\ Amounts(t)' /\ UpTo(t, my[t].rpos - my[t].nb)'
        /\ Pos0(t)' = my[t].start + my[t].rpos
        /\ Pending("fs_buf")' /\ drive'.lsn = Sector0(t)'
        /\ my'[t].nb \in 0 .. my'[t].rpos
    <3>1. "copy3" \in Copying /\ 1 \in Int /\ my[t].size \in 0 .. my[t].size BY <1>2 DEF Copying
    <3> QED BY <1>1, <2>1, <3>1, AdvanceData
  <2>3. Pos0(t)' % SectorSize = 0 BY <1>2, <1>3, <1>4, <2>2 DEF AtBoundary
  <2>4. my'[t].size = 0 BY <1>2, <2>2
  <2>5. Phases(t)' BY <2>2, <2>3, <2>4 DEF Phases, Copying
  <2>6. Buffers(t)' BY <2>2 DEF Buffers, Copying
  <2> QED BY <2>2, <2>5, <2>6 DEF DataInv, Reads, ReadPlaces, Copying
<1>5. CASE ~(my[t].size > 0)
  <2>1. Skip(t, "phase3", "leave") /\ ubuf' = ubuf BY <1>5 DEF Phase3, bufs
  <2>2. at'[t] = "leave" /\ my' = my /\ UNCHANGED files BY <1>0, <2>1 DEF Skip, Move, FsTypes
  <2>3. my[t].size = 0 BY <1>2, <1>5
  <2>4. Phases(t)' BY <2>2, <2>3 DEF Phases, Copying
  <2>5. UpTo(t, my[t].rpos) BY <1>1 DEF DataInv, Buffers, Copying
  <2> QED BY <1>1, <2>1, <2>2, <2>4, <2>5, ReadGoesOn DEF ReadPlaces, Copying
<1> QED BY <1>4, <1>5

\* The units copied last follow on what the buffer held.
LEMMA CopyJoins ==
  ASSUME FilesInv, NEW t \in Threads, DataInv(t), Reads(t), at[t] \in Copying, UpTo(t, my[t].rpos - my[t].nb)
  PROVE  ubuf[t] \o Content(Sector0(t) * SectorSize + (Pos0(t) % SectorSize), my[t].nb) =
           Content(Lsn[opened[t]] * SectorSize + my[t].start, my[t].rpos)
<1> DEFINE l == Lsn[opened[t]]
           start == my[t].start
           rpos == my[t].rpos
           nb == my[t].nb
           p == Pos0(t)
<1>1. l \in Nat /\ start \in Nat /\ rpos \in Nat /\ SectorSize \in Nat \ {0}
  BY ReadNumbers
<1>2. nb \in 0 .. rpos BY DEF DataInv, Phases
<1>3. p = start + (rpos - nb) BY <1>1, <1>2 DEF Pos0
<1>4. ubuf[t] = Content(l * SectorSize + start, rpos - nb) BY DEF UpTo
<1>5. Sector0(t) = l + p \div SectorSize BY DEF Sector0
<1> HIDE DEF l, start, rpos, nb, p
<1>6. p \in Nat /\ rpos - nb \in Nat /\ nb \in Nat BY <1>1, <1>2, <1>3
<1> DEFINE q == p \div SectorSize
           r == p % SectorSize
<1>7. p = q * SectorSize + r /\ q \in Nat /\ r \in Nat BY <1>1, <1>6, DivMod
<1> HIDE DEF q, r
<1>8. (l + q) * SectorSize + r = (l * SectorSize + start) + (rpos - nb)
  <2>1. \A x, y, d \in Int : (x + y) * d = x * d + y * d OBVIOUS
  <2>2. (l + q) * SectorSize = l * SectorSize + q * SectorSize
    <3>1. l \in Int /\ q \in Int /\ SectorSize \in Int BY <1>1, <1>7
    <3> QED BY <2>1, <3>1
  <2>3. l * SectorSize \in Int /\ q * SectorSize \in Int
    <3>1. \A x, d \in Nat : x * d \in Int OBVIOUS
    <3> QED BY <1>1, <1>7, <3>1
  <2> QED BY <1>1, <1>2, <1>3, <1>7, <2>2, <2>3
<1>9. l * SectorSize + start \in Int
  <2>1. \A x, d \in Nat : x * d \in Int OBVIOUS
  <2>2. l * SectorSize \in Int BY <1>1, <2>1
  <2> QED BY <1>1, <2>2
<1>10. Content(l * SectorSize + start, rpos - nb) \o Content((l * SectorSize + start) + (rpos - nb), nb) =
         Content(l * SectorSize + start, (rpos - nb) + nb)
  BY <1>6, <1>9, ContentJoins
<1>11. (rpos - nb) + nb = rpos BY <1>1, <1>6
<1>12. Content(Sector0(t) * SectorSize + r, nb) = Content((l * SectorSize + start) + (rpos - nb), nb)
  BY <1>5, <1>8 DEF q
<1> QED BY <1>4, <1>10, <1>11, <1>12 DEF l, start, rpos, nb, p, r

\* The copy out of cdvdman_fs_buf.
LEMMA CopyData ==
  ASSUME FilesInv, NEW t \in Threads, DataInv(t),
         CopyOut(t, "copy1", "phase2") \/ CopyOut(t, "copy3", "leave")
  PROVE  DataInv(t)'
<1>0. FsTypes /\ Placed(t) BY DEF FilesInv, SemaInv, PlaceInv
<1>1. /\ \/ at[t] = "copy1" /\ at'[t] = "phase2"
         \/ at[t] = "copy3" /\ at'[t] = "leave"
      /\ Reads(t) /\ Reads(t)' /\ DriveIdle /\ my' = my /\ UNCHANGED files
  <2>1. CASE CopyOut(t, "copy1", "phase2")
    BY <1>0, <2>1 DEF CopyOut, Move, FsTypes, Placed, Reads, ReadPlaces, Copying
  <2>2. CASE CopyOut(t, "copy3", "leave")
    BY <1>0, <2>2 DEF CopyOut, Move, FsTypes, Placed, Reads, ReadPlaces, Copying
  <2> QED BY <2>1, <2>2
<1>2. UpTo(t, my[t].rpos - my[t].nb) /\ fs_buf = Sector0(t) BY <1>1 DEF DataInv, Buffers, Pending
<1>3. ubuf'[t] = ubuf[t] \o Content(Sector0(t) * SectorSize + (Pos0(t) % SectorSize), my[t].nb)
  <2>1. CASE CopyOut(t, "copy1", "phase2")
    <3>1. my[t].offset = Pos0(t) % SectorSize
      <4>1. at[t] = "copy1" BY <2>1 DEF CopyOut, Move
      <4> QED BY <1>1, <4>1 DEF DataInv, Phases
    <3>2. ubuf' = [ubuf EXCEPT ![t] = ubuf[t] \o Content(fs_buf * SectorSize + my[t].offset, my[t].nb)]
      BY <2>1 DEF CopyOut
    <3> QED BY <1>0, <1>2, <3>1, <3>2 DEF FsTypes
  <2>2. CASE CopyOut(t, "copy3", "leave")
    <3>1. Pos0(t) % SectorSize = 0
      <4>1. at[t] = "copy3" BY <2>2 DEF CopyOut, Move
      <4> QED BY <1>1, <4>1 DEF DataInv, Phases
    <3>2. ubuf' = [ubuf EXCEPT ![t] = ubuf[t] \o Content(fs_buf * SectorSize + 0, my[t].nb)]
      BY <2>2 DEF CopyOut
    <3> QED BY <1>0, <1>2, <3>1, <3>2 DEF FsTypes
  <2> QED BY <2>1, <2>2
<1>4. ubuf'[t] = Content(Lsn[opened[t]] * SectorSize + my[t].start, my[t].rpos)
  <2>1. at[t] \in Copying BY <1>1 DEF Copying
  <2> QED BY <1>1, <1>2, <1>3, <2>1, CopyJoins
<1>5. FileData(t)' /\ Amounts(t)' BY <1>1 DEF DataInv, FileData, Amounts, Fh, files
<1>6. Phases(t)' BY <1>1 DEF DataInv, Phases, Copying, AtBoundary
<1>7. Buffers(t)' BY <1>1, <1>4 DEF Buffers, Copying, UpTo, files
<1> QED BY <1>1, <1>5, <1>6, <1>7 DEF DataInv, Reads

\* Phase 2 has its sectors.
LEMMA SyncData ==
  ASSUME FilesInv, NEW t \in Threads, DataInv(t), Phase2Sync(t)
  PROVE  DataInv(t)'
<1>0. FsTypes /\ Placed(t) BY DEF FilesInv, SemaInv, PlaceInv
<1>1. /\ at[t] = "phase2sync" /\ at'[t] = "phase3" /\ Reads(t)
      /\ DriveIdle /\ my' = my /\ ubuf' = ubuf /\ UNCHANGED files
  BY <1>0 DEF Phase2Sync, Move, FsTypes, Placed, Reads, ReadPlaces, Copying, bufs
<1>2. UpTo(t, my[t].rpos) BY <1>1 DEF DataInv, Buffers, Pending
<1>3. Phases(t)' BY <1>1 DEF DataInv, Phases, Copying, AtBoundary
<1> QED BY <1>1, <1>2, <1>3, ReadGoesOn DEF ReadPlaces, Copying

\* Whatever a thread does itself.
LEMMA OwnData ==
  ASSUME FilesInv, ~rushed, ~rushed', NEW t \in Threads, DataInv(t), FsCall(t) \/ FsStep(t)
  PROVE  DataInv(t)'
<1>0. FsTypes /\ Placed(t) BY DEF FilesInv, SemaInv, PlaceInv
<1>1. CASE FsCall(t) BY <1>1, OwnCall
<1>2. CASE FsStep(t) /\ my[t].call # "read" BY <1>2, OwnOther
<1>3. CASE FsStep(t) /\ my[t].call = "read"
  <2>1. CASE Leave(t)
    <3>1. my'[t] = NoLocals /\ ubuf'[t] = <<>> /\ UNCHANGED files BY <1>0, <2>1 DEF Leave, FsTypes
    <3>2. my'[t].call = "none" BY <3>1, NoLocalsTyped
    <3>3. FileData(t)' BY <3>1 DEF DataInv, FileData, Fh, files
    <3> QED BY <3>1, <3>2, <3>3 DEF DataInv, Reads
  <2>2. CASE ~Leave(t)
    <3>1. at[t] \in {"idle", "iosema", "ready", "phase1", "copy1", "phase2", "phase2sync", "phase3", "copy3", "leave"}
      BY <1>0, <1>3 DEF FsTypes, Placed, Places, InFsInit, Searching, HoldsIo, InitCalls
    <3>2. \/ TakeIoRead(t) \/ Ready(t) \/ Phase1(t) \/ Phase2(t) \/ Phase3(t) \/ Phase2Sync(t)
          \/ CopyOut(t, "copy1", "phase2") \/ CopyOut(t, "copy3", "leave")
      BY <1>3, <2>2, <3>1 DEF FsStep, TakeIo, cdrom_close, cdrom_lseek, cdvdman_init, DeviceFSInit,
         ClearHandles, ReadVolume, SetRoot, InitDone, cdrom_getstat, cdvdman_getfilefreeslot, SearchTake,
         ReadDir, cdvdman_locatefile, SearchEnd, cdvdman_open, ReadEntries, cdrom_dread, Move
    <3> QED BY <1>3, <3>2, TakeReadData, ReadyData, Phase1Data, Phase2Data, Phase3Data, SyncData, CopyData
  <2> QED BY <2>1, <2>2
<1> QED BY <1>1, <1>2, <1>3

-----------------------------------------------------------------------------
\* The read path delivers to the thread that waits, and to it alone.
LEMMA DoneData ==
  ASSUME FilesInv, NEW u \in Threads, DataInv(u), DriveDone
  PROVE  DataInv(u)'
<1>0. FsTypes /\ Placed(u) /\ SemaInv BY DEF FilesInv, SemaInv, PlaceInv
<1>1. ~DriveIdle /\ DriveIdle' /\ UNCHANGED files /\ at' = at /\ my' = my
  BY DEF DriveDone, Finished, DriveIdle
<1>2. drive \in DriveReads /\ drive.by \in Threads /\ drive.dst \in {"raw", "cd_buf", "fs_buf", "user"}
  BY <1>0, <1>1 DEF FsTypes, DriveIdle, DriveReads
<1>3. at[drive.by] \in WaitsAt(drive.dst) BY <1>1 DEF FilesInv, DriveInv
<1>4. ~Pending("user")' /\ ~Pending("fs_buf")' BY <1>1 DEF Pending
<1>5. FileData(u)' /\ (Reads(u)' <=> Reads(u)) BY <1>1 DEF DataInv, FileData, Fh, files, Reads
<1>6. Reads(u) => Amounts(u)' /\ Phases(u)'
  BY <1>1 DEF DataInv, Amounts, Phases, Pos0, AtBoundary, Fh, files
<1>7. drive.dst = "user" /\ at[u] = "phase2sync" => drive.by = u
  <2>1. SUFFICES ASSUME drive.dst = "user", at[u] = "phase2sync" PROVE drive.by = u OBVIOUS
  <2>2. at[drive.by] = "phase2sync" BY <1>3, <2>1 DEF WaitsAt
  <2>3. InIo(u) /\ InIo(drive.by) BY <2>1, <2>2 DEF InIo, HoldsIo
  <2> QED BY <1>0, <1>2, <2>3 DEF SemaInv, SemaphoresHeld
<1>8. at[u] # "phase2sync" => ubuf'[u] = ubuf[u]
  <2>1. CASE drive.dst # "user" BY <2>1 DEF DriveDone
  <2>2. CASE drive.dst = "user"
    <3>1. at[drive.by] = "phase2sync" BY <1>3, <2>2 DEF WaitsAt
    <3>2. ubuf' = [ubuf EXCEPT ![drive.by] = ubuf[drive.by] \o Content(drive.lsn * SectorSize, drive.n * SectorSize)]
      BY <2>2 DEF DriveDone
    <3> QED BY <1>0, <3>1, <3>2 DEF FsTypes
  <2> QED BY <2>1, <2>2
<1>9. ~Reads(u) => ubuf'[u] = <<>>
  <2>1. at[u] = "phase2sync" => Reads(u) BY <1>0 DEF Placed, Reads, ReadPlaces, Copying
  <2> QED BY <1>8, <2>1 DEF DataInv
<1>10. ASSUME Reads(u) PROVE Buffers(u)'
  <2>1. Sector0(u)' = Sector0(u) BY <1>1 DEF Sector0, Pos0, files
  <2>2. CASE at[u] \in {"copy1", "copy3"}
    <3>1. ubuf'[u] = ubuf[u] /\ at'[u] \in {"copy1", "copy3"} BY <1>1, <1>8, <2>2
    <3>2. UpTo(u, my[u].rpos - my[u].nb)' BY <1>1, <1>10, <2>2, <3>1 DEF DataInv, Buffers, UpTo, files
    <3>3. fs_buf' = Sector0(u)
      <4>1. CASE drive.dst = "fs_buf"
        BY <1>1, <1>10, <2>2, <4>1 DEF DataInv, Buffers, Pending, DriveDone
      <4>2. CASE drive.dst # "fs_buf"
        BY <1>1, <1>10, <2>2, <4>2 DEF DataInv, Buffers, Pending, DriveDone
      <4> QED BY <4>1, <4>2
    <3> QED BY <1>4, <2>1, <3>1, <3>2, <3>3 DEF Buffers, Copying
  <2>3. CASE at[u] = "phase2sync"
    <3>1. UpTo(u, my[u].rpos)'
      <4>1. CASE drive.dst = "user"
        <5>1. drive.lsn = Sector0(u) /\ drive.n * SectorSize = my[u].nb /\ UpTo(u, my[u].rpos - my[u].nb)
          BY <1>1, <1>10, <2>3, <4>1 DEF DataInv, Buffers, Pending
        <5>2. ubuf'[u] = ubuf[u] \o Content(drive.lsn * SectorSize, drive.n * SectorSize)
          <6>1. ubuf' = [ubuf EXCEPT ![u] = ubuf[u] \o Content(drive.lsn * SectorSize, drive.n * SectorSize)]
            BY <1>7, <2>3, <4>1 DEF DriveDone
          <6> QED BY <1>0, <6>1 DEF FsTypes
        <5>3. Pos0(u) % SectorSize = 0 BY <1>10, <2>3 DEF DataInv, Phases
        <5>4. Sector0(u) * SectorSize + (Pos0(u) % SectorSize) = drive.lsn * SectorSize
          <6>1. Sector0(u) * SectorSize \in Int
            <7>1. drive.lsn \in Int BY <1>2 DEF DriveReads
            <7>2. \A x, d \in Int : x * d \in Int OBVIOUS
            <7> QED BY <5>1, <7>1, <7>2, FsAssumption
          <6> QED BY <5>1, <5>3, <6>1
        <5>5. ubuf'[u] = Content(Lsn[opened[u]] * SectorSize + my[u].start, my[u].rpos)
          <6>1. at[u] \in Copying BY <2>3 DEF Copying
          <6> QED BY <1>10, <5>1, <5>2, <5>4, <6>1, CopyJoins
        <5> QED BY <1>1, <5>5 DEF UpTo, files
      <4>2. CASE drive.dst # "user"
        <5>1. ubuf' = ubuf BY <4>2 DEF DriveDone
        <5>2. UpTo(u, my[u].rpos) BY <1>10, <2>3, <4>2 DEF DataInv, Buffers, Pending
        <5> QED BY <1>1, <5>1, <5>2 DEF UpTo, files
      <4> QED BY <4>1, <4>2
    <3> QED BY <1>1, <1>4, <2>3, <3>1 DEF Buffers, Copying
  <2>4. CASE at[u] \notin Copying
    <3>1. ubuf'[u] = ubuf[u] BY <1>8, <2>4 DEF Copying
    <3>2. UpTo(u, my[u].rpos)' BY <1>1, <1>10, <2>4, <3>1 DEF DataInv, Buffers, UpTo, files
    <3> QED BY <1>1, <2>4, <3>2 DEF Buffers, Copying
  <2> QED BY <2>2, <2>3, <2>4 DEF Copying
<1> QED BY <1>1, <1>5, <1>6, <1>9, <1>10 DEF DataInv

\* Other files take free handles and give back their own.
LEMMA OtherData ==
  ASSUME FilesInv, ~rushed, NEW u \in Threads, DataInv(u), OtherFile
  PROVE  DataInv(u)'
<1>0. FsTypes /\ SemaInv BY DEF FilesInv, SemaInv
<1>1. UNCHANGED <<drive, bufs, privdata, opened, at, my>> BY DEF OtherFile
<1>2. privdata[u] # 0 => Fh(u)' = Fh(u)
  <2>1. SUFFICES ASSUME privdata[u] # 0 PROVE Fh(u)' = Fh(u) OBVIOUS
  <2>2. privdata[u] \in Fds BY <1>0, <2>1, FsAssumption DEF FsTypes, Fds
  <2>3. fdhandles[privdata[u]].f = u BY <2>2 DEF FilesInv, HandleInv, HandlesKept
  <2>4. PICK i \in Fds : /\ fdhandles[i].f \in {Other, NoThread}
                         /\ \/ fdhandles' = [fdhandles EXCEPT ![i] = FreeHandle]
                            \/ fdhandles' = [fdhandles EXCEPT ![i] = [fdhandles[i] EXCEPT !.f = Other]]
    BY <1>0 DEF OtherFile, FsTypes
  <2>5. i # privdata[u] BY <2>3, <2>4, FsAssumption
  <2>6. fdhandles'[privdata[u]] = fdhandles[privdata[u]] BY <1>0, <2>2, <2>4, <2>5 DEF FsTypes
  <2> QED BY <1>1, <2>6 DEF Fh
<1>3. Reads(u) => privdata[u] # 0 BY <1>0, ReaderHolds
<1>4. ubuf' = ubuf /\ fs_buf' = fs_buf /\ drive' = drive BY <1>1 DEF bufs
<1>5. (Pending("fs_buf")' <=> Pending("fs_buf")) /\ (Pending("user")' <=> Pending("user"))
  BY <1>4 DEF Pending, DriveIdle
<1> QED BY <1>1, <1>2, <1>3, <1>4, <1>5, DataKept

\* Every step keeps ReadInv.
LEMMA ReadInvStep ==
  ASSUME FilesInv, ReadInv, [FsNext]_fsvars
  PROVE  ReadInv'
<1>0. FsTypes /\ SemaInv BY DEF FilesInv, SemaInv
<1>1. SUFFICES ASSUME ~rushed', NEW u \in Threads PROVE DataInv(u)' BY DEF ReadInv
<1>2. CASE UNCHANGED fsvars
  <2>1. DataInv(u) BY <1>1, <1>2 DEF ReadInv, fsvars, inits
  <2> QED BY <1>2, <2>1 DEF fsvars, semas, bufs, files, inits, DataInv, FileData, Fh, Reads, Amounts, Phases,
     Buffers, Pos0, Sector0, AtBoundary, UpTo, Pending, DriveIdle
<1>3. CASE DriveDone
  <2>1. DataInv(u) BY <1>1, <1>3 DEF ReadInv, DriveDone, inits
  <2> QED BY <1>3, <2>1, DoneData
<1>4. CASE OtherFile
  <2>1. ~rushed /\ DataInv(u) BY <1>1, <1>4 DEF ReadInv, OtherFile, inits
  <2> QED BY <1>4, <2>1, OtherData
<1>5. ASSUME NEW t \in Threads, FsCall(t) \/ FsStep(t) PROVE DataInv(u)'
  <2>1. ~rushed
    BY <1>0, <1>1, <1>5, InitSteps, CallsOutside, StepsOutside DEF OutsideInit, inits, cdvdman_init, StaysApart
  <2>2. DataInv(u) BY <2>1 DEF ReadInv
  <2> QED BY <1>1, <1>5, <2>1, <2>2, OwnData, OthersData
<1> QED BY <1>2, <1>3, <1>4, <1>5 DEF FsNext

\* And it holds at the start.
LEMMA ReadStart == FsInit => ReadInv
<1>1. SUFFICES ASSUME FsInit, NEW t \in Threads PROVE DataInv(t) BY DEF ReadInv
<1>2. privdata[t] = 0 /\ at[t] = "idle" /\ ubuf[t] = <<>> BY <1>1 DEF FsInit
<1> QED BY <1>2 DEF DataInv, FileData, Reads, ReadPlaces, Copying

\* A call that is over has read all it was asked for, or all there is.
LEMMA ReadOver == FilesInv /\ ReadInv => ReadReturnsFile
<1>1. SUFFICES ASSUME FilesInv, ReadInv, NEW t \in Threads, at[t] = "leave", my[t].call = "read", ~rushed
               PROVE  LET f == opened[t]
                          n == Min2(my[t].want, Size[f] - my[t].start)
                      IN  /\ ubuf[t] = Content(Lsn[f] * SectorSize + my[t].start, n)
                          /\ my[t].rpos = n
                          /\ Fh(t).position = my[t].start + n
  BY DEF ReadReturnsFile
<1>2. DataInv(t) /\ Reads(t) BY <1>1 DEF ReadInv, Reads, ReadPlaces
<1>3. my[t].size = 0 /\ Amounts(t) /\ UpTo(t, my[t].rpos)
  BY <1>1, <1>2 DEF DataInv, Phases, Buffers, Copying
<1>4. my[t].rpos = Min2(my[t].want, Size[opened[t]] - my[t].start) BY <1>3 DEF Amounts
<1>5. Fh(t).position = my[t].start + my[t].rpos BY <1>3 DEF Amounts
<1> QED BY <1>3, <1>4, <1>5 DEF UpTo

\* cdrom_read, for any disc, sizes and threads: what it returns is the part of
\* the file it was asked for, complete and in order, although its phases share
\* cdvdman_fs_buf with the other calls and the drive with everybody.
THEOREM ReadsReturnFile == FsSpec => []ReadReturnsFile
<1>1. FsSpec => []ReadInv
  <2>1. FsInit => ReadInv BY ReadStart
  <2>2. FilesInv /\ FilesInv' /\ ReadInv /\ [FsNext]_fsvars => ReadInv' BY ReadInvStep
  <2> QED BY <2>1, <2>2, FilesAlways, PTL DEF FsSpec
<1>2. FilesInv /\ ReadInv => ReadReturnsFile BY ReadOver
<1> QED BY <1>1, <1>2, FilesAlways, PTL

=============================================================================
