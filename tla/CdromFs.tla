------------------------------ MODULE CdromFs ------------------------------
(***************************************************************************)
(* The "cdrom" file system driver of cdvdman.c: first-use initialisation   *)
(* (cdvdman_init, fs_init), the table of file handles, and open, close,    *)
(* read, lseek, dread, getstat and the control calls, by several threads.  *)
(* cdrom_io_sema serialises the file calls, cdvdman_searchfilesema the     *)
(* searches; initialisation is protected by neither.                       *)
(*                                                                         *)
(* A sector holds SectorSize units of data (2048 bytes in the code); unit  *)
(* u of sector l has the content l * SectorSize + u.  A thread owns one    *)
(* iop_file_t.  The disc has one directory sector.                         *)
(***************************************************************************)
EXTENDS Integers, Sequences, Drive

CONSTANTS
  Threads, NoThread,
  Other,            \* stands for the files of all other threads
  Paths,            \* what each thread may open
  Lsn, Size,        \* the files on the disc: their first sector, their length
  Dirs,             \* the directories among them
  SectorSize,
  MaxFd,            \* MAX_FDHANDLES
  RootLba,          \* the sector of the root directory
  ReadSizes,        \* the sizes cdrom_read is called with
  SeekOffsets,      \* the offsets cdrom_lseek is called with
  WordMod,          \* 2^32: file positions are unsigned
  Calls,            \* the calls each thread makes
  MaxRaw            \* bound: how many direct reads of the disc are made

Files == DOMAIN Lsn
VolumeSector == 16
NoData == -1
Fds == 1 .. MaxFd
FreeHandle == [f |-> NoThread, lsn |-> 0, filesize |-> 0, position |-> 0]

ASSUME FsAssumption ==
  /\ {NoThread, Other} \cap Threads = {} /\ Other # NoThread
  /\ Dirs \subseteq Files /\ Lsn \in [Files -> Nat] /\ Size \in [Files -> Nat]
  /\ SectorSize \in Nat \ {0} /\ MaxFd \in Nat \ {0} /\ MaxRaw \in Nat
  /\ RootLba \in Nat \ {0, VolumeSector}
  /\ ReadSizes \subseteq Nat /\ SeekOffsets \subseteq Int
  /\ WordMod \in Nat \ {0}
  /\ \A f \in Files, n \in ReadSizes : Size[f] + n < WordMod
  /\ NoRead \notin [lsn: Int, n: Int, dst: {"raw", "cd_buf", "fs_buf", "user"}, by: Threads]
  /\ Calls \in [Threads -> SUBSET {"open", "close", "read", "lseek", "dread", "init",
                                  "devctl", "search", "getstat", "raw"}]

VARIABLES
  cdinited, fs_inited,      \* cdvdman_cdinited, fs_inited
  root,                     \* layer_info[0].rootDirtocLBA
  io_sema, searchfilesema,
  fs_buf,                   \* the sector in cdvdman_fs_buf
  cd_buf,                   \* the sector in cdvdman_buf
  fdhandles,
  privdata,                 \* per thread: f->privdata, 0 when its file is closed
  at,                       \* where each thread is
  my,                       \* the locals of each thread's call
  ubuf,                     \* per thread: what cdrom_read has put into its buffer
  opened,                   \* history: the path each thread opened last
  raws,                     \* how many direct reads were made
  rushed                    \* history: fs_init overlapped, or found the drive busy

inits == <<cdinited, fs_inited, root, rushed>>
semas == <<io_sema, searchfilesema>>
bufs  == <<fs_buf, cd_buf, ubuf>>
files == <<fdhandles, privdata, opened>>
fsvars == <<drive, inits, semas, bufs, files, at, my, raws>>

\* call, path: what was called; fd: the slot of an open; ok: the file was
\* found; size, nb, rpos, offset: of cdrom_read; want, start: history, the
\* size it was called with and the position it began at.
NoLocals == [call |-> "none", path |-> CHOOSE p \in Files : TRUE, fd |-> 0, ok |-> FALSE,
             want |-> 0, size |-> 0, nb |-> 0, rpos |-> 0, offset |-> 0, start |-> 0]

InFsInit == {"device", "memset", "volume", "volumesync"}
HoldsIo == {"ready", "slot", "opened", "phase1", "copy1", "phase2", "phase2sync", "phase3",
            "copy3", "dread", "entries", "leave"}
Searches == {"search", "getstat"}
Searching == {"dir", "dirsync", "searchend"}

FsInit ==
  /\ drive = NoRead
  /\ cdinited = FALSE /\ fs_inited = FALSE /\ root = 0
  /\ io_sema = 1 /\ searchfilesema = 1
  /\ fs_buf = NoData /\ cd_buf = NoData
  /\ fdhandles = [i \in Fds |-> FreeHandle]
  /\ privdata = [t \in Threads |-> 0]
  /\ at = [t \in Threads |-> "idle"]
  /\ my = [t \in Threads |-> NoLocals]
  /\ ubuf = [t \in Threads |-> <<>>]
  /\ opened = [t \in Threads |-> NoLocals.path]
  /\ raws = 0
  /\ rushed = FALSE

-----------------------------------------------------------------------------
Move(t, from, to) == at[t] = from /\ at' = [at EXCEPT ![t] = to]
Fh(t) == fdhandles[privdata[t]]
Min2(m, n) == IF m < n THEN m ELSE n

\* The calls, up to WaitSema(cdrom_io_sema).  Bound: none is made once two
\* first calls got in each other's way, only the calls under way end.
Called(t, c) ==
  /\ ~rushed /\ c.call \in Calls[t]
  /\ my' = [my EXCEPT ![t] = c]
  /\ Move(t, "idle", CASE c.call \in {"search", "init"} -> "init"
                         [] c.call = "getstat" -> "stat"
                         [] OTHER -> "iosema")
  /\ UNCHANGED <<drive, inits, semas, bufs, files, raws>>

cdrom_open(t) == \E p \in Paths[t] :
  /\ privdata[t] = 0
  /\ Called(t, [NoLocals EXCEPT !.call = "open", !.path = p])
cdrom_read(t) == \E n \in ReadSizes :
  /\ privdata[t] # 0 /\ opened[t] \notin Dirs
  /\ Called(t, [NoLocals EXCEPT !.call = "read", !.size = n, !.want = n])
FileCall(t) == \E c \in {"close"} \cup IF opened[t] \in Dirs THEN {"dread"} ELSE {"lseek"} :
  /\ privdata[t] # 0
  /\ Called(t, [NoLocals EXCEPT !.call = c])
\* sceCdInit; cdrom_ioctl, ioctl2 and devctl.
ControlCall(t) == \E c \in {"init", "devctl"} : Called(t, [NoLocals EXCEPT !.call = c])
\* sceCdSearchFile and cdrom_getstat: here it does not matter for what.
SearchFile(t) == \E c \in Searches : Called(t, [NoLocals EXCEPT !.call = c])

\* A thread reads the disc directly, into memory of its own.
RawRead(t) ==
  /\ "raw" \in Calls[t] /\ raws < MaxRaw /\ at[t] = "idle"
  /\ raws' = raws + 1
  /\ Accepted([lsn |-> 0, n |-> 1, dst |-> "raw", by |-> t])
  /\ UNCHANGED <<inits, semas, bufs, files, at, my>>

\* WaitSema(cdrom_io_sema), for the calls that go on after it.
TakeIo(t) ==
  /\ my[t].call \in {"open", "dread", "devctl"}
  /\ io_sema = 1 /\ io_sema' = 0
  /\ \/ my[t].call = "open" /\ Move(t, "iosema", "init")
     \/ my[t].call # "open" /\ Move(t, "iosema", "ready")
     \/ my[t].call = "devctl" /\ Move(t, "iosema", "leave")
  /\ UNCHANGED <<drive, inits, searchfilesema, bufs, files, my, raws>>

\* cdrom_read clamps the size to the rest of the file.
TakeIoRead(t) ==
  LET h == Fh(t)
      past == (h.position + my[t].size) % WordMod > h.filesize
  IN  /\ my[t].call = "read"
      /\ io_sema = 1 /\ io_sema' = 0
      /\ Move(t, "iosema", "ready")
      /\ my' = [my EXCEPT ![t].size = IF past THEN h.filesize - h.position ELSE @,
                          ![t].start = h.position]
      /\ UNCHANGED <<drive, inits, searchfilesema, bufs, files, raws>>

\* Mutant: the handle is not cleared.
CloseKeepsHandle(t) ==
  /\ my[t].call = "close"
  /\ io_sema = 1 /\ io_sema' = 0
  /\ Move(t, "iosema", "leave")
  /\ UNCHANGED fdhandles
  /\ privdata' = [privdata EXCEPT ![t] = 0]
  /\ opened' = [opened EXCEPT ![t] = NoLocals.path]
  /\ UNCHANGED <<drive, inits, searchfilesema, bufs, my, raws>>

cdrom_close(t) ==
  /\ my[t].call = "close"
  /\ io_sema = 1 /\ io_sema' = 0
  /\ Move(t, "iosema", "leave")
  /\ fdhandles' = [fdhandles EXCEPT ![privdata[t]] = FreeHandle]
  /\ privdata' = [privdata EXCEPT ![t] = 0]
  /\ opened' = [opened EXCEPT ![t] = NoLocals.path]
  /\ UNCHANGED <<drive, inits, searchfilesema, bufs, my, raws>>

\* Positions are unsigned, so one before the start of the file ends up at its
\* end.
cdrom_lseek(t) ==
  LET h == Fh(t)
      sought == {(h.position + o) % WordMod : o \in SeekOffsets} \cup
                {o % WordMod : o \in SeekOffsets} \cup
                {(h.filesize - o) % WordMod : o \in SeekOffsets}
  IN  /\ my[t].call = "lseek"
      /\ io_sema = 1 /\ io_sema' = 0
      /\ Move(t, "iosema", "leave")
      /\ \E p \in sought :
           fdhandles' = [fdhandles EXCEPT ![privdata[t]].position = Min2(p, h.filesize)]
      /\ UNCHANGED <<drive, inits, searchfilesema, bufs, privdata, opened, my, raws>>

\* A thread outside the model opens a file or closes it, in one step.
OtherFile ==
  /\ io_sema = 1 /\ cdinited /\ DriveIdle /\ searchfilesema = 1
  /\ \E i \in Fds :
       \/ /\ fdhandles[i].f = Other
          /\ fdhandles' = [fdhandles EXCEPT ![i] = FreeHandle]
       \/ /\ \A k \in Fds : fdhandles[k].f # Other
          /\ fdhandles[i].f = NoThread /\ \A k \in 1 .. i - 1 : fdhandles[k].f # NoThread
          /\ fdhandles' = [fdhandles EXCEPT ![i].f = Other]
  /\ UNCHANGED <<drive, inits, semas, bufs, privdata, opened, at, my, raws>>

\* SignalSema(cdrom_io_sema) and return.
Leave(t) ==
  /\ Move(t, "leave", "idle")
  /\ io_sema' = Min2(io_sema + 1, 1)
  /\ my' = [my EXCEPT ![t] = NoLocals]
  /\ ubuf' = [ubuf EXCEPT ![t] = <<>>]
  /\ UNCHANGED <<drive, inits, searchfilesema, fs_buf, cd_buf, files, raws>>

-----------------------------------------------------------------------------
(***************************************************************************)
(* cdvdman_init and fs_init.                                               *)
(***************************************************************************)
AfterInit(t) ==
  CASE my[t].call = "init" -> "idle"
    [] my[t].call = "open" -> "ready"
    [] my[t].call \in Searches -> "search"

\* if (!cdvdman_cdinited), if (fs_inited) return.
cdvdman_init(t) ==
  /\ Move(t, "init", IF cdinited THEN AfterInit(t) ELSE IF fs_inited THEN "initdone" ELSE "device")
  /\ rushed' = (rushed \/ (~cdinited /\ \E u \in Threads \ {t} : at[u] \in InFsInit))
  /\ UNCHANGED <<drive, cdinited, fs_inited, root, semas, bufs, files, my, raws>>

\* DeviceFSInit returns when the device is there.
DeviceFSInit(t) ==
  /\ Move(t, "device", "memset")
  /\ UNCHANGED <<drive, inits, semas, bufs, files, my, raws>>

ClearHandles(t) ==
  /\ Move(t, "memset", "volume")
  /\ fdhandles' = [i \in Fds |-> FreeHandle]
  /\ UNCHANGED <<drive, inits, semas, bufs, privdata, opened, my, raws>>

\* The result of this sceCdRead is ignored.
ReadVolume(t) ==
  /\ Move(t, "volume", "volumesync")
  /\ \/ /\ Accepted([lsn |-> VolumeSector, n |-> 1, dst |-> "cd_buf", by |-> t])
        /\ UNCHANGED rushed
     \/ Refused /\ rushed' = TRUE
  /\ UNCHANGED <<cdinited, fs_inited, root, semas, bufs, files, my, raws>>

\* The root directory's place is taken from cdvdman_buf, whatever is in it.
SetRoot(t) ==
  /\ DriveIdle
  /\ Move(t, "volumesync", "initdone")
  /\ \/ cd_buf = VolumeSector /\ root' = RootLba
     \/ cd_buf # VolumeSector /\ root' \in {0, RootLba + 1}
  /\ fs_inited' = TRUE
  /\ UNCHANGED <<drive, cdinited, rushed, semas, bufs, files, my, raws>>

InitDone(t) ==
  /\ Move(t, "initdone", AfterInit(t))
  /\ cdinited' = TRUE
  /\ UNCHANGED <<drive, fs_inited, root, rushed, semas, bufs, files, my, raws>>

-----------------------------------------------------------------------------
(***************************************************************************)
(* cdvdman_open, cdvdman_findfile and cdvdman_locatefile.                  *)
(***************************************************************************)

\* sceCdDiskReady(0), which waits only once sceCdInit was done.
Ready(t) ==
  /\ DriveIdle \/ ~cdinited
  /\ Move(t, "ready", CASE my[t].call = "open" -> "slot"
                        [] my[t].call = "read" -> IF my[t].size > 0 THEN "phase1" ELSE "leave"
                        [] my[t].call = "dread" -> "dread"
                        [] my[t].call = "devctl" -> "leave")
  /\ UNCHANGED <<drive, inits, semas, bufs, files, my, raws>>

\* The wait of cdrom_getstat, which takes no cdrom_io_sema.
cdrom_getstat(t) ==
  /\ DriveIdle \/ ~cdinited
  /\ Move(t, "stat", "init")
  /\ UNCHANGED <<drive, inits, semas, bufs, files, my, raws>>

\* Mutant: the EMFILE path returns without SignalSema.
EmfileLeaks(t) ==
  LET free == {i \in Fds : fdhandles[i].f = NoThread}
  IN  /\ \/ /\ free # {}
            /\ Move(t, "slot", "search")
            /\ my' = [my EXCEPT ![t].fd = CHOOSE i \in free : \A k \in free : i <= k]
         \/ free = {} /\ Move(t, "slot", "idle") /\ UNCHANGED my
      /\ UNCHANGED <<drive, inits, semas, bufs, files, raws>>

\* The first free handle; without one the call fails with EMFILE.
cdvdman_getfilefreeslot(t) ==
  LET free == {i \in Fds : fdhandles[i].f = NoThread}
  IN  /\ \/ /\ free # {}
            /\ Move(t, "slot", "search")
            /\ my' = [my EXCEPT ![t].fd = CHOOSE i \in free : \A k \in free : i <= k]
         \/ free = {} /\ Move(t, "slot", "leave") /\ UNCHANGED my
      /\ UNCHANGED <<drive, inits, semas, bufs, files, raws>>

\* WaitSema(cdvdman_searchfilesema); no search without a root directory.
SearchTake(t) ==
  /\ searchfilesema = 1 /\ searchfilesema' = 0
  /\ Move(t, "search", IF root = 0 THEN "searchend" ELSE "dir")
  /\ UNCHANGED <<drive, inits, io_sema, bufs, files, my, raws>>

\* A refused read ends the search.
ReadDir(t) ==
  /\ \/ /\ Accepted([lsn |-> root, n |-> 1, dst |-> "cd_buf", by |-> t])
        /\ Move(t, "dir", "dirsync")
     \/ Refused /\ Move(t, "dir", "searchend")
  /\ UNCHANGED <<inits, semas, bufs, files, my, raws>>

cdvdman_locatefile(t) ==
  /\ DriveIdle
  /\ Move(t, "dirsync", "searchend")
  /\ my' = [my EXCEPT ![t].ok = (cd_buf = RootLba /\ my[t].path \in Files)]
  /\ UNCHANGED <<drive, inits, semas, bufs, files, raws>>

\* Mutant: a search that finds nothing does not signal.
MissKeepsSema(t) ==
  /\ searchfilesema' = IF my[t].ok THEN 1 ELSE 0
  /\ IF my[t].call \in Searches
        THEN Move(t, "searchend", "idle") /\ my' = [my EXCEPT ![t] = NoLocals]
        ELSE Move(t, "searchend", IF my[t].ok THEN "opened" ELSE "leave") /\ UNCHANGED my
  /\ UNCHANGED <<drive, inits, io_sema, bufs, files, raws>>

\* SignalSema(cdvdman_searchfilesema).
SearchEnd(t) ==
  /\ searchfilesema' = Min2(searchfilesema + 1, 1)
  /\ IF my[t].call \in Searches
        THEN Move(t, "searchend", "idle") /\ my' = [my EXCEPT ![t] = NoLocals]
        ELSE Move(t, "searchend", IF my[t].ok THEN "opened" ELSE "leave") /\ UNCHANGED my
  /\ UNCHANGED <<drive, inits, io_sema, bufs, files, raws>>

cdvdman_open(t) ==
  LET p == my[t].path
  IN  /\ Move(t, "opened", "leave")
      /\ privdata' = [privdata EXCEPT ![t] = my[t].fd]
      /\ opened' = [opened EXCEPT ![t] = p]
      /\ fdhandles' = [fdhandles EXCEPT ![my[t].fd] =
                         [f |-> t, lsn |-> Lsn[p], filesize |-> Size[p], position |-> 0]]
      /\ UNCHANGED <<drive, inits, semas, bufs, my, raws>>

-----------------------------------------------------------------------------
(***************************************************************************)
(* cdrom_read in its three phases, and cdrom_dread.                        *)
(***************************************************************************)

\* Units from .. from + n - 1 of the disc.
Content(from, n) == [i \in 1 .. n |-> from + i - 1]
\* The sector the file position is in.
PositionSector(t) == Fh(t).lsn + Fh(t).position \div SectorSize

\* An accepted read of n sectors, of which nb units are taken: position, size
\* and rpos move on at once.  A refused one is tried again after a delay.
Advance(t, n, nb, dst, from, to) ==
  /\ Accepted([lsn |-> PositionSector(t), n |-> n, dst |-> dst, by |-> t])
  /\ my' = [my EXCEPT ![t].nb = nb, ![t].size = @ - nb, ![t].rpos = @ + nb,
                      ![t].offset = Fh(t).position % SectorSize]
  /\ fdhandles' = [fdhandles EXCEPT ![privdata[t]].position = (@ + nb) % WordMod]
  /\ Move(t, from, to)
  /\ UNCHANGED <<privdata, opened>>

Skip(t, from, to) == Move(t, from, to) /\ UNCHANGED <<drive, my, files>>

\* Phase 1: up to the next sector boundary, through cdvdman_fs_buf.
Phase1(t) ==
  LET offset == Fh(t).position % SectorSize
  IN  /\ at[t] = "phase1"
      /\ IF offset # 0
           THEN Advance(t, 1, Min2(SectorSize - offset, my[t].size), "fs_buf", "phase1", "copy1")
           ELSE Skip(t, "phase1", "phase2")
      /\ UNCHANGED <<inits, semas, bufs, raws>>

\* Phase 2: whole sectors, straight into the caller's buffer.
Phase2(t) ==
  LET n == my[t].size \div SectorSize
  IN  /\ at[t] = "phase2"
      /\ IF n > 0 THEN Advance(t, n, n * SectorSize, "user", "phase2", "phase2sync")
                  ELSE Skip(t, "phase2", "phase3")
      /\ UNCHANGED <<inits, semas, bufs, raws>>

\* Phase 3: the rest, through cdvdman_fs_buf.
Phase3(t) ==
  /\ at[t] = "phase3"
  /\ IF my[t].size > 0 THEN Advance(t, 1, my[t].size, "fs_buf", "phase3", "copy3")
                       ELSE Skip(t, "phase3", "leave")
  /\ UNCHANGED <<inits, semas, bufs, raws>>

\* sceCdSync(0), and the copy out of cdvdman_fs_buf.
Phase2Sync(t) ==
  /\ DriveIdle
  /\ Move(t, "phase2sync", "phase3")
  /\ UNCHANGED <<drive, inits, semas, bufs, files, my, raws>>

\* Mutant: the copy starts at the sector, not at the position.
CopyFromStart(t, from, to) ==
  /\ DriveIdle
  /\ Move(t, from, to)
  /\ ubuf' = [ubuf EXCEPT ![t] = @ \o Content(fs_buf * SectorSize, my[t].nb)]
  /\ UNCHANGED <<drive, inits, semas, fs_buf, cd_buf, files, my, raws>>

CopyOut(t, from, to) ==
  /\ DriveIdle
  /\ Move(t, from, to)
  /\ ubuf' = [ubuf EXCEPT ![t] = @ \o Content(fs_buf * SectorSize +
                                  (IF from = "copy1" THEN my[t].offset ELSE 0), my[t].nb)]
  /\ UNCHANGED <<drive, inits, semas, fs_buf, cd_buf, files, my, raws>>

\* cdrom_dread reads the directory's first sector; a busy drive ends it.
ReadEntries(t) ==
  /\ \/ /\ Move(t, "dread", "entries")
        /\ Accepted([lsn |-> Fh(t).lsn, n |-> 1, dst |-> "fs_buf", by |-> t])
     \/ Refused /\ Move(t, "dread", "leave")
  /\ UNCHANGED <<inits, semas, bufs, files, my, raws>>

\* It moves past the "." and ".." entries and one more, or stays at the end.
cdrom_dread(t) ==
  /\ DriveIdle
  /\ Move(t, "entries", "leave")
  /\ \E n \in 0 .. Fh(t).filesize - Fh(t).position :
       fdhandles' = [fdhandles EXCEPT ![privdata[t]].position = @ + n]
  /\ UNCHANGED <<drive, inits, semas, bufs, privdata, opened, my, raws>>

\* The read path delivers the data and gives the drive back.
DriveDone ==
  /\ Finished
  /\ fs_buf' = IF drive.dst = "fs_buf" THEN drive.lsn ELSE fs_buf
  /\ cd_buf' = IF drive.dst = "cd_buf" THEN drive.lsn ELSE cd_buf
  /\ ubuf' = IF drive.dst = "user"
                THEN [ubuf EXCEPT ![drive.by] = @ \o Content(drive.lsn * SectorSize, drive.n * SectorSize)]
                ELSE ubuf
  /\ UNCHANGED <<inits, semas, files, at, my, raws>>

-----------------------------------------------------------------------------
FsCall(t) == cdrom_open(t) \/ cdrom_read(t) \/ FileCall(t) \/ ControlCall(t) \/ SearchFile(t) \/ RawRead(t)

FsStep(t) ==
  \/ TakeIo(t) \/ TakeIoRead(t) \/ cdrom_close(t) \/ cdrom_lseek(t) \/ Leave(t)
  \/ cdvdman_init(t) \/ DeviceFSInit(t) \/ ClearHandles(t) \/ ReadVolume(t)
  \/ SetRoot(t) \/ InitDone(t)
  \/ Ready(t) \/ cdrom_getstat(t) \/ cdvdman_getfilefreeslot(t) \/ SearchTake(t) \/ ReadDir(t)
  \/ cdvdman_locatefile(t) \/ SearchEnd(t) \/ cdvdman_open(t)
  \/ Phase1(t) \/ CopyOut(t, "copy1", "phase2") \/ Phase2(t) \/ Phase2Sync(t)
  \/ Phase3(t) \/ CopyOut(t, "copy3", "leave")
  \/ ReadEntries(t) \/ cdrom_dread(t)

FsNext == DriveDone \/ OtherFile \/ \E t \in Threads : FsCall(t) \/ FsStep(t)

FsSpec == FsInit /\ [][FsNext]_fsvars
\* Threads inside a call go on, and the drive finishes its reads.
FsFairSpec == FsSpec /\ WF_fsvars(DriveDone) /\ \A t \in Threads : WF_fsvars(FsStep(t))

-----------------------------------------------------------------------------
(***************************************************************************)
(* Properties.                                                             *)
(***************************************************************************)

\* When cdrom_read returns, the caller's buffer holds exactly the part of the
\* file from the old position on that was asked for and exists, and the
\* position has moved past it, whichever phases it took and whoever else
\* used the drive between them.
ReadReturnsFile ==
  \A t \in Threads : at[t] = "leave" /\ my[t].call = "read" /\ ~rushed =>
    LET f == opened[t]
        n == Min2(my[t].want, Size[f] - my[t].start)
    IN  /\ ubuf[t] = Content(Lsn[f] * SectorSize + my[t].start, n)
        /\ my[t].rpos = n
        /\ Fh(t).position = my[t].start + n

\* A handle belongs to the file it was given to as long as that is open, and
\* is free otherwise: fs_init, open and close of other threads do not take
\* it away and none is lost, unless two first calls ran fs_init together.
HandlesKept ==
  ~rushed => \A i \in Fds, t \in Threads : fdhandles[i].f = t <=> privdata[t] = i

\* cdrom_io_sema is held by exactly the thread that is in a file call, and
\* cdvdman_searchfilesema by the thread that searches: neither is lost on any
\* path out of a call.
InIo(t) ==
  \/ at[t] \in HoldsIo
  \/ my[t].call = "open" /\ at[t] \notin {"idle", "iosema"}
SemaphoresHeld ==
  /\ \A t, u \in Threads : InIo(t) /\ InIo(u) => t = u
  /\ io_sema = 0 <=> \E t \in Threads : InIo(t)
  /\ \A t, u \in Threads : at[t] \in Searching /\ at[u] \in Searching => t = u
  /\ searchfilesema = 0 <=> \E t \in Threads : at[t] \in Searching

\* Nobody waits for ever for the two semaphores and the drive, which are
\* always taken in this order: while all threads are inside calls one of
\* them returns, and a thread whose rivals stay out returns.  (A thread that
\* polls for the drive can be starved by others that keep it busy.)
CallsReturn ==
  /\ []<>(\E t \in Threads : at[t] = "idle")
  /\ \A t \in Threads :
       <>[](\A u \in Threads \ {t} : at[u] = "idle") => []<>(at[t] = "idle")
=============================================================================
