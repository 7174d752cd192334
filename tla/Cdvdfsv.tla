------------------------------ MODULE Cdvdfsv ------------------------------
(***************************************************************************)
(* cdvdfsv.c: the RPC thread that reads the disc for the EE.  Data goes    *)
(* through cdvdman_fs_buf, which it shares with the cdrom driver under     *)
(* cdrom_io_sema, and from there by DMA into EE memory.  DMA needs aligned *)
(* addresses, so the unaligned head and tail of the EE's buffer travel in  *)
(* a message of their own (buf1, buf2) that the EE copies when the call    *)
(* returns.                                                                *)
(*                                                                         *)
(* A sector holds SectorSize units of data (2048 bytes in the code) and    *)
(* Align units are a DMA line (64 bytes).  Unit u of sector l has the      *)
(* content l * SectorSize + u.                                             *)
(***************************************************************************)
EXTENDS Integers, Sequences, Drive

CONSTANTS
  FsSectors,        \* CDVDMAN_FS_SECTORS
  SectorSize, Align,
  Reads,            \* cdvd_readee: [lsn, sectors, buf], buf in EE memory
  Chains,           \* cdvd_readchain: sequences of [lsn, sectors, buf, iop]
  IopReads,         \* cdvd_readiopm: [lsn, sectors]
  EeUnits,          \* size of EE memory
  MaxShort,         \* bound: reads that are cut short
  MaxOther          \* bound: S-commands, game reads and calls of the cdrom driver

CDVDFSV_BUF_SECTORS == FsSectors + 1
FsBufUnits == (FsSectors + 2) * SectorSize
Junk == -1
Garbage == -2      \* what uninitialised stack memory holds
Errors == {"NO", "ABRT", "READ", "READCF", "READCFR"}

ASSUME FsvAssumption ==
  /\ FsSectors \in Nat \ {0} /\ Align \in Nat \ {0}
  /\ SectorSize \in Nat /\ SectorSize >= Align /\ SectorSize % Align = 0
  /\ EeUnits \in Nat
  /\ \A r \in Reads : /\ r.sectors \in Nat /\ r.lsn \in Nat /\ r.buf \in Nat
                      /\ r.buf + r.sectors * SectorSize <= EeUnits
  /\ \A c \in Chains :
       /\ Len(c) \in Nat \ {0}
       /\ \A i \in 1 .. Len(c) : /\ c[i].sectors \in Nat \ {0} /\ c[i].lsn \in Nat /\ c[i].buf \in Nat
                                 /\ c[i].iop \in BOOLEAN
                                 /\ ~c[i].iop => c[i].buf + c[i].sectors * SectorSize <= EeUnits
  /\ \A r \in IopReads : r.lsn \in Nat /\ r.sectors \in Nat
  /\ MaxShort \in Nat /\ MaxOther \in Nat
  /\ NoRead \notin [lsn: Int, n: Int, dst: {"fs_buf", "iop", "raw"}, off: Int, begun: BOOLEAN,
                    by: {"rpc", "cdrom", "game"}]

VARIABLES
  io_sema,          \* cdrom_io_sema
  err,              \* cdvdman_stat.err
  fs_buf,           \* cdvdman_fs_buf
  ee,               \* EE memory; Junk where the current call has written nothing
  at,               \* where the RPC thread is
  my,               \* the locals of its call
  readee,           \* the cdvdfsv_readee_t: buf1 and buf2
  curlsn,           \* the progress the EE is shown
  result,           \* what the call returns
  cdrom,            \* where a thread in a call of the cdrom driver is
  lost,             \* history: units of the disc that this call's reads, cut short, left out
  broken,           \* history: sceCdBreak since the call's sceCdDiskReady
  count             \* how often each bounded action was taken

fsvvars == <<drive, io_sema, err, fs_buf, ee, at, my, readee, curlsn, result, cdrom, lost, broken, count>>

\* first: history, the sector the call began with.
NoCall == [call |-> "none", first |-> 0, lsn |-> 0, sectors |-> 0, buf |-> 0, left |-> 0, n |-> 0,
           addr |-> 0, sent |-> 0, chain |-> <<>>, i |-> 0, ok |-> TRUE]
EmptyReadee == [buf1 |-> <<>>, buf2 |-> <<>>]

FsvInit ==
  /\ drive = NoRead
  /\ io_sema = 1 /\ err = "NO"
  /\ fs_buf = [u \in 0 .. FsBufUnits - 1 |-> Junk]
  /\ ee = [u \in 0 .. EeUnits - 1 |-> Junk]
  /\ at = "idle" /\ my = NoCall /\ readee = EmptyReadee
  /\ curlsn = 0 /\ result = 0
  /\ cdrom = "idle" /\ lost = {} /\ broken = FALSE
  /\ count = [short |-> 0, other |-> 0]

-----------------------------------------------------------------------------
Move(from, to) == at = from /\ at' = to
Min2(m, n) == IF m < n THEN m ELSE n
\* n units from place p of memory m; memory m with the units s at place p.
Part(m, p, n) == [i \in 1 .. n |-> m[p + i - 1]]
Stored(m, p, s) == [u \in DOMAIN m |-> IF u - p + 1 \in DOMAIN s THEN s[u - p + 1] ELSE m[u]]
\* Units from .. from + n - 1 of the disc.
Disc(from, n) == [i \in 1 .. n |-> from + i - 1]

\* An error is only set where there is none yet (CDSC_SET_ERROR).
SetError(e) == err' = IF err = "NO" THEN e ELSE err

-----------------------------------------------------------------------------
(***************************************************************************)
(* The N-command dispatcher.                                               *)
(***************************************************************************)

\* A call arrives.  Its result takes the place of the request's first word,
\* which is the (first) lsn.
RpcCall(c) ==
  /\ Move("idle", "iosema")
  /\ my' = c
  /\ result' = c.first
  /\ UNCHANGED <<drive, io_sema, err, fs_buf, ee, readee, curlsn, cdrom, lost, broken, count>>

CallReadee == \E r \in Reads :
  RpcCall([NoCall EXCEPT !.call = "readee", !.first = r.lsn, !.lsn = r.lsn, !.sectors = r.sectors, !.buf = r.buf])
CallReadchain == \E c \in Chains :
  RpcCall([NoCall EXCEPT !.call = "readchain", !.first = c[1].lsn, !.chain = c])
CallReadiopm == \E r \in IopReads :
  RpcCall([NoCall EXCEPT !.call = "readiopm", !.first = r.lsn, !.lsn = r.lsn, !.sectors = r.sectors])
\* The other commands return at once, or when the drive is idle (DISKRDY); some
\* reset the error (SEEK, STOP, ...).
CallOther == RpcCall([NoCall EXCEPT !.call = "other"])

\* sceCdSC(CDSC_IO_SEMA, &fno), then the switch.
cbrpc_cdvdNcmds ==
  /\ io_sema = 1 /\ io_sema' = 0
  /\ \/ my.call = "readee" /\ Move("iosema", IF my.sectors = 0 THEN "leave" ELSE "ready")
     \/ my.call = "readchain" /\ Move("iosema", "link")
     \/ my.call = "readiopm" /\ Move("iosema", "iopm")
     \/ my.call = "other" /\ (Move("iosema", "leave") \/ Move("iosema", "ready"))
  /\ result' = IF my.call = "readee" /\ my.sectors = 0 THEN 0 ELSE result
  /\ err' \in (IF my.call = "other" THEN {err, "NO"} ELSE {err})
  /\ UNCHANGED <<drive, fs_buf, ee, my, readee, curlsn, cdrom, lost, broken, count>>

\* sceCdSC(CDSC_IO_SEMA, 0) and return; what the call left behind for the EE
\* and the history are forgotten, cdvdman_fs_buf keeps its content.
NcmdReturn ==
  /\ Move("leave", "idle")
  /\ io_sema' = Min2(io_sema + 1, 1)
  /\ my' = NoCall /\ readee' = EmptyReadee
  /\ ee' = [u \in DOMAIN ee |-> Junk]
  /\ curlsn' = 0 /\ result' = 0 /\ lost' = {} /\ broken' = FALSE
  /\ UNCHANGED <<drive, err, fs_buf, cdrom, count>>

-----------------------------------------------------------------------------
(***************************************************************************)
(* cdvd_readee.                                                            *)
(***************************************************************************)
Nbytes == my.sectors * SectorSize
B1len == IF my.buf % Align = 0 THEN 0 ELSE Align - (my.buf % Align)
B2len == (my.buf + Nbytes) % Align
Aligned == B1len = 0 /\ B2len = 0                     \* flag_64b
FsvRbuf == B2len                                      \* offset into cdvdfsv_buf

\* Mutant: an unaligned pass fills the buffer, with no room for its extra sector.
NsectorsNoRoom == Min2(my.left, CDVDFSV_BUF_SECTORS)
\* How many sectors the next pass sends, and how many it reads: an unaligned
\* one needs the head of the following sector.
Nsectors ==
  IF Aligned THEN Min2(my.left, CDVDFSV_BUF_SECTORS) ELSE Min2(my.left, CDVDFSV_BUF_SECTORS - 1)
\* Mutant: the following sector is not read.
SectorsReadBare(n) == n
SectorsRead(n) == IF Aligned THEN n ELSE n + 1
\* Mutant: the last pass is sent in full.
SendSizeFull == my.n * SectorSize
\* size_64bb: the last line of the last pass goes into buf2.
SendSize ==
  IF ~Aligned /\ my.left = my.n /\ B1len # 0 THEN my.n * SectorSize - Align ELSE my.n * SectorSize

\* sceCdDiskReady(0) clears the error, then waits for the drive.
DiskReady ==
  /\ Move("ready", "readywait")
  /\ err' = "NO" /\ broken' = FALSE
  /\ UNCHANGED <<drive, io_sema, fs_buf, ee, my, readee, curlsn, result, cdrom, lost, count>>
ReadeeBegin ==
  /\ DriveIdle
  /\ Move("readywait", IF my.call = "readee" THEN "head" ELSE "leave")
  /\ my' = [my EXCEPT !.left = my.sectors, !.addr = my.buf + B1len]
  /\ readee' = [buf1 |-> [i \in 1 .. B1len |-> Garbage], buf2 |-> [i \in 1 .. B2len |-> Garbage]]
  /\ UNCHANGED <<drive, io_sema, err, fs_buf, ee, curlsn, result, cdrom, lost, broken, count>>

\* The end, or sceCdBreak: the EE is sent buf1 and buf2 and copies them.
ReadeeEnd ==
  /\ my.left = 0 \/ err = "ABRT"
  /\ Move("head", "leave")
  /\ ee' = Stored(Stored(ee, my.buf, readee.buf1), my.buf + Nbytes - B2len, readee.buf2)
  /\ curlsn' = Nbytes /\ result' = Nbytes
  /\ my' = [my EXCEPT !.ok = (my.left = 0)]
  /\ UNCHANGED <<drive, io_sema, err, fs_buf, readee, cdrom, lost, broken, count>>
ReadeeNext ==
  /\ my.left # 0 /\ err # "ABRT"
  /\ Move("head", "read")
  /\ my' = [my EXCEPT !.n = Nsectors]
  /\ UNCHANGED <<drive, io_sema, err, fs_buf, ee, readee, curlsn, result, cdrom, lost, broken, count>>

FsRead(l, n, p) == [lsn |-> l, n |-> n, dst |-> "fs_buf", off |-> p, begun |-> FALSE, by |-> "rpc"]

ReadeeRead ==
  /\ Move("read", "sync")
  /\ Accepted(FsRead(my.lsn, SectorsRead(my.n), FsvRbuf))
  /\ UNCHANGED <<io_sema, err, fs_buf, ee, my, readee, curlsn, result, cdrom, lost, broken, count>>
\* Mutant: a refused read returns without giving cdrom_io_sema back.
RefusedKeepsSema ==
  /\ Move("read", "idle")
  /\ Refused
  /\ SetError("READCF")
  /\ result' = my.sent
  /\ my' = [my EXCEPT !.ok = FALSE]
  /\ UNCHANGED <<io_sema, fs_buf, ee, readee, curlsn, cdrom, lost, broken, count>>
\* The drive is busy: READCF, and what was sent so far is the result.
ReadeeRefused ==
  /\ Move("read", "leave")
  /\ Refused
  /\ SetError("READCF")
  /\ result' = my.sent
  /\ my' = [my EXCEPT !.ok = FALSE]
  /\ UNCHANGED <<io_sema, fs_buf, ee, readee, curlsn, cdrom, lost, broken, count>>

\* sceCdSync(0); the first pass puts the unaligned head into buf1.
ReadeeSync ==
  /\ DriveIdle
  /\ Move("sync", "send")
  /\ readee' = IF ~Aligned /\ my.left = my.sectors
                 THEN [readee EXCEPT !.buf1 = Part(fs_buf, FsvRbuf, B1len)] ELSE readee
  /\ UNCHANGED <<drive, io_sema, err, fs_buf, ee, my, curlsn, result, cdrom, lost, broken, count>>
\* Mutant: the head that is in buf1 is sent again.
SendUnshifted ==
  /\ Move("send", "progress")
  /\ ee' = Stored(ee, my.addr, Part(fs_buf, FsvRbuf, SendSize))
  /\ my' = [my EXCEPT !.sent = @ + SendSize]
  /\ UNCHANGED <<drive, io_sema, err, fs_buf, readee, curlsn, result, cdrom, lost, broken, count>>
ReadeeSend ==
  /\ Move("send", "progress")
  /\ ee' = Stored(ee, my.addr, Part(fs_buf, FsvRbuf + B1len, SendSize))
  /\ my' = [my EXCEPT !.sent = @ + SendSize]
  /\ UNCHANGED <<drive, io_sema, err, fs_buf, readee, curlsn, result, cdrom, lost, broken, count>>
\* The EE is shown the progress; after the last pass the tail goes into buf2.
ReadeeProgress ==
  /\ Move("progress", "head")
  /\ curlsn' = my.sent
  /\ my' = [my EXCEPT !.left = @ - my.n, !.lsn = @ + my.n, !.addr = @ + my.n * SectorSize]
  /\ readee' = IF ~Aligned /\ my.left = my.n
                 THEN [readee EXCEPT !.buf2 = Part(fs_buf, FsvRbuf + my.n * SectorSize - B2len, B2len)]
                 ELSE readee
  /\ UNCHANGED <<drive, io_sema, err, fs_buf, ee, result, cdrom, lost, broken, count>>

-----------------------------------------------------------------------------
(***************************************************************************)
(* cdvd_readchain: a list of reads into aligned EE memory or IOP memory.   *)
(***************************************************************************)
Link == my.chain[my.i]
IopRead(l, n) == [lsn |-> l, n |-> n, dst |-> "iop", off |-> 0, begun |-> FALSE, by |-> "rpc"]

ChainNext ==
  /\ at = "link"
  /\ IF my.i = Len(my.chain)
       THEN at' = "leave" /\ UNCHANGED my
       ELSE LET k == my.chain[my.i + 1]
            IN  /\ at' = "linkread"
                /\ my' = [my EXCEPT !.i = @ + 1, !.lsn = k.lsn, !.left = k.sectors, !.addr = k.buf]
  /\ UNCHANGED <<drive, io_sema, err, fs_buf, ee, readee, curlsn, result, cdrom, lost, broken, count>>

ChainRead ==
  LET n == IF Link.iop THEN my.left ELSE Min2(my.left, CDVDFSV_BUF_SECTORS)
  IN  /\ at = "linkread" /\ my.left > 0
      /\ Move("linkread", "linksync")
      /\ Accepted(IF Link.iop THEN IopRead(my.lsn, n) ELSE FsRead(my.lsn, n, 0))
      /\ my' = [my EXCEPT !.n = n]
      /\ UNCHANGED <<io_sema, err, fs_buf, ee, readee, curlsn, result, cdrom, lost, broken, count>>
ChainRefused ==
  /\ my.left > 0
  /\ Move("linkread", "leave")
  /\ Refused
  /\ SetError(IF Link.iop THEN "READCFR" ELSE "READCF")
  /\ result' = 0
  /\ my' = [my EXCEPT !.ok = FALSE]
  /\ UNCHANGED <<io_sema, fs_buf, ee, readee, curlsn, cdrom, lost, broken, count>>

\* Mutant: the destination does not advance between the passes of a link.
ChainAddrKept ==
  /\ DriveIdle
  /\ Move("linksync", "linkread")
  /\ ee' = IF Link.iop THEN ee ELSE Stored(ee, my.addr, Part(fs_buf, 0, my.n * SectorSize))
  /\ my' = [my EXCEPT !.lsn = @ + my.n, !.left = @ - my.n, !.sent = @ + my.n * SectorSize]
  /\ UNCHANGED <<drive, io_sema, err, fs_buf, readee, curlsn, result, cdrom, lost, broken, count>>
\* sceCdSync(0), and the DMA of what came into cdvdfsv_buf.
ChainSync ==
  /\ DriveIdle
  /\ Move("linksync", "linkread")
  /\ ee' = IF Link.iop THEN ee ELSE Stored(ee, my.addr, Part(fs_buf, 0, my.n * SectorSize))
  /\ my' = [my EXCEPT !.lsn = @ + my.n, !.left = @ - my.n, !.addr = @ + my.n * SectorSize,
                      !.sent = @ + my.n * SectorSize]
  /\ UNCHANGED <<drive, io_sema, err, fs_buf, readee, curlsn, result, cdrom, lost, broken, count>>
\* After each link the EE is sent readpos.
ChainProgress ==
  /\ my.left = 0
  /\ Move("linkread", "link")
  /\ curlsn' = my.sent
  /\ UNCHANGED <<drive, io_sema, err, fs_buf, ee, my, readee, result, cdrom, lost, broken, count>>

-----------------------------------------------------------------------------
(***************************************************************************)
(* cdvd_readiopm: the read is refused or not, the wait is the same.        *)
(***************************************************************************)
ReadiopmRead ==
  /\ Move("iopm", "iopmsync")
  /\ \/ Accepted(IopRead(my.lsn, my.sectors)) /\ UNCHANGED my
     \/ Refused /\ my' = [my EXCEPT !.ok = FALSE]
  /\ UNCHANGED <<io_sema, err, fs_buf, ee, readee, curlsn, result, cdrom, lost, broken, count>>
ReadiopmSync ==
  /\ DriveIdle
  /\ Move("iopmsync", "leave")
  /\ IF my.ok THEN UNCHANGED err ELSE SetError("READCFR")
  /\ UNCHANGED <<drive, io_sema, fs_buf, ee, my, readee, curlsn, result, cdrom, lost, broken, count>>

-----------------------------------------------------------------------------
(***************************************************************************)
(* The others: the read path, the S-command thread, game threads and the   *)
(* cdrom driver.                                                           *)
(***************************************************************************)

\* cdvdman_read_sectors begins with err = NO ...
DriveBegin ==
  /\ ~DriveIdle /\ ~drive.begun
  /\ drive' = [drive EXCEPT !.begun = TRUE]
  /\ err' = "NO"
  /\ UNCHANGED <<io_sema, fs_buf, ee, at, my, readee, curlsn, result, cdrom, lost, broken, count>>

Delivered(n) ==
  IF drive.dst = "fs_buf"
    THEN Stored(fs_buf, drive.off, Disc(drive.lsn * SectorSize, n * SectorSize)) ELSE fs_buf
\* What a read that ends after n sectors leaves out.
LeftOut(n) == drive.lsn * SectorSize + n * SectorSize .. drive.lsn * SectorSize + drive.n * SectorSize - 1

\* ... and transfers all sectors, or stops early on an error of the device
\* or one that somebody else has set.
DriveDone ==
  /\ ~DriveIdle /\ drive.begun
  /\ Finished
  /\ fs_buf' = Delivered(drive.n)
  /\ UNCHANGED <<io_sema, err, ee, at, my, readee, curlsn, result, cdrom, lost, broken, count>>
DriveShort ==
  /\ ~DriveIdle /\ drive.begun
  /\ count.short < MaxShort
  /\ count' = [count EXCEPT !.short = @ + 1]
  /\ Finished
  /\ \E n \in 0 .. drive.n - 1 :
       /\ fs_buf' = Delivered(n)
       /\ lost' = IF drive.by = "rpc" THEN lost \cup LeftOut(n) ELSE lost
  /\ SetError("READ")
  /\ UNCHANGED <<io_sema, ee, at, my, readee, curlsn, result, cdrom, broken>>

\* S-commands that write the error: BREAK, and the DISKREADY call.
cbrpc_cdvdScmds ==
  /\ count.other < MaxOther
  /\ count' = [count EXCEPT !.other = @ + 1]
  /\ err' \in {"ABRT", "NO"}
  /\ broken' = (broken \/ (at # "idle" /\ err' = "ABRT"))
  /\ UNCHANGED <<drive, io_sema, fs_buf, ee, at, my, readee, curlsn, result, cdrom, lost>>

RawRead ==
  /\ count.other < MaxOther
  /\ count' = [count EXCEPT !.other = @ + 1]
  /\ Accepted([lsn |-> 0, n |-> 1, dst |-> "raw", off |-> 0, begun |-> FALSE, by |-> "game"])
  /\ UNCHANGED <<io_sema, err, fs_buf, ee, at, my, readee, curlsn, result, cdrom, lost, broken>>

CdromCall ==
  /\ count.other < MaxOther /\ cdrom = "idle"
  /\ count' = [count EXCEPT !.other = @ + 1]
  /\ io_sema = 1 /\ io_sema' = 0
  /\ cdrom' = "read"
  /\ UNCHANGED <<drive, err, fs_buf, ee, at, my, readee, curlsn, result, lost, broken>>
CdromRead ==
  /\ cdrom = "read" /\ cdrom' = "sync"
  /\ Accepted([lsn |-> 0, n |-> 1, dst |-> "fs_buf", off |-> 0, begun |-> FALSE, by |-> "cdrom"])
  /\ UNCHANGED <<io_sema, err, fs_buf, ee, at, my, readee, curlsn, result, lost, broken, count>>
CdromReturn ==
  /\ cdrom = "sync" /\ cdrom' = "idle"
  /\ DriveIdle
  /\ io_sema' = Min2(io_sema + 1, 1)
  /\ UNCHANGED <<drive, err, fs_buf, ee, at, my, readee, curlsn, result, lost, broken, count>>

-----------------------------------------------------------------------------
RpcArrives == CallReadee \/ CallReadchain \/ CallReadiopm \/ CallOther
RpcStep ==
  \/ cbrpc_cdvdNcmds \/ NcmdReturn \/ DiskReady \/ ReadeeBegin
  \/ ReadeeEnd \/ ReadeeNext \/ ReadeeRead \/ ReadeeRefused \/ ReadeeSync \/ ReadeeSend
  \/ ReadeeProgress
  \/ ChainNext \/ ChainRead \/ ChainRefused \/ ChainSync \/ ChainProgress
  \/ ReadiopmRead \/ ReadiopmSync
DriveStep == DriveBegin \/ DriveDone \/ DriveShort
CdromStep == CdromRead \/ CdromReturn

FsvNext == RpcArrives \/ RpcStep \/ DriveStep \/ CdromCall \/ CdromStep \/ RawRead \/ cbrpc_cdvdScmds

FsvSpec == FsvInit /\ [][FsvNext]_fsvvars
\* Threads inside a call go on, and the drive ends its reads.
FsvFairSpec == FsvSpec /\ WF_fsvvars(RpcStep) /\ WF_fsvvars(DriveStep) /\ WF_fsvvars(CdromStep)

-----------------------------------------------------------------------------
(***************************************************************************)
(* Properties.                                                             *)
(***************************************************************************)
\* Memory m holds unit u of the disc at place p, or u is one a read failed to bring.
Brought(m, p, u) == m[p] = u \/ u \in lost
Holds(p, from, n) == \A i \in 0 .. n - 1 : Brought(ee, p + i, from + i)

\* When cdvd_readee returns the full size, and there was no sceCdBreak, the EE's
\* buffer holds the sectors asked for, but for those that a read was cut short
\* before: head and tail messages and the DMA of all passes fit together at any
\* alignment, and a failure in one pass harms no sector of another.
ReadeeDelivers ==
  at = "leave" /\ my.call = "readee" /\ result = Nbytes /\ ~broken =>
    Holds(my.buf, my.first * SectorSize, Nbytes)

\* No call writes EE memory outside the destinations it was given, whatever
\* becomes of its reads.
Destination ==
  CASE my.call = "readee" -> my.buf .. my.buf + Nbytes - 1
    [] my.call = "readchain" ->
         UNION {my.chain[k].buf .. my.chain[k].buf + my.chain[k].sectors * SectorSize - 1 :
                  k \in {j \in 1 .. Len(my.chain) : ~my.chain[j].iop}}
    [] OTHER -> {}
OnlyDestination == at # "idle" => \A u \in DOMAIN ee : ee[u] # Junk => u \in Destination

\* No read overruns cdvdman_fs_buf, the shifted and lengthened ones of an
\* unaligned cdvd_readee included.
FsBufNotOverrun ==
  ~DriveIdle /\ drive.dst = "fs_buf" => drive.off + drive.n * SectorSize <= FsBufUnits

\* At any time in cdvd_readee, what was sent by DMA is in EE memory, in one piece
\* from the first line on, and the progress the EE is shown counts no more than
\* that, short of the end of the call, which shows the full size; the result is
\* the progress shown last, on every exit.  Progress is counted in units sent: it
\* includes those a read failed to bring (lost), and the full size at the end
\* says nothing after a sceCdBreak, when only what was sent before is there.
ProgressDelivered ==
  my.call = "readee" =>
    /\ Holds(my.buf + B1len, my.first * SectorSize + B1len, my.sent)
    /\ curlsn <= my.sent \/ (at = "leave" /\ curlsn = Nbytes)
    /\ at = "leave" => result = curlsn

\* Every link of a chain that is done has its data in EE memory, but for what a
\* read failed to bring.
ChainDelivers ==
  my.call = "readchain" /\ at \in {"link", "leave"} /\ my.ok =>
    \A k \in 1 .. my.i :
      LET c == my.chain[k]
      IN  ~c.iop => Holds(c.buf, c.lsn * SectorSize, c.sectors * SectorSize)

\* Every call returns and gives cdrom_io_sema back, after refused and failed
\* reads too.
RpcReturns == at # "idle" ~> (at = "idle" /\ (io_sema = 1 \/ cdrom # "idle"))
=============================================================================
