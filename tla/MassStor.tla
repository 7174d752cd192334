------------------------------ MODULE MassStor ------------------------------
(***************************************************************************)
(* mass_driver.c: the USB mass storage driver as the disc behind cdvdman.  *)
(* One thread (DeviceFSInit, later cdvdman's read thread) sends commands   *)
(* as a series of USB transfers; callbacks of the USB stack count them     *)
(* down and signal a semaphore.  Sequential reads are followed by a        *)
(* read-ahead that goes on after the call has returned.                    *)
(*                                                                         *)
(* Data is counted in units of 512 bytes; unit u of the device has the     *)
(* content u.  The transfers of one command are queued in one step: the    *)
(* code counts them without a lock, which needs a USB callback thread that *)
(* does not preempt the one that queues.                                   *)
(***************************************************************************)
EXTENDS Parts

CONSTANTS
  CdUnits,          \* units of a CD sector (2048 bytes)
  SectorSizes,      \* what READ CAPACITY may answer, in units
  MAX_SIZE,         \* largest USB transfer, in units
  SCSI_RA_SECTORS, MAX_USB_SECTORS,
  LBAs,             \* cdvdman_settings.LBAs: where each part is, in sectors of the device
  Reads,            \* calls of DeviceReadSectors: [lsn, n]
  MaxN,             \* size of a caller's buffer, in CD sectors
  MaxFails          \* bound: failures of the USB stack

\* Limit: a read that ends at the border of two parts goes on with a read of
\* no sectors in the next; from the middle of a 4096-byte sector it wraps the
\* number of sectors and does not end.
OddAtBorder(r) == (r.lsn + r.n) % PartSectors = 0 /\ (r.lsn + PartSectors) % 2 = 1

ASSUME MassAssumption ==
  /\ CdUnits \in Nat \ {0} /\ MAX_SIZE \in Nat \ {0}
  /\ SCSI_RA_SECTORS \in Nat \ {0} /\ MAX_USB_SECTORS \in Nat \ {0}
  /\ LBAs \in [1 .. NumParts -> Nat]
  /\ \A s \in SectorSizes : s \in Nat \ {0} /\ (CdUnits % s = 0 \/ s = 2 * CdUnits)
  /\ \A r \in Reads : r.lsn \in Nat /\ r.n \in 1 .. MaxN /\ WithinPart(r.lsn, r.n) /\ ~OddAtBorder(r)
  /\ MaxN \in Nat /\ MaxFails \in Nat

VARIABLES
  dev,              \* g_mass_device: devId known, status bits, sectorSize
  ioSema, io_sem,   \* end of a command; end of a read-ahead
  ucmd,             \* the static struct usbmass_cmd
  flight,           \* transfers the USB stack has not finished
  ra, last,         \* ra_* and last_*
  ra_buffer, gSectorBuffer, mem,
  at, my,           \* the thread: where it is, the locals of its calls
  hurt,             \* history: the USB stack failed, or one of the limits noted below was met
  fails

massvars == <<dev, ioSema, io_sem, ucmd, flight, ra, last, ra_buffer, gSectorBuffer, mem, at, my,
              hurt, fails>>
buffers == <<ra_buffer, gSectorBuffer, mem>>

Junk == -1
NoSector == -1
Fresh(n) == [u \in 0 .. n - 1 |-> Junk]
NoJob == [sector |-> 0, count |-> 0, to |-> "mem", p |-> 0]
Idle == [call |-> [lsn |-> 0, n |-> 0], reads |-> <<>>, left |-> 0, lba |-> 0, p |-> 0, job |-> NoJob, half |-> "none",
         stage |-> "none"]

\* The commands of mass_stor_configureDevice, and those among them that are
\* control transfers.
Control == {"set_configuration", "set_interface", "max_lun", "halt_in", "halt_out"}
Scsi == {"inquiry", "test_unit_ready", "request_sense", "start_stop_unit", "read_capacity"}

MassInit ==
  /\ dev = [known |-> FALSE, status |-> {}, sectorSize |-> 0]
  /\ ioSema = 0 /\ io_sem = 0
  /\ ucmd = [cmd_count |-> 0, cb |-> FALSE, returnCode |-> "OK"]
  /\ flight = <<>>
  /\ ra = [sector |-> NoSector, count |-> 0, ptr |-> 0, active |-> FALSE]
  /\ last = [sector |-> NoSector, count |-> 0]
  /\ ra_buffer = Fresh(SCSI_RA_SECTORS) /\ gSectorBuffer = Fresh(2 * CdUnits)
  /\ mem = Fresh(MaxN * CdUnits)
  /\ at = "off" /\ my = Idle
  /\ hurt = FALSE /\ fails = 0

-----------------------------------------------------------------------------
(***************************************************************************)
(* USB transfers and SCSI commands.                                        *)
(***************************************************************************)
S == dev.sectorSize
Least(m, n) == IF m < n THEN m ELSE n
Part(m, p, n) == [i \in 1 .. n |-> IF p + i - 1 \in DOMAIN m THEN m[p + i - 1] ELSE Junk]
Stored(m, p, s) == [u \in DOMAIN m |-> IF u - p + 1 \in DOMAIN s THEN s[u - p + 1] ELSE m[u]]
Units(from, n) == [i \in 1 .. n |-> from + i - 1]
Fails == fails < MaxFails /\ fails' = fails + 1 /\ hurt' = TRUE

Packet(kind) == [kind |-> kind, to |-> "none", p |-> 0, from |-> 0, n |-> 0]
\* CBW, the data in pieces of MAX_SIZE, CSW.
Transfers(job) ==
  LET total == job.count * S
      piece(i) == [kind |-> "data", to |-> job.to, p |-> job.p + (i - 1) * MAX_SIZE,
                   from |-> job.sector * S + (i - 1) * MAX_SIZE,
                   n |-> Least(MAX_SIZE, total - (i - 1) * MAX_SIZE)]
  IN  <<Packet("cbw")>> \o [i \in 1 .. (total + MAX_SIZE - 1) \div MAX_SIZE |-> piece(i)]
        \o <<Packet("csw")>>
\* cbw_scsi_cmd: TEST UNIT READY and START STOP UNIT carry no data.
Simple(stage) ==
  IF stage \in {"test_unit_ready", "start_stop_unit"}
    THEN <<Packet("cbw"), Packet("csw")>> ELSE <<Packet("cbw"), Packet("data"), Packet("csw")>>

\* mass_scsi_cmd up to WaitSema: all transfers are queued ...
Queued(ts, cb) ==
  /\ ucmd' = [ucmd EXCEPT !.cmd_count = Len(ts), !.cb = cb]
  /\ flight' = flight \o ts
  /\ UNCHANGED <<hurt, fails>>
\* ... or the stack refuses one and those before it stay in flight (-EIO).
NotQueued(ts, cb) ==
  /\ Fails
  /\ \E k \in 0 .. Len(ts) - 1 :
       /\ ucmd' = [ucmd EXCEPT !.cmd_count = k + 1, !.cb = cb]
       /\ flight' = flight \o SubSeq(ts, 1, k)

\* Mutant: a read-ahead signals the semaphore of the commands.
CallbackOneSema(t, result) ==
  IF t.kind = "control"
    THEN ioSema' = 1 /\ ucmd' = [ucmd EXCEPT !.returnCode = result] /\ UNCHANGED io_sem
    ELSE LET over == result # "OK" \/ ucmd.cmd_count = 1
         IN  /\ ucmd' = [ucmd EXCEPT !.cmd_count = @ - 1, !.returnCode = IF over THEN result ELSE @]
             /\ ioSema' = IF over THEN 1 ELSE ioSema
             /\ io_sem' = IF over /\ ucmd.cb THEN 1 ELSE io_sem

\* scsi_cmd_callback, and usb_callback for control transfers.
scsi_cmd_callback(t, result) ==
  IF t.kind = "control"
    THEN ioSema' = 1 /\ ucmd' = [ucmd EXCEPT !.returnCode = result] /\ UNCHANGED io_sem
    ELSE LET over == result # "OK" \/ ucmd.cmd_count = 1
         IN  /\ ucmd' = [ucmd EXCEPT !.cmd_count = @ - 1, !.returnCode = IF over THEN result ELSE @]
             /\ ioSema' = IF over /\ ~ucmd.cb THEN 1 ELSE ioSema
             /\ io_sem' = IF over /\ ucmd.cb THEN 1 ELSE io_sem

UsbDone ==
  /\ flight # <<>>
  /\ LET t == Head(flight)
         data == Units(t.from, t.n)
     IN  /\ scsi_cmd_callback(t, "OK")
         /\ ra_buffer' = IF t.to = "ra" THEN Stored(ra_buffer, t.p, data) ELSE ra_buffer
         /\ gSectorBuffer' = IF t.to = "sector" THEN Stored(gSectorBuffer, t.p, data) ELSE gSectorBuffer
         /\ mem' = IF t.to = "mem" THEN Stored(mem, t.p, data) ELSE mem
  /\ flight' = Tail(flight)
  /\ UNCHANGED <<dev, ra, last, at, my, hurt, fails>>
UsbError ==
  /\ flight # <<>>
  /\ Fails
  /\ scsi_cmd_callback(Head(flight), "ERR")
  /\ flight' = Tail(flight)
  /\ UNCHANGED <<dev, ra, last, buffers, at, my>>

-----------------------------------------------------------------------------
(***************************************************************************)
(* Connecting and configuring.                                             *)
(***************************************************************************)

\* usbd finds a device (mass_stor_probe, mass_stor_connect).
mass_stor_connect ==
  /\ ~dev.known
  /\ dev' = [dev EXCEPT !.known = TRUE, !.status = {"DETECTED"}]
  /\ ioSema' = 0
  /\ UNCHANGED <<io_sem, ucmd, flight, ra, last, buffers, at, my, hurt, fails>>

\* DeviceFSInit polls until there is a device to configure.
mass_stor_configureDevice ==
  /\ at = "off"
  /\ dev.known /\ dev.status = {"DETECTED"}
  /\ at' = "send" /\ my' = [my EXCEPT !.stage = "set_configuration"]
  /\ UNCHANGED <<dev, ioSema, io_sem, ucmd, flight, ra, last, buffers, hurt, fails>>

\* What follows a command, by its result.  request_sense: the sense data
\* asks for START STOP UNIT or not, and is not initialised if it failed.
Follows(stage, result) ==
  CASE stage = "set_configuration" -> {"set_interface"}
    [] stage = "set_interface" -> {"max_lun"}
    [] stage = "max_lun" -> IF result = "OK" THEN {"inquiry"} ELSE {"halt_in"}
    [] stage = "halt_in" -> {"halt_out"}
    [] stage = "halt_out" -> {"inquiry"}
    [] stage = "inquiry" -> IF result = "OK" THEN {"test_unit_ready"} ELSE {"release"}
    [] stage = "test_unit_ready" -> IF result = "OK" THEN {"read_capacity"} ELSE {"request_sense"}
    [] stage = "request_sense" -> {"test_unit_ready", "start_stop_unit"}
    [] stage = "start_stop_unit" -> IF result = "OK" THEN {"test_unit_ready"} ELSE {"release"}
    [] stage = "read_capacity" -> IF result = "OK" THEN {"ready"} ELSE {"release"}

\* mass_stor_release and the poll, which finds no DETECTED bit any more; or
\* the size of the device's sectors is known and DeviceFSInit returns.
\* DEVICE_CONFIGURED is set before the warm-up.
Continue(result) ==
  \E next \in Follows(my.stage, result) :
    CASE next = "release" -> at' = "off" /\ my' = Idle /\ dev' = [dev EXCEPT !.status = {}]
      [] next = "ready" ->
           at' = "idle" /\ my' = Idle /\ \E s \in SectorSizes : dev' = [dev EXCEPT !.sectorSize = s]
      [] OTHER ->
           /\ at' = "send" /\ my' = [my EXCEPT !.stage = next]
           /\ dev' = [dev EXCEPT !.status = IF next = "max_lun" THEN @ \cup {"CONFIGURED"} ELSE @]

StageSend ==
  /\ at = "send"
  /\ \/ /\ my.stage \in Control
        /\ flight' = Append(flight, Packet("control"))
        /\ at' = "answer" /\ UNCHANGED <<dev, ucmd, my, hurt, fails>>
     \/ my.stage \in Control /\ Fails /\ Continue("ERR") /\ UNCHANGED <<flight, ucmd>>
     \/ my.stage \in Scsi /\ Queued(Simple(my.stage), FALSE) /\ at' = "answer" /\ UNCHANGED <<dev, my>>
     \/ my.stage \in Scsi /\ NotQueued(Simple(my.stage), FALSE) /\ Continue("ERR")
  /\ UNCHANGED <<ioSema, io_sem, ra, last, buffers>>
StageDone ==
  /\ at = "answer"
  /\ ioSema = 1 /\ ioSema' = 0
  /\ Continue(ucmd.returnCode)
  /\ UNCHANGED <<io_sem, ucmd, flight, ra, last, buffers, hurt, fails>>

-----------------------------------------------------------------------------
(***************************************************************************)
(* DeviceReadSectors, mass_stor_ReadCD and mass_stor_readSector.           *)
(***************************************************************************)
UsbReadSectors == \E r \in Reads :
  /\ at = "idle" /\ at' = "part"
  /\ my' = [Idle EXCEPT !.call = r, !.reads = PartReads(r.lsn, r.n)]
  /\ UNCHANGED <<dev, ioSema, io_sem, ucmd, flight, ra, last, buffers, hurt, fails>>
PartsDone ==
  /\ at = "part" /\ my.reads = <<>>
  /\ at' = "return"
  /\ UNCHANGED <<dev, ioSema, io_sem, ucmd, flight, ra, last, buffers, my, hurt, fails>>

\* The call for a part; where the code computes in CD sectors, lba and p
\* follow.
mass_stor_ReadCD ==
  /\ at = "part" /\ my.reads # <<>>
  /\ LET r == Head(my.reads)
         big == S > CdUnits
         lba == LBAs[r.part] + IF big THEN r.lsn \div 2 ELSE r.lsn * (CdUnits \div S)
         odd == big /\ r.lsn % 2 > 0
     IN  /\ at' = IF odd THEN "ra" ELSE "next"
         /\ my' = [my EXCEPT !.reads = Tail(@), !.left = r.n, !.lba = lba, !.p = r.p * CdUnits,
                     !.job = IF odd THEN [sector |-> lba, count |-> 1, to |-> "sector", p |-> 0] ELSE NoJob,
                     !.half = IF odd THEN "second" ELSE "none"]
  /\ UNCHANGED <<dev, ioSema, io_sem, ucmd, flight, ra, last, buffers, hurt, fails>>

\* CD sectors of the next mass_stor_readSector, and sectors of the device.
Chunk == Least(my.left, MAX_USB_SECTORS)
DiskSectorsToRead == (Chunk * CdUnits) \div S

\* Limit: on a device with 4096-byte sectors, an odd number of CD sectors
\* above one loses its last CD sector.
ReadCDNext ==
  /\ at = "next" /\ my.left > 0
  /\ at' = "ra"
  /\ my' = [my EXCEPT !.half = IF DiskSectorsToRead = 0 THEN "first" ELSE "none",
                      !.job = IF DiskSectorsToRead = 0
                                THEN [sector |-> my.lba, count |-> 1, to |-> "sector", p |-> 0]
                                ELSE [sector |-> my.lba, count |-> DiskSectorsToRead, to |-> "mem",
                                      p |-> my.p]]
  /\ hurt' = (hurt \/ (DiskSectorsToRead > 0 /\ DiskSectorsToRead * S < Chunk * CdUnits))
  /\ UNCHANGED <<dev, ioSema, io_sem, ucmd, flight, ra, last, buffers, fails>>
ReadCDReturn ==
  /\ at = "next" /\ my.left = 0
  /\ at' = "part"
  /\ UNCHANGED <<dev, ioSema, io_sem, ucmd, flight, ra, last, buffers, my, hurt, fails>>
Returned ==
  /\ at = "return" /\ at' = "idle"
  /\ my' = Idle /\ mem' = Fresh(MaxN * CdUnits)
  /\ UNCHANGED <<dev, ioSema, io_sem, ucmd, flight, ra, last, ra_buffer, gSectorBuffer, hurt, fails>>

\* After mass_stor_readSector: the half of a 4096-byte sector is copied, and
\* the loop advances.
Copy ==
  /\ at = "copy" /\ at' = "next"
  /\ mem' = CASE my.half = "second" -> Stored(mem, my.p, Part(gSectorBuffer, CdUnits, CdUnits))
              [] my.half = "first" -> Stored(mem, my.p, Part(gSectorBuffer, 0, CdUnits))
              [] OTHER -> mem
  /\ LET done == IF my.half = "second" THEN 1 ELSE Chunk
     IN  my' = [my EXCEPT !.left = @ - done, !.p = @ + done * CdUnits,
                          !.lba = @ + IF my.half = "second" THEN 1 ELSE DiskSectorsToRead]
  /\ UNCHANGED <<dev, ioSema, io_sem, ucmd, flight, ra, last, ra_buffer, gSectorBuffer, hurt, fails>>

\* A read-ahead is waited for before anything else.
RaWait ==
  /\ at = "ra" /\ ra.active
  /\ io_sem = 1 /\ io_sem' = 0
  /\ ra' = [ra EXCEPT !.active = FALSE]
  /\ UNCHANGED <<dev, ioSema, ucmd, flight, last, buffers, at, my, hurt, fails>>

Hit == ra.sector = my.job.sector /\ ra.count >= my.job.count

Into(to, p, s) ==
  /\ mem' = IF to = "mem" THEN Stored(mem, p, s) ELSE mem
  /\ gSectorBuffer' = IF to = "sector" THEN Stored(gSectorBuffer, p, s) ELSE gSectorBuffer

\* Mutant: the next hit copies the same part of the buffer.
HitKeepsPointer ==
  /\ at = "ra" /\ ~ra.active /\ Hit
  /\ at' = "ahead"
  /\ Into(my.job.to, my.job.p, Part(ra_buffer, ra.ptr, my.job.count * S))
  /\ ra' = [ra EXCEPT !.sector = @ + my.job.count, !.count = @ - my.job.count]
  /\ hurt' = (hurt \/ (S # 1 /\ ra.count > my.job.count))
  /\ UNCHANGED <<dev, ioSema, io_sem, ucmd, flight, last, ra_buffer, my, fails>>
\* Limit: ra_buffer_pointer advances by 512 bytes a sector whatever the
\* size of a sector.
RaHit ==
  /\ at = "ra" /\ ~ra.active /\ Hit
  /\ at' = "ahead"
  /\ Into(my.job.to, my.job.p, Part(ra_buffer, ra.ptr, my.job.count * S))
  /\ ra' = [ra EXCEPT !.sector = @ + my.job.count, !.count = @ - my.job.count, !.ptr = @ + my.job.count]
  /\ hurt' = (hurt \/ (S # 1 /\ ra.count > my.job.count))
  /\ UNCHANGED <<dev, ioSema, io_sem, ucmd, flight, last, ra_buffer, my, fails>>

\* Otherwise the device is read; on an error the call returns at once.
SectorRead ==
  /\ at = "ra" /\ ~ra.active /\ ~Hit
  /\ \/ Queued(Transfers(my.job), FALSE) /\ at' = "wait"
     \/ NotQueued(Transfers(my.job), FALSE) /\ at' = "copy"
  /\ UNCHANGED <<dev, ioSema, io_sem, ra, last, buffers, my>>
SectorDone ==
  /\ at = "wait"
  /\ ioSema = 1 /\ ioSema' = 0
  /\ at' = IF ucmd.returnCode = "OK" THEN "ahead" ELSE "copy"
  /\ UNCHANGED <<dev, io_sem, ucmd, flight, ra, last, buffers, my, hurt, fails>>

Sequential == last.sector + last.count = my.job.sector
Ahead == [sector |-> my.job.sector + my.job.count, count |-> my.job.count, to |-> "ra", p |-> 0]
HaveAhead == ra.sector = Ahead.sector /\ ra.count >= my.job.count
WantAhead == Sequential /\ ~HaveAhead /\ my.job.count <= SCSI_RA_SECTORS

\* Limit: sectors of more than 512 bytes may overrun ra_buffer.
ReadAhead ==
  /\ at = "ahead" /\ at' = "copy"
  /\ last' = [sector |-> my.job.sector, count |-> my.job.count]
  /\ \/ ~WantAhead /\ UNCHANGED <<ra, ucmd, flight, hurt, fails>>
     \/ /\ WantAhead
        /\ ucmd' = [ucmd EXCEPT !.cmd_count = Len(Transfers(Ahead)), !.cb = TRUE]
        /\ flight' = flight \o Transfers(Ahead)
        /\ ra' = [sector |-> Ahead.sector, count |-> Ahead.count, ptr |-> 0, active |-> TRUE]
        /\ hurt' = (hurt \/ Ahead.count * S > SCSI_RA_SECTORS)
        /\ UNCHANGED fails
     \/ WantAhead /\ NotQueued(Transfers(Ahead), TRUE) /\ UNCHANGED ra
  /\ UNCHANGED <<dev, ioSema, io_sem, buffers, my>>

-----------------------------------------------------------------------------
ThreadStep ==
  \/ mass_stor_configureDevice \/ StageSend \/ StageDone
  \/ PartsDone \/ mass_stor_ReadCD
  \/ ReadCDNext \/ ReadCDReturn \/ Returned \/ Copy
  \/ RaWait \/ RaHit \/ SectorRead \/ SectorDone \/ ReadAhead
UsbStep == UsbDone \/ UsbError

MassNext == mass_stor_connect \/ UsbReadSectors \/ ThreadStep \/ UsbStep

-----------------------------------------------------------------------------
(***************************************************************************)
(* Properties.                                                             *)
(***************************************************************************)

\* DeviceReadSectors returns the CD sectors it was asked for, whether they
\* come from the device or from the read-ahead of earlier calls, in one
\* command or several, and for device sectors smaller and larger than a CD
\* sector (short of a failure or one of the limits).
ReadCDDelivers ==
  at = "return" /\ ~hurt =>
    \A u \in 0 .. my.call.n * CdUnits - 1 :
      mem[u] = LBAs[my.call.lsn \div PartSectors + 1] * S + (my.call.lsn % PartSectors) * CdUnits + u

\* Between commands nothing is left over: no transfer in flight that will
\* count down somebody else's command, no signal that will end somebody
\* else's wait.  While a read-ahead goes on, its transfers are the only ones.
NothingLeftOver ==
  ~hurt =>
    /\ at \in {"part", "next", "ahead", "copy", "return", "idle", "off"} => ioSema = 0
    /\ at \in {"part", "next", "ra", "ahead", "copy", "return", "idle", "off"} =>
         IF ra.active THEN io_sem = (IF flight = <<>> THEN 1 ELSE 0) /\ ucmd.cb /\ ucmd.cmd_count = Len(flight)
         ELSE flight = <<>> /\ io_sem = 0

\* Where DeviceReturns has to get away from.
UsbInCall == at \in {"part", "next", "ra", "wait", "ahead", "copy"}
=============================================================================
