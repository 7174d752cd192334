-------------------------------- MODULE Hdd --------------------------------
(***************************************************************************)
(* device-hdd.c: the disc is a set of partitions of a hard disk, described *)
(* by a header on that disk.  Built with one of the two ATA drivers.       *)
(***************************************************************************)
EXTENDS Atad, Hdpro

CONSTANTS
  Blk,             \* blocks of a CD sector (4)
  LbaStart,        \* cdvdman_settings.lba_start, where the header is
  PartSpecs,       \* the header's part_specs: part_offset, part_size in CD sectors, data_start
  HddReads         \* calls of DeviceReadSectors: [lsn, n]

ASSUME HddAssumption ==
  /\ Blk \in Nat \ {0} /\ LbaStart \in Nat /\ MemBlocks > 1
  /\ PartSpecs \in Seq([part_offset: Nat, part_size: Nat, data_start: Nat])
  /\ \A r \in HddReads : r.lsn \in Nat /\ r.n \in Nat \ {0} /\ r.n * Blk <= MemBlocks

VARIABLES
  driver,          \* the driver cdvdman is built with
  specs,           \* cdvdman_partspecs, of length NumParts
  CurrentPart,
  hcall, hmy, hresult \* DeviceReadSectors: its arguments, locals and return value

hddvars == <<driver, lba_48bit, drive, hmem, job, hat, cause, hfaults, atadvars, hdpro_io_active,
             specs, CurrentPart, hcall, hmy, hresult>>
driverstate == <<drive, atadvars, hdpro_io_active>>

NoCall == [lsn |-> 0, n |-> 0]

HddInit ==
  /\ driver \in {"atad", "hdpro"}
  /\ AtaInit /\ AtadInit /\ HdproInit
  /\ hat = "boot"
  /\ specs = <<>> /\ CurrentPart = 1
  /\ hcall = NoCall /\ hmy = [lsn |-> 0, left |-> 0, off |-> 0] /\ hresult = "OK"

-----------------------------------------------------------------------------
\* DeviceInit: atad_start, whose result is not looked at, and the header.
\* The HD Pro's port is opened, the bus reset, and the port closed.
DeviceInit ==
  /\ hat = "boot"
  /\ SectorIo(0, LbaStart, 2)
  /\ \/ NoHddFault /\ UNCHANGED hdpro_io_active
     \/ driver = "hdpro" /\ HddFault /\ hdpro_io_active' = TRUE
  /\ UNCHANGED <<drive, atadvars, hmem, specs, CurrentPart, hcall, hmy, hresult>>

\* The header is read until it can be.
HeaderRead ==
  /\ hat = "done" /\ hcall = NoCall
  /\ IF job.res = "OK"
       THEN /\ Goto("idle") /\ UNCHANGED job
            /\ specs' = IF hmem[0] = LbaStart /\ hmem[1] = LbaStart + 1 THEN PartSpecs ELSE <<>>
            /\ hmem' = [b \in DOMAIN hmem |-> Unwritten]
       ELSE SectorIo(0, LbaStart, 2) /\ UNCHANGED <<specs, hmem>>
  /\ UNCHANGED <<driverstate, CurrentPart, hcall, hmy, hresult, cause, hfaults>>

DeviceReadSectors == \E r \in HddReads :
  /\ hat = "idle" /\ Goto("next")
  /\ hcall' = r
  /\ hmy' = [lsn |-> r.lsn, left |-> r.n, off |-> 0]
  /\ cause' = (drive.busy \/ drive.drq \/ hdpro_io_active)
  /\ UNCHANGED <<driverstate, hmem, job, specs, CurrentPart, hresult, hfaults>>

Holds(p) ==
  /\ p \in DOMAIN specs
  /\ hmy.lsn >= specs[p].part_offset /\ hmy.lsn < specs[p].part_offset + specs[p].part_size

\* CurrentPart if it is the right one, else what cdvdman_get_part_specs
\* finds; 0 for none.
PartFor ==
  IF Holds(CurrentPart) THEN CurrentPart
  ELSE IF \E p \in DOMAIN specs : Holds(p)
         THEN CHOOSE p \in DOMAIN specs : Holds(p) /\ \A q \in 1 .. p - 1 : ~Holds(q)
         ELSE 0

Returns(r) == Goto("return") /\ hresult' = r

\* One turn of the loop: a read of what the part has of the rest ...
ReadPart ==
  /\ hat = "next" /\ hmy.left > 0
  /\ \/ PartFor = 0 /\ Returns("ENXIO") /\ UNCHANGED <<job, CurrentPart>>
     \/ /\ PartFor # 0 /\ CurrentPart' = PartFor
        /\ LET p == specs[PartFor]
               n == AtMost(hmy.left, p.part_offset + p.part_size - hmy.lsn)
           IN  SectorIo(hmy.off * Blk, p.data_start + (hmy.lsn - p.part_offset) * Blk, n * Blk)
        /\ UNCHANGED hresult
  /\ UNCHANGED <<driverstate, hmem, specs, hcall, hmy, cause, hfaults>>
ReadEnd ==
  /\ hat = "next" /\ hmy.left = 0 /\ Returns("OK")
  /\ UNCHANGED <<driverstate, hmem, job, specs, CurrentPart, hcall, hmy, cause, hfaults>>
\* ... and its end.
PartRead ==
  /\ hat = "done" /\ hcall # NoCall
  /\ IF job.res # "OK" THEN Returns("EIO") /\ UNCHANGED hmy
     ELSE /\ Goto("next") /\ UNCHANGED hresult
          /\ LET p == specs[CurrentPart]
                 n == AtMost(hmy.left, p.part_offset + p.part_size - hmy.lsn)
             IN  hmy' = [lsn |-> hmy.lsn + n, left |-> hmy.left - n, off |-> hmy.off + n]
  /\ UNCHANGED <<driverstate, hmem, job, specs, CurrentPart, hcall, cause, hfaults>>

\* The caller takes the data.
HddReturned ==
  /\ hat = "return" /\ Goto("idle")
  /\ hcall' = NoCall /\ job' = NoIo
  /\ hmy' = [lsn |-> 0, left |-> 0, off |-> 0] /\ hresult' = "OK"
  /\ hmem' = [b \in DOMAIN hmem |-> Unwritten]
  /\ UNCHANGED <<driverstate, specs, CurrentPart, cause, hfaults>>

-----------------------------------------------------------------------------
DriverThread ==
  /\ \/ driver = "atad" /\ AtadThread /\ UNCHANGED hdpro_io_active
     \/ driver = "hdpro" /\ HdproThread /\ UNCHANGED atadvars
  /\ UNCHANGED <<specs, CurrentPart, hcall, hmy, hresult>>
HddThread ==
  /\ DeviceInit \/ HeaderRead \/ ReadPart \/ ReadEnd \/ PartRead \/ HddReturned \/ DriverThread
  /\ UNCHANGED <<driver, lba_48bit>>
HddHardware ==
  /\ \/ driver = "atad" /\ (AtadDrive \/ AtadIntr) /\ UNCHANGED hdpro_io_active
     \/ driver = "hdpro" /\ HdproDrive /\ UNCHANGED atadvars
  /\ UNCHANGED <<driver, lba_48bit, specs, CurrentPart, hcall, hmy, hresult>>
HddCall == DeviceReadSectors /\ UNCHANGED <<driver, lba_48bit>>

\* What the disk and the interrupts do of themselves: not to fail, hang or
\* wake up.
HddDisk ==
  /\ \/ driver = "atad" /\ FillFifo /\ UNCHANGED hdpro_io_active
     \/ driver = "atad" /\ DriveEnds /\ UNCHANGED <<hmem, job, hat, atadvars, hdpro_io_active>>
     \/ driver = "hdpro" /\ PioReady /\ UNCHANGED <<hmem, job, hat, atadvars, hdpro_io_active>>
  /\ UNCHANGED <<driver, lba_48bit, specs, CurrentPart, hcall, hmy, hresult>>
HddIntr ==
  /\ driver = "atad" /\ dev9_intr_dispatch
  /\ UNCHANGED <<hdpro_io_active, driver, lba_48bit, specs, CurrentPart, hcall, hmy, hresult>>
HddAlarm ==
  /\ driver = "atad" /\ ata_alarm_cb
  /\ UNCHANGED <<hdpro_io_active, driver, lba_48bit, specs, CurrentPart, hcall, hmy, hresult>>

HddNext == HddCall \/ HddThread \/ HddHardware

-----------------------------------------------------------------------------
(***************************************************************************)
(* Properties.                                                             *)
(***************************************************************************)

\* Where the disc's sector is on the disk.
BlockOf(lsn, k) ==
  LET p == CHOOSE q \in DOMAIN PartSpecs :
             lsn \in PartSpecs[q].part_offset .. PartSpecs[q].part_offset + PartSpecs[q].part_size - 1
  IN  PartSpecs[p].data_start + (lsn - PartSpecs[p].part_offset) * Blk + k

\* DeviceReadSectors returns 0 only with the disc's sectors in the buffer,
\* across partitions and commands, 28-bit and 48-bit, after damaged blocks,
\* late interrupts and answers of an earlier command; it writes nowhere else.
HddDelivers ==
  /\ hat = "return" /\ hresult = "OK" =>
       \A i \in 0 .. hcall.n - 1, k \in 0 .. Blk - 1 : hmem[i * Blk + k] = BlockOf(hcall.lsn + i, k)
  /\ hcall # NoCall => \A b \in hcall.n * Blk .. MemBlocks - 1 : hmem[b] = Unwritten

\* An error has a cause: a fault of the disk or the port in this call, as
\* many ICRC errors in a row as there are tries, or a disk or a port that an
\* earlier fault has left occupied.  Events of an earlier command, its
\* timeout or its interrupt, are none; neither is a damaged block or two.
ErrorHasCause ==
  hat = "return" =>
    /\ hresult = "EIO" => cause
    /\ hresult = "ENXIO" => \E s \in hcall.lsn .. hcall.lsn + hcall.n - 1 :
                              \A p \in DOMAIN PartSpecs :
                                s - PartSpecs[p].part_offset \notin 0 .. PartSpecs[p].part_size - 1

\* For DeviceReturns.  Only the HD Pro driver, which tries for ever, may not
\* return: when the disk hangs or still offers data of a command that failed.
HddInCall == hcall # NoCall
HddStuck == driver = "hdpro" /\ (drive.hung \/ (hat = "select" /\ drive.drq))
=============================================================================
