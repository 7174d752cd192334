------------------------------ MODULE AtaDrive ------------------------------
(***************************************************************************)
(* What the two ATA drivers, atad.c and hdpro_atad.c, have in common: the  *)
(* hard disk (external), the addressing of a command in its registers, and *)
(* the locals of ata_device_sector_io.  Block b of the disk has the        *)
(* content b.  One thread at a time uses the driver.                       *)
(***************************************************************************)
EXTENDS Integers, Sequences

CONSTANTS
  Byte,          \* values of an 8-bit register (256)
  Nibble,        \* values of the LBA bits of the select register (16)
  MaxCmd48,      \* blocks of one 48-bit DMA command (16384)
  MemBlocks,     \* blocks of the caller's memory
  MaxFaults      \* bound: failures of the disk and of its connection

ASSUME AtaAssumption ==
  /\ Byte \in Nat \ {0, 1} /\ Nibble \in 2 .. Byte
  /\ MaxCmd48 \in 1 .. Byte * Byte
  /\ MemBlocks \in Nat /\ MaxFaults \in Nat

VARIABLES
  lba_48bit,     \* the game's disk needs 48-bit commands
  drive,         \* the disk, see Drive
  hmem,           \* memory of the caller of DeviceReadSectors, in blocks
  job,           \* locals of ata_device_sector_io and atad_cmd_state
  hat,           \* where the thread is
  cause,         \* history: what may make the call under way fail has happened
  hfaults

Unwritten == -1       \* what memory holds before it is written
Bad == -2        \* a block damaged on its way

\* busy, drq, err: the status register; intrq: the interrupt line; lba, left:
\* the rest of the command; crc: a block of it was damaged; hung: the disk
\* does not answer; slow: it has not answered for the time of a timeout.
Drive == [busy : BOOLEAN, drq : BOOLEAN, err : {"none", "icrc", "abrt"}, intrq : BOOLEAN,
          lba : Nat, left : Nat, crc : BOOLEAN, hung : BOOLEAN, slow : BOOLEAN]
IdleDrive == [busy |-> FALSE, drq |-> FALSE, err |-> "none", intrq |-> FALSE, lba |-> 0, left |-> 0,
              crc |-> FALSE, hung |-> FALSE, slow |-> FALSE]

NoIo == [buf |-> 0, lba |-> 0, left |-> 0, len |-> 0, pos |-> 0, blk |-> 0, retries |-> 0, res |-> "OK"]

AtaInit ==
  /\ lba_48bit \in BOOLEAN
  /\ drive = IdleDrive
  /\ hmem = [b \in 0 .. MemBlocks - 1 |-> Unwritten]
  /\ job = NoIo
  /\ cause = FALSE /\ hfaults = 0

AtMost(m, n) == IF m < n THEN m ELSE n
HddFault == hfaults < MaxFaults /\ hfaults' = hfaults + 1 /\ cause' = TRUE
NoHddFault == UNCHANGED <<cause, hfaults>>
Goto(l) == hat' = l

-----------------------------------------------------------------------------
(***************************************************************************)
(* A read command in the registers, as ata_device_sector_io prepares it    *)
(* and ata_io_start writes it; a 48-bit command writes each register       *)
(* twice, high byte first.                                                 *)
(***************************************************************************)
\* Mutant: the highest part of the address is left out.
RegistersNoTop(lba, len) ==
  LET lo(r) == r % Byte
      hi(r) == IF lba_48bit THEN (r \div Byte) % Byte ELSE 0
  IN  [nsector |-> <<hi(len), lo(len)>>, sector |-> <<0, lo(lba)>>,
       lcyl |-> <<0, (lba \div Byte) % Byte>>, hcyl |-> <<0, (lba \div (Byte * Byte)) % Byte>>, select |-> 0]
Registers(lba, len) ==
  LET top == lba \div (Byte * Byte * Byte)
      sector == IF lba_48bit THEN (top % Byte) * Byte + (lba % Byte) ELSE lba % Byte
      lo(r) == r % Byte
      hi(r) == IF lba_48bit THEN (r \div Byte) % Byte ELSE 0
  IN  [nsector |-> <<hi(len), lo(len)>>,
       sector |-> <<hi(sector), lo(sector)>>,
       lcyl |-> <<0, (lba \div Byte) % Byte>>,
       hcyl |-> <<0, (lba \div (Byte * Byte)) % Byte>>,
       select |-> IF lba_48bit THEN 0 ELSE top % Nibble]

\* What the disk makes of them (the ATA standard); no blocks means the most.
CommandLba(r) ==
  LET low == r.sector[2] + Byte * r.lcyl[2] + Byte * Byte * r.hcyl[2]
      high == r.sector[1] + Byte * r.lcyl[1] + Byte * Byte * r.hcyl[1]
  IN  low + Byte * Byte * Byte * IF lba_48bit THEN high ELSE r.select
CommandBlocks(r) ==
  LET n == r.nsector[1] * Byte + r.nsector[2]
  IN  IF n > 0 THEN n ELSE IF lba_48bit THEN Byte * Byte ELSE Byte

Commanded(lba, len) ==
  [IdleDrive EXCEPT !.busy = TRUE, !.lba = CommandLba(Registers(lba, len)),
                    !.left = CommandBlocks(Registers(lba, len))]

\* Blocks stored at position p of the caller's memory.
StoredBlocks(p, s) ==
  hmem' = [b \in DOMAIN hmem |-> IF b - p + 1 \in DOMAIN s THEN s[b - p + 1] ELSE hmem[b]]

\* The call of ata_device_sector_io.
SectorIo(buf, lba, n) ==
  /\ job' = [NoIo EXCEPT !.buf = buf, !.lba = lba, !.left = n]
  /\ Goto("call")

-----------------------------------------------------------------------------
(***************************************************************************)
(* The disk.                                                               *)
(***************************************************************************)

\* The command ends; damaged blocks of a DMA transfer are reported.
DriveEnds ==
  /\ drive.busy /\ ~drive.hung /\ drive.left = 0
  /\ drive' = [drive EXCEPT !.busy = FALSE, !.intrq = TRUE, !.err = IF drive.crc THEN "icrc" ELSE "none"]
  /\ NoHddFault
\* It ends with an error.
DriveFails ==
  /\ drive.busy /\ ~drive.hung
  /\ HddFault
  /\ drive' = [drive EXCEPT !.busy = FALSE, !.intrq = TRUE, !.err = "abrt", !.left = 0]
\* It does not answer for longer than any timeout, and may yet go on.
DriveHangs ==
  /\ drive.busy /\ ~drive.hung
  /\ HddFault
  /\ drive' = [drive EXCEPT !.hung = TRUE, !.slow = TRUE]
DriveWakes ==
  /\ drive.hung
  /\ drive' = [drive EXCEPT !.hung = FALSE]
  /\ NoHddFault
=============================================================================
