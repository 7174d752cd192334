-------------------------------- MODULE Atad --------------------------------
(***************************************************************************)
(* atad.c on dev9.c: reads by DMA.  The disk fills a FIFO in the SPEED     *)
(* chip; the thread empties it into memory, waits for an event flag when   *)
(* it is empty, and the flag is set by the interrupt handler and by an     *)
(* alarm.                                                                  *)
(***************************************************************************)
EXTENDS AtaDrive

CONSTANTS
  FifoSize,      \* blocks the FIFO holds
  RETRIES        \* tries of a command that fails with ICRC (3)

ASSUME AtadAssumption == FifoSize \in Nat \ {0} /\ RETRIES \in Nat \ {0}

VARIABLES
  fifo, dma,     \* register 0x38 and what it counts; SPD_IF_DMA_ENABLE
  mask,          \* SPD_R_INTR_MASK
  ata_evflg,     \* bits of the event flag
  alarm,         \* SetAlarm: the timeout of the command
  icrc           \* history: failures with ICRC of the command under way

atadvars == <<fifo, dma, mask, ata_evflg, alarm, icrc>>

AtadInit ==
  /\ fifo = <<>> /\ dma = FALSE
  /\ mask = {} /\ ata_evflg = {} /\ alarm = FALSE
  /\ icrc = 0

SPD_INTR_ATA == {"ATA0", "ATA1"}
\* SPD_R_INTR_STAT: the disk's interrupt line, data in the FIFO.
IntrStat == (IF drive.intrq THEN {"ATA0"} ELSE {}) \cup (IF fifo # <<>> THEN {"ATA1"} ELSE {})
dev9IntrEnable(bits) == mask' = mask \cup bits

-----------------------------------------------------------------------------
(***************************************************************************)
(* Interrupts, and the disk's side of a DMA transfer.                      *)
(***************************************************************************)

\* pcmcia_intr or expbay_intr, dev9_intr_dispatch, ata_intr_cb.
dev9_intr_dispatch ==
  /\ IntrStat \cap mask # {}
  /\ mask' = mask \ SPD_INTR_ATA
  /\ ata_evflg' = ata_evflg \cup {"COMPLETE"}
  /\ UNCHANGED <<fifo, dma, alarm, icrc, drive, hmem, job, hat, cause, hfaults>>

\* The alarm is due only when the disk was slow; it may fire late.
ata_alarm_cb ==
  /\ alarm /\ drive.slow
  /\ alarm' = FALSE
  /\ ata_evflg' = ata_evflg \cup {"TIMEOUT"}
  /\ UNCHANGED <<fifo, dma, mask, icrc, drive, hmem, job, hat, cause, hfaults>>

\* The next block goes to the FIFO, sound or damaged on the cable.
FillFifo ==
  /\ drive.busy /\ ~drive.hung /\ drive.left > 0
  /\ dma /\ Len(fifo) < FifoSize
  /\ \/ /\ fifo' = Append(fifo, drive.lba)
        /\ drive' = [drive EXCEPT !.lba = @ + 1, !.left = @ - 1]
        /\ NoHddFault
     \/ /\ hfaults < MaxFaults /\ hfaults' = hfaults + 1 /\ UNCHANGED cause
        /\ fifo' = Append(fifo, Bad)
        /\ drive' = [drive EXCEPT !.lba = @ + 1, !.left = @ - 1, !.crc = TRUE]
  /\ UNCHANGED <<dma, mask, ata_evflg, alarm, icrc, hmem, job, hat>>

AtadDrive ==
  \/ FillFifo
  \/ (DriveEnds \/ DriveFails \/ DriveHangs \/ DriveWakes) /\ UNCHANGED <<hmem, job, hat, atadvars>>

-----------------------------------------------------------------------------
(***************************************************************************)
(* ata_device_sector_io.                                                   *)
(***************************************************************************)
MaxLen == IF lba_48bit THEN MaxCmd48 ELSE Byte

\* The loop: the next chunk, or the return.
AtadChunk ==
  /\ hat = "call"
  /\ IF job.res = "OK" /\ job.left > 0
       THEN /\ Goto("start")
            /\ job' = [job EXCEPT !.len = AtMost(job.left, MaxLen), !.retries = RETRIES]
            /\ icrc' = 0
       ELSE Goto("done") /\ UNCHANGED <<job, icrc>>
  /\ UNCHANGED <<fifo, dma, mask, ata_evflg, alarm, drive, hmem, cause, hfaults>>

\* After a command that failed in ata_io_start, or after ata_io_finish.
Advanced(res) ==
  /\ Goto("call")
  /\ job' = [job EXCEPT !.res = res, !.buf = @ + job.len, !.lba = @ + job.len, !.left = @ - job.len]

\* Mutant: bits of an earlier command stay in the event flag.
StartKeepsEvents ==
  /\ hat = "start" /\ Goto("select")
  /\ job' = [job EXCEPT !.pos = job.buf, !.blk = job.len]
  /\ UNCHANGED <<atadvars, drive, hmem, cause, hfaults>>
\* ata_io_start: ClearEventFlag(ata_evflg, 0) ...
AtadStart ==
  /\ hat = "start" /\ Goto("select")
  /\ ata_evflg' = {}
  /\ job' = [job EXCEPT !.pos = job.buf, !.blk = job.len]
  /\ UNCHANGED <<fifo, dma, mask, alarm, icrc, drive, hmem, cause, hfaults>>

\* ... ata_device_select waits for the bus.  The disk keeps it for good when
\* it hangs, or waits with data for a DMA that was switched off.
Stuck == drive.busy /\ (drive.hung \/ (drive.left > 0 /\ (~dma \/ Len(fifo) = FifoSize)))
AtadSelect ==
  /\ hat = "select"
  /\ \/ ~drive.busy /\ Goto("issue") /\ UNCHANGED job
     \/ Stuck /\ Advanced("TIMEOUT")
  /\ UNCHANGED <<atadvars, drive, hmem, cause, hfaults>>

\* ... and the command is sent, unless the disk is not ready.
AtadIssue ==
  /\ hat = "issue"
  /\ \/ /\ Goto("set_dir") /\ alarm' = TRUE
        /\ drive' = Commanded(job.lba, job.len)
        /\ NoHddFault /\ UNCHANGED job
     \/ HddFault /\ Advanced("NOTREADY") /\ UNCHANGED <<alarm, drive>>
  /\ UNCHANGED <<fifo, dma, mask, ata_evflg, icrc, hmem>>

ata_set_dir ==
  /\ hat = "set_dir" /\ Goto("poll")
  /\ fifo' = <<>> /\ dma' = TRUE
  /\ UNCHANGED <<mask, ata_evflg, alarm, icrc, drive, hmem, job, cause, hfaults>>

-----------------------------------------------------------------------------
(***************************************************************************)
(* ata_io_finish, with ata_dma_complete inlined.                           *)
(***************************************************************************)

\* Blocks in the FIFO go to memory (dev9DmaTransfer) ...
DmaTransfer ==
  /\ hat = "poll" /\ job.blk > 0 /\ fifo # <<>>
  /\ LET count == AtMost(job.blk, Len(fifo))
     IN  /\ StoredBlocks(job.pos, SubSeq(fifo, 1, count))
         /\ fifo' = SubSeq(fifo, count + 1, Len(fifo))
         /\ job' = [job EXCEPT !.blk = @ - count, !.pos = @ + count]
  /\ UNCHANGED <<dma, mask, ata_evflg, alarm, icrc, drive, hat, cause, hfaults>>
\* Mutant: only the end of the command is waited for.
DmaWaitEnd ==
  /\ hat = "poll" /\ job.blk > 0 /\ fifo = <<>>
  /\ dev9IntrEnable({"ATA0"})
  /\ Goto("wait")
  /\ UNCHANGED <<fifo, dma, ata_evflg, alarm, icrc, drive, hmem, job, cause, hfaults>>
\* ... none: wait for more.
DmaWait ==
  /\ hat = "poll" /\ job.blk > 0 /\ fifo = <<>>
  /\ dev9IntrEnable(SPD_INTR_ATA)
  /\ Goto("wait")
  /\ UNCHANGED <<fifo, dma, ata_evflg, alarm, icrc, drive, hmem, job, cause, hfaults>>

Failed(res) == Goto("finish") /\ job' = [job EXCEPT !.res = res]
ErrorOf == IF drive.err = "icrc" THEN "ICRC" ELSE "IO"

\* WaitEventFlag.  COMPLETE without data in the FIFO is an error of the
\* disk, or nothing at all.
DmaWoken ==
  /\ hat = "wait" /\ ata_evflg # {}
  /\ ata_evflg' = {}
  /\ IF "TIMEOUT" \in ata_evflg THEN Failed("TIMEOUT")
     ELSE IF "ATA1" \notin IntrStat /\ drive.err # "none" THEN Failed(ErrorOf)
     ELSE Goto("poll") /\ UNCHANGED job
  /\ UNCHANGED <<fifo, dma, mask, alarm, icrc, drive, hmem, cause, hfaults>>

\* All blocks are there: wait for the end of the command, if need be.
DmaDone ==
  /\ hat = "poll" /\ job.blk = 0
  /\ IF "ATA0" \in IntrStat THEN Goto("status") /\ UNCHANGED mask
     ELSE Goto("last") /\ dev9IntrEnable({"ATA0"})
  /\ UNCHANGED <<fifo, dma, ata_evflg, alarm, icrc, drive, hmem, job, cause, hfaults>>
LastWoken ==
  /\ hat = "last" /\ ata_evflg # {}
  /\ ata_evflg' = {}
  /\ IF "TIMEOUT" \in ata_evflg THEN Failed("TIMEOUT") ELSE Goto("status") /\ UNCHANGED job
  /\ UNCHANGED <<fifo, dma, mask, alarm, icrc, drive, hmem, cause, hfaults>>

\* The status register once the disk is not busy; reading it takes the
\* interrupt back.
AtadStatus ==
  /\ hat = "status"
  /\ \/ ~drive.busy /\ Failed(IF drive.err = "none" THEN "OK" ELSE ErrorOf)
     \/ Stuck /\ Failed("TIMEOUT")
  /\ drive' = [drive EXCEPT !.intrq = FALSE]
  /\ UNCHANGED <<atadvars, hmem, cause, hfaults>>

\* CancelAlarm; back in ata_device_sector_io the DMA is switched off, and
\* the command is tried again after ICRC.
AtadFinish ==
  /\ hat = "finish"
  /\ alarm' = FALSE /\ dma' = FALSE
  /\ icrc' = IF job.res = "ICRC" THEN icrc + 1 ELSE icrc
  /\ cause' = (cause \/ icrc' = RETRIES)
  /\ IF job.res = "ICRC" /\ job.retries > 1
       THEN Goto("start") /\ job' = [job EXCEPT !.retries = @ - 1]
       ELSE Advanced(job.res)
  /\ UNCHANGED <<fifo, mask, ata_evflg, drive, hmem, hfaults>>

AtadThread ==
  \/ AtadChunk \/ AtadStart \/ AtadSelect \/ AtadIssue \/ ata_set_dir
  \/ DmaTransfer \/ DmaWait \/ DmaWoken \/ DmaDone \/ LastWoken \/ AtadStatus \/ AtadFinish
AtadIntr == dev9_intr_dispatch \/ ata_alarm_cb
=============================================================================
