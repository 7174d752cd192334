------------------------------- MODULE Hdpro -------------------------------
(***************************************************************************)
(* hdpro_atad.c: reads through the HD Pro adapter, block by block under    *)
(* the processor's control.  Registers are reached through a port that is  *)
(* opened and closed by a handshake; a closed port reads 0xffff.  An error *)
(* of the disk is answered by trying again, for ever.                      *)
(***************************************************************************)
EXTENDS AtaDrive

VARIABLE hdpro_io_active

HdproInit == hdpro_io_active = FALSE

\* The disk's next block is ready.
PioReady ==
  /\ drive.busy /\ ~drive.hung /\ drive.left > 0
  /\ drive' = [drive EXCEPT !.busy = FALSE, !.drq = TRUE]
  /\ NoHddFault
HdproDrive ==
  /\ PioReady \/ DriveFails \/ DriveHangs \/ DriveWakes
  /\ UNCHANGED <<hmem, job, hat, hdpro_io_active>>

\* hdpro_io_start opens the port, or the adapter does not answer.
Opens == hdpro_io_active' = TRUE /\ NoHddFault
StaysClosed == hdpro_io_active' = FALSE /\ HddFault

\* ata_device_sector_io.  hdpro_io_start returns 0 also when the port is
\* open already: then the call fails.
HdproCall ==
  /\ hat = "call"
  /\ \/ ~hdpro_io_active /\ Opens /\ Goto("chunk") /\ UNCHANGED job
     \/ ~hdpro_io_active /\ StaysClosed /\ Goto("done") /\ job' = [job EXCEPT !.res = "-1"]
     \/ /\ hdpro_io_active /\ Goto("done") /\ job' = [job EXCEPT !.res = "-1"]
        /\ NoHddFault /\ UNCHANGED hdpro_io_active
  /\ UNCHANGED <<drive, hmem>>

HdproChunk ==
  /\ hat = "chunk" /\ job.left > 0
  /\ Goto("select")
  /\ LET len == AtMost(job.left, Byte)
     IN  job' = [job EXCEPT !.len = len, !.pos = job.buf, !.blk = len]
  /\ UNCHANGED <<drive, hmem, hdpro_io_active, cause, hfaults>>
\* hdpro_io_finish.
HdproEnd ==
  /\ hat = "chunk" /\ job.left = 0
  /\ Goto("done")
  /\ \/ hdpro_io_active /\ hdpro_io_active' = FALSE /\ NoHddFault /\ UNCHANGED job
     \/ hdpro_io_active /\ HddFault /\ job' = [job EXCEPT !.res = "-2"] /\ UNCHANGED hdpro_io_active
  /\ UNCHANGED <<drive, hmem>>

\* gen_ata_wait_busy: the port is closed and opened for each look at the
\* register, and left open, except when it does not open: 0xffff is read.
WaitBusy(occupied, forever, next) ==
  \/ ~occupied /\ Goto(next) /\ (Opens \/ StaysClosed)
  \/ occupied /\ forever /\ Goto("chunk") /\ (Opens \/ StaysClosed)
  \/ StaysClosed /\ Goto("chunk")

\* ata_io_start: ata_device_select ...
HdproSelect ==
  /\ hat = "select"
  /\ WaitBusy(drive.busy \/ drive.drq, drive.hung \/ drive.drq, "issue")
  /\ UNCHANGED <<drive, hmem, job>>
\* ... and the command, which a closed port swallows.
HdproIssue ==
  /\ hat = "issue"
  /\ \/ /\ Goto("busy") /\ NoHddFault
        /\ drive' = IF hdpro_io_active THEN Commanded(job.lba, job.len) ELSE drive
     \/ hdpro_io_active /\ HddFault /\ Goto("chunk") /\ UNCHANGED drive
  /\ UNCHANGED <<hmem, job, hdpro_io_active>>

\* ata_io_finish.
HdproBusy ==
  /\ hat = "busy"
  /\ WaitBusy(drive.busy, drive.hung, IF job.blk > 0 THEN "pio" ELSE "status")
  /\ UNCHANGED <<drive, hmem, job>>

Refused == ~hdpro_io_active \/ drive.err # "none" \/ ~drive.drq
TakeBlock(b) ==
  /\ StoredBlocks(job.pos, <<b>>)
  /\ drive' = [drive EXCEPT !.drq = FALSE, !.lba = @ + 1, !.left = @ - 1, !.busy = drive.left > 1]

\* ata_pio_transfer: ERR or no DRQ; a block; a block whose checksum differs.
ata_pio_transfer ==
  /\ hat = "pio"
  /\ \/ Refused /\ Goto("chunk") /\ NoHddFault /\ UNCHANGED <<drive, hmem, job>>
     \/ /\ ~Refused /\ Goto("busy")
        /\ TakeBlock(drive.lba) /\ NoHddFault
        /\ job' = [job EXCEPT !.blk = @ - 1, !.pos = @ + 1]
     \/ ~Refused /\ Goto("chunk") /\ TakeBlock(Bad) /\ HddFault /\ UNCHANGED job
  /\ UNCHANGED hdpro_io_active

\* The status: a closed port reads as busy, and gen_ata_wait_busy opens it or
\* does not; one that stays closed reads as an error.
HdproStatus ==
  /\ hat = "status"
  /\ Goto("chunk")
  /\ \/ hdpro_io_active /\ NoHddFault /\ UNCHANGED hdpro_io_active
     \/ ~hdpro_io_active /\ (Opens \/ StaysClosed)
  /\ job' = IF ~hdpro_io_active' \/ drive.err # "none" THEN job
            ELSE [job EXCEPT !.buf = @ + job.len, !.lba = @ + job.len, !.left = @ - job.len]
  /\ UNCHANGED <<drive, hmem>>

HdproThread ==
  HdproCall \/ HdproChunk \/ HdproEnd \/ HdproSelect \/ HdproIssue \/ HdproBusy \/ ata_pio_transfer
    \/ HdproStatus
=============================================================================
