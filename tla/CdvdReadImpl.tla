---------------------------- MODULE CdvdReadImpl ----------------------------
(***************************************************************************)
(* CdvdRead implements ReadSlot: the mapping from sync_flag, cdread_*, the *)
(* program counters and the locals of cdvdman_read to the slot.            *)
(***************************************************************************)
EXTENDS CdvdRead

CONSTANT Idle
ASSUME IdleAssumption == Idle \notin Request

Readers == {a \in Actors : pc[a] \in Reading}
Reader == CHOOSE a \in Readers : TRUE

SlotOf ==
  IF sync_flag = 0 THEN Idle ELSE IF Readers # {} THEN rd[Reader].req ELSE cdread
PhaseOf ==
  IF sync_flag = 0 THEN "idle" ELSE IF Readers # {} THEN "reading" ELSE "queued"

Slot == INSTANCE ReadSlot WITH
  slot  <- SlotOf,
  phase <- PhaseOf,
  short <- IF Readers # {} THEN rd[Reader].short ELSE FALSE,
  data  <- [b \in Buffers |-> mem[b]]

\* The read path of cdvdman.c, with its lock, read thread, chunking and
\* bounce buffer, implements the one-slot read service.
ImplementsReadSlot == Slot!SlotSpec
=============================================================================
