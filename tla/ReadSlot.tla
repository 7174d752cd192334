------------------------------ MODULE ReadSlot ------------------------------
(***************************************************************************)
(* What cdvdman promises its clients about sceCdRead: one slot for one     *)
(* read at a time.  While a read has the slot, only its own destination    *)
(* range changes; when it leaves the slot without having been cut short,   *)
(* that range holds the sectors it asked for.                              *)
(***************************************************************************)
EXTENDS Integers

CONSTANTS
  Buffers,      \* the clients' buffers
  Slots,        \* the sector positions of a buffer
  Request,      \* [lsn, sectors, buf, off, ...]
  Idle          \* the slot is free

VARIABLES
  slot,         \* the request being served, or Idle
  phase,        \* "idle", "queued" or "reading"
  short,        \* the read in the slot has been cut short
  data          \* contents of the clients' buffers

svars == <<slot, phase, short, data>>

InRange(r, b, i) == b = r.buf /\ r.off <= i /\ i < r.off + r.sectors

InPlace(r) ==
  r.buf \in Buffers =>
    \A i \in 0 .. r.sectors - 1 : data[r.buf][r.off + i] = r.lsn + i

SlotInit ==
  /\ slot = Idle /\ phase = "idle" /\ short = FALSE
  /\ data \in [Buffers -> [Slots -> Int]]

\* A free slot accepts a request, to be served by another thread or at once.
Accept ==
  /\ phase = "idle"
  /\ slot' \in Request
  /\ phase' \in {"queued", "reading"}
  /\ short' = FALSE
  /\ UNCHANGED data

Start ==
  /\ phase = "queued"
  /\ phase' = "reading"
  /\ UNCHANGED <<slot, short, data>>

Transfer ==
  /\ phase = "reading"
  /\ \A b \in Buffers : \A i \in Slots :
       ~InRange(slot, b, i) => data'[b][i] = data[b][i]
  /\ short' \in {short, TRUE}
  /\ UNCHANGED <<slot, phase>>

Finish ==
  /\ phase = "reading"
  /\ ~short => InPlace(slot)
  /\ slot' = Idle
  /\ phase' = "idle"
  /\ short' = FALSE
  /\ UNCHANGED data

SlotNext == Accept \/ Start \/ Transfer \/ Finish
SlotSpec == SlotInit /\ [][SlotNext]_svars
=============================================================================
