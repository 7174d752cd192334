----------------------------- MODULE MCCdvdfsv -----------------------------
(***************************************************************************)
(* Instances of Cdvdfsv for TLC.                                           *)
(***************************************************************************)
EXTENDS Cdvdfsv

\* One pass and several, at every alignment of the EE's buffer.
SomeReads ==
  {[lsn |-> 10, sectors |-> n, buf |-> b] : n \in {0, 1, 3}, b \in {4, 5, 7}}
\* A link that takes two passes, one to IOP memory, one of a single sector.
SomeChains ==
  {<<[lsn |-> 10, sectors |-> 3, buf |-> 0, iop |-> FALSE],
     [lsn |-> 20, sectors |-> 2, buf |-> 1, iop |-> TRUE],
     [lsn |-> 30, sectors |-> 1, buf |-> 28, iop |-> FALSE]>>}
SomeIopReads == {[lsn |-> 20, sectors |-> 2]}
=============================================================================
