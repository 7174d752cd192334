------------------------------- MODULE Parts -------------------------------
(***************************************************************************)
(* DeviceReadSectors of device-smb.c and device-usb.c: a disc image split  *)
(* into parts of equal size, and the read of each part a call comes to.    *)
(***************************************************************************)
EXTENDS Integers, Sequences

CONSTANTS
  NumParts,        \* cdvdman_settings.common.NumParts
  PartSectors,     \* sectors of a part but the last (0x80000)
  LsnMod           \* values of a u32 (2^32)

ASSUME PartsAssumption ==
  NumParts \in Nat \ {0} /\ PartSectors \in Nat \ {0} /\ LsnMod \in Nat /\ LsnMod > NumParts * PartSectors

\* The bounds of part i, from 0; a single part has no upper one.
PartSize == IF NumParts > 1 THEN PartSectors ELSE LsnMod - 1
LBound(i) == i * PartSize
UBound(i) == (i + 1) * PartSize

\* The loop over the parts: at part i, for the call's first sector lsn0, with
\* the sectors from lsn on, n of them, still to read.  offslsn is lowered by
\* the size of a part at every turn and wraps.
PartLoop(lsn0) ==
  LET loop[i \in 0 .. NumParts, lsn \in Nat, n \in Nat, r \in Nat] ==
        IF i = NumParts THEN <<>>
        ELSE IF lsn < LBound(i) \/ lsn >= UBound(i) THEN loop[i + 1, lsn, n, r]
        ELSE LET over == lsn + n > UBound(i) - 1
                 now == IF over THEN UBound(i) - lsn ELSE n
                 read == [part |-> i + 1, lsn |-> (lsn0 - i * PartSectors) % LsnMod, n |-> now, p |-> r]
             IN  <<read>> \o IF over THEN loop[i + 1, UBound(i), n - now, r + now] ELSE <<>>
  IN  loop
LoopReads(lsn, n) == PartLoop(lsn)[0, lsn, n, 0]

\* What the loop comes to: the part of the first sector, and each one after it
\* whose lower bound the sectors asked for reach, if only to end there.
PartOf(lsn) == lsn \div PartSize
LastPart(lsn, n) == IF PartOf(lsn + n) < NumParts THEN PartOf(lsn + n) ELSE NumParts - 1
ReadOfPart(lsn, n, i) ==
  LET from == IF i = PartOf(lsn) THEN lsn ELSE LBound(i)
      to == IF i = PartOf(lsn + n) THEN lsn + n ELSE UBound(i)
  IN  [part |-> i + 1, lsn |-> (lsn - i * PartSectors) % LsnMod, n |-> to - from, p |-> from - lsn]
PartReads(lsn, n) ==
  [j \in 1 .. LastPart(lsn, n) - PartOf(lsn) + 1 |-> ReadOfPart(lsn, n, PartOf(lsn) + j - 1)]

\* Limit: the second part of a read across a border is read from the wrong
\* place, lsn - 0x80000 instead of 0.  Reads that stay within a part, and the
\* sectors of any read that come before the border and the end of the image.
WithinPart(lsn, n) == NumParts = 1 \/ (lsn % PartSectors) + n <= PartSectors
BeforeBorder(lsn, n) ==
  IF lsn >= NumParts * PartSectors THEN 0
  ELSE IF (lsn % PartSectors) + n <= PartSectors THEN n ELSE PartSectors - (lsn % PartSectors)
=============================================================================
