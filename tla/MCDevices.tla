----------------------------- MODULE MCDevices -----------------------------
(***************************************************************************)
(* Instances of Devices for TLC.                                           *)
(***************************************************************************)
EXTENDS Devices

\* Neighbours, so that sequential reads happen: in two commands, of which the
\* second is read ahead of, to the border between the parts; half of what was
\* read ahead; the other half, from the middle of a 4096-byte sector.
SomeReads == {[lsn |-> 0, n |-> 4], [lsn |-> 4, n |-> 1], [lsn |-> 5, n |-> 1]}
SomeLBAs == <<3, 11>>

\* Partitions on both sides of the block address (8) that needs the fourth
\* register; a command crosses it in the second.
TwoParts == <<[part_offset |-> 0, part_size |-> 2, data_start |-> 4],
              [part_offset |-> 2, part_size |-> 2, data_start |-> 7]>>
\* One command; across the partitions, in several commands; beyond the disc.
SomeHddReads == {[lsn |-> 0, n |-> 1], [lsn |-> 1, n |-> 3], [lsn |-> 3, n |-> 2]}

\* To the border of the parts, in one piece less than that, across the border,
\* and from part two on beyond the image.
SomeSmbReads == {[lsn |-> 0, n |-> 4], [lsn |-> 1, n |-> 2], [lsn |-> 2, n |-> 4], [lsn |-> 5, n |-> 4]}

\* PartReads is the loop over the parts, for reads from all places of the disc
\* and from behind it, across every border.
ASSUME PartReadsIsTheLoop ==
  \A lsn \in 0 .. NumParts * PartSectors + 1, n \in 0 .. PartSectors + 2 :
    PartReads(lsn, n) = LoopReads(lsn, n)

\* Sectors of 512, 2048 and 4096 bytes, to a CD sector of two units.
SomeBds == [d \in 1 .. 3 |-> CASE d = 1 -> 1 [] d = 2 -> 2 [] d = 3 -> 4]
SomeBdmReads == {[lsn |-> 0, n |-> 1], [lsn |-> 2, n |-> 2]}

\* The S-command RPC thread of cdvdfsv and a thread of the console's.
SomeScmdCalls ==
  [t \in ScmdThreads |-> CASE t = 1 -> {"sceCdPowerOff", "sceCdApplySCmd"}
                           [] t = 2 -> {"sceCdRM", "sceCdReadClock"}]
=============================================================================
