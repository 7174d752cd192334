------------------------- MODULE CdvdReadImplProofs -------------------------
(***************************************************************************)
(* What a read leaves in memory, for any threads, buffers, requests and    *)
(* sizes: whatever the chunking by ACCU_READS or by the bounce buffer, a   *)
(* read that was not cut short has put its sectors in place, and has       *)
(* written nothing outside its destination.  From this follows that the    *)
(* read path of cdvdman.c implements ReadSlot; and what a client can rely  *)
(* on when its read has ended.                                             *)
(***************************************************************************)
EXTENDS CdvdReadImpl, CdvdReadProofs

USE DEF PCs, Reading, InTransfer, Waiting, DriveCommands, Actors, AllBuffers

\* Buffer b holds the n sectors from lsn, from slot s on.
SectorsAt(b, s, lsn, n) == \A i \in 0 .. n - 1 : mem[b][s + i] = lsn + i

\* A request cdvdman_read can serve: it fits its destination, and the bounce
\* buffer itself is read into only by cdvdman_locatefile, which is aligned.
Servable(r) == Fits(r) /\ (r.buf = Bounce => r.aligned)

\* How far cdvdman_read_sectors has come, and what it has read so far.
ChunkSound(a) ==
  LET r == rd[a].req
  IN  /\ rd[a].pos <= rd[a].len
      /\ rd[a].base + rd[a].len <= r.sectors
      /\ r.aligned => rd[a].base = 0 /\ rd[a].len = r.sectors
      /\ ~r.aligned => rd[a].len <= BounceSectors
      /\ ~rd[a].short =>
           SectorsAt(Target(a), IF r.aligned THEN r.off ELSE 0, r.lsn + rd[a].base, rd[a].pos)
      /\ pc[a] = "endsectors" /\ ~rd[a].short => rd[a].pos = rd[a].len

\* The chunks that a misaligned read has already copied out.
CopiedSound(a) ==
  LET r == rd[a].req
  IN  rd[a].base <= r.sectors /\ (~rd[a].short => SectorsAt(r.buf, r.off, r.lsn, rd[a].base))

\* The read that actor a executes.
ReadSound(a) ==
  LET r == rd[a].req
  IN  /\ Servable(r)
      /\ pc[a] = "read" => rd[a].base = 0 /\ rd[a].pos = 0 /\ ~rd[a].short
      /\ pc[a] \in InTransfer => ChunkSound(a)
      /\ pc[a] \in {"bounce", "chunk"} => ~r.aligned
      /\ ~r.aligned /\ pc[a] \in InTransfer \cup {"bounce", "chunk"} => CopiedSound(a)
      /\ pc[a] \in {"done", "event", "release"} /\ ~rd[a].short
           => SectorsAt(r.buf, r.off, r.lsn, r.sectors)

\* The inductive invariant of what a read has delivered.
ReadInv ==
  /\ Servable(cdread)
  /\ \A a \in Actors : pc[a] \in Reading => ReadSound(a)

-----------------------------------------------------------------------------

\* Copying a chunk that the bounce buffer holds to where the last one ended
\* extends what has been delivered.
LEMMA CopiedExtends ==
  ASSUME MemoryTypes, NEW b \in AllBuffers, NEW s \in Nat, NEW lsn \in Nat,
         NEW p \in Nat, NEW n \in Nat, s + p + n <= BufSectors,
         SectorsAt(b, s, lsn, p), SectorsAt(Bounce, 0, lsn + p, n), mem' = Copied(b, s + p, n)
  PROVE  \A i \in 0 .. (p + n) - 1 : mem'[b][s + i] = lsn + i
<1> SUFFICES ASSUME NEW i \in 0 .. (p + n) - 1 PROVE mem'[b][s + i] = lsn + i
  OBVIOUS
<1>1. s + i \in Slots BY SizeAssumption DEF Slots
<1>2. mem'[b][s + i] = IF s + p <= s + i /\ s + i < (s + p) + n THEN mem[Bounce][(s + i) - (s + p)]
                       ELSE mem[b][s + i]
  BY <1>1 DEF Copied, MemoryTypes
<1>3. CASE i < p BY <1>2, <1>3 DEF SectorsAt
<1>4. CASE i >= p
  <2>1. (s + i) - (s + p) = 0 + (i - p) /\ i - p \in 0 .. n - 1 BY <1>4
  <2>2. mem[Bounce][0 + (i - p)] = (lsn + p) + (i - p) BY <2>1 DEF SectorsAt
  <2> QED BY <1>2, <1>4, <2>1, <2>2
<1> QED BY <1>3, <1>4

-----------------------------------------------------------------------------

\* A step of actor a keeps the invariant for everybody else, because memory
\* stays as it is or nobody else is reading.
LEMMA ReadKept ==
  ASSUME TypeInv, ReadInv, NEW a \in Actors, OthersKeep(a), Servable(cdread'),
         mem' = mem \/ \A b \in Actors : b # a => pc[b] \notin Reading,
         pc'[a] \in Reading => ReadSound(a)'
  PROVE  ReadInv'
<1> SUFFICES ASSUME NEW b \in Actors, b # a, pc'[b] \in Reading PROVE ReadSound(b)'
  BY DEF ReadInv, Servable, Fits
<1>1. pc'[b] = pc[b] /\ rd'[b] = rd[b] BY DEF OthersKeep
<1>2. mem' = mem BY <1>1
<1>3. ReadSound(b) BY <1>1 DEF ReadInv
<1>4. Target(b)' = Target(b) BY <1>1 DEF Target, R
<1>5. ChunkSound(b)' = ChunkSound(b) BY <1>1, <1>2, <1>4 DEF ChunkSound, SectorsAt
<1>6. CopiedSound(b)' = CopiedSound(b) BY <1>1, <1>2 DEF CopiedSound, SectorsAt
<1> QED BY SMTT(30), <1>1, <1>2, <1>3, <1>5, <1>6 DEF ReadSound, SectorsAt, R, Servable, Fits

\* Inside cdvdman_read only the acting reader moves.
LEMMA ExecutesAlone ==
  ASSUME TypeInv, LockInv, NEW a \in Actors, Executes(a)
  PROVE  /\ OthersKeep(a) /\ cdread' = cdread
         /\ mem' = mem \/ \A b \in Actors : b # a => pc[b] \notin Reading
<1>a. ThreadTypes BY DEF TypeInv, TypeOK
<1> USE DEF At, Goto, R, locks, OthersKeep
<1>1. OthersKeep(a) /\ cdread' = cdread
  <2>1. CASE ReadBegin(a) BY <1>a, <2>1 DEF ReadBegin, ThreadTypes
  <2>2. CASE BounceTake(a) BY <1>a, <2>2 DEF BounceTake, ThreadTypes
  <2>3. CASE BounceChunk(a) BY <1>a, <2>3 DEF BounceChunk, ThreadTypes
  <2>4. CASE SectorsBegin(a) BY <1>a, <2>4 DEF SectorsBegin, ThreadTypes
  <2>5. CASE SectorsLoop(a) BY <1>a, <2>5 DEF SectorsLoop, ThreadTypes
  <2>6. CASE DeviceReadSectors(a) BY <1>a, <2>6 DEF DeviceReadSectors, ThreadTypes
  <2>7. CASE DeviceError(a) BY <1>a, <2>7 DEF DeviceError, ThreadTypes
  <2>8. CASE AccuWait(a) BY <1>a, <2>8 DEF AccuWait, ThreadTypes
  <2>9. CASE SectorsEnd(a) BY <1>a, <2>9 DEF SectorsEnd, ThreadTypes
  <2>10. CASE ReadEnd(a) BY <1>a, <2>10 DEF ReadEnd, ThreadTypes
  <2>11. CASE ReleaseDrive(a) BY <1>a, <2>11 DEF ReleaseDrive, ThreadTypes
  <2>12. CASE SetDoneEvent(a) BY <1>a, <2>12 DEF SetDoneEvent, ThreadTypes
  <2> QED BY <2>1, <2>2, <2>3, <2>4, <2>5, <2>6, <2>7, <2>8, <2>9, <2>10, <2>11, <2>12 DEF Executes
<1>2. CASE pc[a] \in Reading BY <1>1, <1>2 DEF LockInv, OneOwner, Holds
<1>3. CASE pc[a] \notin Reading
  <2>1. SetDoneEvent(a)
    BY <1>3 DEF Executes, ReadBegin, BounceTake, BounceChunk, SectorsBegin, SectorsLoop,
         DeviceReadSectors, DeviceError, AccuWait, SectorsEnd, ReadEnd, ReleaseDrive
  <2> QED BY <1>1, <2>1 DEF SetDoneEvent
<1> QED BY <1>2, <1>3

\* A device transfer extends what the chunk has read.
LEMMA TransferSound ==
  ASSUME TypeInv, ReadInv, NEW a \in Actors, DeviceReadSectors(a)
  PROVE  ReadSound(a)'
<1>a. ThreadTypes /\ MemoryTypes BY DEF TypeInv, TypeOK
<1> DEFINE r == rd[a].req
           n == SectorsToRead(a)
           s == IF r.aligned THEN r.off ELSE 0
           l == r.lsn + rd[a].base
<1>1. /\ pc[a] = "device"
      /\ mem' = Written(Target(a), TargetSlot(a), l + rd[a].pos, n)
      /\ rd' = [rd EXCEPT ![a].pos = @ + n]
      /\ pc' = [pc EXCEPT ![a] = IF AccuReads THEN "pace" ELSE "loop"]
  BY DEF DeviceReadSectors, At, Goto, R
<1>2. /\ rd[a].base \in Nat /\ rd[a].len \in Nat /\ rd[a].pos \in Nat /\ rd[a].short \in BOOLEAN
      /\ r.lsn \in Nat /\ r.sectors \in Nat /\ r.off \in Nat /\ r.buf \in AllBuffers
      /\ r.aligned \in BOOLEAN
  BY <1>a, LocalsTyped
<1>3. n \in Nat /\ n <= rd[a].len - rd[a].pos /\ Target(a) \in AllBuffers
  BY <1>1, SectorsToReadTyped
<1>4. TargetSlot(a) = s + rd[a].pos BY <1>2 DEF TargetSlot, R
<1>5. ReadSound(a) /\ ChunkSound(a) BY <1>1 DEF ReadInv, ReadSound
<1>6. /\ rd'[a].req = r /\ rd'[a].base = rd[a].base /\ rd'[a].len = rd[a].len
      /\ rd'[a].short = rd[a].short /\ rd'[a].pos = rd[a].pos + n
      /\ pc'[a] \in {"pace", "loop"}
  BY <1>a, <1>1 DEF ThreadTypes, ReadLocals
<1>7. s + rd[a].pos + n <= BufSectors
  <2>1. s + rd[a].len <= BufSectors
    BY <1>2, <1>5, SizeAssumption DEF ReadSound, ChunkSound, Servable, Fits
  <2>2. /\ s \in Nat /\ n \in Nat /\ rd[a].pos \in Nat /\ rd[a].len \in Nat /\ BufSectors \in Nat
        /\ n <= rd[a].len - rd[a].pos
    BY <1>2, <1>3, SizeAssumption
  <2> HIDE DEF s, n
  <2> QED BY <2>1, <2>2
<1>8. ~rd[a].short => \A i \in 0 .. (rd[a].pos + n) - 1 : mem'[Target(a)][s + i] = l + i
  <2> SUFFICES ASSUME ~rd[a].short PROVE \A i \in 0 .. (rd[a].pos + n) - 1 : mem'[Target(a)][s + i] = l + i
    OBVIOUS
  <2>1. SectorsAt(Target(a), s, l, rd[a].pos) BY <1>5 DEF ChunkSound
  <2>2. s \in Nat /\ l \in Nat BY <1>2
  <2>3. mem' = Written(Target(a), s + rd[a].pos, l + rd[a].pos, n) BY <1>1, <1>4
  <2> DEFINE b == Target(a)
             p == rd[a].pos
             q == s + p
             first == l + p
  <2>4. b \in AllBuffers /\ p \in Nat /\ n \in Nat /\ MemoryTypes BY <1>a, <1>2, <1>3
  <2>5. /\ s + p + n <= BufSectors /\ SectorsAt(b, s, l, p)
        /\ mem' = Written(b, q, first, n) /\ q = s + p /\ first = l + p
    BY <1>7, <2>1, <2>3
  <2> HIDE DEF s, l, n, b, p, q, first
  <2>6. ASSUME NEW i \in 0 .. (p + n) - 1 PROVE mem'[b][s + i] = l + i
    <3>1. s + i \in Slots BY <2>2, <2>4, <2>5, SizeAssumption DEF Slots
    <3>2. mem'[b][s + i] = IF q <= s + i /\ s + i < q + n THEN first + ((s + i) - q) ELSE mem[b][s + i]
      BY <2>4, <2>5, <3>1 DEF Written, MemoryTypes
    <3> QED BY <2>2, <2>4, <2>5, <3>2 DEF SectorsAt
  <2> QED BY <2>6 DEF b, p
<1>9. ChunkSound(a)'
  <2>1. Target(a)' = Target(a) BY <1>6 DEF Target, R
  <2> HIDE DEF n
  <2> QED BY <1>2, <1>3, <1>5, <1>6, <1>8, <2>1 DEF ChunkSound, SectorsAt
<1>10. ~r.aligned => CopiedSound(a)'
  <2> SUFFICES ASSUME ~r.aligned PROVE CopiedSound(a)' OBVIOUS
  <2>1. CopiedSound(a) /\ r.buf # Bounce BY <1>1, <1>5 DEF ReadSound, Servable
  <2>2. Target(a) = Bounce BY DEF Target, R
  <2>3. mem'[r.buf] = mem[r.buf] BY <1>a, <1>1, <1>2, <2>1, <2>2 DEF Written, MemoryTypes
  <2> QED BY <1>6, <2>1, <2>3 DEF CopiedSound, SectorsAt
<1> QED BY <1>5, <1>6, <1>9, <1>10 DEF ReadSound, Servable, Fits

\* Copying the chunk out extends what has been delivered, and the last step
\* of an aligned read finds everything in place.
LEMMA SectorsEndSound ==
  ASSUME TypeInv, ReadInv, NEW a \in Actors, SectorsEnd(a)
  PROVE  ReadSound(a)'
<1>a. ThreadTypes /\ MemoryTypes BY DEF TypeInv, TypeOK
<1> DEFINE r == rd[a].req
<1>1. pc[a] = "endsectors" BY DEF SectorsEnd, At
<1>2. /\ rd[a].base \in Nat /\ rd[a].len \in Nat /\ rd[a].pos \in Nat /\ rd[a].short \in BOOLEAN
      /\ r.lsn \in Nat /\ r.sectors \in Nat /\ r.off \in Nat /\ r.buf \in AllBuffers
      /\ r.aligned \in BOOLEAN
  BY <1>a, LocalsTyped
<1>3. ReadSound(a) /\ ChunkSound(a) BY <1>1 DEF ReadInv, ReadSound
<1>4. CASE r.aligned
  <2>1. pc'[a] = "done" /\ rd' = rd /\ mem' = mem
    BY <1>a, <1>4 DEF SectorsEnd, R, Goto, ThreadTypes
  <2>2. ~rd[a].short => SectorsAt(r.buf, r.off, r.lsn, r.sectors)
    BY <1>1, <1>2, <1>3, <1>4 DEF ChunkSound, Target, R
  <2> QED BY <1>3, <1>4, <2>1, <2>2 DEF ReadSound, SectorsAt, Servable, Fits
<1>5. CASE ~r.aligned
  <2>1. /\ pc'[a] = "chunk"
        /\ mem' = Copied(r.buf, r.off + rd[a].base, rd[a].len)
        /\ rd' = [rd EXCEPT ![a].base = @ + rd[a].len]
    BY <1>a, <1>5 DEF SectorsEnd, R, Goto, ThreadTypes
  <2>2. /\ rd'[a].req = r /\ rd'[a].base = rd[a].base + rd[a].len /\ rd'[a].short = rd[a].short
    BY <1>a, <2>1 DEF ThreadTypes, ReadLocals
  <2>3. rd[a].base + rd[a].len <= r.sectors BY <1>3 DEF ChunkSound
  <2>4. ~rd[a].short => \A i \in 0 .. (rd[a].base + rd[a].len) - 1 : mem'[r.buf][r.off + i] = r.lsn + i
    <3> SUFFICES ASSUME ~rd[a].short
                 PROVE  \A i \in 0 .. (rd[a].base + rd[a].len) - 1 : mem'[r.buf][r.off + i] = r.lsn + i
      OBVIOUS
    <3>1. SectorsAt(r.buf, r.off, r.lsn, rd[a].base) BY <1>1, <1>3, <1>5 DEF ReadSound, CopiedSound
    <3>2. SectorsAt(Bounce, 0, r.lsn + rd[a].base, rd[a].len)
      BY <1>1, <1>3, <1>5 DEF ChunkSound, Target, R
    <3>3. r.off + rd[a].base + rd[a].len <= BufSectors
      BY <1>2, <1>3, <2>3, SizeAssumption DEF ReadSound, Servable, Fits
    <3>4. /\ r.buf \in AllBuffers /\ r.off \in Nat /\ r.lsn \in Nat
          /\ rd[a].base \in Nat /\ rd[a].len \in Nat
      BY <1>2
    <3>5. mem' = Copied(r.buf, r.off + rd[a].base, rd[a].len) BY <2>1
    <3> DEFINE b == r.buf
               s == r.off
               l == r.lsn
               p == rd[a].base
               n == rd[a].len
    <3>6. /\ SectorsAt(b, s, l, p) /\ SectorsAt(Bounce, 0, l + p, n) /\ s + p + n <= BufSectors
          /\ b \in AllBuffers /\ s \in Nat /\ l \in Nat /\ p \in Nat /\ n \in Nat
          /\ mem' = Copied(b, s + p, n)
      BY <3>1, <3>2, <3>3, <3>4, <3>5
    <3>7. \A i \in 0 .. (p + n) - 1 : mem'[b][s + i] = l + i
      <4> HIDE DEF b, s, l, p, n
      <4> QED BY <1>a, <3>6, CopiedExtends
    <3> QED BY <3>7
  <2>5. CopiedSound(a)' BY <2>2, <2>3, <2>4 DEF CopiedSound, SectorsAt
  <2> QED BY <1>3, <1>5, <2>1, <2>2, <2>5 DEF ReadSound, Servable, Fits
<1> QED BY <1>4, <1>5

\* Every step inside cdvdman_read keeps what the read has delivered.
LEMMA ExecutesSound ==
  ASSUME TypeInv, LockInv, ReadInv, NEW a \in Actors, Executes(a), pc'[a] \in Reading
  PROVE  ReadSound(a)'
<1>a. ThreadTypes /\ MemoryTypes BY DEF TypeInv, TypeOK
<1>b. /\ rd[a].base \in Nat /\ rd[a].len \in Nat /\ rd[a].pos \in Nat /\ rd[a].short \in BOOLEAN
      /\ rd[a].req.sectors \in Nat /\ rd[a].req.aligned \in BOOLEAN
  BY <1>a, LocalsTyped
<1> USE DEF At, Goto, R
<1>1. CASE ReadBegin(a)
  <2>1. /\ pc[a] = "read" /\ mem' = mem /\ rd'[a].req = rd[a].req /\ rd'[a].base = rd[a].base
        /\ rd'[a].pos = rd[a].pos /\ rd'[a].short = rd[a].short
        /\ rd[a].req.aligned => rd'[a].len = rd[a].req.sectors /\ pc'[a] = "sectors"
        /\ ~rd[a].req.aligned => pc'[a] = "bounce"
    BY <1>a, <1>b, <1>1 DEF ReadBegin, ThreadTypes, ReadLocals
  <2>2. ReadSound(a) BY <2>1 DEF ReadInv
  <2> QED BY <1>b, <2>1, <2>2 DEF ReadSound, ChunkSound, CopiedSound, SectorsAt, Servable, Fits
<1>2. CASE BounceTake(a)
  <2>1. pc[a] = "bounce" /\ pc'[a] = "chunk" /\ mem' = mem /\ rd' = rd
    BY <1>a, <1>2 DEF BounceTake, ThreadTypes
  <2>2. ReadSound(a) BY <2>1 DEF ReadInv
  <2> QED BY <2>1, <2>2 DEF ReadSound, CopiedSound, SectorsAt, Servable, Fits
<1>3. CASE BounceChunk(a)
  <2>1. pc[a] = "chunk" /\ mem' = mem BY <1>3 DEF BounceChunk
  <2>2. ReadSound(a) /\ ~rd[a].req.aligned /\ CopiedSound(a) BY <2>1 DEF ReadInv, ReadSound
  <2>3. CASE rd[a].base < rd[a].req.sectors
    <3>1. /\ pc'[a] = "sectors" /\ rd'[a].req = rd[a].req /\ rd'[a].base = rd[a].base
          /\ rd'[a].short = rd[a].short /\ rd'[a].pos = 0
          /\ rd'[a].len = Smaller(BounceSectors, rd[a].req.sectors - rd[a].base)
      BY <1>a, <1>3, <2>3 DEF BounceChunk, ThreadTypes, ReadLocals
    <3>2. ChunkSound(a)'
      BY <1>b, <2>2, <2>3, <3>1, SizeAssumption DEF ChunkSound, SectorsAt, Smaller
    <3>3. CopiedSound(a)' BY <2>1, <2>2, <3>1 DEF CopiedSound, SectorsAt
    <3> QED BY <2>2, <3>1, <3>2, <3>3 DEF ReadSound, Servable, Fits
  <2>4. CASE ~(rd[a].base < rd[a].req.sectors)
    <3>1. pc'[a] = "done" /\ rd' = rd BY <1>a, <1>3, <2>4 DEF BounceChunk, ThreadTypes
    <3>2. rd[a].base = rd[a].req.sectors BY <1>b, <2>2, <2>4 DEF CopiedSound
    <3> QED BY <2>1, <2>2, <3>1, <3>2 DEF ReadSound, CopiedSound, SectorsAt, Servable, Fits
  <2> QED BY <2>3, <2>4
<1>4. CASE SectorsBegin(a)
  <2>1. pc[a] = "sectors" /\ pc'[a] = "loop" /\ mem' = mem /\ rd' = rd
    BY <1>a, <1>4 DEF SectorsBegin, ThreadTypes
  <2>2. ReadSound(a) BY <2>1 DEF ReadInv
  <2> QED BY <2>1, <2>2 DEF ReadSound, ChunkSound, CopiedSound, SectorsAt, Target, Servable, Fits
<1>5. CASE SectorsLoop(a)
  <2>1. pc[a] = "loop" /\ mem' = mem BY <1>5 DEF SectorsLoop
  <2>2. ReadSound(a) /\ ChunkSound(a) BY <2>1 DEF ReadInv, ReadSound
  <2>3. CASE rd[a].pos < rd[a].len /\ err = "NO"
    <3>1. pc'[a] = "device" /\ rd' = rd BY <1>a, <1>5, <2>3 DEF SectorsLoop, ThreadTypes
    <3> QED BY <2>1, <2>2, <3>1
          DEF ReadSound, ChunkSound, CopiedSound, SectorsAt, Target, Servable, Fits
  <2>4. CASE ~(rd[a].pos < rd[a].len /\ err = "NO")
    <3>1. /\ pc'[a] = "endsectors" /\ rd'[a].req = rd[a].req /\ rd'[a].base = rd[a].base
          /\ rd'[a].pos = rd[a].pos /\ rd'[a].len = rd[a].len
      BY <1>a, <1>5, <2>4 DEF SectorsLoop, ThreadTypes, ReadLocals
    <3>2. ~rd'[a].short => ~rd[a].short /\ rd[a].pos = rd[a].len
      <4> DEFINE cut == rd[a].short \/ rd[a].pos < rd[a].len
      <4>1. rd' = [rd EXCEPT ![a].short = cut] BY <1>5, <2>4, Zenon DEF SectorsLoop
      <4>2. rd[a].pos <= rd[a].len BY <2>2 DEF ChunkSound
      <4>3. rd'[a].short = cut
        <5> HIDE DEF cut
        <5> QED BY <1>a, <4>1 DEF ThreadTypes, ReadLocals
      <4>4. ~cut => ~rd[a].short /\ rd[a].pos = rd[a].len BY <1>b, <4>2
      <4> QED BY <4>3, <4>4, Zenon
    <3> QED BY <2>1, <2>2, <3>1, <3>2
          DEF ReadSound, ChunkSound, CopiedSound, SectorsAt, Target, Servable, Fits
  <2> QED BY <2>3, <2>4
<1>6. CASE DeviceReadSectors(a) BY <1>6, TransferSound
<1>7. CASE DeviceError(a)
  <2>1. /\ pc[a] = "device" /\ pc'[a] = "endsectors" /\ rd'[a].req = rd[a].req
        /\ rd'[a].base = rd[a].base /\ rd'[a].pos = rd[a].pos /\ rd'[a].len = rd[a].len
        /\ rd'[a].short = TRUE
    BY <1>a, <1>7 DEF DeviceError, ThreadTypes, ReadLocals
  <2>2. ReadSound(a) BY <2>1 DEF ReadInv
  <2> QED BY <2>1, <2>2 DEF ReadSound, ChunkSound, CopiedSound, Servable, Fits
<1>8. CASE AccuWait(a)
  <2>1. pc[a] = "pace" /\ pc'[a] = "loop" /\ mem' = mem /\ rd' = rd
    BY <1>a, <1>8 DEF AccuWait, ThreadTypes
  <2>2. ReadSound(a) BY <2>1 DEF ReadInv
  <2> QED BY <2>1, <2>2 DEF ReadSound, ChunkSound, CopiedSound, SectorsAt, Target, Servable, Fits
<1>9. CASE SectorsEnd(a) BY <1>9, SectorsEndSound
<1>10. CASE ReadEnd(a)
  <2>1. pc[a] = "done" /\ pc'[a] \in {"release", "event"} /\ mem' = mem /\ rd' = rd
    BY <1>a, <1>10 DEF ReadEnd, ThreadTypes
  <2>2. ReadSound(a) BY <2>1 DEF ReadInv
  <2> QED BY <2>1, <2>2 DEF ReadSound, SectorsAt, Servable, Fits
<1>11. CASE ReleaseDrive(a) BY <1>a, <1>11 DEF ReleaseDrive, ThreadTypes
<1>12. CASE SetDoneEvent(a) BY <1>a, <1>12 DEF SetDoneEvent, ThreadTypes
<1> QED BY <1>1, <1>2, <1>3, <1>4, <1>5, <1>6, <1>7, <1>8, <1>9, <1>10, <1>11, <1>12 DEF Executes

\* Every request a thread or the user callback may ask for can be served, and
\* so can a directory sector.
LEMMA RequestsServable ==
  /\ \A t \in Threads : \A r \in Requests(t) : Servable(r)
  /\ \A r \in IntrRequests : Servable(r)
  /\ \A l \in DirSectors : DirRequest(l) \in Request /\ Servable(DirRequest(l))
<1>1. \A l \in DirSectors : DirRequest(l) \in Request
  BY RequestAssumption DEF DirRequest, Request
<1>2. \A l \in DirSectors : Servable(DirRequest(l))
  BY SizeAssumption DEF DirRequest, Servable, Fits
<1> QED BY <1>1, <1>2, RequestAssumption, SizeAssumption DEF Servable

\* A read starts with nothing delivered yet.
LEMMA StartSound ==
  ASSUME TypeInv, ReadInv, NEW a \in Actors, NEW r, Servable(r), Servable(cdread'), OthersKeep(a),
         pc'[a] = "read", rd'[a] = [IdleRead EXCEPT !.req = r], mem' = mem
  PROVE  ReadInv'
<1>1. /\ rd'[a].req = r /\ rd'[a].base = 0 /\ rd'[a].pos = 0 /\ rd'[a].short = FALSE
  BY DEF IdleRead
<1>2. ReadSound(a)' BY <1>1 DEF ReadSound, Servable, Fits
<1> QED BY <1>2, ReadKept

\* Taking the drive, in either way.
LEMMA ReadLockSound ==
  ASSUME TypeInv, ReadInv, NEW t \in Threads, NEW r \in Request, Servable(r), ReadLock(t, r),
         UNCHANGED <<mem, searching>>
  PROVE  ReadInv'
<1>a. ThreadTypes BY DEF TypeInv, TypeOK
<1> USE DEF ReadLock, SyncReadLock, AsyncReadLock, Goto
<1>1. OthersKeep(t) BY <1>a DEF OthersKeep, ThreadTypes
<1>2. Servable(cdread') BY DEF ReadInv
<1>3. CASE alt_read
  <2>1. pc'[t] = "read" /\ rd'[t] = [IdleRead EXCEPT !.req = r] BY <1>a, <1>3 DEF ThreadTypes
  <2> QED BY <1>1, <1>2, <2>1, StartSound
<1>4. CASE ~alt_read
  <2>1. pc'[t] = "signal" BY <1>a, <1>4 DEF ThreadTypes
  <2> QED BY <1>1, <1>2, <2>1, ReadKept
<1> QED BY <1>3, <1>4

\* The other steps of a client do not read ...
LEMMA ThreadStepSound ==
  ASSUME TypeInv, LockInv, ReadInv, NEW t \in Threads, ThreadStep(t), ~Executes(t)
  PROVE  ReadInv'
<1>a. ThreadTypes BY DEF TypeInv, TypeOK
<1>b. Servable(cdread) BY DEF ReadInv
<1> USE DEF At, Goto, locks
<1>1. CASE SyncReadEvent(t)
  <2>1. /\ OthersKeep(t) /\ pc[t] = "event" /\ pc'[t] = "release" /\ rd' = rd /\ mem' = mem
        /\ cdread' = cdread
    BY <1>a, <1>1 DEF SyncReadEvent, ThreadTypes, OthersKeep
  <2>2. ReadSound(t) BY <2>1 DEF ReadInv
  <2>3. ReadSound(t)' BY <2>1, <2>2 DEF ReadSound, SectorsAt, Servable, Fits
  <2> QED BY <1>b, <2>1, <2>3, ReadKept
<1>2. CASE SearchRead(t)
  <2>1. ASSUME NEW l \in DirSectors, ReadLock(t, DirRequest(l)) PROVE ReadInv'
    BY <1>2, <2>1, RequestsServable, ReadLockSound DEF SearchRead
  <2>2. CASE Goto(t, "sfend") /\ UNCHANGED <<cdread, rd>>
    <3>1. OthersKeep(t) /\ pc'[t] = "sfend" /\ mem' = mem
      BY <1>a, <1>2, <2>2 DEF SearchRead, ThreadTypes, OthersKeep
    <3> QED BY <1>b, <2>2, <3>1, ReadKept
  <2> QED BY <1>2, <2>1, <2>2 DEF SearchRead
<1>3. CASE ~SyncReadEvent(t) /\ ~SearchRead(t)
  <2>1. OthersKeep(t) /\ mem' = mem /\ cdread' = cdread /\ pc'[t] \notin Reading
    BY <1>a, <1>3 DEF ThreadStep, AsyncReadSignal, SyncTest, SyncWake, DriveEvent,
         SearchTake, SearchParse, SearchEnd, ThreadTypes, OthersKeep
  <2> QED BY <1>b, <2>1, ReadKept
<1> QED BY <1>1, <1>2, <1>3

\* ... and only sceCdRead starts a read.
LEMMA ThreadCallSound ==
  ASSUME TypeInv, LockInv, ReadInv, NEW t \in Threads, ThreadCall(t)
  PROVE  ReadInv'
<1>a. ThreadTypes BY DEF TypeInv, TypeOK
<1>b. Servable(cdread) BY DEF ReadInv
<1> USE DEF At, Goto, locks
<1>1. CASE sceCdRead(t)
  BY <1>1, RequestsServable, RequestAssumption, ReadLockSound DEF sceCdRead
<1>2. CASE ~sceCdRead(t)
  <2>1. OthersKeep(t) /\ mem' = mem /\ cdread' = cdread /\ pc'[t] \notin Reading
    BY <1>a, <1>2 DEF ThreadCall, sceCdSync, sceCdDiskReady, sceCdCallback, SearchCall,
         DriveCommand, SetError, ThreadTypes, OthersKeep
  <2> QED BY <1>b, <2>1, ReadKept
<1> QED BY <1>1, <1>2

\* The invariant of what a read has delivered is inductive.
LEMMA ReadStep == TypeInv /\ LockInv /\ ReadInv /\ [Next]_vars => ReadInv'
<1> SUFFICES ASSUME TypeInv, LockInv, ReadInv, [Next]_vars PROVE ReadInv'
  OBVIOUS
<1>a. ThreadTypes BY DEF TypeInv, TypeOK
<1>b. Servable(cdread) BY DEF ReadInv
<1> USE DEF At, Goto, locks
<1>1. ASSUME NEW a \in Actors, Executes(a) PROVE ReadInv'
  BY <1>b, <1>1, ExecutesAlone, ExecutesSound, ReadKept
<1>2. ASSUME NEW t \in Threads, ThreadStep(t) \/ ThreadCall(t) PROVE ReadInv'
  BY <1>1, <1>2, ThreadStepSound, ThreadCallSound
<1>3. CASE cdread_Take
  <2>1. /\ OthersKeep(RThread) /\ mem' = mem /\ cdread' = cdread /\ pc'[RThread] = "read"
        /\ rd'[RThread] = [IdleRead EXCEPT !.req = cdread]
    BY <1>a, <1>3 DEF cdread_Take, ThreadTypes, OthersKeep
  <2> QED BY <1>b, <2>1, StartSound
<1>4. CASE cdread_Notify
  <2>1. OthersKeep(RThread) /\ mem' = mem /\ cdread' = cdread /\ pc'[RThread] \notin Reading
    BY <1>a, <1>4 DEF cdread_Notify, ThreadTypes, OthersKeep
  <2> QED BY <1>b, <2>1, ReadKept
<1>5. CASE AccuAlarm \/ event_alarm_cb \/ UNCHANGED vars
  <2>1. UNCHANGED <<pc, rd, mem, searching>>
    BY <1>5 DEF AccuAlarm, event_alarm_cb, vars
  <2>2. Servable(cdread')
    <3>1. CASE cdread' = cdread BY <1>b, <3>1
    <3>2. ASSUME NEW r \in IntrRequests, AsyncReadIntr(r) PROVE Servable(cdread')
      BY <3>2, RequestsServable DEF AsyncReadIntr
    <3> QED BY <1>5, <3>1, <3>2 DEF AccuAlarm, event_alarm_cb, vars
  <2>3. OthersKeep(RThread) BY <2>1 DEF OthersKeep
  <2>4. pc'[RThread] \in Reading => ReadSound(RThread)'
    BY <2>1 DEF ReadInv, ReadSound, ChunkSound, CopiedSound, SectorsAt, Target, R, Servable, Fits
  <2> QED BY <2>1, <2>2, <2>3, <2>4, ReadKept
<1> QED BY <1>1, <1>2, <1>3, <1>4, <1>5 DEF Next, RThreadStep

\* No read is under way at the start.
LEMMA ReadInit == Init => ReadInv
  BY SizeAssumption DEF Init, ReadInv, NullRequest, Servable, Fits

\* All three invariants hold in every reachable state.
LEMMA ReadInvariants == Spec => [](TypeInv /\ LockInv /\ ReadInv)
  BY TypeInit, TypeStep, LockInit, LockStep, ReadInit, ReadStep, PTL DEF Spec

-----------------------------------------------------------------------------
(***************************************************************************)
(* The refinement: every step of the read path is a step of the slot, or   *)
(* none.                                                                   *)
(***************************************************************************)

\* Slot's variables short and data under the mapping.
ShortOf == IF Readers # {} THEN rd[Reader].short ELSE FALSE
DataOf == [b \in Buffers |-> mem[b]]

\* While an actor reads, the slot is its read ...
LEMMA SlotWhileReading ==
  ASSUME OneOwner, NEW a \in Actors, pc[a] \in Reading
  PROVE  SlotOf = rd[a].req /\ PhaseOf = "reading" /\ ShortOf = rd[a].short /\ sync_flag = 1
<1>1. Readers = {a} BY DEF OneOwner, Holds, Readers
<1>2. Reader = a BY <1>1 DEF Reader
<1>3. sync_flag = 1 BY DEF OneOwner, Holds
<1> QED BY <1>1, <1>2, <1>3 DEF SlotOf, PhaseOf, ShortOf

\* ... otherwise it is the request block, if the drive is taken.
LEMMA SlotWithoutReader ==
  ASSUME \A a \in Actors : pc[a] \notin Reading
  PROVE  /\ sync_flag = 0 => SlotOf = Idle /\ PhaseOf = "idle"
         /\ sync_flag = 1 => SlotOf = cdread /\ PhaseOf = "queued"
         /\ ShortOf = FALSE
  BY DEF SlotOf, PhaseOf, ShortOf, Readers

\* An idle drive has no reader.
LEMMA IdleHasNoReader ==
  ASSUME TypeInv, LockInv, sync_flag = 0
  PROVE  \A a \in Actors : pc[a] \notin Reading
  BY DEF LockInv, OneOwner, Holds

\* The same in the state after a step.
LEMMA SlotWhileReadingNext ==
  ASSUME OneOwner', NEW a \in Actors, pc'[a] \in Reading
  PROVE  SlotOf' = rd'[a].req /\ PhaseOf' = "reading" /\ ShortOf' = rd'[a].short /\ sync_flag' = 1
<1>1. Readers' = {a} BY DEF OneOwner, Holds, Readers
<1>2. Reader' = a BY <1>1 DEF Reader
<1>3. sync_flag' = 1 BY DEF OneOwner, Holds
<1> QED BY <1>1, <1>2, <1>3 DEF SlotOf, PhaseOf, ShortOf
\* Without a reader, the slot is the request block's as long as the drive is
\* taken.
LEMMA SlotWithoutReaderNext ==
  ASSUME \A a \in Actors : pc'[a] \notin Reading
  PROVE  /\ sync_flag' = 0 => SlotOf' = Idle /\ PhaseOf' = "idle"
         /\ sync_flag' = 1 => SlotOf' = cdread' /\ PhaseOf' = "queued"
         /\ ShortOf' = FALSE
  BY DEF SlotOf, PhaseOf, ShortOf, Readers

\* A step that leaves the lock, the readers and memory alone leaves the slot
\* alone.
LEMMA SlotStutters ==
  ASSUME UNCHANGED <<sync_flag, cdread, mem>>,
         \A a \in Actors : pc'[a] \in Reading <=> pc[a] \in Reading,
         \A a \in Actors : pc[a] \in Reading => rd'[a] = rd[a]
  PROVE  UNCHANGED <<SlotOf, PhaseOf, ShortOf, DataOf>>
<1>1. Readers' = Readers BY DEF Readers
<1>2. Reader' = Reader BY <1>1 DEF Reader
<1>3. Readers # {} => Reader \in Readers BY DEF Reader
<1>4. Readers # {} => rd'[Reader] = rd[Reader] BY <1>3 DEF Readers
<1> QED BY <1>1, <1>2, <1>4 DEF SlotOf, PhaseOf, ShortOf, DataOf

\* What a transfer or a copy may write: the destination of the read, or the
\* bounce buffer, which no client sees.
LEMMA WritesInRange ==
  ASSUME TypeInv, ReadInv, NEW a \in Actors, Executes(a),
         NEW b \in Buffers, NEW i \in Slots, ~Slot!InRange(rd[a].req, b, i)
  PROVE  mem'[b][i] = mem[b][i]
<1>a. ThreadTypes /\ MemoryTypes BY DEF TypeInv, TypeOK
<1> DEFINE r == rd[a].req
<1>b. /\ rd[a].base \in Nat /\ rd[a].len \in Nat /\ rd[a].pos \in Nat
      /\ r.lsn \in Nat /\ r.sectors \in Nat /\ r.off \in Nat /\ r.buf \in AllBuffers
      /\ r.aligned \in BOOLEAN /\ i \in Nat
  BY <1>a, LocalsTyped, SizeAssumption DEF Slots
<1>c. b # Bounce BY SizeAssumption
<1>1. ASSUME pc[a] = "device",
             NEW n \in Nat, n <= SectorsToRead(a),
             mem' = Written(Target(a), TargetSlot(a), r.lsn + rd[a].base + rd[a].pos, n)
      PROVE  mem'[b][i] = mem[b][i]
  <2>1. ChunkSound(a) BY <1>1 DEF ReadInv, ReadSound
  <2>2. SectorsToRead(a) \in Nat /\ SectorsToRead(a) <= rd[a].len - rd[a].pos
    BY <1>1, SectorsToReadTyped
  <2>3. ~(b = Target(a) /\ TargetSlot(a) <= i /\ i < TargetSlot(a) + n)
    BY <1>b, <1>c, <1>1, <2>1, <2>2 DEF Slot!InRange, Target, TargetSlot, R, ChunkSound
  <2> QED BY <1>a, <1>1, <2>3 DEF Written, MemoryTypes
<1>2. CASE DeviceReadSectors(a)
  <2>1. pc[a] = "device" BY <1>2 DEF DeviceReadSectors, At
  <2>2. SectorsToRead(a) \in Nat BY <2>1, SectorsToReadTyped
  <2> QED BY <1>1, <1>2, <2>1, <2>2 DEF DeviceReadSectors, R
<1>3. CASE DeviceError(a)
  <2>1. pc[a] = "device" BY <1>3 DEF DeviceError, At
  <2>2. SectorsToRead(a) \in Nat BY <2>1, SectorsToReadTyped
  <2>3. PICK n \in 0 .. SectorsToRead(a) - 1 :
          mem' = Written(Target(a), TargetSlot(a), r.lsn + rd[a].base + rd[a].pos, n)
    BY <1>3 DEF DeviceError, R
  <2>4. n \in Nat /\ n <= SectorsToRead(a) BY <2>2
  <2> QED BY <1>1, <2>1, <2>3, <2>4
<1>4. CASE SectorsEnd(a)
  <2>1. ChunkSound(a) BY <1>4 DEF SectorsEnd, At, ReadInv, ReadSound
  <2>2. mem' = mem \/ mem' = Copied(r.buf, r.off + rd[a].base, rd[a].len)
    BY <1>4 DEF SectorsEnd, R
  <2>3. ~(b = r.buf /\ r.off + rd[a].base <= i /\ i < r.off + rd[a].base + rd[a].len)
    BY <1>b, <2>1 DEF Slot!InRange, ChunkSound
  <2> QED BY <1>a, <2>2, <2>3 DEF Copied, MemoryTypes
<1>5. CASE ~DeviceReadSectors(a) /\ ~DeviceError(a) /\ ~SectorsEnd(a)
  BY <1>5 DEF Executes, ReadBegin, BounceTake, BounceChunk, SectorsBegin, SectorsLoop, AccuWait,
       ReadEnd, ReleaseDrive, SetDoneEvent
<1> QED BY <1>2, <1>3, <1>4, <1>5

\* A step inside cdvdman_read transfers, or finishes with everything in place.
LEMMA ExecutesImplements ==
  ASSUME TypeInv, LockInv, ReadInv, LockInv', NEW a \in Actors, Executes(a)
  PROVE  [Slot!SlotNext]_Slot!svars
<1>a. ThreadTypes /\ OneOwner /\ OneOwner' BY DEF TypeInv, TypeOK, LockInv
<1> USE DEF At, Goto, R, locks
<1>1. CASE ReleaseDrive(a)
  <2>1. /\ pc[a] = "release" /\ sync_flag' = 0 /\ mem' = mem /\ pc'[a] \notin Reading
        /\ \A b \in Actors : b # a => pc'[b] = pc[b]
    BY <1>a, <1>1 DEF ReleaseDrive, ThreadTypes
  <2>2. SlotOf = rd[a].req /\ PhaseOf = "reading" /\ ShortOf = rd[a].short
    BY <1>a, <2>1, SlotWhileReading
  <2>3. \A b \in Actors : pc'[b] \notin Reading
    BY <1>a, <2>1 DEF OneOwner, Holds
  <2>4. SlotOf' = Idle /\ PhaseOf' = "idle" /\ ShortOf' = FALSE
    BY <2>1, <2>3, SlotWithoutReaderNext
  <2>5. ReadSound(a) BY <2>1 DEF ReadInv
  <2>6. ~ShortOf => Slot!InPlace(SlotOf)
    BY <2>1, <2>2, <2>5 DEF Slot!InPlace, ReadSound, SectorsAt
  <2>7. DataOf' = DataOf BY <2>1 DEF DataOf
  <2>8. Slot!Finish BY <2>2, <2>4, <2>6, <2>7 DEF Slot!Finish, ShortOf, DataOf
  <2> QED BY <2>8 DEF Slot!SlotNext
<1>2. CASE ~ReleaseDrive(a) /\ pc[a] \in Reading
  <2>1. Quiet BY <1>2, ExecutesQuiet
  <2>2. pc'[a] \in Reading /\ rd'[a].req = rd[a].req BY <1>2, <2>1 DEF Quiet
  <2>3. SlotOf = rd[a].req /\ PhaseOf = "reading" /\ ShortOf = rd[a].short
    BY <1>a, <1>2, SlotWhileReading
  <2>4. SlotOf' = rd'[a].req /\ PhaseOf' = "reading" /\ ShortOf' = rd'[a].short
    BY <1>a, <2>2, SlotWhileReadingNext
  <2>5. rd'[a].short \in {rd[a].short, TRUE}
    <3>1. CASE SectorsLoop(a)
      <4>1. CASE rd' = rd BY <4>1
      <4>2. CASE rd' # rd
        <5> DEFINE cut == rd[a].short \/ rd[a].pos < rd[a].len
        <5>1. rd' = [rd EXCEPT ![a].short = cut] BY <3>1, <4>2, Zenon DEF SectorsLoop
        <5>2. rd'[a].short = cut
          <6> HIDE DEF cut
          <6> QED BY <1>a, <5>1 DEF ThreadTypes, ReadLocals
        <5>3. rd[a].short \in BOOLEAN BY <1>a, LocalsTyped
        <5>4. cut \in {rd[a].short, TRUE} BY <5>3
        <5> QED BY <5>2, <5>4, Zenon
      <4> QED BY <4>1, <4>2
    <3>2. CASE ~SectorsLoop(a)
      <4>1. CASE ReadBegin(a) BY <1>a, <4>1 DEF ReadBegin, ThreadTypes, ReadLocals
      <4>2. CASE BounceChunk(a)
        <5>1. rd'[a].short = rd[a].short BY <1>a, <4>2 DEF BounceChunk, ThreadTypes, ReadLocals
        <5> QED BY <5>1
      <4>3. CASE DeviceReadSectors(a)
        <5>1. rd'[a].short = rd[a].short BY <1>a, <4>3 DEF DeviceReadSectors, ThreadTypes, ReadLocals
        <5> QED BY <5>1
      <4>4. CASE DeviceError(a) BY <1>a, <4>4 DEF DeviceError, ThreadTypes, ReadLocals
      <4>5. CASE SectorsEnd(a)
        <5>1. rd'[a].short = rd[a].short BY <1>a, <4>5 DEF SectorsEnd, ThreadTypes, ReadLocals
        <5> QED BY <5>1
      <4>6. CASE BounceTake(a) \/ SectorsBegin(a) \/ AccuWait(a) \/ ReadEnd(a) \/ SetDoneEvent(a)
        BY <4>6 DEF BounceTake, SectorsBegin, AccuWait, ReadEnd, SetDoneEvent
      <4> QED BY <1>2, <3>2, <4>1, <4>2, <4>3, <4>4, <4>5, <4>6 DEF Executes
    <3> QED BY <3>1, <3>2
  <2>6. \A b \in Buffers : \A i \in Slots :
          ~Slot!InRange(SlotOf, b, i) => DataOf'[b][i] = DataOf[b][i]
    BY <2>3, WritesInRange DEF DataOf
  <2>7. Slot!Transfer BY <2>2, <2>3, <2>4, <2>5, <2>6 DEF Slot!Transfer, ShortOf, DataOf
  <2> QED BY <2>7 DEF Slot!SlotNext
<1>3. CASE ~ReleaseDrive(a) /\ pc[a] \notin Reading
  <2>1. SetDoneEvent(a)
    BY <1>3 DEF Executes, ReadBegin, BounceTake, BounceChunk, SectorsBegin, SectorsLoop,
         DeviceReadSectors, DeviceError, AccuWait, SectorsEnd, ReadEnd, ReleaseDrive
  <2>2. Quiet BY <1>3, ExecutesQuiet
  <2>3. UNCHANGED <<SlotOf, PhaseOf, ShortOf, DataOf>>
    BY <2>1, <2>2, SlotStutters DEF SetDoneEvent, Quiet
  <2> QED BY <2>3 DEF Slot!svars, ShortOf, DataOf
<1> QED BY <1>1, <1>2, <1>3

\* cdvdman_common_lock accepts a request into the free slot.
LEMMA ReadLockImplements ==
  ASSUME TypeInv, LockInv, LockInv', NEW t \in Threads, NEW r \in Request, ReadLock(t, r), mem' = mem
  PROVE  Slot!Accept
<1>a. ThreadTypes /\ OneOwner' BY DEF TypeInv, TypeOK, LockInv
<1> USE DEF ReadLock, SyncReadLock, AsyncReadLock, cdvdman_common_lock, Goto
<1>1. sync_flag = 0 /\ sync_flag' = 1 OBVIOUS
<1>2. \A a \in Actors : pc[a] \notin Reading BY <1>1, IdleHasNoReader
<1>3. PhaseOf = "idle" BY <1>1, <1>2, SlotWithoutReader
<1>4. DataOf' = DataOf BY DEF DataOf
<1>5. CASE alt_read
  <2>1. pc'[t] \in Reading /\ rd'[t] = [IdleRead EXCEPT !.req = r] BY <1>a, <1>5 DEF ThreadTypes
  <2>2. rd'[t].req = r /\ rd'[t].short = FALSE BY <2>1 DEF IdleRead
  <2>3. SlotOf' = r /\ PhaseOf' = "reading" /\ ShortOf' = FALSE
    BY <1>a, <2>1, <2>2, SlotWhileReadingNext
  <2> QED BY <1>3, <1>4, <2>3 DEF Slot!Accept, ShortOf, DataOf
<1>6. CASE ~alt_read
  <2>1. \A a \in Actors : pc'[a] \notin Reading BY <1>a, <1>2, <1>6 DEF ThreadTypes
  <2>2. cdread' = r BY <1>6
  <2>3. SlotOf' = r /\ PhaseOf' = "queued" /\ ShortOf' = FALSE
    BY <1>1, <2>1, <2>2, SlotWithoutReaderNext
  <2> QED BY <1>3, <1>4, <2>3 DEF Slot!Accept, ShortOf, DataOf
<1> QED BY <1>5, <1>6

\* The other steps of a client accept a request or leave the slot alone.
LEMMA ClientImplements ==
  ASSUME TypeInv, LockInv, ReadInv, LockInv', NEW t \in Threads,
         (ThreadStep(t) /\ ~Executes(t)) \/ ThreadCall(t)
  PROVE  [Slot!SlotNext]_Slot!svars
<1>a. ThreadTypes BY DEF TypeInv, TypeOK
<1> USE DEF At, Goto, locks
<1>1. ASSUME NEW r \in Request, ReadLock(t, r), mem' = mem PROVE Slot!SlotNext
  BY <1>1, ReadLockImplements DEF Slot!SlotNext
<1>2. ASSUME UNCHANGED <<sync_flag, cdread, mem, rd>>,
             \A a \in Actors : pc'[a] \in Reading <=> pc[a] \in Reading
      PROVE  UNCHANGED Slot!svars
  BY <1>2, SlotStutters DEF Slot!svars, ShortOf, DataOf
<1>3. CASE sceCdRead(t) BY <1>1, <1>3, RequestAssumption DEF sceCdRead
<1>4. CASE SearchRead(t)
  <2>1. CASE \E l \in DirSectors : ReadLock(t, DirRequest(l))
    BY <1>1, <1>4, <2>1, RequestsServable DEF SearchRead
  <2>2. CASE Goto(t, "sfend") /\ UNCHANGED <<sync_flag, cdread, rd>>
    <3>1. \A a \in Actors : pc'[a] \in Reading <=> pc[a] \in Reading
      BY <1>a, <1>4, <2>2 DEF SearchRead, ThreadTypes
    <3> QED BY <1>2, <1>4, <2>2, <3>1 DEF SearchRead
  <2> QED BY <1>4, <2>1, <2>2 DEF SearchRead
<1>5. CASE ThreadStep(t) /\ ~Executes(t) /\ ~SearchRead(t)
  <2>1. UNCHANGED <<sync_flag, cdread, mem, rd>>
    BY <1>5 DEF ThreadStep, AsyncReadSignal, SyncReadEvent, SyncTest, SyncWake, DriveEvent,
         SearchTake, SearchParse, SearchEnd
  <2>2. \A a \in Actors : pc'[a] \in Reading <=> pc[a] \in Reading
    BY <1>a, <1>5 DEF ThreadStep, AsyncReadSignal, SyncReadEvent, SyncTest, SyncWake, DriveEvent,
         SearchTake, SearchParse, SearchEnd, ThreadTypes
  <2> QED BY <1>2, <2>1, <2>2
<1>6. CASE ThreadCall(t) /\ ~sceCdRead(t)
  <2>1. UNCHANGED <<sync_flag, cdread, mem, rd>>
    BY <1>6 DEF ThreadCall, sceCdSync, sceCdDiskReady, sceCdCallback, SearchCall, DriveCommand,
         SetError
  <2>2. \A a \in Actors : pc'[a] \in Reading <=> pc[a] \in Reading
    BY <1>6, ThreadCallQuiet DEF Quiet
  <2> QED BY <1>2, <2>1, <2>2
<1> QED BY <1>3, <1>4, <1>5, <1>6

\* Every step of the read path is a step of the slot or leaves it alone.
LEMMA NextImplements ==
  TypeInv /\ LockInv /\ ReadInv /\ LockInv' /\ [Next]_vars => [Slot!SlotNext]_Slot!svars
<1> SUFFICES ASSUME TypeInv, LockInv, ReadInv, LockInv', [Next]_vars
             PROVE  [Slot!SlotNext]_Slot!svars
  OBVIOUS
<1>a. ThreadTypes /\ LockTypes /\ OneOwner /\ OneOwner' BY DEF TypeInv, TypeOK, LockInv
<1> USE DEF At, Goto, locks
<1>1. ASSUME NEW a \in Actors, Executes(a) PROVE [Slot!SlotNext]_Slot!svars
  BY <1>1, ExecutesImplements
<1>2. ASSUME NEW t \in Threads, ThreadStep(t) \/ ThreadCall(t) PROVE [Slot!SlotNext]_Slot!svars
  BY <1>1, <1>2, ClientImplements
<1>3. CASE cdread_Take
  <2>1. /\ rthread_sema = 1 /\ sync_flag' = sync_flag /\ mem' = mem
        /\ pc'[RThread] = "read" /\ rd'[RThread] = [IdleRead EXCEPT !.req = cdread]
    BY <1>a, <1>3 DEF cdread_Take, ThreadTypes
  <2>2. sync_flag = 1 /\ \A a \in Actors : pc[a] \notin Reading
    BY <1>a, <2>1 DEF OneOwner, Holds
  <2>3. SlotOf = cdread /\ PhaseOf = "queued" /\ ShortOf = FALSE
    BY <2>2, SlotWithoutReader
  <2>4. rd'[RThread].req = cdread /\ rd'[RThread].short = FALSE BY <2>1 DEF IdleRead
  <2>5. SlotOf' = cdread /\ PhaseOf' = "reading" /\ ShortOf' = FALSE
    BY <1>a, <2>1, <2>4, SlotWhileReadingNext
  <2>6. DataOf' = DataOf BY <2>1 DEF DataOf
  <2>7. Slot!Start BY <2>3, <2>5, <2>6 DEF Slot!Start, ShortOf, DataOf
  <2> QED BY <2>7 DEF Slot!SlotNext
<1>4. CASE event_alarm_cb /\ \E r \in IntrRequests : AsyncReadIntr(r)
  <2>1. PICK r \in IntrRequests : AsyncReadIntr(r) BY <1>4
  <2>2. /\ sync_flag = 0 /\ sync_flag' = 1 /\ cdread' = r /\ UNCHANGED <<pc, rd, mem>>
    BY <1>4, <2>1 DEF event_alarm_cb, AsyncReadIntr, cdvdman_common_lock
  <2>3. \A a \in Actors : pc[a] \notin Reading BY <2>2, IdleHasNoReader
  <2>4. PhaseOf = "idle" BY <2>2, <2>3, SlotWithoutReader
  <2>5. SlotOf' = r /\ PhaseOf' = "queued" /\ ShortOf' = FALSE
    BY <2>2, <2>3, SlotWithoutReaderNext
  <2>6. r \in Request /\ DataOf' = DataOf BY <2>2, RequestAssumption DEF DataOf
  <2>7. Slot!Accept BY <2>4, <2>5, <2>6 DEF Slot!Accept, ShortOf, DataOf
  <2> QED BY <2>7 DEF Slot!SlotNext
<1>5. CASE cdread_Notify \/ AccuAlarm \/ UNCHANGED vars \/ (event_alarm_cb /\ UNCHANGED <<locks, hist>>)
  <2>1. UNCHANGED <<sync_flag, cdread, mem, rd>>
    BY <1>5 DEF cdread_Notify, AccuAlarm, event_alarm_cb, vars
  <2>2. \A a \in Actors : pc'[a] \in Reading <=> pc[a] \in Reading
    BY <1>a, <1>5 DEF cdread_Notify, AccuAlarm, event_alarm_cb, vars, ThreadTypes
  <2>3. UNCHANGED <<SlotOf, PhaseOf, ShortOf, DataOf>> BY <2>1, <2>2, SlotStutters
  <2> QED BY <2>3 DEF Slot!svars, ShortOf, DataOf
<1> QED BY <1>1, <1>2, <1>3, <1>4, <1>5 DEF Next, RThreadStep, event_alarm_cb

\* The drive is idle at the start.
LEMMA InitImplements == Init => Slot!SlotInit
<1> SUFFICES ASSUME Init PROVE Slot!SlotInit OBVIOUS
<1>1. sync_flag = 0 /\ \A a \in Actors : pc[a] \notin Reading BY DEF Init
<1>2. SlotOf = Idle /\ PhaseOf = "idle" /\ ShortOf = FALSE BY <1>1, SlotWithoutReader
<1>3. DataOf \in [Buffers -> [Slots -> Int]] BY TypeInit DEF TypeInv, TypeOK, MemoryTypes, DataOf
<1> QED BY <1>2, <1>3 DEF Slot!SlotInit, ShortOf, DataOf

\* The read path of cdvdman.c implements the one-slot read service: while a
\* read is served, nothing but its destination changes, and a read that was
\* not cut short leaves the slot with every sector in place, whoever runs it
\* and however it was chunked.
THEOREM ReadPathImplementsReadSlot == Spec => ImplementsReadSlot
<1>1. LockInv /\ TypeInv /\ ReadInv /\ [Next]_vars /\ (LockInv /\ TypeInv /\ ReadInv)'
        => [Slot!SlotNext]_Slot!svars
  BY NextImplements
<1> QED BY <1>1, InitImplements, ReadInvariants, PTL DEF Spec, ImplementsReadSlot, Slot!SlotSpec
-----------------------------------------------------------------------------
(***************************************************************************)
(* What a client can rely on after its read: its sectors stay in place     *)
(* until it reads again, and a read cut short has left an error behind.    *)
(* Each of the two rests on what the clients do, which is stated as a      *)
(* hypothesis.                                                             *)
(***************************************************************************)

\* Whose read the drive is taken for, and what that read was asked for.
OwnedRead ==
  /\ sync_flag = 0 <=> owner = NoOwner
  /\ owner # RThread
  /\ \A t \in Threads : pc[t] \in Reading => owner = t
  /\ \A a \in Actors : pc[a] \in Reading =>
       /\ owner \in Threads => rd[a].req = arg[owner]
       /\ owner = Intr => rd[a].req \in IntrRequests
  /\ rthread_sema = 1 /\ owner = Intr => cdread \in IntrRequests

\* Quiet steps keep it: they change neither the owner nor any request.
LEMMA QuietKeepsOwnedRead ==
  ASSUME OwnedRead, Quiet
  PROVE  OwnedRead'
  BY DEF OwnedRead, Quiet

\* Taking the drive ...
LEMMA ReadLockKeepsOwnedRead ==
  ASSUME TypeInv, LockInv, OwnedRead, NEW t \in Threads, NEW r \in Request, ReadLock(t, r)
  PROVE  OwnedRead'
<1>a. ThreadTypes /\ t # RThread /\ t # NoOwner /\ t # Intr BY ActorAssumption DEF TypeInv, TypeOK
<1>b. sync_flag = 0 /\ sync_flag' = 1 /\ owner' = t
  BY DEF ReadLock, SyncReadLock, AsyncReadLock, cdvdman_common_lock
<1>c. \A a \in Actors : pc[a] \notin Reading BY <1>b, IdleHasNoReader
<1>d. \A a \in Actors : pc'[a] \in Reading => a = t /\ rd'[t].req = r
  BY <1>a, <1>c DEF ThreadTypes, ReadLock, SyncReadLock, AsyncReadLock, Goto, IdleRead
<1>e. arg'[t] = r BY <1>a DEF ThreadTypes, ReadLock, SyncReadLock, AsyncReadLock
<1> QED BY <1>a, <1>b, <1>d, <1>e DEF OwnedRead

\* ... giving it back ...
LEMMA ReleaseKeepsOwnedRead ==
  ASSUME TypeInv, LockInv, NEW a \in Actors, ReleaseDrive(a)
  PROVE  OwnedRead'
<1>a. ThreadTypes /\ NoOwner \notin Actors \cup {Intr} BY ActorAssumption DEF TypeInv, TypeOK
<1>b. pc[a] = "release" /\ sync_flag' = 0 /\ owner' = NoOwner BY DEF ReleaseDrive, At
<1>c. \A b \in Actors : pc[b] \in Reading => b = a BY <1>b DEF LockInv, OneOwner, Holds
<1>d. \A b \in Actors : pc'[b] \notin Reading BY <1>a, <1>c DEF ThreadTypes, ReleaseDrive, Goto
<1> QED BY <1>a, <1>b, <1>d DEF OwnedRead

\* ... and passing it to the read thread keep it too.
LEMMA OwnedStep == TypeInv /\ LockInv /\ OwnedRead /\ [Next]_vars => OwnedRead'
<1> SUFFICES ASSUME TypeInv, LockInv, OwnedRead, [Next]_vars PROVE OwnedRead'
  OBVIOUS
<1>a. ThreadTypes /\ LockTypes BY DEF TypeInv, TypeOK
<1>1. ASSUME NEW a \in Actors, Executes(a) PROVE OwnedRead'
  BY <1>1, ExecutesQuiet, QuietKeepsOwnedRead, ReleaseKeepsOwnedRead
<1>2. ASSUME NEW t \in Threads, SearchRead(t) PROVE OwnedRead'
  <2>1. ASSUME NEW l \in DirSectors, ReadLock(t, DirRequest(l)) PROVE OwnedRead'
    BY <2>1, RequestsServable, ReadLockKeepsOwnedRead
  <2>2. CASE sync_flag = 1 /\ Goto(t, "sfend") /\ UNCHANGED <<sync_flag, intr_ef, cdread, arg,
       rd, hist>>
    <3>1. Quiet BY <1>2, <1>a, <2>2 DEF SearchRead, At, Goto, hist, Quiet, ThreadTypes
    <3> QED BY <3>1, QuietKeepsOwnedRead
  <2> QED BY <1>2, <2>1, <2>2 DEF SearchRead
<1>3. ASSUME NEW t \in Threads, AsyncReadSignal(t) PROVE OwnedRead'
  <2>1. /\ pc[t] = "signal" /\ UNCHANGED <<sync_flag, cdread, arg, rd, owner>>
        /\ \A b \in Actors : pc'[b] \in Reading => pc[b] \in Reading
    BY <1>a, <1>3 DEF AsyncReadSignal, At, Goto, hist, ThreadTypes
  <2>2. owner = t BY <2>1 DEF LockInv, SignalOwned
  <2> QED BY <2>1, <2>2, ActorAssumption DEF OwnedRead
<1>4. ASSUME NEW t \in Threads, ThreadStep(t) PROVE OwnedRead'
  BY <1>1, <1>2, <1>3, <1>4, ThreadStepQuiet, QuietKeepsOwnedRead
<1>5. ASSUME NEW t \in Threads, ThreadCall(t) PROVE OwnedRead'
  <2>1. CASE sceCdRead(t)
    BY <2>1, RequestAssumption, ReadLockKeepsOwnedRead DEF sceCdRead
  <2> QED BY <1>5, <2>1, ThreadCallQuiet, QuietKeepsOwnedRead
<1>6. CASE cdread_Take
  <2>1. /\ rthread_sema = 1 /\ rthread_sema' = 0 /\ UNCHANGED <<sync_flag, cdread, arg, owner>>
        /\ rd'[RThread].req = cdread
        /\ \A b \in Actors : b # RThread => pc'[b] = pc[b]
    BY <1>a, <1>6 DEF cdread_Take, At, Goto, hist, ThreadTypes, IdleRead
  <2>2. \A b \in Actors : pc[b] \notin Reading BY <2>1 DEF LockInv, OneOwner, Holds
  <2>3. \A b \in Actors : pc'[b] \in Reading => b = RThread BY <2>1, <2>2
  <2>4. owner \in Threads => cdread = arg[owner] BY <2>1 DEF LockInv, RequestKept
  <2> QED BY <2>1, <2>3, <2>4, ActorAssumption DEF OwnedRead
<1>7. CASE event_alarm_cb /\ \E r \in IntrRequests : AsyncReadIntr(r)
  <2>1. /\ sync_flag = 0 /\ sync_flag' = 1 /\ owner' = Intr /\ cdread' \in IntrRequests
        /\ UNCHANGED <<pc, rd>>
    BY <1>7 DEF event_alarm_cb, AsyncReadIntr, cdvdman_common_lock
  <2>2. \A b \in Actors : pc'[b] \notin Reading BY <2>1, IdleHasNoReader
  <2> QED BY <2>1, <2>2, ActorAssumption DEF OwnedRead
<1>8. CASE cdread_Notify \/ AccuAlarm \/ UNCHANGED vars \/ (event_alarm_cb /\ UNCHANGED <<locks, hist>>)
  <2>1. Quiet
    BY <1>a, <1>8 DEF cdread_Notify, AccuAlarm, event_alarm_cb, vars, At, Goto, locks, hist, Quiet, ThreadTypes
  <2> QED BY <2>1, QuietKeepsOwnedRead
<1> QED BY <1>1, <1>4, <1>5, <1>6, <1>7, <1>8 DEF Next, RThreadStep, event_alarm_cb

-----------------------------------------------------------------------------

\* A directory sector cdvdman_locatefile reads into the bounce buffer.
IsDirRequest(r) == \E l \in DirSectors : r = DirRequest(l)

\* Where a thread is from the start of a directory read of its own to its end.
InDirRead == Reading \cup {"signal", "syncwait", "waitef"}

\* The read a thread has under way or has finished is one it may ask for, or
\* a directory sector of the search it is still in; and while the read is
\* under way it is not yet counted as over.
ReadOfThread(t) ==
  \/ arg[t] \in Requests(t)
  \/ IsDirRequest(arg[t]) /\ t \in searching /\ (owner = t => pc[t] \in InDirRead)
OutcomeInv ==
  \A t \in Threads :
    /\ owner = t => outcome[t] \in {"pending", "none"}
    /\ owner = t \/ outcome[t] = "ok" => ReadOfThread(t)

\* A step of actor a that takes no drive keeps it, unless it leaves a
\* directory read under way or the search it belongs to.
LEMMA OutcomeKept ==
  ASSUME OutcomeInv, NEW a \in Actors, OthersKeep(a), arg' = arg, owner' \in {owner, NoOwner},
         \A t \in Threads : outcome'[t] \in {outcome[t], "none"},
         owner' = a /\ pc[a] \in InDirRead => pc'[a] \in InDirRead,
         (owner' = a /\ pc[a] \in InDirRead) \/ (a \in Threads /\ outcome'[a] = "ok")
           => (a \in searching => a \in searching')
  PROVE  OutcomeInv'
<1> SUFFICES ASSUME NEW t \in Threads
             PROVE  /\ owner' = t => outcome'[t] \in {"pending", "none"}
                    /\ owner' = t \/ outcome'[t] = "ok" => ReadOfThread(t)'
  BY DEF OutcomeInv
<1>a. NoOwner \notin Threads BY ActorAssumption
<1>1. owner' = t => outcome'[t] \in {"pending", "none"} BY <1>a DEF OutcomeInv
<1>2. ASSUME owner' = t \/ outcome'[t] = "ok" PROVE ReadOfThread(t)'
  <2>1. owner = t \/ outcome[t] = "ok" BY <1>a, <1>2
  <2>2. ReadOfThread(t) BY <2>1 DEF OutcomeInv
  <2>3. CASE t # a BY <1>a, <2>2, <2>3 DEF OthersKeep, ReadOfThread, IsDirRequest
  <2>4. CASE t = a
    <3>1. CASE arg[t] \in Requests(t) BY <3>1 DEF ReadOfThread
    <3>2. CASE IsDirRequest(arg[t]) /\ t \in searching /\ (owner = t => pc[t] \in InDirRead)
      <4>1. IsDirRequest(arg[t])' BY <3>2 DEF IsDirRequest
      <4>2. owner' = t => owner = t BY <1>a
      <4>3. t \in searching'
        <5>1. CASE owner' = t BY <2>4, <3>2, <4>2, <5>1
        <5>2. CASE outcome'[t] = "ok" BY <2>4, <3>2, <5>2
        <5> QED BY <1>2, <5>1, <5>2
      <4>4. owner' = t => pc'[t] \in InDirRead BY <2>4, <3>2, <4>2
      <4> QED BY <4>1, <4>3, <4>4 DEF ReadOfThread, InDirRead
    <3> QED BY <2>2, <3>1, <3>2 DEF ReadOfThread
  <2> QED BY <2>3, <2>4
<1> QED BY <1>1, <1>2

\* Every step keeps it: a directory read is over when its thread goes on
\* with the search, and the search's outcome is forgotten at its end.
LEMMA OutcomeStep ==
  TypeInv /\ LockInv /\ BounceInv /\ OwnedRead /\ OutcomeInv /\ [Next]_vars => OutcomeInv'
<1> SUFFICES ASSUME TypeInv, LockInv, BounceInv, OwnedRead, OutcomeInv, [Next]_vars
             PROVE  OutcomeInv'
  OBVIOUS
<1>a. ThreadTypes /\ LockTypes /\ HistoryTypes BY DEF TypeInv, TypeOK
<1>b. NoOwner \notin Actors /\ Intr \notin Actors /\ NoOwner # Intr /\ RThread \notin Threads
  BY ActorAssumption
<1>c. owner # RThread BY DEF OwnedRead
<1> USE DEF At, Goto, locks, hist, InDirRead
<1>1. ASSUME NEW a \in Actors, Executes(a) PROVE OutcomeInv'
  <2>1. OthersKeep(a) BY <1>1, ExecutesAlone
  <2>2. CASE ReleaseDrive(a)
    <3>1. /\ pc[a] = "release" /\ owner' = NoOwner /\ arg' = arg /\ searching' = searching
          /\ outcome' = [t \in Threads |-> IF t # owner THEN outcome[t]
                                           ELSE IF rd[a].short THEN "short" ELSE "ok"]
      BY <2>2 DEF ReleaseDrive, R
    <3> SUFFICES ASSUME NEW t \in Threads, outcome'[t] = "ok" PROVE ReadOfThread(t)'
      BY <1>b, <3>1 DEF OutcomeInv
    <3>2. owner = t \/ outcome[t] = "ok" BY <3>1
    <3>3. ReadOfThread(t) BY <3>2 DEF OutcomeInv
    <3> QED BY <1>b, <3>1, <3>3 DEF ReadOfThread, IsDirRequest
  <2>3. CASE ~ReleaseDrive(a)
    <3>1. arg' = arg /\ owner' = owner /\ searching' = searching /\ outcome' = outcome
      BY <1>1, <2>3 DEF Executes, ReadBegin, BounceTake, BounceChunk, SectorsBegin, SectorsLoop,
           DeviceReadSectors, DeviceError, AccuWait, SectorsEnd, ReadEnd, SetDoneEvent
    <3>2. pc[a] \in InDirRead => pc[a] \in Reading
      BY <1>1 DEF Executes, ReadBegin, BounceTake, BounceChunk, SectorsBegin, SectorsLoop,
           DeviceReadSectors, DeviceError, AccuWait, SectorsEnd, ReadEnd, ReleaseDrive, SetDoneEvent
    <3>3. Quiet BY <1>1, <2>3, ExecutesQuiet
    <3>4. pc[a] \in InDirRead => pc'[a] \in InDirRead BY <3>2, <3>3 DEF Quiet
    <3> QED BY <2>1, <3>1, <3>4, OutcomeKept
  <2> QED BY <2>2, <2>3
<1>2. ASSUME NEW t \in Threads, NEW r \in Request, ReadLock(t, r), searching' = searching,
             r \in Requests(t) \/ (IsDirRequest(r) /\ t \in searching)
      PROVE  OutcomeInv'
  <2>1. /\ sync_flag = 0 /\ owner' = t /\ arg' = [arg EXCEPT ![t] = r]
        /\ outcome' = [u \in Threads |-> IF u = t THEN "pending" ELSE outcome[u]]
        /\ pc' = [pc EXCEPT ![t] = IF alt_read THEN "read" ELSE "signal"]
    BY <1>2, <1>a DEF ReadLock, SyncReadLock, AsyncReadLock, cdvdman_common_lock
  <2> SUFFICES ASSUME NEW u \in Threads
               PROVE  /\ owner' = u => outcome'[u] \in {"pending", "none"}
                      /\ owner' = u \/ outcome'[u] = "ok" => ReadOfThread(u)'
    BY DEF OutcomeInv
  <2>2. CASE u = t
    <3>1. arg'[u] = r /\ outcome'[u] = "pending" /\ pc'[u] \in {"read", "signal"}
      BY <1>a, <2>1, <2>2 DEF ThreadTypes
    <3> QED BY <1>2, <2>2, <3>1 DEF ReadOfThread, IsDirRequest
  <2>3. CASE u # t
    <3>1. arg'[u] = arg[u] /\ outcome'[u] = outcome[u] /\ owner' # u /\ pc'[u] = pc[u]
      BY <1>a, <2>1, <2>3 DEF ThreadTypes
    <3>2. outcome[u] = "ok" => ReadOfThread(u) BY DEF OutcomeInv
    <3> QED BY <1>2, <3>1, <3>2 DEF ReadOfThread, IsDirRequest
  <2> QED BY <2>2, <2>3
<1>3. ASSUME NEW t \in Threads, SearchRead(t) PROVE OutcomeInv'
  <2>1. ASSUME NEW l \in DirSectors, ReadLock(t, DirRequest(l)) PROVE OutcomeInv'
    <3>1. IsDirRequest(DirRequest(l)) BY DEF IsDirRequest
    <3>2. t \in searching /\ searching' = searching
      BY <1>3 DEF SearchRead, BounceInv, BouncePlace
    <3> QED BY <1>2, <2>1, <3>1, <3>2, RequestsServable
  <2>2. CASE Goto(t, "sfend") /\ UNCHANGED <<cdread, arg, rd, hist>>
    <3>1. OthersKeep(t) /\ pc[t] = "sfread" /\ arg' = arg /\ owner' = owner /\ outcome' = outcome
          /\ searching' = searching
      BY <1>a, <1>3, <2>2 DEF SearchRead, ThreadTypes, OthersKeep
    <3> QED BY <3>1, OutcomeKept
  <2> QED BY <1>3, <2>1, <2>2 DEF SearchRead
<1>4. ASSUME NEW t \in Threads, ThreadStep(t), ~Executes(t), ~SearchRead(t) PROVE OutcomeInv'
  <2>1. /\ OthersKeep(t) /\ arg' = arg /\ owner' = owner
        /\ ~SearchEnd(t) => outcome' = outcome /\ (t \in searching => t \in searching')
    BY <1>a, <1>4 DEF ThreadStep, AsyncReadSignal, SyncReadEvent, SyncTest, SyncWake, DriveEvent,
         SearchTake, SearchParse, SearchEnd, ThreadTypes, OthersKeep
  <2>2. CASE SearchEnd(t)
    <3>1. pc[t] = "sfend" /\ outcome' = [outcome EXCEPT ![t] = "none"] BY <2>2 DEF SearchEnd
    <3>2. outcome'[t] = "none" /\ \A u \in Threads : outcome'[u] \in {outcome[u], "none"}
      BY <1>a, <3>1 DEF HistoryTypes
    <3> QED BY <2>1, <3>1, <3>2, OutcomeKept
  <2>3. CASE ~SearchEnd(t)
    <3>1. owner = t /\ pc[t] \in InDirRead => pc'[t] \in InDirRead \/ t \notin searching
      <4>1. owner = t => sync_flag # 0 /\ owner # NoOwner BY <1>b DEF OwnedRead
      <4>2. owner = t => sync_flag = 1 BY <1>a, <4>1 DEF LockTypes
      <4> QED BY <1>a, <1>4, <2>3, <4>2 DEF ThreadStep, AsyncReadSignal, SyncReadEvent, SyncTest,
           SyncWake, DriveEvent, SearchTake, SearchParse, ThreadTypes
    <3>2. CASE t \in searching BY <2>1, <2>3, <3>1, <3>2, OutcomeKept
    <3>3. CASE t \notin searching
      <4>1. ASSUME NEW u \in Threads, owner' = u \/ outcome'[u] = "ok" PROVE ReadOfThread(u)'
        <5>1. ReadOfThread(u) BY <2>1, <2>3, <4>1 DEF OutcomeInv
        <5> QED BY <2>1, <3>3, <5>1 DEF ReadOfThread, IsDirRequest, OthersKeep
      <4> QED BY <2>1, <2>3, <4>1 DEF OutcomeInv
    <3> QED BY <3>2, <3>3
  <2> QED BY <2>2, <2>3
<1>5. ASSUME NEW t \in Threads, ThreadCall(t) PROVE OutcomeInv'
  <2>1. CASE sceCdRead(t) BY <1>2, <2>1, RequestAssumption DEF sceCdRead
  <2>2. CASE ~sceCdRead(t)
    <3>1. /\ OthersKeep(t) /\ pc[t] = "ready" /\ arg' = arg /\ owner' = owner /\ outcome' = outcome
          /\ searching' = searching
      BY <1>a, <1>5, <2>2 DEF ThreadCall, sceCdSync, sceCdDiskReady, sceCdCallback, SearchCall,
           DriveCommand, SetError, ThreadTypes, OthersKeep
    <3> QED BY <3>1, OutcomeKept
  <2> QED BY <2>1, <2>2
<1>6. CASE cdread_Take \/ cdread_Notify
  <2>1. /\ OthersKeep(RThread) /\ arg' = arg /\ owner' = owner /\ outcome' = outcome
        /\ searching' = searching
    BY <1>a, <1>6 DEF cdread_Take, cdread_Notify, ThreadTypes, OthersKeep
  <2> QED BY <1>b, <1>c, <2>1, OutcomeKept
<1>7. CASE AccuAlarm \/ event_alarm_cb \/ UNCHANGED vars
  <2>1. UNCHANGED <<pc, arg, searching>> BY <1>7 DEF AccuAlarm, event_alarm_cb, vars
  <2>2. /\ \A t \in Threads : outcome'[t] = outcome[t]
        /\ owner' \in {owner, Intr}
    BY <1>a, <1>b, <1>7 DEF AccuAlarm, event_alarm_cb, AsyncReadIntr, cdvdman_common_lock, vars,
         HistoryTypes
  <2> SUFFICES ASSUME NEW t \in Threads
               PROVE  /\ owner' = t => outcome'[t] \in {"pending", "none"}
                      /\ owner' = t \/ outcome'[t] = "ok" => ReadOfThread(t)'
    BY DEF OutcomeInv
  <2>3. owner' = t => owner = t BY <1>b, <2>2
  <2> QED BY <2>1, <2>2, <2>3 DEF OutcomeInv, ReadOfThread, IsDirRequest
<1> QED BY <1>1, <1>3, <1>4, <1>5, <1>6, <1>7 DEF Next, RThreadStep

-----------------------------------------------------------------------------

\* Two requests for different places in memory.
Apart(r, q) == \A b \in Buffers : \A i \in Slots : ~(Slot!InRange(r, b, i) /\ Slot!InRange(q, b, i))

\* What the clients must do for their data to stay: no thread asks for a read
\* into what another one's read has filled, and neither does the callback.
DestinationsApart ==
  \A t \in Threads : \A r \in Requests(t) :
    /\ \A u \in Threads : u # t => \A q \in Requests(u) : Apart(r, q)
    /\ \A q \in IntrRequests : Apart(r, q)

\* The slots of a destination are slots of its buffer, and in its range.
LEMMA DestinationSlots ==
  ASSUME NEW r \in Request, Fits(r), NEW i \in 0 .. r.sectors - 1
  PROVE  /\ r.off + i \in Slots
         /\ r.buf \in Buffers => Slot!InRange(r, r.buf, r.off + i)
<1>1. r.off \in Nat /\ r.sectors \in Nat BY DEF Request
<1> QED BY <1>1, SizeAssumption DEF Fits, Slots, Slot!InRange

\* What a finished read of a client has delivered is not written again by the
\* read of another: not in the client's buffer, because they are apart ...
LEMMA OthersSpareBuffers ==
  ASSUME DestinationsApart, TypeInv, LockInv, ReadInv, OwnedRead, OutcomeInv,
         NEW a \in Actors, Executes(a), pc[a] \in Reading,
         NEW t \in Threads, owner # t, arg[t] \in Requests(t), Delivered(arg[t])
  PROVE  \A i \in 0 .. arg[t].sectors - 1 : mem'[arg[t].buf][arg[t].off + i] = arg[t].lsn + i
<1> SUFFICES ASSUME NEW i \in 0 .. arg[t].sectors - 1
             PROVE  mem'[arg[t].buf][arg[t].off + i] = arg[t].lsn + i
  OBVIOUS
<1>a. arg[t] \in Request /\ Fits(arg[t]) /\ arg[t].buf \in Buffers BY RequestAssumption
<1>1. arg[t].off + i \in Slots /\ Slot!InRange(arg[t], arg[t].buf, arg[t].off + i)
  BY <1>a, DestinationSlots
<1>2. ~Slot!InRange(rd[a].req, arg[t].buf, arg[t].off + i)
  <2>1. owner \in Threads \cup {Intr}
    <3>1. sync_flag = 1 BY DEF LockInv, OneOwner, Holds
    <3> QED BY <3>1 DEF OwnedRead, TypeInv, TypeOK, HistoryTypes
  <2>2. CASE owner = Intr
    BY <1>a, <1>1, <2>2 DEF OwnedRead, DestinationsApart, Apart
  <2>3. CASE owner \in Threads
    <3>1. rd[a].req = arg[owner] /\ ReadOfThread(owner) BY <2>3 DEF OwnedRead, OutcomeInv
    <3>2. CASE arg[owner] \in Requests(owner)
      BY <1>a, <1>1, <2>3, <3>1, <3>2 DEF DestinationsApart, Apart
    <3>3. CASE IsDirRequest(arg[owner])
      BY <1>a, <3>1, <3>3, SizeAssumption DEF IsDirRequest, DirRequest, Slot!InRange
    <3> QED BY <3>1, <3>2, <3>3 DEF ReadOfThread
  <2> QED BY <2>1, <2>2, <2>3
<1>3. mem'[arg[t].buf][arg[t].off + i] = mem[arg[t].buf][arg[t].off + i]
  BY <1>a, <1>1, <1>2, WritesInRange
<1> QED BY <1>3 DEF Delivered

\* ... and not in the bounce buffer, because its searcher has it to itself.
LEMMA OthersSpareBounce ==
  ASSUME TypeInv, LockInv, BounceInv, ReadInv, OwnedRead, OutcomeInv,
         NEW a \in Actors, Executes(a), pc[a] \in Reading,
         NEW t \in Threads, owner # t, t \in searching
  PROVE  mem'[Bounce] = mem[Bounce]
<1>a. ThreadTypes /\ MemoryTypes BY DEF TypeInv, TypeOK
<1>b. rd[a].req.aligned \in BOOLEAN /\ rd[a].req.buf \in AllBuffers BY <1>a, LocalsTyped
<1>1. rd[a].req.buf # Bounce
  <2> SUFFICES ASSUME rd[a].req.buf = Bounce PROVE FALSE OBVIOUS
  <2>1. owner \in Threads \cup {Intr}
    <3>1. sync_flag = 1 BY DEF LockInv, OneOwner, Holds
    <3> QED BY <3>1 DEF OwnedRead, TypeInv, TypeOK, HistoryTypes
  <2>2. owner # Intr
    BY RequestAssumption, SizeAssumption DEF OwnedRead
  <2>3. owner \in Threads /\ rd[a].req = arg[owner] BY <2>1, <2>2 DEF OwnedRead
  <2>4. ReadOfThread(owner) BY <2>3 DEF OutcomeInv
  <2>5. arg[owner] \notin Requests(owner) BY <2>3, RequestAssumption, SizeAssumption
  <2>6. owner \in searching BY <2>4, <2>5 DEF ReadOfThread
  <2>7. UsesBounce(owner) /\ UsesBounce(t) BY <2>6 DEF UsesBounce
  <2> QED BY <2>3, <2>7 DEF BounceInv, BounceExclusive
<1>2. pc[a] \in InTransfer => rd[a].req.aligned
  <2> SUFFICES ASSUME pc[a] \in InTransfer, ~rd[a].req.aligned PROVE FALSE BY <1>b
  <2>1. UsesBounce(a) /\ UsesBounce(t) BY DEF UsesBounce
  <2>2. a = t BY <2>1 DEF BounceInv, BounceExclusive
  <2> QED BY <2>2 DEF BounceInv, BouncePlace
<1>3. CASE DeviceReadSectors(a)
  <2>1. Target(a) # Bounce BY <1>1, <1>2, <1>3 DEF DeviceReadSectors, At, Target, R
  <2> QED BY <1>a, <1>3, <2>1 DEF DeviceReadSectors, Written, MemoryTypes
<1>4. CASE DeviceError(a)
  <2>1. Target(a) # Bounce BY <1>1, <1>2, <1>4 DEF DeviceError, At, Target, R
  <2> QED BY <1>a, <1>4, <2>1 DEF DeviceError, Written, MemoryTypes
<1>5. CASE SectorsEnd(a)
  BY <1>a, <1>1, <1>5 DEF SectorsEnd, Copied, MemoryTypes, R
<1>6. CASE ~DeviceReadSectors(a) /\ ~DeviceError(a) /\ ~SectorsEnd(a)
  BY <1>6 DEF Executes, ReadBegin, BounceTake, BounceChunk, SectorsBegin, SectorsLoop, AccuWait,
       ReadEnd, ReleaseDrive, SetDoneEvent
<1> QED BY <1>3, <1>4, <1>5, <1>6

\* Memory changes only in cdvdman_read, an outcome becomes "ok" only when the
\* drive is released, and the arguments of a read stay until the next one.
LEMMA OutcomeChanges ==
  ASSUME TypeInv, OwnedRead, [Next]_vars, ~ \E a \in Actors : Executes(a), NEW t \in Threads, outcome'[t] = "ok"
  PROVE  mem' = mem /\ outcome[t] = "ok" /\ arg'[t] = arg[t]
<1>a. ThreadTypes /\ HistoryTypes BY DEF TypeInv, TypeOK
<1> USE DEF hist
<1>1. ASSUME NEW u \in Threads, NEW r, ReadLock(u, r), mem' = mem
      PROVE  outcome[t] = "ok" /\ arg'[t] = arg[t]
  BY <1>a, <1>1 DEF ReadLock, SyncReadLock, AsyncReadLock, cdvdman_common_lock, ThreadTypes
<1>2. ASSUME NEW u \in Threads, ThreadStep(u)
      PROVE  mem' = mem /\ outcome[t] = "ok" /\ arg'[t] = arg[t]
  <2>1. CASE SearchRead(u) BY <1>1, <2>1 DEF SearchRead
  <2>2. CASE SearchEnd(u) BY <1>a, <2>2 DEF SearchEnd, HistoryTypes
  <2>3. CASE ~SearchRead(u) /\ ~SearchEnd(u)
    BY <1>2, <2>3 DEF ThreadStep, AsyncReadSignal, SyncReadEvent, SyncTest, SyncWake, DriveEvent,
         SearchTake, SearchParse
  <2> QED BY <2>1, <2>2, <2>3
<1>3. ASSUME NEW u \in Threads, ThreadCall(u)
      PROVE  mem' = mem /\ outcome[t] = "ok" /\ arg'[t] = arg[t]
  <2>1. CASE sceCdRead(u) BY <1>1, <2>1 DEF sceCdRead
  <2>2. CASE ~sceCdRead(u)
    BY <1>3, <2>2 DEF ThreadCall, sceCdSync, sceCdDiskReady, sceCdCallback, SearchCall,
         DriveCommand, SetError
  <2> QED BY <2>1, <2>2
<1>4. CASE cdread_Take \/ cdread_Notify \/ AccuAlarm \/ UNCHANGED vars
  BY <1>4 DEF cdread_Take, cdread_Notify, AccuAlarm, vars
<1>5. CASE event_alarm_cb
  <2>1. t # Intr BY ActorAssumption
  <2> QED BY <1>a, <1>5, <2>1 DEF event_alarm_cb, AsyncReadIntr, cdvdman_common_lock
<1> QED BY <1>2, <1>3, <1>4, <1>5 DEF Next, RThreadStep

\* What was delivered stays delivered, and a read that ends uncut has
\* delivered.
LEMMA DeliveryStep ==
  ASSUME DestinationsApart
  PROVE  /\ TypeInv /\ LockInv /\ BounceInv /\ ReadInv /\ OwnedRead /\ OutcomeInv
         /\ CompleteReadDelivers /\ [Next]_vars
         => CompleteReadDelivers'
<1> SUFFICES ASSUME TypeInv, LockInv, BounceInv, ReadInv, OwnedRead, OutcomeInv,
                    CompleteReadDelivers, [Next]_vars, NEW t \in Threads, outcome'[t] = "ok"
             PROVE  Delivered(arg[t])'
  BY DEF CompleteReadDelivers
<1>a. ThreadTypes /\ MemoryTypes /\ HistoryTypes BY DEF TypeInv, TypeOK
<1> USE DEF hist
<1>1. CASE ~ \E a \in Actors : Executes(a)
  <2>1. mem' = mem /\ outcome[t] = "ok" /\ arg'[t] = arg[t] BY <1>1, OutcomeChanges
  <2> QED BY <2>1 DEF CompleteReadDelivers, Delivered
<1>2. ASSUME NEW a \in Actors, ReleaseDrive(a) PROVE Delivered(arg[t])'
  <2>1. /\ pc[a] = "release" /\ mem' = mem /\ arg' = arg
        /\ outcome'[t] = IF t # owner THEN outcome[t] ELSE IF rd[a].short THEN "short" ELSE "ok"
    BY <1>2 DEF ReleaseDrive, At, R
  <2>2. CASE t # owner BY <2>1, <2>2 DEF CompleteReadDelivers, Delivered
  <2>3. CASE t = owner
    <3>1. ~rd[a].short BY <2>1, <2>3
    <3>2. rd[a].req = arg[t] BY <2>1, <2>3 DEF OwnedRead
    <3>3. ReadSound(a) BY <2>1 DEF ReadInv
    <3> QED BY <2>1, <3>1, <3>2, <3>3 DEF ReadSound, SectorsAt, Delivered
  <2> QED BY <2>2, <2>3
<1>3. ASSUME NEW a \in Actors, Executes(a), ~ReleaseDrive(a) PROVE Delivered(arg[t])'
  <2>1. arg' = arg /\ outcome' = outcome
    BY <1>3 DEF Executes, ReadBegin, BounceTake, BounceChunk, SectorsBegin, SectorsLoop,
         DeviceReadSectors, DeviceError, AccuWait, SectorsEnd, ReadEnd, SetDoneEvent
  <2>2. Delivered(arg[t]) /\ owner # t BY <2>1 DEF CompleteReadDelivers, OutcomeInv
  <2>3. CASE SetDoneEvent(a) BY <2>1, <2>2, <2>3 DEF SetDoneEvent, Delivered
  <2>4. CASE ~SetDoneEvent(a)
    <3>1. pc[a] \in Reading
      BY <1>3, <2>4 DEF Executes, ReadBegin, BounceTake, BounceChunk, SectorsBegin, SectorsLoop,
           DeviceReadSectors, DeviceError, AccuWait, SectorsEnd, ReadEnd, At
    <3>2. CASE arg[t] \in Requests(t)
      BY <1>3, <2>1, <2>2, <3>1, <3>2, OthersSpareBuffers DEF Delivered
    <3>3. CASE IsDirRequest(arg[t]) /\ t \in searching
      <4>1. mem'[Bounce] = mem[Bounce] BY <1>3, <2>2, <3>1, <3>3, OthersSpareBounce
      <4>2. arg[t].buf = Bounce BY <3>3 DEF IsDirRequest, DirRequest
      <4> QED BY <2>1, <2>2, <4>1, <4>2 DEF Delivered
    <3> QED BY <2>1, <3>2, <3>3 DEF OutcomeInv, ReadOfThread
  <2> QED BY <2>3, <2>4
<1> QED BY <1>1, <1>2, <1>3

\* A read that ran to its end has every sector in place, and keeps it there
\* until its thread reads again, for clients whose destinations are apart:
\* whatever the chunking, the order of the reads, the directory searches and
\* the errors in between.
THEOREM CompleteReadsDeliver ==
  ASSUME DestinationsApart
  PROVE  Spec => []CompleteReadDelivers
<1> DEFINE Inv == /\ TypeInv /\ LockInv /\ BounceInv /\ ReadInv /\ OwnedRead /\ OutcomeInv
                  /\ CompleteReadDelivers
<1>1. Init => OwnedRead /\ OutcomeInv /\ CompleteReadDelivers
  BY ActorAssumption DEF Init, OwnedRead, OutcomeInv, CompleteReadDelivers
<1>2. Init => BounceInv BY BounceInit
<1>3. Init => Inv BY <1>1, <1>2, TypeInit, LockInit, ReadInit
<1>4. Inv /\ [Next]_vars => Inv'
  BY TypeStep, LockStep, BounceStep, ReadStep, OwnedStep, OutcomeStep, DeliveryStep
<1>5. Inv => CompleteReadDelivers OBVIOUS
<1> QED BY <1>3, <1>4, <1>5, PTL DEF Spec

-----------------------------------------------------------------------------

\* What the clients must do for an error to be still there when their read
\* releases the drive: nobody clears err meanwhile, which a second chunk of a
\* misaligned read does, and so do the calls that write it as they start.
ErrorKept ==
  /\ \A t \in Threads : \A r \in Requests(t) : r.aligned
  /\ \A r \in IntrRequests : r.aligned
  /\ Commands \cap {"DiskReady", "Seek", "Standby", "Pause", "Stop"} = {}

\* An actor in its one chunk of sectors has not been cut short yet, and one
\* past it that was has left the error.
ErrorPlace(a) ==
  pc[a] \in Reading =>
    /\ rd[a].req.aligned /\ pc[a] \notin {"bounce", "chunk"}
    /\ rd[a].short => pc[a] \in {"endsectors", "done", "event", "release"} /\ err # "NO"
ErrorInv == cdread.aligned /\ \A a \in Actors : ErrorPlace(a)

\* A step of actor a that leaves the others' errors alone: it does not clear
\* err, or nobody else is in a read that could have set it.
LEMMA ErrorKeptByOthers ==
  ASSUME ErrorInv, NEW a \in Actors, OthersKeep(a), cdread'.aligned, ErrorPlace(a)',
         err' = err \/ err' # "NO" \/ \A b \in Actors : b # a => pc[b] \notin Reading
  PROVE  ErrorInv'
  BY DEF ErrorInv, ErrorPlace, OthersKeep

\* The steps of cdvdman_read: the loop ends early only on an error, and the
\* one that clears err comes before the first transfer.
LEMMA ExecutesKeepsError ==
  ASSUME TypeInv, LockInv, ReadInv, ErrorInv, NEW a \in Actors, Executes(a)
  PROVE  ErrorInv'
<1>a. ThreadTypes /\ ErrorPlace(a) /\ cdread.aligned BY DEF TypeInv, TypeOK, ErrorInv
<1>b. OthersKeep(a) /\ cdread' = cdread BY ExecutesAlone
<1>c. pc[a] \in Reading => \A b \in Actors : b # a => pc[b] \notin Reading
  BY DEF LockInv, OneOwner, Holds
<1>d. pc[a] = "read" => ~rd[a].short BY DEF ReadInv, ReadSound
<1> SUFFICES /\ ErrorPlace(a)'
             /\ err' = err \/ pc[a] \in Reading
  BY <1>a, <1>b, <1>c, ErrorKeptByOthers
<1> USE <1>a DEF At, Goto, R, ErrorPlace, ThreadTypes, ReadLocals, regs
<1>1. CASE ReadBegin(a) BY <1>1, <1>d DEF ReadBegin
<1>2. CASE BounceTake(a) BY <1>2 DEF BounceTake
<1>3. CASE BounceChunk(a) BY <1>3 DEF BounceChunk
<1>4. CASE SectorsBegin(a) BY <1>4 DEF SectorsBegin
<1>5. CASE SectorsLoop(a) BY <1>5 DEF SectorsLoop
<1>6. CASE DeviceReadSectors(a) BY <1>6 DEF DeviceReadSectors
<1>7. CASE DeviceError(a) BY <1>7 DEF DeviceError
<1>8. CASE AccuWait(a) BY <1>8 DEF AccuWait
<1>9. CASE SectorsEnd(a) BY <1>9 DEF SectorsEnd
<1>10. CASE ReadEnd(a) BY <1>10 DEF ReadEnd
<1>11. CASE ReleaseDrive(a) BY <1>11 DEF ReleaseDrive
<1>12. CASE SetDoneEvent(a) BY <1>12 DEF SetDoneEvent
<1> QED BY <1>1, <1>2, <1>3, <1>4, <1>5, <1>6, <1>7, <1>8, <1>9, <1>10, <1>11, <1>12 DEF Executes

\* Every step keeps it, for clients that do not clear err.
LEMMA ErrorStep ==
  ASSUME ErrorKept
  PROVE  TypeInv /\ LockInv /\ ReadInv /\ ErrorInv /\ [Next]_vars => ErrorInv'
<1> SUFFICES ASSUME TypeInv, LockInv, ReadInv, ErrorInv, [Next]_vars PROVE ErrorInv'
  OBVIOUS
<1>a. ThreadTypes BY DEF TypeInv, TypeOK
<1> USE DEF At, Goto, locks, regs, hist
<1>1. ASSUME NEW t \in Threads, NEW r \in Request, r.aligned, ReadLock(t, r), err' = err,
             searching' = searching
      PROVE  ErrorInv'
  <2>1. /\ OthersKeep(t) /\ cdread' \in {cdread, r}
        /\ pc'[t] \in {"read", "signal"}
        /\ pc'[t] = "read" => rd'[t] = [IdleRead EXCEPT !.req = r]
    BY <1>1, <1>a DEF ReadLock, SyncReadLock, AsyncReadLock, ThreadTypes, OthersKeep
  <2>2. ErrorPlace(t)' /\ cdread'.aligned BY <1>1, <2>1 DEF ErrorPlace, ErrorInv, IdleRead
  <2> QED BY <1>1, <2>1, <2>2, ErrorKeptByOthers
<1>2. ASSUME NEW t \in Threads, ThreadStep(t), ~Executes(t) PROVE ErrorInv'
  <2>1. CASE SearchRead(t)
    <3>1. ASSUME NEW l \in DirSectors, ReadLock(t, DirRequest(l)) PROVE ErrorInv'
      <4>1. DirRequest(l) \in Request /\ DirRequest(l).aligned BY RequestsServable DEF DirRequest
      <4> QED BY <1>1, <2>1, <3>1, <4>1 DEF SearchRead
    <3>2. CASE Goto(t, "sfend") /\ UNCHANGED <<cdread, arg, rd, hist>>
      BY <1>a, <2>1, <3>2 DEF SearchRead, ErrorInv, ErrorPlace, ThreadTypes
    <3> QED BY <2>1, <3>1, <3>2 DEF SearchRead
  <2>2. CASE ~SearchRead(t)
    BY <1>2, <1>a, <2>2 DEF ThreadStep, AsyncReadSignal, SyncReadEvent, SyncTest, SyncWake,
         DriveEvent, SearchTake, SearchParse, SearchEnd, ErrorInv, ErrorPlace, ThreadTypes
  <2> QED BY <2>1, <2>2
<1>3. ASSUME NEW t \in Threads, ThreadCall(t) PROVE ErrorInv'
  <2>1. CASE sceCdRead(t)
    BY <1>1, <2>1, RequestAssumption DEF sceCdRead, ErrorKept
  <2>2. CASE sceCdSync(t) \/ sceCdCallback(t) \/ SearchCall(t)
    BY <1>a, <2>2 DEF sceCdSync, sceCdCallback, SearchCall, ErrorInv, ErrorPlace, ThreadTypes
  <2>3. CASE sceCdDiskReady(t) BY <2>3 DEF sceCdDiskReady, ErrorKept
  <2>4. ASSUME NEW c \in DriveCommands, DriveCommand(t, c) PROVE ErrorInv'
    <3>1. c = "Break" BY <2>4 DEF DriveCommand, ErrorKept
    <3> QED BY <1>a, <2>4, <3>1 DEF DriveCommand, ErrorInv, ErrorPlace, ThreadTypes
  <2>5. ASSUME NEW c \in {"GetToc", "SetError"}, SetError(t, c) PROVE ErrorInv'
    BY <2>5 DEF SetError, ErrorInv, ErrorPlace
  <2> QED BY <1>3, <2>1, <2>2, <2>3, <2>4, <2>5 DEF ThreadCall
<1>4. CASE cdread_Take
  <2>1. /\ pc'[RThread] = "read" /\ rd'[RThread] = [IdleRead EXCEPT !.req = cdread]
        /\ OthersKeep(RThread) /\ UNCHANGED <<cdread, err>>
    BY <1>4, <1>a DEF cdread_Take, OthersKeep, ThreadTypes
  <2>2. ErrorPlace(RThread)' BY <2>1 DEF ErrorPlace, ErrorInv, IdleRead
  <2> QED BY <2>1, <2>2, ErrorKeptByOthers DEF ErrorInv
<1>5. CASE cdread_Notify
  BY <1>5, <1>a DEF cdread_Notify, ErrorInv, ErrorPlace, ThreadTypes
<1>6. CASE AccuAlarm \/ event_alarm_cb \/ UNCHANGED vars
  <2>1. UNCHANGED <<pc, rd, err>> BY <1>6 DEF AccuAlarm, event_alarm_cb, vars
  <2>2. cdread' = cdread \/ cdread' \in IntrRequests
    BY <1>6 DEF AccuAlarm, event_alarm_cb, AsyncReadIntr, vars
  <2>3. cdread'.aligned BY <2>2 DEF ErrorKept, ErrorInv
  <2> QED BY <2>1, <2>3 DEF ErrorInv, ErrorPlace
<1> QED BY <1>2, <1>3, <1>4, <1>5, <1>6, ExecutesKeepsError DEF Next, RThreadStep, ThreadStep

\* A read that a device error or sceCdBreak cut short leaves an error code
\* for its caller, whatever the other threads, the searches and the callback
\* do meanwhile, as long as none of them clears err.
THEOREM ShortReadsLeaveError ==
  ASSUME ErrorKept
  PROVE  Spec => []ShortReadLeavesError
<1> DEFINE Inv == TypeInv /\ LockInv /\ ReadInv /\ ErrorInv
<1>1. Init => ErrorInv BY DEF Init, ErrorInv, ErrorPlace, NullRequest
<1>2. Init => Inv BY <1>1, TypeInit, LockInit, ReadInit
<1>3. Inv /\ [Next]_vars => Inv' BY TypeStep, LockStep, ReadStep, ErrorStep
<1>4. Inv => ShortReadLeavesError BY DEF ErrorInv, ErrorPlace, ShortReadLeavesError
<1> QED BY <1>2, <1>3, <1>4, PTL DEF Spec

=============================================================================
