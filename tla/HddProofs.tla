----------------------------- MODULE HddProofs -----------------------------
(***************************************************************************)
(* What device-hdd.c does for its callers over either of the two ATA       *)
(* drivers, for any disk, header and calls: a read that returns 0 has the  *)
(* disc's sectors in the buffer and nothing else written (HddSafe), and a  *)
(* read that fails has a cause (HddErrorsHaveCauses).                      *)
(***************************************************************************)
EXTENDS Devices, SequenceTheorems, TLAPS

-----------------------------------------------------------------------------
(***************************************************************************)
(* The hard disk: a command's address and count, through the registers and *)
(* back.                                                                   *)
(***************************************************************************)
\* Quotient and remainder.
LEMMA QuotientIs ==
  ASSUME NEW d \in Nat \ {0}, NEW q \in Nat, NEW r \in Nat, r < d
  PROVE  (q * d + r) \div d = q /\ (q * d + r) % d = r
<1> DEFINE x == q * d + r
<1>1. x \in Nat OBVIOUS
<1>2. x = (x \div d) * d + (x % d) /\ x \div d \in Nat /\ x % d \in 0 .. d - 1 BY <1>1
<1> DEFINE u == x \div d
           v == x % d
<1>3. u \in Nat /\ v \in Nat /\ v < d /\ u * d + v = q * d + r BY <1>2
<1> HIDE DEF u, v
<1>4. ~(u >= q + 1)
  <2> SUFFICES ASSUME u >= q + 1 PROVE FALSE OBVIOUS
  <2>1. PICK k \in Nat : u = q + 1 + k BY <1>3
  <2>2. u * d = q * d + d + k * d BY <2>1
  <2>3. k * d \in Nat /\ q * d \in Nat BY <2>1
  <2> QED BY <2>2, <2>3, <1>3
<1>5. ~(q >= u + 1)
  <2> SUFFICES ASSUME q >= u + 1 PROVE FALSE OBVIOUS
  <2>1. PICK k \in Nat : q = u + 1 + k BY <1>3
  <2>2. q * d = u * d + d + k * d BY <2>1, <1>3
  <2>3. k * d \in Nat /\ u * d \in Nat BY <2>1, <1>3
  <2> QED BY <2>2, <2>3, <1>3
<1>6. u = q BY <1>3, <1>4, <1>5
<1>7. v = r BY <1>3, <1>6
<1> QED BY <1>6, <1>7 DEF u, v

\* The digits of an address.
LEMMA Digits ==
  ASSUME NEW B \in Nat \ {0}, NEW x \in Nat
  PROVE  \E a, b, c, t \in Nat :
           /\ a < B /\ b < B /\ c < B
           /\ x = a + B * b + B * B * c + B * B * B * t
           /\ x % B = a /\ (x \div B) % B = b /\ (x \div (B * B)) % B = c /\ x \div (B * B * B) = t
<1> DEFINE p == x \div B
           q == p \div B
           t == q \div B
           a == x % B
           b == p % B
           c == q % B
<1>1. x = p * B + a /\ p \in Nat /\ a \in Nat /\ a < B OBVIOUS
<1> HIDE DEF p, a
<1>2. p = q * B + b /\ q \in Nat /\ b \in Nat /\ b < B BY <1>1
<1> HIDE DEF q, b
<1>3. q = t * B + c /\ t \in Nat /\ c \in Nat /\ c < B BY <1>2
<1> HIDE DEF t, c
<1>4. x = q * (B * B) + (b * B + a) BY <1>1, <1>2
<1>5. b * B + a \in Nat /\ b * B + a < B * B
  <2>1. PICK k \in Nat : B = b + 1 + k BY <1>2
  <2>2. B * B = b * B + B + k * B BY <2>1, <1>2
  <2>3. k * B \in Nat /\ b * B \in Nat BY <2>1, <1>2
  <2> QED BY <2>2, <2>3, <1>1
<1>6. x \div (B * B) = q
  <2>1. B * B \in Nat \ {0} OBVIOUS
  <2> QED BY <1>2, <1>4, <1>5, <2>1, QuotientIs
<1>7. x = t * (B * B * B) + (c * (B * B) + (b * B + a)) BY <1>1, <1>2, <1>3
<1>8. c * (B * B) + (b * B + a) \in Nat /\ c * (B * B) + (b * B + a) < B * B * B
  <2>1. PICK k \in Nat : B = c + 1 + k BY <1>3
  <2>2. B * (B * B) = c * (B * B) + B * B + k * (B * B) BY <2>1, <1>3
  <2>3. k * (B * B) \in Nat /\ c * (B * B) \in Nat BY <2>1, <1>3
  <2>4. B * (B * B) = B * B * B OBVIOUS
  <2> QED BY <2>2, <2>3, <2>4, <1>5
<1>9. x \div (B * B * B) = t
  <2>1. B * B * B \in Nat \ {0} OBVIOUS
  <2> HIDE DEF t
  <2> QED BY <1>3, <1>7, <1>8, <2>1, QuotientIs
<1>10. x = a + B * b + B * B * c + B * B * B * t BY <1>1, <1>2, <1>3
<1>11. x % B = a /\ (x \div B) % B = b /\ (x \div (B * B)) % B = c BY <1>6 DEF p, a, b, c
<1> QED BY <1>1, <1>2, <1>3, <1>9, <1>10, <1>11

\* How far a command's address reaches, and how many blocks it may ask for.
AddressLimit == Byte * Byte * Byte * (IF lba_48bit THEN Byte ELSE Nibble)
CountLimit == IF lba_48bit THEN Byte * Byte ELSE Byte

\* The disk reads the address and the count of a command as the driver meant
\* them, in 28 and in 48 bits, if the address fits and the count is one the
\* driver may ask for.
LEMMA CommandIsMeant ==
  ASSUME NEW lba \in Nat, NEW len \in Nat \ {0}, lba_48bit \in BOOLEAN,
         lba < AddressLimit, len <= CountLimit
  PROVE  Commanded(lba, len) = [IdleDrive EXCEPT !.busy = TRUE, !.lba = lba, !.left = len]
<1> DEFINE R == Registers(lba, len)
<1>a. Byte \in Nat \ {0, 1} /\ Nibble \in Nat /\ Nibble <= Byte BY AtaAssumption
<1>1. PICK a, b, c, t \in Nat :
           /\ a < Byte /\ b < Byte /\ c < Byte
           /\ lba = a + Byte * b + Byte * Byte * c + Byte * Byte * Byte * t
           /\ lba % Byte = a /\ (lba \div Byte) % Byte = b /\ (lba \div (Byte * Byte)) % Byte = c
           /\ lba \div (Byte * Byte * Byte) = t
  BY <1>a, Digits
<1> DEFINE BBB == Byte * Byte * Byte
<1>2. BBB \in Nat \ {0} /\ lba < BBB * (IF lba_48bit THEN Byte ELSE Nibble) BY <1>a DEF AddressLimit
<1>3. BBB * t <= lba BY <1>1, <1>a
<1>4. t < IF lba_48bit THEN Byte ELSE Nibble
  <2> DEFINE m == IF lba_48bit THEN Byte ELSE Nibble
  <2>1. m \in Nat /\ BBB * t < BBB * m
    <3>1. m \in Nat BY <1>a
    <3>2. lba < BBB * m BY <1>2
    <3> HIDE DEF m, BBB
    <3>3. BBB * t \in Nat /\ BBB * m \in Nat BY <1>1, <1>2, <3>1
    <3> QED BY <1>3, <3>1, <3>2, <3>3
  <2> HIDE DEF m, BBB
  <2>2. t < m
    <3> SUFFICES ASSUME t >= m PROVE FALSE BY <1>1, <2>1
    <3>1. PICK k \in Nat : t = m + k BY <1>1, <2>1
    <3>2. BBB * t = BBB * m + BBB * k BY <3>1, <2>1, <1>2
    <3>3. BBB * k \in Nat /\ BBB * m \in Nat BY <3>1, <2>1, <1>2
    <3> QED BY <3>2, <3>3, <2>1
  <2> QED BY <2>2 DEF m
<1>5. CommandLba(R) = lba
  <2>1. CASE lba_48bit
    <3> DEFINE s == (t % Byte) * Byte + a
    <3>1. t % Byte = t BY <1>1, <1>4, <1>a, <2>1
    <3>2. s = t * Byte + a /\ s \div Byte = t /\ s % Byte = a BY <3>1, <1>1, <1>a, QuotientIs
    <3>3. R.sector = <<(s \div Byte) % Byte, s % Byte>> BY <1>1, <2>1 DEF Registers
    <3>4. R.lcyl = <<0, b>> /\ R.hcyl = <<0, c>> BY <1>1 DEF Registers
    <3>5. R.sector[1] = t /\ R.sector[2] = a BY <3>1, <3>2, <3>3
    <3> HIDE DEF R
    <3>6. CommandLba(R) = (a + Byte * b + Byte * Byte * c) + Byte * Byte * Byte * (t + Byte * 0 + Byte * Byte * 0)
      BY <2>1, <3>4, <3>5 DEF CommandLba
    <3> QED BY <3>6, <1>1, <1>a
  <2>2. CASE ~lba_48bit
    <3>1. t % Nibble = t BY <1>1, <1>4, <1>a, <2>2
    <3>2. a % Byte = a BY <1>1, <1>a
    <3>3. R.sector = <<0, a % Byte>> BY <1>1, <2>2 DEF Registers
    <3>4. R.lcyl = <<0, b>> /\ R.hcyl = <<0, c>> /\ R.select = t % Nibble BY <1>1, <2>2 DEF Registers
    <3> HIDE DEF R
    <3>6. CommandLba(R) = (a + Byte * b + Byte * Byte * c) + Byte * Byte * Byte * t
      BY <2>2, <3>1, <3>2, <3>3, <3>4 DEF CommandLba
    <3> QED BY <3>6, <1>1, <1>a
  <2> QED BY <2>1, <2>2
<1>6. CommandBlocks(R) = len
  <2>1. CASE lba_48bit
    <3>1. R.nsector = <<(len \div Byte) % Byte, len % Byte>> BY <2>1 DEF Registers
    <3> HIDE DEF R
    <3> DEFINE h == len \div Byte
               l == len % Byte
    <3>2. len = h * Byte + l /\ h \in Nat /\ l \in Nat /\ l < Byte BY <1>a
    <3>3. len <= Byte * Byte BY <2>1 DEF CountLimit
    <3> HIDE DEF h, l
    <3>4. h <= Byte
      <4> SUFFICES ASSUME h >= Byte + 1 PROVE FALSE BY <3>2, <1>a
      <4>1. PICK k \in Nat : h = Byte + 1 + k BY <3>2, <1>a
      <4>2. h * Byte = Byte * Byte + Byte + k * Byte BY <4>1, <1>a
      <4>3. k * Byte \in Nat /\ Byte * Byte \in Nat BY <4>1, <1>a
      <4> QED BY <4>2, <4>3, <3>2, <3>3, <1>a
    <3>5. CASE h < Byte
      <4>1. h % Byte = h BY <3>2, <3>5, <1>a
      <4>2. R.nsector[1] * Byte + R.nsector[2] = len BY <3>1, <3>2, <4>1 DEF h, l
      <4> QED BY <4>2, <2>1 DEF CommandBlocks
    <3>6. CASE h = Byte
      <4>1. l = 0 /\ len = Byte * Byte
        <5>1. Byte * Byte \in Nat BY <1>a
        <5> QED BY <3>2, <3>3, <3>6, <5>1
      <4>2. h % Byte = 0 BY <3>6, <1>a
      <4>3. R.nsector[1] * Byte + R.nsector[2] = 0 BY <3>1, <4>1, <4>2, <1>a DEF h, l
      <4> QED BY <4>1, <4>3, <2>1 DEF CommandBlocks
    <3> QED BY <3>2, <3>4, <3>5, <3>6, <1>a
  <2>2. CASE ~lba_48bit
    <3>1. R.nsector = <<0, len % Byte>> BY <2>2 DEF Registers
    <3> HIDE DEF R
    <3>2. len <= Byte BY <2>2 DEF CountLimit
    <3>3. CASE len < Byte
      <4>1. len % Byte = len BY <1>a, <3>3
      <4>2. R.nsector[1] * Byte + R.nsector[2] = len BY <3>1, <4>1, <1>a
      <4> QED BY <4>2, <2>2 DEF CommandBlocks
    <3>4. CASE len = Byte
      <4>1. len % Byte = 0 BY <1>a, <3>4
      <4>2. R.nsector[1] * Byte + R.nsector[2] = 0 BY <3>1, <4>1, <1>a
      <4> QED BY <4>2, <2>2, <3>4 DEF CommandBlocks
    <3> QED BY <3>2, <3>3, <3>4, <1>a
  <2> QED BY <2>1, <2>2
<1> QED BY <1>5, <1>6 DEF Commanded
-----------------------------------------------------------------------------
(***************************************************************************)
(* The hard disk: where the thread is and what it works on.                *)
(***************************************************************************)
AtadStarting == {"call", "start", "select", "issue"}
AtadTransfer == {"set_dir", "poll", "wait", "last", "status"}
AtadPlaces == AtadStarting \cup AtadTransfer \cup {"finish"}
HdproPlaces == {"call", "chunk", "select", "issue", "busy", "pio", "status"}
OuterPlaces == {"boot", "idle", "next", "done", "return"}
InIo == hat \notin OuterPlaces
InDevice == hat \notin OuterPlaces \ {"done"}

IoResults == {"OK", "TIMEOUT", "NOTREADY", "ICRC", "IO", "-1", "-2"}
Jobs == [buf: Nat, lba: Nat, left: Nat, len: Nat, pos: Nat, blk: Nat, retries: Nat, res: IoResults]
HddTypes ==
  /\ driver \in {"atad", "hdpro"} /\ lba_48bit \in BOOLEAN
  /\ hat \in OuterPlaces \cup (IF driver = "atad" THEN AtadPlaces ELSE HdproPlaces)
  /\ drive \in Drive /\ DOMAIN hmem = 0 .. MemBlocks - 1 /\ job \in Jobs
  /\ fifo \in Seq(Int) /\ dma \in BOOLEAN /\ alarm \in BOOLEAN
  /\ cause \in BOOLEAN /\ hfaults \in Nat /\ icrc \in Nat
  /\ specs \in {<<>>, PartSpecs} /\ CurrentPart \in Nat
  /\ hcall \in HddReads \cup {NoCall} /\ hmy \in [lsn: Nat, left: Nat, off: Nat]
  /\ hresult \in {"OK", "EIO", "ENXIO"}

\* A call of DeviceReadSectors, and the part of it that is on the disk.
CallInv ==
  /\ hat \in {"boot", "idle"} => hcall = NoCall
  /\ hat \in {"next", "return"} => hcall # NoCall
  /\ hat = "idle" => \A b \in DOMAIN hmem : hmem[b] = Unwritten
  /\ hat = "idle" \/ hcall # NoCall => specs = PartSpecs
  /\ hcall # NoCall => hmy.lsn = hcall.lsn + hmy.off /\ hmy.left + hmy.off = hcall.n
  /\ hcall # NoCall /\ InDevice => hmy.left > 0 /\ Holds(CurrentPart)
  /\ hat = "return" /\ hresult = "OK" => hmy.left = 0
  /\ hat = "return" /\ hresult = "ENXIO" => hmy.left > 0 /\ PartFor = 0

\* What is read of the disk: the header, or the rest of the call in its part.
AskedBuf == IF hcall = NoCall THEN 0 ELSE hmy.off * Blk
AskedLba ==
  IF hcall = NoCall THEN LbaStart
  ELSE specs[CurrentPart].data_start + (hmy.lsn - specs[CurrentPart].part_offset) * Blk
AskedSectors == AtMost(hmy.left, specs[CurrentPart].part_offset + specs[CurrentPart].part_size - hmy.lsn)
AskedBlocks == IF hcall = NoCall THEN 2 ELSE AskedSectors * Blk

\* Memory holds the n blocks of the disk from lba on, at p.
HasBlocks(p, lba, n) == \A i \in 0 .. n - 1 : hmem[p + i] = lba + i
JobInv == InDevice =>
  /\ job.buf + job.left = AskedBuf + AskedBlocks
  /\ job.lba + job.left = AskedLba + AskedBlocks
  /\ job.left <= AskedBlocks
  /\ hat \notin {"call", "done"} \/ job.res = "OK" => HasBlocks(AskedBuf, AskedLba, AskedBlocks - job.left)
  /\ hat = "done" /\ job.res = "OK" => job.left = 0

Done == job.len - job.blk
\* One command of it.
ChunkInv == InIo /\ hat \notin {"call", "chunk"} =>
  /\ job.len \in 1 .. job.left /\ job.len <= CountLimit
  /\ hat # "start" => job.blk <= job.len /\ job.pos = job.buf + Done
  /\ hat \in {"select", "issue", "set_dir"} => job.blk = job.len

\* atad.c: the FIFO continues what is in memory and the disk continues the
\* FIFO, unless the command failed or a block was damaged.
InFifo == IF hat = "set_dir" THEN 0 ELSE Len(fifo)
Sound == HasBlocks(job.buf, job.lba, Done) /\ \A j \in 1 .. InFifo : fifo[j] = job.lba + Done + (j - 1)
FifoInv ==
  /\ drive.err # "abrt" => /\ drive.left + InFifo = job.blk
                           /\ drive.lba = job.lba + Done + InFifo
                           /\ drive.busy => drive.err = "none"
                           /\ ~drive.busy => drive.left = 0 /\ (drive.crc <=> drive.err = "icrc")
                           /\ ~drive.crc => Sound
  /\ drive.err = "abrt" => ~drive.busy
AtadPlace ==
  /\ hat = "issue" => ~drive.busy
  /\ dma => hat \in {"poll", "wait", "last", "status", "finish"}
  /\ hat \in {"poll", "wait", "last", "status"} => dma
  /\ hat \in {"last", "status"} => job.blk = 0
AtadInv == driver = "atad" =>
  /\ AtadPlace
  /\ hat \in AtadTransfer => FifoInv
  /\ hat = "finish" /\ job.res = "OK" => HasBlocks(job.buf, job.lba, job.len)

\* hdpro_atad.c: the disk continues what is in memory, if it offers any.
HdproInv == driver = "hdpro" =>
  /\ hat \in HdproPlaces => job.res = "OK"
  /\ hat \in {"busy", "pio", "status"} =>
       /\ HasBlocks(job.buf, job.lba, Done)
       /\ drive.busy \/ drive.drq => drive.lba = job.lba + Done
  /\ hat = "issue" => ~drive.busy /\ ~drive.drq
  /\ ~(drive.busy /\ drive.drq) /\ (drive.drq => drive.left > 0)
  /\ hat = "pio" => job.blk > 0
  /\ hat = "status" => job.blk = 0

\* The caller's memory.
MemoryInv == hcall # NoCall =>
  /\ \A i \in 0 .. hmy.off - 1, k \in 0 .. Blk - 1 : hmem[i * Blk + k] = BlockOf(hcall.lsn + i, k)
  /\ \A b \in hcall.n * Blk .. MemBlocks - 1 : hmem[b] = Unwritten

HddInv == HddTypes /\ CallInv /\ JobInv /\ ChunkInv /\ AtadInv /\ HdproInv /\ MemoryInv

\* The header and the partitions lie where the commands of the game's disk
\* reach, and the partitions hold different sectors of the disc.
PartsOnDisk ==
  /\ LbaStart + 2 <= AddressLimit
  /\ \A p \in DOMAIN PartSpecs : PartSpecs[p].data_start + PartSpecs[p].part_size * Blk <= AddressLimit
PartsApart ==
  \A p, q \in DOMAIN PartSpecs :
    p # q => \/ PartSpecs[p].part_offset + PartSpecs[p].part_size <= PartSpecs[q].part_offset
             \/ PartSpecs[q].part_offset + PartSpecs[q].part_size <= PartSpecs[p].part_offset
\* The header's numbers.
LEMMA PartTyped ==
  ASSUME NEW p \in DOMAIN PartSpecs
  PROVE  PartSpecs[p].part_offset \in Nat /\ PartSpecs[p].part_size \in Nat /\ PartSpecs[p].data_start \in Nat
<1> DEFINE PartRecords == [part_offset: Nat, part_size: Nat, data_start: Nat]
<1>1. PartSpecs \in Seq(PartRecords) BY HddAssumption
<1>2. p \in 1 .. Len(PartSpecs) BY <1>1
<1>3. PartSpecs[p] \in PartRecords BY <1>1, <1>2, ElementOfSeq
<1> QED BY <1>3

\* What is asked of a driver is on the disk, and fits into the memory asked
\* for.
LEMMA AskedFits ==
  ASSUME HddTypes, CallInv, PartsOnDisk, InDevice
  PROVE  /\ AskedBuf \in Nat /\ AskedLba \in Nat /\ AskedBlocks \in Nat \ {0}
         /\ AskedBuf + AskedBlocks <= MemBlocks /\ AskedLba + AskedBlocks <= AddressLimit
         /\ hcall # NoCall => AskedBuf + AskedBlocks <= hcall.n * Blk
<1>a. Blk \in Nat \ {0} /\ LbaStart \in Nat /\ MemBlocks \in Nat /\ MemBlocks > 1
  BY HddAssumption, AtaAssumption
<1>b. AddressLimit \in Nat
  <2>1. Byte * Byte * Byte \in Nat /\ Byte \in Nat /\ Nibble \in Nat BY AtaAssumption
  <2> QED BY <2>1 DEF AddressLimit
<1>1. CASE hcall = NoCall
  BY <1>1, <1>a DEF AskedBuf, AskedLba, AskedBlocks, PartsOnDisk
<1>2. CASE hcall # NoCall
  <2> DEFINE p == specs[CurrentPart]
             n == AskedSectors
  <2>1. hmy.left > 0 /\ Holds(CurrentPart) /\ hmy.lsn = hcall.lsn + hmy.off /\ hmy.left + hmy.off = hcall.n
        /\ specs = PartSpecs
    BY <1>2 DEF CallInv
  <2>2. hcall \in HddReads /\ hcall.n * Blk <= MemBlocks /\ hcall.n \in Nat /\ hcall.lsn \in Nat
    BY <1>2, HddAssumption DEF HddTypes
  <2>3. hmy.lsn \in Nat /\ hmy.left \in Nat /\ hmy.off \in Nat BY DEF HddTypes
  <2>4. CurrentPart \in DOMAIN PartSpecs /\ p = PartSpecs[CurrentPart]
    <3>1. CurrentPart \in DOMAIN specs BY <2>1 DEF Holds
    <3> QED BY <2>1, <3>1
  <2>5. p.part_offset \in Nat /\ p.part_size \in Nat /\ p.data_start \in Nat BY <2>4, PartTyped
  <2>6. hmy.lsn >= p.part_offset /\ hmy.lsn < p.part_offset + p.part_size BY <2>1 DEF Holds
  <2>7. p.data_start + p.part_size * Blk <= AddressLimit BY <2>4 DEF PartsOnDisk
  <2>8. n = AtMost(hmy.left, p.part_offset + p.part_size - hmy.lsn) BY DEF AskedSectors
  <2> HIDE DEF p, n
  <2>9. n \in Nat \ {0} /\ n <= hmy.left /\ n <= p.part_offset + p.part_size - hmy.lsn
    BY <2>1, <2>3, <2>5, <2>6, <2>8 DEF AtMost
  <2>10. AskedBuf = hmy.off * Blk /\ AskedBlocks = n * Blk
         /\ AskedLba = p.data_start + (hmy.lsn - p.part_offset) * Blk
    BY <1>2 DEF AskedBuf, AskedBlocks, AskedLba, p, n
  <2>11. PICK k \in Nat : hcall.n = hmy.off + n + k
    <3>1. hmy.left - n \in Nat BY <2>3, <2>9
    <3>2. hcall.n = hmy.off + n + (hmy.left - n) BY <2>1, <2>2, <2>3, <2>9
    <3> QED BY <3>1, <3>2
  <2>12. hcall.n * Blk = hmy.off * Blk + n * Blk + k * Blk BY <2>11, <2>3, <2>9, <1>a
  <2>13. hmy.off * Blk \in Nat /\ n * Blk \in Nat \ {0} /\ k * Blk \in Nat BY <2>3, <2>9, <2>11, <1>a
  <2>14. AskedBuf + AskedBlocks <= hcall.n * Blk BY <2>10, <2>12, <2>13
  <2>15. PICK d \in Nat : hmy.lsn - p.part_offset = d BY <2>3, <2>5, <2>6
  <2>16. PICK e \in Nat : p.part_size = d + n + e
    <3>1. p.part_size - d - n \in Nat BY <2>3, <2>5, <2>9, <2>15
    <3>2. p.part_size = d + n + (p.part_size - d - n) BY <2>5, <2>9, <2>15
    <3> QED BY <3>1, <3>2
  <2>17. p.part_size * Blk = d * Blk + n * Blk + e * Blk BY <2>15, <2>16, <2>9, <1>a
  <2>18. d * Blk \in Nat /\ e * Blk \in Nat BY <2>15, <2>16, <1>a
  <2>19. AskedLba \in Nat /\ AskedLba + AskedBlocks <= AddressLimit
    BY <2>5, <2>7, <2>10, <2>13, <2>15, <2>17, <2>18, <1>b
  <2> QED BY <2>2, <2>10, <2>13, <2>14, <2>19, <1>a
<1> QED BY <1>1, <1>2

\* A step of a driver or of its hardware leaves the call alone.
HddFrame == UNCHANGED <<driver, lba_48bit, specs, CurrentPart, hcall, hmy, hresult>>

\* So what is asked for stays.
LEMMA AskedSame ==
  ASSUME HddFrame
  PROVE  UNCHANGED <<AskedBuf, AskedLba, AskedBlocks>> /\ PartsOnDisk' = PartsOnDisk
         /\ CountLimit' = CountLimit /\ AddressLimit' = AddressLimit
  BY DEF HddFrame, AskedBuf, AskedLba, AskedBlocks, AskedSectors, PartsOnDisk, CountLimit, AddressLimit

\* Such a step keeps what the caller has if it writes only what is asked for.
LEMMA CallKept ==
  ASSUME HddTypes, CallInv, PartsOnDisk, MemoryInv, HddFrame, InIo, InDevice', DOMAIN hmem' = DOMAIN hmem,
         \A b \in DOMAIN hmem : hmem'[b] = hmem[b] \/ b \in AskedBuf .. AskedBuf + AskedBlocks - 1
  PROVE  CallInv' /\ MemoryInv'
<1>a. hat' \notin {"boot", "idle", "next", "return"} /\ InDevice
  BY DEF InDevice, InIo, OuterPlaces
<1>f. UNCHANGED <<driver, lba_48bit, specs, CurrentPart, hcall, hmy, hresult>> BY DEF HddFrame
<1>1. CallInv'
  <2>1. Holds(CurrentPart)' = Holds(CurrentPart) BY <1>f DEF Holds
  <2>2. hcall # NoCall => /\ hmy.left > 0 /\ Holds(CurrentPart) /\ specs = PartSpecs
                          /\ hmy.lsn = hcall.lsn + hmy.off /\ hmy.left + hmy.off = hcall.n
    BY <1>a DEF CallInv
  <2> QED BY <1>a, <1>f, <2>1, <2>2 DEF CallInv
<1>2. MemoryInv'
  <2> SUFFICES ASSUME hcall # NoCall
               PROVE  /\ \A i \in 0 .. hmy.off - 1, k \in 0 .. Blk - 1 : hmem'[i * Blk + k] = BlockOf(hcall.lsn + i, k)
                      /\ \A b \in hcall.n * Blk .. MemBlocks - 1 : hmem'[b] = Unwritten
    BY <1>f DEF MemoryInv, BlockOf
  <2>1. AskedBuf \in Nat /\ AskedBlocks \in Nat /\ AskedBuf + AskedBlocks <= hcall.n * Blk
        /\ AskedBuf = hmy.off * Blk /\ AskedBuf + AskedBlocks <= MemBlocks
    BY <1>a, AskedFits DEF AskedBuf
  <2>2. hmy.off \in Nat /\ Blk \in Nat \ {0} /\ MemBlocks \in Nat /\ DOMAIN hmem = 0 .. MemBlocks - 1
    BY HddAssumption, AtaAssumption DEF HddTypes
  <2>3. hcall.n * Blk \in Nat
    <3>1. hcall \in HddReads BY DEF HddTypes
    <3> QED BY <3>1, HddAssumption
  <2>4. ASSUME NEW i \in 0 .. hmy.off - 1, NEW k \in 0 .. Blk - 1
        PROVE  hmem'[i * Blk + k] = BlockOf(hcall.lsn + i, k)
    <3>0. hmy.off - i - 1 \in Nat /\ hmy.off = i + 1 + (hmy.off - i - 1) BY <2>2
    <3>1. PICK e \in Nat : hmy.off = i + 1 + e BY <3>0
    <3>2. hmy.off * Blk = i * Blk + Blk + e * Blk BY <3>1, <2>2
    <3>3. i * Blk \in Nat /\ e * Blk \in Nat BY <3>1, <2>2
    <3>4. i * Blk + k \in Nat /\ i * Blk + k < AskedBuf
      <4> DEFINE x == i * Blk
                 y == e * Blk
      <4>1. x \in Nat /\ y \in Nat /\ AskedBuf = x + Blk + y BY <2>1, <3>2, <3>3
      <4> HIDE DEF x, y
      <4>2. x + k \in Nat /\ x + k < AskedBuf BY <4>1, <2>2
      <4> QED BY <4>2 DEF x
    <3>5. hmem'[i * Blk + k] = hmem[i * Blk + k]
      <4> DEFINE b == i * Blk + k
      <4>1. b \in DOMAIN hmem /\ b \notin AskedBuf .. AskedBuf + AskedBlocks - 1
        <5> HIDE DEF b
        <5> QED BY <2>1, <2>2, <3>4 DEF b
      <4> HIDE DEF b
      <4>2. hmem'[b] = hmem[b] BY <4>1
      <4> QED BY <4>2 DEF b
    <3>6. hmem[i * Blk + k] = BlockOf(hcall.lsn + i, k) BY DEF MemoryInv
    <3> QED BY <3>5, <3>6
  <2>5. ASSUME NEW b \in hcall.n * Blk .. MemBlocks - 1 PROVE hmem'[b] = Unwritten
    <3>1. hmem[b] = Unwritten BY DEF MemoryInv
    <3>2. b \in DOMAIN hmem /\ b \notin AskedBuf .. AskedBuf + AskedBlocks - 1 BY <2>1, <2>2, <2>3
    <3> QED BY <3>1, <3>2
  <2> QED BY <2>4, <2>5
<1> QED BY <1>1, <1>2

\* So does one that changes neither memory nor the call.
LEMMA MemoryKept ==
  ASSUME MemoryInv, hmem' = hmem, hcall' = hcall, hmy' = hmy
  PROVE  MemoryInv'
<1> SUFFICES ASSUME hcall # NoCall
             PROVE  /\ \A i \in 0 .. hmy.off - 1, k \in 0 .. Blk - 1 : hmem'[i * Blk + k] = BlockOf(hcall.lsn + i, k)
                    /\ \A b \in hcall.n * Blk .. MemBlocks - 1 : hmem'[b] = Unwritten
  BY DEF MemoryInv, BlockOf
<1> QED BY DEF MemoryInv

\* A step that leaves the thread and its memory alone.
LEMMA JobKept ==
  ASSUME CallInv, JobInv, ChunkInv, MemoryInv, HddFrame, UNCHANGED <<hat, hmem, job>>
  PROVE  CallInv' /\ JobInv' /\ ChunkInv' /\ MemoryInv'
<1>f. UNCHANGED <<driver, lba_48bit, specs, CurrentPart, hcall, hmy, hresult, hat, hmem, job>> BY DEF HddFrame
<1>1. CallInv' BY <1>f DEF CallInv, InDevice, Holds, PartFor
<1>2. UNCHANGED <<AskedBuf, AskedLba, AskedBlocks, CountLimit>> BY AskedSame
<1>3. JobInv' BY <1>f, <1>2 DEF JobInv, InDevice, HasBlocks
<1>4. ChunkInv' BY <1>f, <1>2 DEF ChunkInv, InIo, Done
<1>5. MemoryInv' BY <1>f, MemoryKept
<1> QED BY <1>1, <1>3, <1>4, <1>5

\* A step of the driver in the middle of a command.
LEMMA CommandKept ==
  ASSUME JobInv, ChunkInv, HddFrame, hmem' = hmem,
         InIo, hat \notin {"call", "chunk", "start"}, InIo', hat' \notin {"call", "chunk"},
         job'.buf = job.buf, job'.lba = job.lba, job'.left = job.left, job'.len = job.len,
         job'.pos = job.pos, job'.blk = job.blk,
         hat' \in {"select", "issue", "set_dir"} => hat \in {"select", "issue", "set_dir"}
  PROVE  JobInv' /\ ChunkInv'
<1>2. UNCHANGED <<AskedBuf, AskedLba, AskedBlocks, CountLimit>> BY AskedSame
<1>3. InDevice /\ InDevice' /\ hat' \notin {"call", "done"} /\ hat \notin {"call", "done"}
  BY DEF InDevice, InIo, OuterPlaces
<1>4. JobInv' BY <1>2, <1>3 DEF JobInv, HasBlocks
<1>5. ChunkInv' BY <1>2 DEF ChunkInv, Done
<1> QED BY <1>4, <1>5

\* The end of a command: the rest of the call begins behind it.
LEMMA ChunkOver ==
  ASSUME HddTypes, CallInv, PartsOnDisk, JobInv, ChunkInv, HddFrame, hmem' = hmem,
         InIo, hat \notin {"call", "chunk"}, hat' \in {"call", "chunk"},
         job'.buf = job.buf + job.len, job'.lba = job.lba + job.len, job'.left = job.left - job.len,
         (hat' = "call" => job'.res = "OK") => HasBlocks(job.buf, job.lba, job.len)
  PROVE  JobInv' /\ ChunkInv' /\ job'.left \in Nat /\ job'.buf \in Nat /\ job'.lba \in Nat
<1>1. InDevice /\ InDevice' /\ hat \notin {"call", "done"} BY DEF InDevice, InIo, OuterPlaces
<1>2. UNCHANGED <<AskedBuf, AskedLba, AskedBlocks, CountLimit>> BY AskedSame
<1>3. job.len \in 1 .. job.left BY DEF ChunkInv
<1>4. /\ job.buf \in Nat /\ job.lba \in Nat /\ job.left \in Nat BY DEF HddTypes, Jobs
<1>5. AskedBuf \in Nat /\ AskedLba \in Nat /\ AskedBlocks \in Nat BY <1>1, AskedFits
<1>6. /\ job.buf + job.left = AskedBuf + AskedBlocks
      /\ job.lba + job.left = AskedLba + AskedBlocks
      /\ job.left <= AskedBlocks
      /\ HasBlocks(AskedBuf, AskedLba, AskedBlocks - job.left)
  BY <1>1 DEF JobInv
<1>7. ASSUME HasBlocks(job.buf, job.lba, job.len)
      PROVE  HasBlocks(AskedBuf, AskedLba, AskedBlocks - (job.left - job.len))
  <2> SUFFICES ASSUME NEW i \in 0 .. AskedBlocks - (job.left - job.len) - 1
               PROVE  hmem[AskedBuf + i] = AskedLba + i
    BY DEF HasBlocks
  <2>1. CASE i < AskedBlocks - job.left
    <3>1. i \in 0 .. (AskedBlocks - job.left) - 1 BY <2>1, <1>3, <1>4, <1>5
    <3> QED BY <3>1, <1>6 DEF HasBlocks
  <2>2. CASE i >= AskedBlocks - job.left
    <3> DEFINE m == i - (AskedBlocks - job.left)
    <3>1. m \in 0 .. job.len - 1 BY <2>2, <1>3, <1>4, <1>5, <1>6
    <3>2. job.buf + m = AskedBuf + i /\ job.lba + m = AskedLba + i BY <1>4, <1>5, <1>6
    <3> HIDE DEF m
    <3>3. hmem[job.buf + m] = job.lba + m BY <3>1, <1>7 DEF HasBlocks
    <3> QED BY <3>2, <3>3
  <2> QED BY <2>1, <2>2, <1>3, <1>4, <1>5
<1>8. JobInv'
  <2>1. hat' = "call" \/ hat' = "chunk" OBVIOUS
  <2>2. /\ job'.buf + job'.left = AskedBuf + AskedBlocks
        /\ job'.lba + job'.left = AskedLba + AskedBlocks
        /\ job'.left <= AskedBlocks
    BY <1>3, <1>4, <1>5, <1>6
  <2>3. hat' \notin {"call", "done"} \/ job'.res = "OK" => HasBlocks(AskedBuf, AskedLba, AskedBlocks - job'.left)
    BY <2>1, <1>7
  <2> QED BY <2>1, <2>2, <2>3, <1>2 DEF JobInv, HasBlocks
<1>9. ChunkInv' BY DEF ChunkInv
<1> QED BY <1>3, <1>4, <1>8, <1>9
-----------------------------------------------------------------------------
(***************************************************************************)
(* The steps of atad.c.                                                    *)
(***************************************************************************)
\* What each of them starts from.
LEMMA AtadParts ==
  ASSUME HddInv, driver = "atad"
  PROVE  /\ HddTypes /\ CallInv /\ JobInv /\ ChunkInv /\ MemoryInv /\ AtadPlace
         /\ hat \in AtadTransfer => FifoInv
         /\ hat = "finish" /\ job.res = "OK" => HasBlocks(job.buf, job.lba, job.len)
         /\ hat \in OuterPlaces \cup AtadPlaces
  BY DEF HddInv, AtadInv, HddTypes

\* And what is left to show of a step that keeps the caller's memory.
LEMMA AtadStepOver ==
  ASSUME HddInv, PartsOnDisk, driver = "atad", HddFrame, hmem' = hmem, InIo, InDevice',
         HddTypes', JobInv', ChunkInv', AtadInv'
  PROVE  HddInv'
<1>1. CallInv' /\ MemoryInv' BY CallKept DEF HddInv
<1>2. HdproInv' BY DEF HdproInv, HddFrame
<1> QED BY <1>1, <1>2 DEF HddInv

\* ata_device_sector_io takes the next chunk, or returns.
LEMMA AtadChunkKeeps ==
  ASSUME HddInv, PartsOnDisk, driver = "atad", HddFrame, AtadChunk
  PROVE  HddInv'
<1>a. HddTypes /\ CallInv /\ JobInv /\ ChunkInv /\ AtadPlace BY AtadParts
<1>f. UNCHANGED <<driver, lba_48bit, specs, CurrentPart, hcall, hmy, hresult>> BY DEF HddFrame
<1>b. /\ hat = "call" /\ UNCHANGED <<fifo, dma, mask, ata_evflg, alarm, drive, hmem, cause, hfaults>>
      /\ \/ /\ job.res = "OK" /\ job.left > 0 /\ hat' = "start" /\ icrc' = 0
            /\ job' = [job EXCEPT !.len = AtMost(job.left, MaxLen), !.retries = RETRIES]
         \/ /\ ~(job.res = "OK" /\ job.left > 0) /\ hat' = "done" /\ job' = job /\ icrc' = icrc
  BY Zenon DEF AtadChunk, Goto
<1>c. InIo /\ InDevice /\ InDevice' BY <1>b DEF InIo, InDevice, OuterPlaces
<1>d. UNCHANGED <<AskedBuf, AskedLba, AskedBlocks, CountLimit>> BY AskedSame
<1>e. job \in Jobs BY <1>a DEF HddTypes
<1>g. MaxLen \in Nat \ {0} /\ MaxLen <= CountLimit
  <2>1. MaxCmd48 \in Nat \ {0} /\ MaxCmd48 <= Byte * Byte /\ Byte \in Nat \ {0} BY AtaAssumption
  <2> QED BY <2>1 DEF MaxLen, CountLimit
<1>h. CountLimit \in Nat
  <2>1. Byte \in Nat /\ Byte * Byte \in Nat BY AtaAssumption
  <2> QED BY <2>1 DEF CountLimit
<1>1. CASE job.res = "OK" /\ job.left > 0
  <2> DEFINE len == AtMost(job.left, MaxLen)
  <2>1. len \in Nat \ {0} /\ len <= job.left /\ len <= CountLimit
    <3>1. job.left \in Nat \ {0} BY <1>1, <1>e DEF Jobs
    <3> QED BY <3>1, <1>g, <1>h DEF AtMost
  <2> HIDE DEF len
  <2>2. hat' = "start" /\ icrc' = 0 /\ job' = [job EXCEPT !.len = len, !.retries = RETRIES] BY <1>1, <1>b DEF len
  <2>3. job' \in Jobs
    <3>1. RETRIES \in Nat BY AtadAssumption
    <3> QED BY <1>e, <2>1, <2>2, <3>1 DEF Jobs
  <2>4. job'.len = len /\ job'.left = job.left /\ job'.buf = job.buf /\ job'.lba = job.lba
    BY <1>e, <2>2 DEF Jobs
  <2>5. JobInv' BY <1>a, <1>b, <1>c, <1>d, <1>1, <2>2, <2>4 DEF JobInv, HasBlocks
  <2>6. ChunkInv'
    <3>1. job.left \in Nat BY <1>e DEF Jobs
    <3> QED BY <1>d, <2>1, <2>2, <2>4, <3>1 DEF ChunkInv
  <2>7. AtadInv' BY <1>a, <1>b, <2>2 DEF AtadInv, AtadPlace, AtadTransfer
  <2>8. HddTypes' BY <1>a, <1>b, <1>f, <2>2, <2>3 DEF HddTypes, AtadPlaces, AtadStarting
  <2> QED BY <1>b, <1>c, <2>5, <2>6, <2>7, <2>8, AtadStepOver
<1>2. CASE ~(job.res = "OK" /\ job.left > 0)
  <2>1. hat' = "done" /\ job' = job /\ icrc' = icrc BY <1>2, <1>b
  <2>2. job.left \in Nat BY <1>e DEF Jobs
  <2>3. JobInv' BY <1>a, <1>b, <1>c, <1>d, <1>2, <2>1, <2>2 DEF JobInv, HasBlocks
  <2>4. ChunkInv' BY <2>1 DEF ChunkInv, InIo, OuterPlaces
  <2>5. AtadInv' BY <1>a, <1>b, <2>1 DEF AtadInv, AtadPlace, AtadTransfer
  <2>6. HddTypes' BY <1>a, <1>b, <1>f, <2>1 DEF HddTypes, OuterPlaces
  <2> QED BY <1>b, <1>c, <2>3, <2>4, <2>5, <2>6, AtadStepOver
<1> QED BY <1>1, <1>2

\* ata_io_start begins: the event flag is cleared, the chunk's counters are set.
LEMMA AtadStartKeeps ==
  ASSUME HddInv, PartsOnDisk, driver = "atad", HddFrame, AtadStart
  PROVE  HddInv'
<1>a. HddTypes /\ CallInv /\ JobInv /\ ChunkInv /\ AtadPlace BY AtadParts
<1>f. UNCHANGED <<driver, lba_48bit, specs, CurrentPart, hcall, hmy, hresult>> BY DEF HddFrame
<1>b. /\ hat = "start" /\ hat' = "select" /\ UNCHANGED <<fifo, dma, mask, alarm, icrc, drive, hmem, cause, hfaults>>
      /\ job' = [job EXCEPT !.pos = job.buf, !.blk = job.len]
  BY DEF AtadStart, Goto
<1>c. InIo /\ InDevice /\ InDevice' BY <1>b DEF InIo, InDevice, OuterPlaces
<1>d. UNCHANGED <<AskedBuf, AskedLba, AskedBlocks, CountLimit>> BY AskedSame
<1>e. job \in Jobs BY <1>a DEF HddTypes
<1>1. job' \in Jobs /\ job'.len = job.len /\ job'.left = job.left /\ job'.buf = job.buf /\ job'.lba = job.lba
      /\ job'.pos = job.buf /\ job'.blk = job.len
  BY <1>b, <1>e DEF Jobs
<1>2. JobInv' BY <1>a, <1>b, <1>c, <1>d, <1>1 DEF JobInv, HasBlocks
<1>3. ChunkInv'
  <2>1. job.len \in Nat /\ job.buf \in Nat BY <1>e DEF Jobs
  <2>2. job.len \in 1 .. job.left /\ job.len <= CountLimit BY <1>a, <1>b, <1>c DEF ChunkInv
  <2> QED BY <1>1, <1>d, <2>1, <2>2 DEF ChunkInv, Done
<1>4. AtadInv' BY <1>a, <1>b DEF AtadInv, AtadPlace, AtadTransfer
<1>5. HddTypes' BY <1>a, <1>b, <1>f, <1>1 DEF HddTypes, AtadPlaces, AtadStarting
<1> QED BY <1>b, <1>c, <1>2, <1>3, <1>4, <1>5, AtadStepOver

\* A command that failed to start, or did not come to its end.
LEMMA AtadAdvancedKeeps ==
  ASSUME HddInv, PartsOnDisk, driver = "atad", HddFrame, hmem' = hmem, NEW res \in IoResults,
         InIo, hat \notin {"call", "chunk"}, Advanced(res), res = "OK" => HasBlocks(job.buf, job.lba, job.len),
         dma' = FALSE, drive' = drive, fifo' = fifo, alarm' \in BOOLEAN, icrc' \in Nat,
         cause' \in BOOLEAN, hfaults' \in Nat
  PROVE  HddInv'
<1>a. HddTypes /\ CallInv /\ JobInv /\ ChunkInv BY AtadParts
<1>f. UNCHANGED <<driver, lba_48bit, specs, CurrentPart, hcall, hmy, hresult>> BY DEF HddFrame
<1>b. hat' = "call" /\ job' = [job EXCEPT !.res = res, !.buf = @ + job.len, !.lba = @ + job.len, !.left = @ - job.len]
  BY DEF Advanced, Goto
<1>c. InDevice' BY <1>b DEF InDevice, OuterPlaces
<1>e. job \in Jobs BY <1>a DEF HddTypes
<1>1. job'.res = res /\ job'.buf = job.buf + job.len /\ job'.lba = job.lba + job.len /\ job'.left = job.left - job.len
  BY <1>b, <1>e DEF Jobs
<1>2. JobInv' /\ ChunkInv' /\ job'.left \in Nat /\ job'.buf \in Nat /\ job'.lba \in Nat
  BY <1>a, <1>b, <1>1, ChunkOver
<1>3. job' \in Jobs
  <2> DEFINE l == job.left - job.len
             b == job.buf + job.len
             a == job.lba + job.len
  <2>1. job' = [job EXCEPT !.res = res, !.buf = b, !.lba = a, !.left = l] BY <1>b
  <2>2. l \in Nat /\ b \in Nat /\ a \in Nat BY <1>1, <1>2
  <2> HIDE DEF l, b, a
  <2> QED BY <1>e, <2>1, <2>2 DEF Jobs
<1>4. AtadInv' BY <1>b DEF AtadInv, AtadPlace, AtadTransfer
<1>5. HddTypes' BY <1>a, <1>b, <1>f, <1>3 DEF HddTypes, AtadPlaces, AtadStarting
<1> QED BY <1>b, <1>c, <1>2, <1>4, <1>5, AtadStepOver

\* ata_device_select finds the disk free, or gives the call up.
LEMMA AtadSelectKeeps ==
  ASSUME HddInv, PartsOnDisk, driver = "atad", HddFrame, AtadSelect
  PROVE  HddInv'
<1>a. HddTypes /\ CallInv /\ JobInv /\ ChunkInv /\ AtadPlace BY AtadParts
<1>f. UNCHANGED <<driver, lba_48bit, specs, CurrentPart, hcall, hmy, hresult>> BY DEF HddFrame
<1>b. /\ hat = "select" /\ UNCHANGED <<fifo, dma, mask, ata_evflg, alarm, icrc, drive, hmem, cause, hfaults>>
      /\ (~drive.busy /\ hat' = "issue" /\ job' = job) \/ Advanced("TIMEOUT")
  BY DEF AtadSelect, Goto, atadvars
<1>c. InIo /\ InDevice BY <1>b DEF InIo, InDevice, OuterPlaces
<1>1. CASE ~drive.busy /\ hat' = "issue" /\ job' = job
  <2>1. InIo' /\ InDevice' BY <1>1 DEF InIo, InDevice, OuterPlaces
  <2>2. JobInv' /\ ChunkInv' BY <1>a, <1>b, <1>c, <1>1, <2>1, CommandKept
  <2>3. AtadInv' BY <1>a, <1>b, <1>1 DEF AtadInv, AtadPlace, AtadTransfer
  <2>4. HddTypes' BY <1>a, <1>b, <1>f, <1>1 DEF HddTypes, AtadPlaces, AtadStarting
  <2> QED BY <1>b, <1>c, <2>1, <2>2, <2>3, <2>4, AtadStepOver
<1>2. CASE Advanced("TIMEOUT")
  <2>1. dma' = FALSE /\ alarm' \in BOOLEAN /\ icrc' \in Nat /\ cause' \in BOOLEAN /\ hfaults' \in Nat
    BY <1>a, <1>b DEF AtadPlace, HddTypes
  <2>2. "TIMEOUT" \in IoResults BY DEF IoResults
  <2> QED BY <1>b, <1>c, <1>2, <2>1, <2>2, AtadAdvancedKeeps
<1> QED BY <1>b, <1>1, <1>2

\* The command asks the disk for the blocks the call has come to.
LEMMA CommandIsAsked ==
  ASSUME HddTypes, CallInv, PartsOnDisk, JobInv, ChunkInv, InIo, hat \notin {"call", "chunk"}
  PROVE  Commanded(job.lba, job.len) = [IdleDrive EXCEPT !.busy = TRUE, !.lba = job.lba, !.left = job.len]
<1>1. InDevice /\ hat \notin {"call", "done"} BY DEF InDevice, InIo, OuterPlaces
<1>2. job.len \in 1 .. job.left /\ job.len <= CountLimit BY DEF ChunkInv
<1>3. job.lba \in Nat /\ job.left \in Nat /\ job.len \in Nat BY DEF HddTypes, Jobs
<1>4. AskedLba + AskedBlocks <= AddressLimit BY <1>1, AskedFits
<1>5. job.lba + job.left = AskedLba + AskedBlocks BY <1>1 DEF JobInv
<1>6. job.lba < AddressLimit
  <2>1. AddressLimit \in Nat
    <3>1. Byte * Byte * Byte \in Nat /\ Byte \in Nat /\ Nibble \in Nat BY AtaAssumption
    <3> QED BY <3>1 DEF AddressLimit
  <2>2. job.lba + job.left <= AddressLimit BY <1>4, <1>5
  <2> QED BY <1>2, <1>3, <2>1, <2>2
<1>7. lba_48bit \in BOOLEAN BY DEF HddTypes
<1>8. job.len \in Nat \ {0} BY <1>2, <1>3
<1> QED BY <1>2, <1>3, <1>6, <1>7, <1>8, CommandIsMeant

\* The command is sent with the chunk's address and count, or refused.
LEMMA AtadIssueKeeps ==
  ASSUME HddInv, PartsOnDisk, driver = "atad", HddFrame, AtadIssue
  PROVE  HddInv'
<1>a. HddTypes /\ CallInv /\ JobInv /\ ChunkInv /\ AtadPlace BY AtadParts
<1>f. UNCHANGED <<driver, lba_48bit, specs, CurrentPart, hcall, hmy, hresult>> BY DEF HddFrame
<1>b. /\ hat = "issue" /\ UNCHANGED <<fifo, dma, mask, ata_evflg, icrc, hmem>>
      /\ \/ /\ hat' = "set_dir" /\ alarm' = TRUE /\ drive' = Commanded(job.lba, job.len)
            /\ UNCHANGED <<cause, hfaults>> /\ job' = job
         \/ /\ hfaults < MaxFaults /\ hfaults' = hfaults + 1 /\ cause' = TRUE
            /\ Advanced("NOTREADY") /\ alarm' = alarm /\ drive' = drive
  BY DEF AtadIssue, Goto, HddFault, NoHddFault
<1>c. InIo /\ InDevice BY <1>b DEF InIo, InDevice, OuterPlaces
<1>d. hfaults \in Nat /\ alarm \in BOOLEAN /\ dma = FALSE /\ icrc \in Nat /\ cause \in BOOLEAN
  BY <1>a, <1>b DEF HddTypes, AtadPlace
<1>1. CASE hat' = "set_dir" /\ alarm' = TRUE /\ drive' = Commanded(job.lba, job.len)
            /\ UNCHANGED <<cause, hfaults>> /\ job' = job
  <2>1. InIo' /\ InDevice' BY <1>1 DEF InIo, InDevice, OuterPlaces
  <2>2. JobInv' /\ ChunkInv' BY <1>a, <1>b, <1>c, <1>1, <2>1, CommandKept
  <2>3. drive' = [IdleDrive EXCEPT !.busy = TRUE, !.lba = job.lba, !.left = job.len]
    BY <1>a, <1>b, <1>c, <1>1, CommandIsAsked
  <2>4. job.blk = job.len /\ job.len \in Nat /\ job.lba \in Nat
    BY <1>a, <1>b, <1>c DEF ChunkInv, HddTypes, Jobs
  <2>5. drive' \in Drive /\ drive'.busy = TRUE /\ drive'.lba = job.lba /\ drive'.left = job.len
        /\ drive'.err = "none"
    BY <2>3, <2>4 DEF IdleDrive, Drive
  <2>6. Done' = 0 /\ InFifo' = 0 BY <1>1, <2>4 DEF Done, InFifo
  <2>7. Sound' BY <2>6 DEF Sound, HasBlocks
  <2>8. FifoInv' BY <1>1, <2>4, <2>5, <2>6, <2>7 DEF FifoInv
  <2>9. AtadInv' BY <1>b, <1>d, <1>1, <2>8 DEF AtadInv, AtadPlace
  <2>10. HddTypes' BY <1>a, <1>b, <1>f, <1>1, <2>5 DEF HddTypes, AtadPlaces, AtadTransfer
  <2> QED BY <1>b, <1>c, <2>1, <2>2, <2>9, <2>10, AtadStepOver
<1>2. CASE /\ hfaults' = hfaults + 1 /\ cause' = TRUE
           /\ Advanced("NOTREADY") /\ alarm' = alarm /\ drive' = drive
  <2>1. "NOTREADY" \in IoResults BY DEF IoResults
  <2>2. dma' = FALSE /\ hmem' = hmem /\ drive' = drive /\ fifo' = fifo /\ alarm' \in BOOLEAN
        /\ icrc' \in Nat /\ cause' \in BOOLEAN /\ hfaults' \in Nat
    BY <1>b, <1>d, <1>2
  <2>3. hat \notin {"call", "chunk"} /\ Advanced("NOTREADY") BY <1>b, <1>2
  <2> QED BY <1>c, <2>1, <2>2, <2>3, AtadAdvancedKeeps
<1> QED BY <1>b, <1>1, <1>2

\* ata_set_dir empties the FIFO and starts the DMA.
LEMMA AtadSetDirKeeps ==
  ASSUME HddInv, PartsOnDisk, driver = "atad", HddFrame, ata_set_dir
  PROVE  HddInv'
<1>a. HddTypes /\ CallInv /\ JobInv /\ ChunkInv /\ AtadPlace /\ (hat \in AtadTransfer => FifoInv) BY AtadParts
<1>f. UNCHANGED <<driver, lba_48bit, specs, CurrentPart, hcall, hmy, hresult>> BY DEF HddFrame
<1>b. /\ hat = "set_dir" /\ hat' = "poll" /\ fifo' = <<>> /\ dma' = TRUE
      /\ UNCHANGED <<mask, ata_evflg, alarm, icrc, drive, hmem, job, cause, hfaults>>
  BY DEF ata_set_dir, Goto
<1>c. InIo /\ InDevice /\ InIo' /\ InDevice' BY <1>b DEF InIo, InDevice, OuterPlaces
<1>1. JobInv' /\ ChunkInv' BY <1>a, <1>b, <1>c, CommandKept
<1>2. FifoInv BY <1>a, <1>b DEF AtadTransfer
<1>3. Done' = Done /\ InFifo' = 0 /\ InFifo = 0 BY <1>b DEF Done, InFifo
<1>4. Sound => Sound' BY <1>b, <1>3 DEF Sound, HasBlocks
<1>5. FifoInv' BY <1>b, <1>2, <1>3, <1>4 DEF FifoInv
<1>6. AtadInv' BY <1>b, <1>5 DEF AtadInv, AtadPlace
<1>7. HddTypes' BY <1>a, <1>b, <1>f DEF HddTypes, AtadPlaces, AtadTransfer
<1> QED BY <1>b, <1>c, <1>1, <1>6, <1>7, AtadStepOver

\* A step from one place of the transfer to the next.
LEMMA AtadMoveKeeps ==
  ASSUME HddInv, PartsOnDisk, driver = "atad", HddFrame, UNCHANGED <<fifo, dma, alarm, icrc, hmem, cause, hfaults>>,
         hat \in {"poll", "wait", "last", "status"}, hat' \in {"poll", "wait", "last", "status", "finish"},
         hat' \in {"last", "status"} => job.blk = 0,
         NEW res \in IoResults, job' = [job EXCEPT !.res = res],
         hat' = "finish" /\ res = "OK" => drive.err = "none" /\ ~drive.busy /\ job.blk = 0,
         drive' \in Drive, drive'.busy = drive.busy, drive'.err = drive.err, drive'.left = drive.left,
         drive'.lba = drive.lba, drive'.crc = drive.crc
  PROVE  HddInv'
<1>a. HddTypes /\ CallInv /\ JobInv /\ ChunkInv /\ AtadPlace /\ FifoInv BY AtadParts DEF AtadTransfer
<1>f. UNCHANGED <<driver, lba_48bit, specs, CurrentPart, hcall, hmy, hresult>> BY DEF HddFrame
<1>c. InIo /\ InDevice /\ InIo' /\ InDevice' BY DEF InIo, InDevice, OuterPlaces
<1>e. job \in Jobs BY <1>a DEF HddTypes
<1>1. job' \in Jobs /\ job'.len = job.len /\ job'.left = job.left /\ job'.buf = job.buf /\ job'.lba = job.lba
      /\ job'.pos = job.pos /\ job'.blk = job.blk /\ job'.res = res
  BY <1>e DEF Jobs
<1>2. JobInv' /\ ChunkInv' BY <1>a, <1>c, <1>1, CommandKept
<1>3. Done' = Done /\ InFifo' = InFifo BY <1>1 DEF Done, InFifo
<1>4. Sound => Sound' BY <1>1, <1>3 DEF Sound, HasBlocks
<1>5. FifoInv' BY <1>a, <1>1, <1>3, <1>4 DEF FifoInv
<1>6. hat' = "finish" /\ res = "OK" => HasBlocks(job.buf, job.lba, job.len)'
  <2> SUFFICES ASSUME hat' = "finish", res = "OK" PROVE HasBlocks(job.buf, job.lba, job.len)' OBVIOUS
  <2>1. ~drive.crc BY <1>a DEF FifoInv, HddTypes, Drive
  <2>2. Sound BY <1>a, <2>1 DEF FifoInv
  <2>3. Done = job.len BY <1>e DEF Done, Jobs
  <2> QED BY <1>1, <2>2, <2>3 DEF Sound, HasBlocks
<1>7. AtadPlace' BY <1>a, <1>1 DEF AtadPlace
<1>8. AtadInv' BY <1>1, <1>5, <1>6, <1>7 DEF AtadInv
<1>9. HddTypes'
  <2>1. hat' \in AtadPlaces BY DEF AtadPlaces, AtadTransfer
  <2> QED BY <1>a, <1>f, <1>1, <2>1 DEF HddTypes
<1> QED BY <1>c, <1>2, <1>8, <1>9, AtadStepOver

\* ata_io_finish waits, wakes, and looks at the status register.
LEMMA AtadMovesKeep ==
  ASSUME HddInv, PartsOnDisk, driver = "atad", HddFrame,
         DmaWait \/ DmaWoken \/ DmaDone \/ LastWoken \/ AtadStatus
  PROVE  HddInv'
<1>a. HddTypes /\ AtadPlace BY AtadParts
<1>e. job \in Jobs /\ job.res \in IoResults /\ drive \in Drive BY <1>a DEF HddTypes, Jobs
<1>g. job = [job EXCEPT !.res = job.res] BY <1>e DEF Jobs
<1>1. CASE DmaWait
  <2>1. hat = "poll" /\ hat' = "wait" /\ UNCHANGED <<fifo, dma, alarm, icrc, drive, hmem, job, cause, hfaults>>
    BY <1>1 DEF DmaWait, Goto
  <2> QED BY <1>e, <1>g, <2>1, AtadMoveKeeps
<1>2. CASE DmaWoken
  <2>1. hat = "wait" /\ UNCHANGED <<fifo, dma, alarm, icrc, drive, hmem, cause, hfaults>>
    BY <1>2 DEF DmaWoken
  <2>2. Failed("TIMEOUT") \/ Failed(ErrorOf) \/ (hat' = "poll" /\ job' = job) BY <1>2 DEF DmaWoken, Goto
  <2>3. ErrorOf \in IoResults /\ "TIMEOUT" \in IoResults /\ ErrorOf # "OK" BY DEF ErrorOf, IoResults
  <2>4. CASE hat' = "poll" /\ job' = job BY <1>e, <1>g, <2>1, <2>4, AtadMoveKeeps
  <2>5. CASE Failed("TIMEOUT")
    <3>1. hat' = "finish" /\ job' = [job EXCEPT !.res = "TIMEOUT"] BY <2>5 DEF Failed, Goto
    <3> QED BY <1>e, <2>1, <2>3, <3>1, AtadMoveKeeps
  <2>6. CASE Failed(ErrorOf)
    <3>1. hat' = "finish" /\ job' = [job EXCEPT !.res = ErrorOf] BY <2>6 DEF Failed, Goto
    <3> QED BY <1>e, <2>1, <2>3, <3>1, AtadMoveKeeps
  <2> QED BY <2>2, <2>4, <2>5, <2>6
<1>3. CASE DmaDone
  <2>1. hat = "poll" /\ job.blk = 0 /\ hat' \in {"status", "last"}
        /\ UNCHANGED <<fifo, dma, alarm, icrc, drive, hmem, job, cause, hfaults>>
    BY <1>3 DEF DmaDone, Goto
  <2> QED BY <1>e, <1>g, <2>1, AtadMoveKeeps
<1>4. CASE LastWoken
  <2>1. hat = "last" /\ UNCHANGED <<fifo, dma, alarm, icrc, drive, hmem, cause, hfaults>> BY <1>4 DEF LastWoken
  <2>2. Failed("TIMEOUT") \/ (hat' = "status" /\ job' = job) BY <1>4 DEF LastWoken, Goto
  <2>3. "TIMEOUT" \in IoResults BY DEF IoResults
  <2>4. job.blk = 0 BY <1>a, <2>1 DEF AtadPlace
  <2>5. CASE hat' = "status" /\ job' = job BY <1>e, <1>g, <2>1, <2>4, <2>5, AtadMoveKeeps
  <2>6. CASE Failed("TIMEOUT")
    <3>1. hat' = "finish" /\ job' = [job EXCEPT !.res = "TIMEOUT"] BY <2>6 DEF Failed, Goto
    <3> QED BY <1>e, <2>1, <2>3, <3>1, AtadMoveKeeps
  <2> QED BY <2>2, <2>5, <2>6
<1>5. CASE AtadStatus
  <2>1. hat = "status" /\ UNCHANGED <<fifo, dma, alarm, icrc, hmem, cause, hfaults>>
        /\ drive' = [drive EXCEPT !.intrq = FALSE]
    BY <1>5 DEF AtadStatus, atadvars
  <2>2. \/ ~drive.busy /\ Failed(IF drive.err = "none" THEN "OK" ELSE ErrorOf)
        \/ Failed("TIMEOUT")
    BY <1>5 DEF AtadStatus
  <2>3. drive' \in Drive /\ drive'.busy = drive.busy /\ drive'.err = drive.err /\ drive'.left = drive.left
        /\ drive'.lba = drive.lba /\ drive'.crc = drive.crc
    BY <1>e, <2>1 DEF Drive
  <2>4. job.blk = 0 BY <1>a, <2>1 DEF AtadPlace
  <2>5. CASE ~drive.busy /\ Failed(IF drive.err = "none" THEN "OK" ELSE ErrorOf)
    <3> DEFINE r == IF drive.err = "none" THEN "OK" ELSE ErrorOf
    <3>1. r \in IoResults /\ (r = "OK" => drive.err = "none") BY DEF ErrorOf, IoResults
    <3>2. hat' = "finish" /\ job' = [job EXCEPT !.res = r] BY <2>5 DEF Failed, Goto
    <3> HIDE DEF r
    <3> QED BY <2>1, <2>3, <2>4, <2>5, <3>1, <3>2, AtadMoveKeeps
  <2>6. CASE Failed("TIMEOUT")
    <3>1. hat' = "finish" /\ job' = [job EXCEPT !.res = "TIMEOUT"] BY <2>6 DEF Failed, Goto
    <3>2. "TIMEOUT" \in IoResults BY DEF IoResults
    <3> QED BY <2>1, <2>3, <3>1, <3>2, AtadMoveKeeps
  <2> QED BY <2>2, <2>5, <2>6
<1> QED BY <1>1, <1>2, <1>3, <1>4, <1>5

\* The command's end: the next chunk, the next try, or the error.
LEMMA AtadFinishKeeps ==
  ASSUME HddInv, PartsOnDisk, driver = "atad", HddFrame, AtadFinish
  PROVE  HddInv'
<1>a. /\ HddTypes /\ CallInv /\ JobInv /\ ChunkInv /\ AtadPlace
      /\ hat = "finish" /\ job.res = "OK" => HasBlocks(job.buf, job.lba, job.len)
  BY AtadParts
<1>f. UNCHANGED <<driver, lba_48bit, specs, CurrentPart, hcall, hmy, hresult>> BY DEF HddFrame
<1>b. /\ hat = "finish" /\ alarm' = FALSE /\ dma' = FALSE /\ UNCHANGED <<fifo, mask, ata_evflg, drive, hmem, hfaults>>
      /\ icrc' = (IF job.res = "ICRC" THEN icrc + 1 ELSE icrc) /\ cause' = (cause \/ icrc' = RETRIES)
  BY DEF AtadFinish
<1>h. \/ job.res = "ICRC" /\ job.retries > 1 /\ hat' = "start" /\ job' = [job EXCEPT !.retries = @ - 1]
      \/ Advanced(job.res)
  BY Zenon DEF AtadFinish, Goto
<1>c. InIo /\ InDevice BY <1>b DEF InIo, InDevice, OuterPlaces
<1>e. job \in Jobs /\ job.res \in IoResults /\ icrc \in Nat /\ hfaults \in Nat /\ cause \in BOOLEAN
  BY <1>a DEF HddTypes, Jobs
<1>d. alarm' \in BOOLEAN /\ icrc' \in Nat /\ cause' \in BOOLEAN /\ hfaults' \in Nat
  <2>1. icrc' \in Nat /\ hfaults' \in Nat BY <1>b, <1>e
  <2>2. cause' \in BOOLEAN BY <1>b, Zenon
  <2>3. alarm' \in BOOLEAN BY <1>b
  <2> QED BY <2>1, <2>2, <2>3
<1>1. CASE job.res = "ICRC" /\ job.retries > 1 /\ hat' = "start" /\ job' = [job EXCEPT !.retries = @ - 1]
  <2>1. InIo' /\ InDevice' BY <1>1 DEF InIo, InDevice, OuterPlaces
  <2> DEFINE r == job.retries - 1
  <2>2. r \in Nat /\ job' = [job EXCEPT !.retries = r] BY <1>1, <1>e DEF Jobs
  <2> HIDE DEF r
  <2>3. job' \in Jobs /\ job'.len = job.len /\ job'.left = job.left /\ job'.buf = job.buf /\ job'.lba = job.lba
        /\ job'.pos = job.pos /\ job'.blk = job.blk
    BY <1>e, <2>2 DEF Jobs
  <2>4. JobInv' /\ ChunkInv' BY <1>a, <1>b, <1>c, <1>1, <2>1, <2>3, CommandKept
  <2>5. AtadInv' BY <1>b, <1>1 DEF AtadInv, AtadPlace, AtadTransfer
  <2>6. HddTypes' BY <1>a, <1>b, <1>d, <1>f, <1>1, <2>3 DEF HddTypes, AtadPlaces, AtadStarting
  <2> QED BY <1>b, <1>c, <2>1, <2>4, <2>5, <2>6, AtadStepOver
<1>2. CASE Advanced(job.res)
  <2>1. hat \notin {"call", "chunk"} /\ (job.res = "OK" => HasBlocks(job.buf, job.lba, job.len)) BY <1>a, <1>b
  <2>2. hmem' = hmem /\ dma' = FALSE /\ drive' = drive /\ fifo' = fifo BY <1>b
  <2> QED BY <1>c, <1>d, <1>e, <1>2, <2>1, <2>2, AtadAdvancedKeeps
<1> QED BY <1>h, <1>1, <1>2
-----------------------------------------------------------------------------
(***************************************************************************)
(* Blocks on their way from the disk to the caller's memory.               *)
(***************************************************************************)
\* After the step.
WillHave(p, lba, n) == \A i \in 0 .. n - 1 : hmem'[p + i] = lba + i
WillHold(p, s) == \A j \in 1 .. Len(s) : hmem'[p + (j - 1)] = s[j]

\* What memory holds behind a transfer.
LEMMA StoredAt ==
  ASSUME HddTypes, NEW p \in Nat, NEW s \in Seq(Int), StoredBlocks(p, s), p + Len(s) <= MemBlocks
  PROVE  /\ DOMAIN hmem' = DOMAIN hmem
         /\ \A b \in DOMAIN hmem : b \notin p .. p + Len(s) - 1 => hmem'[b] = hmem[b]
         /\ \A j \in 1 .. Len(s) : hmem'[p + (j - 1)] = s[j]
<1>1. hmem' = [b \in DOMAIN hmem |-> IF b - p + 1 \in DOMAIN s THEN s[b - p + 1] ELSE hmem[b]]
  BY DEF StoredBlocks
<1>2. DOMAIN hmem = 0 .. MemBlocks - 1 /\ MemBlocks \in Nat BY AtaAssumption DEF HddTypes
<1>3. DOMAIN s = 1 .. Len(s) /\ Len(s) \in Nat OBVIOUS
<1>4. ASSUME NEW b \in DOMAIN hmem, b \notin p .. p + Len(s) - 1 PROVE hmem'[b] = hmem[b]
  <2>1. b - p + 1 \notin DOMAIN s BY <1>2, <1>3, <1>4
  <2> QED BY <1>1, <2>1
<1>5. ASSUME NEW j \in 1 .. Len(s) PROVE hmem'[p + (j - 1)] = s[j]
  <2> DEFINE b == p + (j - 1)
  <2>1. b \in DOMAIN hmem /\ b - p + 1 = j BY <1>2, <1>3
  <2> HIDE DEF b
  <2>2. hmem'[b] = s[j] BY <1>1, <1>3, <2>1
  <2> QED BY <2>2 DEF b
<1> QED BY <1>1, <1>4, <1>5

\* Where the command under way stores its blocks: within what is asked for,
\* behind what has come already.
LEMMA StoreFits ==
  ASSUME HddTypes, CallInv, PartsOnDisk, JobInv, ChunkInv, InIo, hat \notin {"call", "chunk", "start"}
  PROVE  /\ AskedBuf \in Nat /\ AskedBlocks \in Nat /\ AskedLba \in Nat
         /\ job.buf = AskedBuf + (AskedBlocks - job.left) /\ job.left \in Nat /\ job.left <= AskedBlocks
         /\ job.pos = job.buf + Done /\ Done \in Nat /\ job.blk \in Nat /\ job.len = Done + job.blk
         /\ job.buf \in Nat /\ job.pos \in Nat /\ job.lba \in Nat
         /\ job.pos + job.blk <= AskedBuf + AskedBlocks /\ job.pos + job.blk <= MemBlocks
<1>1. InDevice BY DEF InDevice, InIo, OuterPlaces
<1>2. job.buf \in Nat /\ job.left \in Nat /\ job.len \in Nat /\ job.blk \in Nat /\ job.pos \in Nat /\ job.lba \in Nat
  BY DEF HddTypes, Jobs
<1>3. AskedBuf \in Nat /\ AskedBlocks \in Nat /\ AskedBuf + AskedBlocks <= MemBlocks /\ AskedLba \in Nat
  BY <1>1, AskedFits
<1>4. job.buf + job.left = AskedBuf + AskedBlocks /\ job.left <= AskedBlocks BY <1>1 DEF JobInv
<1>5. job.len <= job.left /\ job.blk <= job.len /\ job.pos = job.buf + Done BY <1>2 DEF ChunkInv
<1>6. Done = job.len - job.blk BY DEF Done
<1>7. MemBlocks \in Nat BY AtaAssumption
<1>8. Done \in Nat /\ job.len = Done + job.blk /\ job.buf = AskedBuf + (AskedBlocks - job.left)
  BY <1>2, <1>3, <1>4, <1>5, <1>6
<1>9. job.pos + job.blk <= AskedBuf + AskedBlocks BY <1>2, <1>3, <1>4, <1>5, <1>8
<1>10. job.pos + job.blk <= MemBlocks BY <1>2, <1>3, <1>7, <1>9
<1> QED BY <1>2, <1>3, <1>4, <1>5, <1>8, <1>9, <1>10

\* A store of count blocks by the command, of which blk are still to come.
LEMMA StoreWrites ==
  ASSUME HddTypes, CallInv, PartsOnDisk, JobInv, ChunkInv, MemoryInv, HddFrame,
         InIo, hat \notin {"call", "chunk", "start"}, InIo', hat' # "call",
         NEW s \in Seq(Int), Len(s) <= job.blk, StoredBlocks(job.pos, s)
  PROVE  CallInv' /\ MemoryInv' /\ DOMAIN hmem' = DOMAIN hmem
         /\ WillHave(AskedBuf, AskedLba, AskedBlocks - job.left)
         /\ (HasBlocks(job.buf, job.lba, Done) => WillHave(job.buf, job.lba, Done))
         /\ WillHold(job.pos, s)
<1>1. InDevice /\ InDevice' /\ hat' \notin {"call", "done"} /\ hat \notin {"call", "done"}
  BY DEF InDevice, InIo, OuterPlaces
<1>a. AskedBuf \in Nat /\ AskedBlocks \in Nat /\ AskedLba \in Nat /\ job.left \in Nat /\ Done \in Nat
      /\ job.blk \in Nat /\ job.buf \in Nat /\ job.pos \in Nat /\ job.lba \in Nat
  BY StoreFits
<1>b. job.buf = AskedBuf + (AskedBlocks - job.left) /\ job.left <= AskedBlocks BY StoreFits
<1>c. job.pos = job.buf + Done BY StoreFits
<1>d. job.pos + job.blk <= AskedBuf + AskedBlocks /\ job.pos + job.blk <= MemBlocks BY StoreFits
<1>3. Len(s) \in Nat /\ job.pos + Len(s) <= MemBlocks
  <2>1. MemBlocks \in Nat BY AtaAssumption
  <2> QED BY <1>a, <1>d, <2>1
<1>4. /\ DOMAIN hmem' = DOMAIN hmem
      /\ \A b \in DOMAIN hmem : b \notin job.pos .. job.pos + Len(s) - 1 => hmem'[b] = hmem[b]
      /\ \A j \in 1 .. Len(s) : hmem'[job.pos + (j - 1)] = s[j]
  BY <1>a, <1>3, StoredAt
<1>5. DOMAIN hmem = 0 .. MemBlocks - 1 /\ MemBlocks \in Nat BY AtaAssumption DEF HddTypes
<1>6. CallInv' /\ MemoryInv'
  <2>1. ASSUME NEW b \in DOMAIN hmem
        PROVE  hmem'[b] = hmem[b] \/ b \in AskedBuf .. AskedBuf + AskedBlocks - 1
    <3>1. job.pos >= AskedBuf BY <1>a, <1>b, <1>c
    <3>2. job.pos + Len(s) <= AskedBuf + AskedBlocks BY <1>a, <1>d, <1>3
    <3>3. b \in job.pos .. job.pos + Len(s) - 1 => b \in AskedBuf .. AskedBuf + AskedBlocks - 1
      BY <1>a, <1>3, <1>5, <3>1, <3>2
    <3> QED BY <3>3, <1>4
  <2> QED BY <1>1, <1>4, <2>1, CallKept
<1>7. ASSUME NEW b \in Nat, b < job.pos PROVE hmem'[b] = hmem[b]
  <2>1. b \in DOMAIN hmem /\ b \notin job.pos .. job.pos + Len(s) - 1 BY <1>a, <1>d, <1>3, <1>5, <1>7
  <2> QED BY <2>1, <1>4
<1>8. HasBlocks(AskedBuf, AskedLba, AskedBlocks - job.left) =>
        \A i \in 0 .. AskedBlocks - job.left - 1 : hmem'[AskedBuf + i] = AskedLba + i
  <2> SUFFICES ASSUME HasBlocks(AskedBuf, AskedLba, AskedBlocks - job.left), NEW i \in 0 .. AskedBlocks - job.left - 1
               PROVE  hmem'[AskedBuf + i] = AskedLba + i
    OBVIOUS
  <2>1. AskedBuf + i \in Nat /\ AskedBuf + i < job.pos BY <1>a, <1>b, <1>c
  <2>2. hmem'[AskedBuf + i] = hmem[AskedBuf + i] BY <2>1, <1>7
  <2> QED BY <2>2 DEF HasBlocks
<1>9. HasBlocks(job.buf, job.lba, Done) => \A i \in 0 .. Done - 1 : hmem'[job.buf + i] = job.lba + i
  <2> SUFFICES ASSUME HasBlocks(job.buf, job.lba, Done), NEW i \in 0 .. Done - 1
               PROVE  hmem'[job.buf + i] = job.lba + i
    OBVIOUS
  <2>1. job.buf + i \in Nat /\ job.buf + i < job.pos BY <1>a, <1>c
  <2>2. hmem'[job.buf + i] = hmem[job.buf + i] BY <2>1, <1>7
  <2> QED BY <2>2 DEF HasBlocks
<1>10. HasBlocks(AskedBuf, AskedLba, AskedBlocks - job.left) BY <1>1 DEF JobInv
<1> QED BY <1>4, <1>6, <1>8, <1>9, <1>10 DEF WillHave, WillHold

\* Storing blocks within what is asked for keeps the caller's memory.
LEMMA StoreKeeps ==
  ASSUME HddTypes, CallInv, PartsOnDisk, JobInv, ChunkInv, MemoryInv, HddFrame,
         InIo, hat \notin {"call", "chunk", "start"}, InIo', hat' # "call",
         NEW s \in Seq(Int), Len(s) <= job.blk, StoredBlocks(job.pos, s),
         job'.buf = job.buf, job'.lba = job.lba, job'.left = job.left
  PROVE  JobInv'
<1>1. InDevice /\ InDevice' /\ hat' \notin {"call", "done"} /\ hat \notin {"call", "done"}
  BY DEF InDevice, InIo, OuterPlaces
<1>2. UNCHANGED <<AskedBuf, AskedLba, AskedBlocks>> BY AskedSame
<1>3. /\ job.buf + job.left = AskedBuf + AskedBlocks
      /\ job.lba + job.left = AskedLba + AskedBlocks
      /\ job.left <= AskedBlocks
  BY <1>1 DEF JobInv
<1>4. WillHave(AskedBuf, AskedLba, AskedBlocks - job.left) BY StoreWrites
<1>5. HasBlocks(AskedBuf, AskedLba, AskedBlocks - job.left)' BY <1>2, <1>4 DEF HasBlocks, WillHave
<1> QED BY <1>1, <1>2, <1>3, <1>5 DEF JobInv

\* The blocks taken from the FIFO, and those left in it.
LEMMA SplitAt ==
  ASSUME NEW s \in Seq(Int), NEW n \in 0 .. Len(s)
  PROVE  /\ SubSeq(s, 1, n) \in Seq(Int) /\ Len(SubSeq(s, 1, n)) = n
         /\ \A j \in 1 .. n : SubSeq(s, 1, n)[j] = s[j]
         /\ SubSeq(s, n + 1, Len(s)) \in Seq(Int) /\ Len(SubSeq(s, n + 1, Len(s))) = Len(s) - n
         /\ \A j \in 1 .. Len(s) - n : SubSeq(s, n + 1, Len(s))[j] = s[n + j]
<1>1. Len(s) \in Nat /\ n \in Nat /\ n <= Len(s) OBVIOUS
<1>2. \A j \in 1 .. Len(s) : s[j] \in Int BY ElementOfSeq
<1>3. SubSeq(s, 1, n) \in Seq(Int) /\ Len(SubSeq(s, 1, n)) = n /\ \A j \in 1 .. n : SubSeq(s, 1, n)[j] = s[j]
  <2>1. \A j \in 1 .. n : s[j] \in Int BY <1>1, <1>2
  <2>2. /\ SubSeq(s, 1, n) \in Seq(Int)
        /\ Len(SubSeq(s, 1, n)) = IF 1 <= n THEN n - 1 + 1 ELSE 0
        /\ \A i \in 1 .. n - 1 + 1 : SubSeq(s, 1, n)[i] = s[1 + i - 1]
    BY <1>1, <2>1, SubSeqProperties
  <2>3. n - 1 + 1 = n /\ \A i \in 1 .. n : 1 + i - 1 = i BY <1>1
  <2> QED BY <1>1, <2>2, <2>3
<1>4. SubSeq(s, n + 1, Len(s)) \in Seq(Int) /\ Len(SubSeq(s, n + 1, Len(s))) = Len(s) - n
      /\ \A j \in 1 .. Len(s) - n : SubSeq(s, n + 1, Len(s))[j] = s[n + j]
  <2>1. \A j \in n + 1 .. Len(s) : s[j] \in Int BY <1>1, <1>2
  <2>2. /\ SubSeq(s, n + 1, Len(s)) \in Seq(Int)
        /\ Len(SubSeq(s, n + 1, Len(s))) = IF n + 1 <= Len(s) THEN Len(s) - (n + 1) + 1 ELSE 0
        /\ \A i \in 1 .. Len(s) - (n + 1) + 1 : SubSeq(s, n + 1, Len(s))[i] = s[(n + 1) + i - 1]
    BY <1>1, <2>1, SubSeqProperties
  <2>3. Len(s) - (n + 1) + 1 = Len(s) - n /\ \A i \in 1 .. Len(s) - n : (n + 1) + i - 1 = n + i BY <1>1
  <2>4. Len(SubSeq(s, n + 1, Len(s))) = Len(s) - n BY <1>1, <2>2
  <2>5. ASSUME NEW j \in 1 .. Len(s) - n PROVE SubSeq(s, n + 1, Len(s))[j] = s[n + j] BY <2>2, <2>3
  <2> QED BY <2>2, <2>4, <2>5
<1> QED BY <1>3, <1>4

\* dev9DmaTransfer: the FIFO's blocks go behind what memory has.
LEMMA AtadTransferKeeps ==
  ASSUME HddInv, PartsOnDisk, driver = "atad", HddFrame, DmaTransfer
  PROVE  HddInv'
<1>a. HddTypes /\ CallInv /\ JobInv /\ ChunkInv /\ MemoryInv /\ AtadPlace /\ (hat \in AtadTransfer => FifoInv) BY AtadParts
<1>f. UNCHANGED <<driver, lba_48bit, specs, CurrentPart, hcall, hmy, hresult>> BY DEF HddFrame
<1> DEFINE count == AtMost(job.blk, Len(fifo))
           s == SubSeq(fifo, 1, count)
<1>b. /\ hat = "poll" /\ hat' = "poll" /\ job.blk > 0 /\ fifo # <<>>
      /\ StoredBlocks(job.pos, s) /\ fifo' = SubSeq(fifo, count + 1, Len(fifo))
      /\ job' = [job EXCEPT !.blk = @ - count, !.pos = @ + count]
      /\ UNCHANGED <<dma, mask, ata_evflg, alarm, icrc, drive, cause, hfaults>>
  BY DEF DmaTransfer
<1>c. InIo /\ InDevice /\ InIo' /\ InDevice' BY <1>b DEF InIo, InDevice, OuterPlaces
<1>e. job \in Jobs /\ fifo \in Seq(Int) /\ job.blk \in Nat /\ job.pos \in Nat /\ job.len \in Nat /\ drive \in Drive
  BY <1>a DEF HddTypes, Jobs
<1>1. count \in 1 .. Len(fifo) /\ count <= job.blk /\ Len(fifo) \in Nat
  <2>1. Len(fifo) \in Nat \ {0} BY <1>b, <1>e
  <2> QED BY <1>b, <1>e, <2>1 DEF AtMost
<1>2. /\ s \in Seq(Int) /\ Len(s) = count /\ \A j \in 1 .. count : s[j] = fifo[j]
      /\ fifo' \in Seq(Int) /\ Len(fifo') = Len(fifo) - count
      /\ \A j \in 1 .. Len(fifo) - count : fifo'[j] = fifo[count + j]
  <2>1. count \in 0 .. Len(fifo) BY <1>1
  <2> HIDE DEF count
  <2> QED BY <1>b, <1>e, <2>1, SplitAt
<1> HIDE DEF s, count
<1>3. job' \in Jobs /\ job'.blk = job.blk - count /\ job'.pos = job.pos + count
      /\ job'.len = job.len /\ job'.left = job.left /\ job'.buf = job.buf /\ job'.lba = job.lba /\ job'.res = job.res
  <2> DEFINE l == job.blk - count
             p == job.pos + count
  <2>1. job' = [job EXCEPT !.blk = l, !.pos = p] BY <1>b
  <2>2. l \in Nat /\ p \in Nat BY <1>1, <1>e
  <2> HIDE DEF l, p
  <2>3. job' \in Jobs /\ job'.blk = l /\ job'.pos = p
        /\ job'.len = job.len /\ job'.left = job.left /\ job'.buf = job.buf /\ job'.lba = job.lba /\ job'.res = job.res
    BY <1>e, <2>1, <2>2 DEF Jobs
  <2> QED BY <2>3 DEF l, p
<1>4. /\ CallInv' /\ MemoryInv' /\ DOMAIN hmem' = DOMAIN hmem
      /\ (HasBlocks(job.buf, job.lba, Done) => WillHave(job.buf, job.lba, Done))
      /\ \A j \in 1 .. count : hmem'[job.pos + (j - 1)] = s[j]
  <2>1. hat \notin {"call", "chunk", "start"} /\ hat' # "call" /\ Len(s) <= job.blk BY <1>1, <1>2, <1>b
  <2>2. s \in Seq(Int) /\ StoredBlocks(job.pos, s) BY <1>b, <1>2
  <2>3. CallInv' /\ MemoryInv' /\ DOMAIN hmem' = DOMAIN hmem BY <1>a, <1>c, <2>1, <2>2, StoreWrites
  <2>4. HasBlocks(job.buf, job.lba, Done) => WillHave(job.buf, job.lba, Done)
    BY <1>a, <1>c, <2>1, <2>2, StoreWrites
  <2>5. WillHold(job.pos, s) BY <1>a, <1>c, <2>1, <2>2, StoreWrites
  <2> QED BY <1>2, <2>3, <2>4, <2>5 DEF WillHold
<1>5. JobInv'
  <2>1. hat \notin {"call", "chunk", "start"} /\ hat' # "call" /\ Len(s) <= job.blk BY <1>1, <1>2, <1>b
  <2> QED BY <1>a, <1>b, <1>c, <1>2, <1>3, <2>1, StoreKeeps
<1>6. Done' = Done + count /\ Done \in Nat /\ job.pos = job.buf + Done /\ job.blk <= job.len
      /\ job.buf \in Nat /\ job.lba \in Nat
  <2>1. job.blk <= job.len /\ job.pos = job.buf + Done BY <1>a, <1>b, <1>c DEF ChunkInv
  <2>2. Done = job.len - job.blk /\ Done' = job'.len - job'.blk BY DEF Done
  <2>3. job.buf \in Nat /\ job.lba \in Nat BY <1>e DEF Jobs
  <2>4. Done \in Nat BY <1>e, <2>1, <2>2
  <2>5. Done' = Done + count BY <1>1, <1>3, <1>e, <2>2
  <2> QED BY <2>1, <2>3, <2>4, <2>5
<1>7. ChunkInv'
  <2>1. CountLimit' = CountLimit BY AskedSame
  <2>2. job.len \in 1 .. job.left /\ job.len <= CountLimit BY <1>a, <1>b, <1>c DEF ChunkInv
  <2>3. job'.blk <= job'.len BY <1>1, <1>3, <1>6, <1>e
  <2>4. job'.pos = job'.buf + Done' BY <1>1, <1>3, <1>6
  <2> QED BY <1>b, <1>3, <2>1, <2>2, <2>3, <2>4 DEF ChunkInv
<1>8. InFifo = Len(fifo) /\ InFifo' = Len(fifo) - count BY <1>2, <1>b DEF InFifo
<1>9. Sound => Sound'
  <2> SUFFICES ASSUME Sound PROVE Sound' OBVIOUS
  <2>1. ASSUME NEW i \in 0 .. Done + count - 1 PROVE hmem'[job.buf + i] = job.lba + i
    <3>1. CASE i < Done
      <4>1. i \in 0 .. Done - 1 BY <3>1, <1>6
      <4> QED BY <4>1, <1>4 DEF Sound, WillHave
    <3>2. CASE i >= Done
      <4> DEFINE j == i - Done + 1
      <4>1. j \in 1 .. count /\ job.pos + (j - 1) = job.buf + i /\ job.lba + Done + (j - 1) = job.lba + i
        BY <3>2, <1>1, <1>6
      <4> HIDE DEF j
      <4>2. hmem'[job.pos + (j - 1)] = fifo[j] BY <4>1, <1>2, <1>4
      <4>3. j \in 1 .. InFifo BY <4>1, <1>1, <1>8
      <4>4. fifo[j] = job.lba + Done + (j - 1) BY <4>3 DEF Sound
      <4> QED BY <4>1, <4>2, <4>4
    <3> QED BY <3>1, <3>2, <1>1, <1>6
  <2>2. ASSUME NEW j \in 1 .. Len(fifo) - count PROVE fifo'[j] = job.lba + (Done + count) + (j - 1)
    <3>1. count + j \in 1 .. InFifo BY <1>1, <1>8
    <3>2. fifo[count + j] = job.lba + Done + ((count + j) - 1) BY <3>1 DEF Sound
    <3>3. job.lba + Done + ((count + j) - 1) = job.lba + (Done + count) + (j - 1) BY <1>1, <1>6
    <3> QED BY <3>2, <3>3, <1>2
  <2>3. HasBlocks(job.buf, job.lba, Done)'
    <3>1. job'.buf = job.buf /\ job'.lba = job.lba /\ Done' = Done + count BY <1>3, <1>6
    <3> DEFINE d == Done + count
    <3>2. ASSUME NEW i \in 0 .. d - 1 PROVE hmem'[job'.buf + i] = job'.lba + i
      <4>1. hmem'[job.buf + i] = job.lba + i BY <2>1, <1>1, <1>6
      <4> QED BY <3>1, <4>1
    <3>3. Done' = d BY <3>1
    <3> HIDE DEF d
    <3>4. \A i \in 0 .. Done' - 1 : hmem'[job'.buf + i] = job'.lba + i BY <3>2, <3>3
    <3> QED BY <3>4, Zenon DEF HasBlocks
  <2>4. \A j \in 1 .. InFifo' : fifo'[j] = job'.lba + Done' + (j - 1) BY <2>2, <1>3, <1>6, <1>8
  <2> QED BY <2>3, <2>4 DEF Sound
<1>10. FifoInv'
  <2>1. FifoInv BY <1>a, <1>b DEF AtadTransfer
  <2>2. drive.left \in Nat /\ drive.lba \in Nat BY <1>e DEF Drive
  <2>3. drive.left + Len(fifo) = job.blk => drive.left + (Len(fifo) - count) = job.blk - count
    BY <2>2, <1>1, <1>e
  <2>4. job.lba + (Done + count) + (Len(fifo) - count) = job.lba + Done + Len(fifo) BY <1>1, <1>6
  <2> QED BY <1>b, <1>3, <1>6, <1>8, <1>9, <2>1, <2>3, <2>4 DEF FifoInv
<1>11. AtadInv'
  <2>1. AtadPlace' BY <1>a, <1>b DEF AtadPlace
  <2> QED BY <1>b, <1>10, <2>1 DEF AtadInv
<1>12. HddTypes' BY <1>a, <1>b, <1>f, <1>2, <1>3, <1>4 DEF HddTypes, AtadPlaces, AtadTransfer
<1>13. HdproInv' BY <1>f DEF HdproInv
<1> QED BY <1>4, <1>5, <1>7, <1>11, <1>12, <1>13 DEF HddInv

\* A step of the disk or of an interrupt: what is left to show of it.
LEMMA AtadDriveKeeps ==
  ASSUME HddInv, driver = "atad", HddFrame, UNCHANGED <<hmem, job, hat, dma, icrc>>,
         fifo' \in Seq(Int), drive' \in Drive, alarm' \in BOOLEAN, cause' \in BOOLEAN, hfaults' \in Nat,
         drive'.busy => drive.busy, hat \in AtadTransfer => FifoInv'
  PROVE  HddInv'
<1>a. HddTypes /\ CallInv /\ JobInv /\ ChunkInv /\ MemoryInv /\ AtadPlace BY AtadParts
<1>f. UNCHANGED <<driver, lba_48bit, specs, CurrentPart, hcall, hmy, hresult>> BY DEF HddFrame
<1>1. CallInv' /\ JobInv' /\ ChunkInv' /\ MemoryInv' BY <1>a, JobKept
<1>2. HddTypes' BY <1>a, <1>f DEF HddTypes
<1>3. AtadInv'
  <2>1. AtadPlace' BY <1>a DEF AtadPlace
  <2>2. hat = "finish" /\ job.res = "OK" => HasBlocks(job.buf, job.lba, job.len)' BY AtadParts DEF HasBlocks
  <2> QED BY <2>1, <2>2 DEF AtadInv
<1>4. HdproInv' BY <1>f DEF HdproInv
<1> QED BY <1>1, <1>2, <1>3, <1>4 DEF HddInv

\* The disk puts its next block into the FIFO, sound or damaged.
LEMMA AtadFillKeeps ==
  ASSUME HddInv, driver = "atad", HddFrame, FillFifo
  PROVE  HddInv'
<1>a. HddTypes /\ AtadPlace /\ (hat \in AtadTransfer => FifoInv) BY AtadParts
<1>e. /\ drive \in Drive /\ fifo \in Seq(Int) /\ alarm \in BOOLEAN /\ cause \in BOOLEAN /\ hfaults \in Nat
      /\ job \in Jobs
  BY <1>a DEF HddTypes
<1>b. /\ drive.busy /\ drive.left > 0 /\ dma /\ UNCHANGED <<dma, alarm, icrc, hmem, job, hat, cause>>
      /\ hfaults' \in Nat
  BY <1>e DEF FillFifo, NoHddFault
<1>c. \/ fifo' = Append(fifo, drive.lba) /\ drive' = [drive EXCEPT !.lba = @ + 1, !.left = @ - 1]
      \/ fifo' = Append(fifo, Bad) /\ drive' = [drive EXCEPT !.lba = @ + 1, !.left = @ - 1, !.crc = TRUE]
  BY Zenon DEF FillFifo
<1>1. PICK b \in Int, c \in BOOLEAN :
        /\ fifo' = Append(fifo, b)
        /\ drive' = [drive EXCEPT !.lba = @ + 1, !.left = @ - 1, !.crc = c]
        /\ c = TRUE \/ (c = drive.crc /\ b = drive.lba)
  <2>1. drive.lba \in Int /\ drive.crc \in BOOLEAN /\ Bad \in Int BY <1>e DEF Drive, Bad
  <2>2. CASE fifo' = Append(fifo, drive.lba) /\ drive' = [drive EXCEPT !.lba = @ + 1, !.left = @ - 1]
    <3>1. drive' = [drive EXCEPT !.lba = @ + 1, !.left = @ - 1, !.crc = drive.crc] BY <2>2, <1>e DEF Drive
    <3> QED BY <2>1, <2>2, <3>1
  <2>3. CASE fifo' = Append(fifo, Bad) /\ drive' = [drive EXCEPT !.lba = @ + 1, !.left = @ - 1, !.crc = TRUE]
    BY <2>1, <2>3
  <2> QED BY <1>c, <2>2, <2>3
<1>2. /\ drive' \in Drive /\ drive'.busy = drive.busy /\ drive'.err = drive.err
      /\ drive'.lba = drive.lba + 1 /\ drive'.left = drive.left - 1 /\ drive'.crc = c
  <2> DEFINE l == drive.left - 1
             a == drive.lba + 1
  <2>1. l \in Nat /\ a \in Nat /\ drive' = [drive EXCEPT !.lba = a, !.left = l, !.crc = c]
    BY <1>b, <1>e, <1>1 DEF Drive
  <2> HIDE DEF l, a
  <2>2. drive' \in Drive /\ drive'.busy = drive.busy /\ drive'.err = drive.err
        /\ drive'.lba = a /\ drive'.left = l /\ drive'.crc = c
    BY <1>e, <2>1 DEF Drive
  <2> QED BY <2>2 DEF l, a
<1>3. /\ fifo' \in Seq(Int) /\ Len(fifo') = Len(fifo) + 1 /\ Len(fifo) \in Nat
      /\ fifo'[Len(fifo) + 1] = b /\ \A j \in 1 .. Len(fifo) : fifo'[j] = fifo[j]
  BY <1>1, <1>e
<1>4. hat \in AtadTransfer => FifoInv'
  <2> SUFFICES ASSUME hat \in AtadTransfer PROVE FifoInv' OBVIOUS
  <2>1. FifoInv /\ hat # "set_dir" BY <1>a, <1>b DEF AtadPlace
  <2>2. InFifo = Len(fifo) /\ InFifo' = Len(fifo) + 1 /\ Done' = Done BY <2>1, <1>b, <1>3 DEF InFifo, Done
  <2>3. job.lba \in Nat /\ Done \in Int /\ drive.left \in Nat /\ drive.lba \in Nat /\ job.blk \in Nat
    BY <1>e DEF Jobs, Drive, Done
  <2>4. drive.err # "abrt" /\ drive.err = "none" BY <2>1, <1>b DEF FifoInv
  <2>5. drive.left + InFifo = job.blk /\ drive.lba = job.lba + Done + InFifo /\ (~drive.crc => Sound)
    BY <2>1, <2>4 DEF FifoInv
  <2>6. drive'.left + InFifo' = job.blk
    <3>1. drive.left + Len(fifo) = job.blk BY <2>2, <2>5
    <3>a. drive.left \in Nat /\ Len(fifo) \in Nat BY <2>3, <1>3
    <3>2. (drive.left - 1) + (Len(fifo) + 1) = job.blk BY <3>1, <3>a
    <3> QED BY <3>2, <1>2, <2>2
  <2>7. drive'.lba = job.lba + Done + InFifo' BY <1>2, <1>3, <2>2, <2>3, <2>5
  <2>8. ~drive'.crc => Sound'
    <3> SUFFICES ASSUME ~drive'.crc PROVE Sound' OBVIOUS
    <3>1. ~drive.crc /\ b = drive.lba BY <1>1, <1>2
    <3>2. Sound BY <3>1, <2>5
    <3>3. HasBlocks(job.buf, job.lba, Done)' BY <3>2, <1>b, <2>2 DEF Sound, HasBlocks
    <3>4. ASSUME NEW j \in 1 .. Len(fifo) + 1 PROVE fifo'[j] = job.lba + Done + (j - 1)
      <4>1. CASE j \in 1 .. Len(fifo)
        <5>1. fifo[j] = job.lba + Done + (j - 1) BY <3>2, <4>1, <2>2 DEF Sound
        <5> QED BY <5>1, <4>1, <1>3
      <4>2. CASE j = Len(fifo) + 1
        <5>1. fifo'[j] = drive.lba BY <4>2, <1>3, <3>1
        <5>2. drive.lba = job.lba + Done + (j - 1) BY <4>2, <2>2, <2>3, <2>5, <1>3
        <5> QED BY <5>1, <5>2
      <4> QED BY <4>1, <4>2, <1>3
    <3>5. \A j \in 1 .. InFifo' : fifo'[j] = job'.lba + Done' + (j - 1) BY <3>4, <2>2, <1>b
    <3> QED BY <3>3, <3>5 DEF Sound
  <2>9. drive'.busy /\ drive'.err = "none" BY <1>b, <1>2, <2>4
  <2> QED BY <1>b, <2>2, <2>6, <2>7, <2>8, <2>9 DEF FifoInv
<1> QED BY <1>b, <1>e, <1>2, <1>3, <1>4, AtadDriveKeeps

\* The disk, its interrupt and the alarm, at any time.
LEMMA AtadHardwareKeeps ==
  ASSUME HddInv, driver = "atad", HddFrame, AtadDrive \/ AtadIntr
  PROVE  HddInv'
<1>a. HddTypes /\ AtadPlace /\ (hat \in AtadTransfer => FifoInv) BY AtadParts
<1>e. /\ drive \in Drive /\ fifo \in Seq(Int) /\ alarm \in BOOLEAN /\ cause \in BOOLEAN /\ hfaults \in Nat
  BY <1>a DEF HddTypes
<1>1. CASE FillFifo BY <1>1, AtadFillKeeps
<1>g. ASSUME drive' \in Drive, drive'.lba = drive.lba, drive'.crc = drive.crc, drive'.left = drive.left,
             drive'.busy = drive.busy, drive'.err = drive.err, UNCHANGED <<hmem, job, hat, fifo>>
      PROVE  hat \in AtadTransfer => FifoInv'
  <2>1. Done' = Done /\ InFifo' = InFifo BY <1>g DEF Done, InFifo
  <2>2. Sound => Sound' BY <1>g, <2>1 DEF Sound, HasBlocks
  <2> QED BY <1>a, <1>g, <2>1, <2>2 DEF FifoInv
<1>2. CASE DriveEnds /\ UNCHANGED <<hmem, job, hat, atadvars>>
  <2>1. drive.busy /\ drive.left = 0 /\ UNCHANGED <<hmem, job, hat, fifo, dma, alarm, icrc, cause, hfaults>>
        /\ drive' = [drive EXCEPT !.busy = FALSE, !.intrq = TRUE, !.err = IF drive.crc THEN "icrc" ELSE "none"]
    BY <1>2 DEF DriveEnds, NoHddFault, atadvars
  <2> DEFINE err == IF drive.crc THEN "icrc" ELSE "none"
  <2>2. drive' = [drive EXCEPT !.busy = FALSE, !.intrq = TRUE, !.err = err] /\ err \in {"none", "icrc", "abrt"}
    BY <2>1
  <2> HIDE DEF err
  <2>3. drive' \in Drive /\ drive'.busy = FALSE /\ drive'.err = err /\ drive'.lba = drive.lba
        /\ drive'.left = drive.left /\ drive'.crc = drive.crc
    BY <1>e, <2>2 DEF Drive
  <2>4. hat \in AtadTransfer => FifoInv'
    <3>1. Done' = Done /\ InFifo' = InFifo BY <2>1 DEF Done, InFifo
    <3>2. Sound => Sound' BY <2>1, <3>1 DEF Sound, HasBlocks
    <3>3. err # "abrt" /\ (drive.crc <=> err = "icrc") BY DEF err
    <3> QED BY <1>a, <2>1, <2>3, <3>1, <3>2, <3>3 DEF FifoInv
  <2> QED BY <1>e, <2>1, <2>3, <2>4, AtadDriveKeeps
<1>3. CASE DriveFails /\ UNCHANGED <<hmem, job, hat, atadvars>>
  <2>1. UNCHANGED <<hmem, job, hat, fifo, dma, alarm, icrc>> /\ hfaults' = hfaults + 1 /\ cause' = TRUE
        /\ drive' = [drive EXCEPT !.busy = FALSE, !.intrq = TRUE, !.err = "abrt", !.left = 0]
    BY <1>3 DEF DriveFails, HddFault, atadvars
  <2>2. drive' \in Drive /\ drive'.busy = FALSE /\ drive'.err = "abrt" BY <1>e, <2>1 DEF Drive
  <2>3. hat \in AtadTransfer => FifoInv' BY <2>2 DEF FifoInv
  <2> QED BY <1>e, <2>1, <2>2, <2>3, AtadDriveKeeps
<1>4. CASE DriveHangs /\ UNCHANGED <<hmem, job, hat, atadvars>>
  <2>1. UNCHANGED <<hmem, job, hat, fifo, dma, alarm, icrc>> /\ hfaults' = hfaults + 1 /\ cause' = TRUE
        /\ drive' = [drive EXCEPT !.hung = TRUE, !.slow = TRUE]
    BY <1>4 DEF DriveHangs, HddFault, atadvars
  <2>2. drive' \in Drive /\ drive'.busy = drive.busy /\ drive'.err = drive.err /\ drive'.lba = drive.lba
        /\ drive'.left = drive.left /\ drive'.crc = drive.crc
    BY <1>e, <2>1 DEF Drive
  <2> QED BY <1>e, <1>g, <2>1, <2>2, AtadDriveKeeps
<1>5. CASE DriveWakes /\ UNCHANGED <<hmem, job, hat, atadvars>>
  <2>1. UNCHANGED <<hmem, job, hat, fifo, dma, alarm, icrc, hfaults, cause>>
        /\ drive' = [drive EXCEPT !.hung = FALSE]
    BY <1>5 DEF DriveWakes, NoHddFault, atadvars
  <2>2. drive' \in Drive /\ drive'.busy = drive.busy /\ drive'.err = drive.err /\ drive'.lba = drive.lba
        /\ drive'.left = drive.left /\ drive'.crc = drive.crc
    BY <1>e, <2>1 DEF Drive
  <2> QED BY <1>e, <1>g, <2>1, <2>2, AtadDriveKeeps
<1>6. CASE AtadIntr
  <2>1. UNCHANGED <<hmem, job, hat, fifo, dma, drive, icrc, hfaults, cause>> /\ alarm' \in BOOLEAN
    BY <1>6, <1>e DEF AtadIntr, dev9_intr_dispatch, ata_alarm_cb
  <2> QED BY <1>e, <1>g, <2>1, AtadDriveKeeps
<1> QED BY <1>1, <1>2, <1>3, <1>4, <1>5, <1>6 DEF AtadDrive
-----------------------------------------------------------------------------
(***************************************************************************)
(* The steps of hdpro_atad.c.                                              *)
(***************************************************************************)
\* What is left to show of a step that keeps the caller's memory.
LEMMA HdproStepOver ==
  ASSUME HddInv, PartsOnDisk, driver = "hdpro", HddFrame, UNCHANGED <<hmem, atadvars>>, InIo, InDevice',
         drive' \in Drive, cause' \in BOOLEAN, hfaults' \in Nat, job' \in Jobs, hat' \in HdproPlaces \cup {"done"},
         JobInv', ChunkInv', HdproInv'
  PROVE  HddInv'
<1>a. HddTypes BY DEF HddInv
<1>f. UNCHANGED <<driver, lba_48bit, specs, CurrentPart, hcall, hmy, hresult>> BY DEF HddFrame
<1>1. CallInv' /\ MemoryInv' BY CallKept DEF HddInv
<1>2. AtadInv' BY <1>f DEF AtadInv
<1>3. HddTypes' BY <1>a, <1>f DEF HddTypes, atadvars, OuterPlaces
<1> QED BY <1>1, <1>2, <1>3 DEF HddInv

\* A step with a fault or without one.
LEMMA FaultTyped ==
  ASSUME HddTypes, HddFault \/ NoHddFault
  PROVE  cause' \in BOOLEAN /\ hfaults' \in Nat
<1>1. hfaults \in Nat /\ cause \in BOOLEAN BY DEF HddTypes
<1>2. CASE HddFault BY <1>1, <1>2 DEF HddFault
<1>3. CASE NoHddFault BY <1>1, <1>3 DEF NoHddFault
<1> QED BY <1>2, <1>3

\* A step from one place of a command to another, or to the next try.
LEMMA HdproMoveKeeps ==
  ASSUME HddInv, PartsOnDisk, driver = "hdpro", HddFrame, UNCHANGED <<hmem, job, atadvars>>,
         drive' \in Drive, cause' \in BOOLEAN, hfaults' \in Nat,
         hat \in HdproPlaces \ {"call", "chunk"}, hat' \in HdproPlaces \ {"call"},
         hat' \in {"select", "issue", "set_dir"} => hat \in {"select", "issue", "set_dir"},
         HdproInv'
  PROVE  HddInv'
<1>a. HddTypes /\ JobInv /\ ChunkInv /\ job \in Jobs BY DEF HddInv, HddTypes
<1>c. InIo /\ InDevice /\ InIo' /\ InDevice' BY DEF InIo, InDevice, OuterPlaces, HdproPlaces
<1>1. JobInv' /\ ChunkInv'
  <2>1. CASE hat' = "chunk"
    <3>1. UNCHANGED <<AskedBuf, AskedLba, AskedBlocks>> BY AskedSame
    <3>2. JobInv' BY <1>a, <1>c, <2>1, <3>1 DEF JobInv, HasBlocks, HdproPlaces
    <3> QED BY <2>1, <3>2 DEF ChunkInv
  <2>2. CASE hat' # "chunk"
    <3>1. hat \notin {"call", "chunk", "start"} /\ hat' \notin {"call", "chunk"} BY <2>2 DEF HdproPlaces
    <3> QED BY <1>a, <1>c, <3>1, CommandKept
  <2> QED BY <2>1, <2>2
<1> QED BY <1>a, <1>c, <1>1, HdproStepOver

\* What each of them starts from.
LEMMA HdproParts ==
  ASSUME HddInv, driver = "hdpro"
  PROVE  /\ HddTypes /\ CallInv /\ JobInv /\ ChunkInv /\ MemoryInv /\ HdproInv
         /\ job \in Jobs /\ drive \in Drive /\ cause \in BOOLEAN /\ hfaults \in Nat
         /\ hat \in OuterPlaces \cup HdproPlaces
         /\ (hat \in HdproPlaces => job.res = "OK")
  BY DEF HddInv, HdproInv, HddTypes

\* hdpro_io_start at the start of a call.
LEMMA HdproCallKeeps ==
  ASSUME HddInv, PartsOnDisk, driver = "hdpro", HddFrame, UNCHANGED atadvars, HdproCall
  PROVE  HddInv'
<1>a. /\ HddTypes /\ CallInv /\ JobInv /\ ChunkInv /\ HdproInv
      /\ job \in Jobs /\ drive \in Drive /\ cause \in BOOLEAN /\ hfaults \in Nat
  BY HdproParts
<1>f. UNCHANGED <<driver, lba_48bit, specs, CurrentPart, hcall, hmy, hresult>> BY DEF HddFrame
<1>e. cause' \in BOOLEAN /\ hfaults' \in Nat
  <2>1. HddFault \/ NoHddFault BY DEF HdproCall, Opens, StaysClosed
  <2> QED BY <1>a, <2>1, FaultTyped
<1>b. /\ hat = "call" /\ UNCHANGED <<drive, hmem>> /\ cause' \in BOOLEAN /\ hfaults' \in Nat
      /\ \/ hat' = "chunk" /\ job' = job
         \/ hat' = "done" /\ job' = [job EXCEPT !.res = "-1"]
  BY <1>e DEF HdproCall, Goto
<1>c. InIo /\ InDevice /\ InDevice' BY <1>b DEF InIo, InDevice, OuterPlaces
<1>d. UNCHANGED <<AskedBuf, AskedLba, AskedBlocks>> BY AskedSame
<1>g. job.res = "OK" BY <1>b, HdproParts DEF HdproPlaces
<1>1. CASE hat' = "chunk" /\ job' = job
  <2>1. JobInv' BY <1>a, <1>b, <1>c, <1>d, <1>g, <1>1 DEF JobInv, HasBlocks
  <2>2. ChunkInv' BY <1>1 DEF ChunkInv
  <2>3. HdproInv' BY <1>a, <1>b, <1>1, <1>g DEF HdproInv
  <2> QED BY <1>a, <1>b, <1>c, <1>1, <2>1, <2>2, <2>3, HdproStepOver DEF HdproPlaces
<1>2. CASE hat' = "done" /\ job' = [job EXCEPT !.res = "-1"]
  <2>1. job' \in Jobs /\ job'.res = "-1" /\ job'.buf = job.buf /\ job'.lba = job.lba /\ job'.left = job.left
    BY <1>a, <1>2 DEF Jobs, IoResults
  <2>2. JobInv' BY <1>a, <1>b, <1>c, <1>d, <1>2, <2>1 DEF JobInv, HasBlocks
  <2>3. ChunkInv' BY <1>2 DEF ChunkInv, InIo, OuterPlaces
  <2>4. HdproInv' BY <1>a, <1>b, <1>2 DEF HdproInv, HdproPlaces
  <2> QED BY <1>a, <1>b, <1>c, <1>2, <2>1, <2>2, <2>3, <2>4, HdproStepOver
<1> QED BY <1>b, <1>1, <1>2

\* The next chunk of a call; after an error, the same again.
LEMMA HdproChunkKeeps ==
  ASSUME HddInv, PartsOnDisk, driver = "hdpro", HddFrame, UNCHANGED atadvars, HdproChunk
  PROVE  HddInv'
<1>a. /\ HddTypes /\ CallInv /\ JobInv /\ ChunkInv /\ HdproInv
      /\ job \in Jobs /\ drive \in Drive /\ cause \in BOOLEAN /\ hfaults \in Nat
  BY HdproParts
<1>f. UNCHANGED <<driver, lba_48bit, specs, CurrentPart, hcall, hmy, hresult>> BY DEF HddFrame
<1> DEFINE len == AtMost(job.left, Byte)
<1>b. /\ hat = "chunk" /\ hat' = "select" /\ job.left > 0 /\ UNCHANGED <<drive, hmem, cause, hfaults>>
      /\ job' = [job EXCEPT !.len = len, !.pos = job.buf, !.blk = len]
  BY DEF HdproChunk, Goto
<1>c. InIo /\ InDevice /\ InDevice' BY <1>b DEF InIo, InDevice, OuterPlaces
<1>d. UNCHANGED <<AskedBuf, AskedLba, AskedBlocks, CountLimit>> BY AskedSame
<1>g. job.res = "OK" BY <1>b, HdproParts DEF HdproPlaces
<1>h. job.left \in Nat /\ job.buf \in Nat BY <1>a DEF Jobs
<1>1. len \in 1 .. job.left /\ len <= CountLimit
  <2>1. Byte \in Nat \ {0} /\ Byte * Byte \in Nat /\ Byte <= Byte * Byte
    <3>1. Byte \in Nat \ {0, 1} BY AtaAssumption
    <3>2. PICK k \in Nat : Byte = 1 + k
      <4>1. Byte - 1 \in Nat /\ Byte = 1 + (Byte - 1) BY <3>1
      <4> QED BY <4>1
    <3>3. Byte * Byte = Byte + k * Byte BY <3>1, <3>2
    <3>4. k * Byte \in Nat BY <3>1, <3>2
    <3> QED BY <3>1, <3>3, <3>4
  <2>2. CountLimit \in {Byte, Byte * Byte} BY DEF CountLimit
  <2>3. len \in 1 .. job.left /\ len <= Byte BY <1>b, <1>h, <2>1 DEF AtMost
  <2> HIDE DEF len
  <2> QED BY <1>h, <2>1, <2>2, <2>3
<1> HIDE DEF len
<1>2. job' \in Jobs /\ job'.len = len /\ job'.blk = len /\ job'.pos = job.buf /\ job'.buf = job.buf
      /\ job'.lba = job.lba /\ job'.left = job.left /\ job'.res = job.res
  <2>1. len \in Nat BY <1>1, <1>h
  <2> QED BY <1>a, <1>b, <1>h, <2>1 DEF Jobs
<1>3. JobInv' BY <1>a, <1>b, <1>c, <1>d, <1>2 DEF JobInv, HasBlocks
<1>4. ChunkInv'
  <2>1. Done' = 0 BY <1>1, <1>2, <1>h DEF Done
  <2>2. len <= len /\ job.buf = job.buf + 0 BY <1>1, <1>h
  <2> QED BY <1>b, <1>d, <1>1, <1>2, <2>1, <2>2 DEF ChunkInv
<1>5. HdproInv' BY <1>a, <1>b, <1>g, <1>2 DEF HdproInv
<1> QED BY <1>a, <1>b, <1>c, <1>2, <1>3, <1>4, <1>5, HdproStepOver DEF HdproPlaces

\* hdpro_io_finish at the end of a call.
LEMMA HdproEndKeeps ==
  ASSUME HddInv, PartsOnDisk, driver = "hdpro", HddFrame, UNCHANGED atadvars, HdproEnd
  PROVE  HddInv'
<1>a. /\ HddTypes /\ CallInv /\ JobInv /\ ChunkInv /\ HdproInv
      /\ job \in Jobs /\ drive \in Drive /\ cause \in BOOLEAN /\ hfaults \in Nat
  BY HdproParts
<1>f. UNCHANGED <<driver, lba_48bit, specs, CurrentPart, hcall, hmy, hresult>> BY DEF HddFrame
<1>e. cause' \in BOOLEAN /\ hfaults' \in Nat
  <2>1. HddFault \/ NoHddFault BY DEF HdproEnd
  <2> QED BY <1>a, <2>1, FaultTyped
<1>b. /\ hat = "chunk" /\ hat' = "done" /\ job.left = 0 /\ UNCHANGED <<drive, hmem>>
      /\ cause' \in BOOLEAN /\ hfaults' \in Nat
      /\ job' = job \/ job' = [job EXCEPT !.res = "-2"]
  BY <1>e DEF HdproEnd, Goto
<1>c. InIo /\ InDevice /\ InDevice' BY <1>b DEF InIo, InDevice, OuterPlaces
<1>d. UNCHANGED <<AskedBuf, AskedLba, AskedBlocks>> BY AskedSame
<1>1. job' \in Jobs /\ job'.buf = job.buf /\ job'.lba = job.lba /\ job'.left = job.left
  BY <1>a, <1>b DEF Jobs, IoResults
<1>2. JobInv' BY <1>a, <1>b, <1>c, <1>d, <1>1 DEF JobInv, HasBlocks
<1>3. ChunkInv' BY <1>b DEF ChunkInv, InIo, OuterPlaces
<1>4. HdproInv' BY <1>a, <1>b DEF HdproInv, HdproPlaces
<1> QED BY <1>a, <1>b, <1>c, <1>1, <1>2, <1>3, <1>4, HdproStepOver

\* WaitBusy leaves for the next place with nothing occupied, or gives up.
LEMMA HdproWaitKeeps ==
  ASSUME HddInv, PartsOnDisk, driver = "hdpro", HddFrame, UNCHANGED atadvars, HdproSelect \/ HdproBusy
  PROVE  HddInv'
<1>a. /\ HddTypes /\ CallInv /\ JobInv /\ ChunkInv /\ HdproInv
      /\ job \in Jobs /\ drive \in Drive /\ cause \in BOOLEAN /\ hfaults \in Nat
  BY HdproParts
<1>f. UNCHANGED <<driver, lba_48bit, specs, CurrentPart, hcall, hmy, hresult>> BY DEF HddFrame
<1>1. CASE HdproSelect
  <2>1. hat = "select" /\ UNCHANGED <<drive, hmem, job>> BY <1>1 DEF HdproSelect
  <2>2. (~(drive.busy \/ drive.drq) /\ hat' = "issue") \/ hat' = "chunk" BY <1>1 DEF HdproSelect, WaitBusy, Goto
  <2>3. cause' \in BOOLEAN /\ hfaults' \in Nat
    <3>1. HddFault \/ NoHddFault BY <1>1 DEF HdproSelect, WaitBusy, Opens, StaysClosed
    <3> QED BY <1>a, <3>1, FaultTyped
  <2>4. job.res = "OK" BY <2>1, HdproParts DEF HdproPlaces
  <2>5. HdproInv' BY <1>a, <2>1, <2>2, <2>4 DEF HdproInv
  <2> QED BY <1>a, <2>1, <2>2, <2>3, <2>5, HdproMoveKeeps DEF HdproPlaces
<1>2. CASE HdproBusy
  <2>1. hat = "busy" /\ UNCHANGED <<drive, hmem, job>> BY <1>2 DEF HdproBusy
  <2>2. \/ ~drive.busy /\ hat' = (IF job.blk > 0 THEN "pio" ELSE "status")
        \/ hat' = "chunk"
    BY <1>2 DEF HdproBusy, WaitBusy, Goto
  <2>3. cause' \in BOOLEAN /\ hfaults' \in Nat
    <3>1. HddFault \/ NoHddFault BY <1>2 DEF HdproBusy, WaitBusy, Opens, StaysClosed
    <3> QED BY <1>a, <3>1, FaultTyped
  <2>4. job.res = "OK" BY <2>1, HdproParts DEF HdproPlaces
  <2>5. HdproInv'
    <3>1. job.blk \in Nat BY <1>a DEF Jobs
    <3>2. Done' = Done BY <2>1 DEF Done
    <3>3. HasBlocks(job.buf, job.lba, Done) /\ (drive.busy \/ drive.drq => drive.lba = job.lba + Done)
          /\ ~(drive.busy /\ drive.drq) /\ (drive.drq => drive.left > 0)
      BY <1>a, <2>1 DEF HdproInv
    <3>4. HasBlocks(job.buf, job.lba, Done)' BY <2>1, <3>2, <3>3 DEF HasBlocks
    <3>5. hat' \in {"pio", "status", "chunk"} /\ (hat' = "pio" => job.blk > 0) /\ (hat' = "status" => job.blk = 0)
      BY <2>2, <3>1
    <3> QED BY <2>1, <2>4, <3>2, <3>3, <3>4, <3>5 DEF HdproInv
  <2>6. hat' \in {"pio", "status", "chunk"} BY <2>2
  <2> QED BY <1>a, <2>1, <2>3, <2>5, <2>6, HdproMoveKeeps DEF HdproPlaces
<1> QED BY <1>1, <1>2

\* The command is sent; a closed port swallows it.
LEMMA HdproIssueKeeps ==
  ASSUME HddInv, PartsOnDisk, driver = "hdpro", HddFrame, UNCHANGED atadvars, HdproIssue
  PROVE  HddInv'
<1>a. /\ HddTypes /\ CallInv /\ JobInv /\ ChunkInv /\ HdproInv
      /\ job \in Jobs /\ drive \in Drive /\ cause \in BOOLEAN /\ hfaults \in Nat
  BY HdproParts
<1>f. UNCHANGED <<driver, lba_48bit, specs, CurrentPart, hcall, hmy, hresult>> BY DEF HddFrame
<1>b. hat = "issue" /\ UNCHANGED <<hmem, job>> BY DEF HdproIssue
<1>c. InIo /\ InDevice BY <1>b DEF InIo, InDevice, OuterPlaces
<1>g. job.res = "OK" BY <1>b, HdproParts DEF HdproPlaces
<1>h. ~drive.busy /\ ~drive.drq BY <1>a, <1>b DEF HdproInv
<1>e. cause' \in BOOLEAN /\ hfaults' \in Nat
  <2>1. HddFault \/ NoHddFault BY DEF HdproIssue
  <2> QED BY <1>a, <2>1, FaultTyped
<1>1. CASE hat' = "busy" /\ drive' = IF hdpro_io_active THEN Commanded(job.lba, job.len) ELSE drive
  <2>1. Commanded(job.lba, job.len) = [IdleDrive EXCEPT !.busy = TRUE, !.lba = job.lba, !.left = job.len]
    BY <1>a, <1>b, <1>c, CommandIsAsked
  <2>2. job.blk = job.len /\ job.len \in Nat /\ job.lba \in Nat BY <1>a, <1>b, <1>c DEF ChunkInv, Jobs
  <2> DEFINE d == [IdleDrive EXCEPT !.busy = TRUE, !.lba = job.lba, !.left = job.len]
  <2>3. d \in Drive /\ d.lba = job.lba /\ ~d.drq BY <2>2 DEF IdleDrive, Drive
  <2> HIDE DEF d
  <2>4. drive' = d \/ drive' = drive
    <3>1. Commanded(job.lba, job.len) = d BY <2>1 DEF d
    <3> QED BY <1>1, <3>1
  <2>5. drive' \in Drive /\ ~drive'.drq /\ (drive'.busy => drive'.lba = job.lba) BY <1>a, <1>h, <2>3, <2>4
  <2>6. Done' = 0 BY <1>b, <2>2 DEF Done
  <2>7. HasBlocks(job.buf, job.lba, Done)' BY <2>6 DEF HasBlocks
  <2>8. job.lba = job.lba + 0 BY <2>2
  <2>9. HdproInv' BY <1>b, <1>g, <1>1, <2>5, <2>6, <2>7, <2>8 DEF HdproInv
  <2> QED BY <1>a, <1>b, <1>e, <1>1, <2>5, <2>9, HdproMoveKeeps DEF HdproPlaces
<1>2. CASE hat' = "chunk" /\ drive' = drive
  <2>1. HdproInv' BY <1>a, <1>b, <1>g, <1>2 DEF HdproInv
  <2> QED BY <1>a, <1>b, <1>e, <1>2, <2>1, HdproMoveKeeps DEF HdproPlaces
<1> QED BY <1>1, <1>2 DEF HdproIssue, Goto

\* The status register: the chunk is done, or begins again.
LEMMA HdproStatusKeeps ==
  ASSUME HddInv, PartsOnDisk, driver = "hdpro", HddFrame, UNCHANGED atadvars, HdproStatus
  PROVE  HddInv'
<1>a. /\ HddTypes /\ CallInv /\ JobInv /\ ChunkInv /\ HdproInv
      /\ job \in Jobs /\ drive \in Drive /\ cause \in BOOLEAN /\ hfaults \in Nat
  BY HdproParts
<1>f. UNCHANGED <<driver, lba_48bit, specs, CurrentPart, hcall, hmy, hresult>> BY DEF HddFrame
<1>e. cause' \in BOOLEAN /\ hfaults' \in Nat
  <2>1. HddFault \/ NoHddFault BY DEF HdproStatus, Opens, StaysClosed
  <2> QED BY <1>a, <2>1, FaultTyped
<1>b. hat = "status" /\ hat' = "chunk" /\ UNCHANGED <<drive, hmem>>
      /\ (job' = job \/ job' = [job EXCEPT !.buf = @ + job.len, !.lba = @ + job.len, !.left = @ - job.len])
  BY DEF HdproStatus, Goto
<1>c. InIo /\ InDevice /\ InDevice' BY <1>b DEF InIo, InDevice, OuterPlaces
<1>g. job.res = "OK" BY <1>b, HdproParts DEF HdproPlaces
<1>1. CASE job' = job
  <2>1. HdproInv' BY <1>a, <1>b, <1>g, <1>1 DEF HdproInv
  <2> QED BY <1>a, <1>b, <1>e, <1>1, <2>1, HdproMoveKeeps DEF HdproPlaces
<1>2. CASE job' = [job EXCEPT !.buf = @ + job.len, !.lba = @ + job.len, !.left = @ - job.len]
  <2>1. job'.buf = job.buf + job.len /\ job'.lba = job.lba + job.len /\ job'.left = job.left - job.len
        /\ job'.res = job.res
    BY <1>2, <1>a DEF Jobs
  <2>2. HasBlocks(job.buf, job.lba, job.len)
    <3>1. HasBlocks(job.buf, job.lba, Done) /\ job.blk = 0 BY <1>a, <1>b DEF HdproInv
    <3>2. Done = job.len BY <3>1, <1>a DEF Done, Jobs
    <3> QED BY <3>1, <3>2
  <2>3. JobInv' /\ ChunkInv' /\ job'.left \in Nat /\ job'.buf \in Nat /\ job'.lba \in Nat
    BY <1>a, <1>b, <1>c, <2>1, <2>2, ChunkOver
  <2>4. job' \in Jobs
    <3> DEFINE l == job.left - job.len
               b == job.buf + job.len
               a == job.lba + job.len
    <3>1. job' = [job EXCEPT !.buf = b, !.lba = a, !.left = l] BY <1>2
    <3>2. l \in Nat /\ b \in Nat /\ a \in Nat BY <2>1, <2>3
    <3> HIDE DEF l, b, a
    <3> QED BY <1>a, <3>1, <3>2 DEF Jobs
  <2>5. HdproInv' BY <1>a, <1>b, <1>g, <2>1 DEF HdproInv
  <2> QED BY <1>a, <1>b, <1>c, <1>e, <2>3, <2>4, <2>5, HdproStepOver DEF HdproPlaces
<1> QED BY <1>b, <1>1, <1>2

\* ata_pio_transfer: a block goes behind what memory has, or the chunk begins again.
LEMMA HdproPioKeeps ==
  ASSUME HddInv, PartsOnDisk, driver = "hdpro", HddFrame, UNCHANGED atadvars, ata_pio_transfer
  PROVE  HddInv'
<1>a. HddTypes /\ CallInv /\ JobInv /\ ChunkInv /\ MemoryInv /\ HdproInv BY HdproParts
<1>q. job \in Jobs /\ drive \in Drive /\ cause \in BOOLEAN /\ hfaults \in Nat BY HdproParts
<1>f. UNCHANGED <<driver, lba_48bit, specs, CurrentPart, hcall, hmy, hresult>> BY DEF HddFrame
<1>b. hat = "pio" /\ hat' \in {"chunk", "busy"} BY DEF ata_pio_transfer, Goto
<1>c. InIo /\ InDevice /\ InIo' /\ InDevice' BY <1>b DEF InIo, InDevice, OuterPlaces
<1>g. job.res = "OK" BY <1>b, HdproParts DEF HdproPlaces
<1>e. cause' \in BOOLEAN /\ hfaults' \in Nat
  <2>1. HddFault \/ NoHddFault BY DEF ata_pio_transfer
  <2> QED BY <1>a, <2>1, FaultTyped
<1>h. HasBlocks(job.buf, job.lba, Done) /\ job.blk > 0 /\ (drive.drq => drive.lba = job.lba + Done /\ drive.left > 0)
      /\ ~(drive.busy /\ drive.drq)
  BY <1>a, <1>b DEF HdproInv
<1>1. CASE UNCHANGED <<drive, hmem, job>> /\ hat' = "chunk"
  <2>1. HdproInv' BY <1>a, <1>b, <1>g, <1>1 DEF HdproInv
  <2> QED BY <1>b, <1>e, <1>q, <1>1, <2>1, HdproMoveKeeps DEF HdproPlaces
<1>2. ASSUME NEW b \in Int, drive.drq, StoredBlocks(job.pos, <<b>>),
             drive' = [drive EXCEPT !.drq = FALSE, !.lba = @ + 1, !.left = @ - 1, !.busy = drive.left > 1],
             \/ hat' = "chunk" /\ job' = job
             \/ hat' = "busy" /\ b = drive.lba /\ job' = [job EXCEPT !.blk = @ - 1, !.pos = @ + 1]
      PROVE  HddInv'
  <2>1. drive' \in Drive /\ drive'.drq = FALSE /\ drive'.lba = drive.lba + 1
    <3> DEFINE l == drive.left - 1
               a == drive.lba + 1
               y == drive.left > 1
    <3>1. l \in Nat /\ a \in Nat BY <1>h, <1>2, <1>q DEF Drive
    <3>2. y \in BOOLEAN OBVIOUS
    <3>3. drive' = [drive EXCEPT !.drq = FALSE, !.lba = a, !.left = l, !.busy = y] BY <1>2
    <3> HIDE DEF l, a, y
    <3>4. drive' \in Drive /\ drive'.drq = FALSE /\ drive'.lba = a BY <1>q, <3>1, <3>2, <3>3 DEF Drive
    <3> QED BY <3>4 DEF a
  <2>2. job' \in Jobs /\ job'.buf = job.buf /\ job'.lba = job.lba /\ job'.left = job.left /\ job'.len = job.len
        /\ job'.res = job.res
        /\ (hat' = "busy" => job'.blk = job.blk - 1 /\ job'.pos = job.pos + 1)
    <3> DEFINE l == job.blk - 1
               p == job.pos + 1
    <3>1. l \in Nat /\ p \in Nat BY <1>h, <1>q DEF Jobs
    <3>2. (hat' = "chunk" /\ job' = job) \/ job' = [job EXCEPT !.blk = l, !.pos = p] BY <1>2
    <3> HIDE DEF l, p
    <3>3. job' \in Jobs /\ job'.buf = job.buf /\ job'.lba = job.lba /\ job'.left = job.left /\ job'.len = job.len
          /\ job'.res = job.res /\ (hat' = "busy" => job'.blk = l /\ job'.pos = p)
      BY <1>q, <3>1, <3>2 DEF Jobs
    <3> QED BY <3>3 DEF l, p
  <2> DEFINE s == <<b>>
  <2>3. s \in Seq(Int) /\ Len(s) = 1 /\ s[1] = b OBVIOUS
  <2>4. StoredBlocks(job.pos, s) BY <1>2
  <2> HIDE DEF s
  <2>5. hat \notin {"call", "chunk", "start"} /\ hat' # "call" /\ Len(s) <= job.blk
    BY <1>b, <1>h, <1>q, <2>3 DEF Jobs
  <2>6. CallInv' /\ MemoryInv' /\ DOMAIN hmem' = DOMAIN hmem BY <1>a, <1>c, <2>3, <2>4, <2>5, StoreWrites
  <2>7. WillHave(job.buf, job.lba, Done) BY <1>a, <1>c, <1>h, <2>3, <2>4, <2>5, StoreWrites
  <2>8. WillHold(job.pos, s) BY <1>a, <1>c, <2>3, <2>4, <2>5, StoreWrites
  <2>9. JobInv' BY <1>a, <1>c, <2>2, <2>3, <2>4, <2>5, StoreKeeps
  <2>10. job.len \in 1 .. job.left /\ job.len <= CountLimit /\ job.blk <= job.len /\ job.pos = job.buf + Done
    BY <1>a, <1>b, <1>c DEF ChunkInv
  <2>11. Done \in Nat /\ job.buf \in Nat /\ job.lba \in Nat /\ job.blk \in Nat /\ job.len \in Nat
    BY <1>q, <2>10 DEF Done, Jobs
  <2>12. hat' = "busy" => Done' = Done + 1
    <3>1. Done = job.len - job.blk /\ Done' = job'.len - job'.blk BY DEF Done
    <3> QED BY <3>1, <2>2, <2>11
  <2>13. ChunkInv'
    <3>1. CountLimit' = CountLimit BY AskedSame
    <3>2. CASE hat' = "chunk" BY <3>2 DEF ChunkInv
    <3>3. CASE hat' = "busy"
      <4>1. job'.blk <= job'.len BY <3>3, <2>2, <2>10, <2>11
      <4>2. job'.pos = job'.buf + Done' BY <3>3, <2>2, <2>10, <2>11, <2>12
      <4> QED BY <3>1, <3>3, <4>1, <4>2, <2>2, <2>10 DEF ChunkInv
    <3> QED BY <1>b, <3>2, <3>3
  <2>14. hat' = "busy" => HasBlocks(job.buf, job.lba, Done)'
    <3> SUFFICES ASSUME hat' = "busy" PROVE HasBlocks(job.buf, job.lba, Done)' OBVIOUS
    <3>1. b = job.lba + Done BY <1>b, <1>2, <1>h
    <3> DEFINE d == Done + 1
    <3>2. ASSUME NEW i \in 0 .. d - 1 PROVE hmem'[job'.buf + i] = job'.lba + i
      <4>1. CASE i < Done
        <5>1. i \in 0 .. Done - 1 BY <4>1, <2>11
        <5>2. hmem'[job.buf + i] = job.lba + i BY <5>1, <2>7, <2>11 DEF WillHave
        <5> QED BY <5>2, <2>2
      <4>2. CASE i = Done
        <5>1. hmem'[job.pos + (1 - 1)] = b BY <2>3, <2>8 DEF WillHold
        <5>2. job.pos + (1 - 1) = job.buf + i BY <4>2, <2>10, <2>11
        <5>3. hmem'[job.buf + i] = b BY <5>1, <5>2
        <5>4. hmem'[job.buf + i] = job.lba + i BY <5>3, <3>1, <4>2
        <5> QED BY <5>4, <2>2
      <4> QED BY <4>1, <4>2, <2>11
    <3>3. Done' = d BY <2>12
    <3> HIDE DEF d
    <3>4. \A i \in 0 .. Done' - 1 : hmem'[job'.buf + i] = job'.lba + i BY <3>2, <3>3
    <3> QED BY <3>4, Zenon DEF HasBlocks
  <2>15. HdproInv'
    <3>1. CASE hat' = "chunk" BY <2>1, <2>2, <1>g, <3>1 DEF HdproInv
    <3>2. CASE hat' = "busy"
      <4>1. drive'.lba = job'.lba + Done'
        <5>1. drive'.lba = (job.lba + Done) + 1 BY <1>2, <1>h, <2>1
        <5>2. job'.lba + Done' = job.lba + (Done + 1) BY <3>2, <2>2, <2>12
        <5> QED BY <5>1, <5>2, <2>11
      <4> QED BY <2>1, <2>2, <1>g, <2>14, <3>2, <4>1 DEF HdproInv
    <3> QED BY <1>b, <3>1, <3>2
  <2>16. HddTypes' BY <1>a, <1>b, <1>e, <1>f, <2>1, <2>2, <2>6 DEF HddTypes, HdproPlaces, atadvars
  <2>17. AtadInv' BY <1>f DEF AtadInv
  <2> QED BY <2>6, <2>9, <2>13, <2>15, <2>16, <2>17 DEF HddInv
<1>3. CASE ~Refused /\ hat' = "busy" /\ TakeBlock(drive.lba) /\ job' = [job EXCEPT !.blk = @ - 1, !.pos = @ + 1]
  <2>1. drive.lba \in Int /\ drive.drq BY <1>3, <1>q DEF Refused, Drive
  <2> QED BY <1>2, <1>3, <2>1 DEF TakeBlock
<1>4. CASE ~Refused /\ hat' = "chunk" /\ TakeBlock(Bad) /\ job' = job
  <2>1. Bad \in Int /\ drive.drq BY <1>4 DEF Refused, Bad
  <2> QED BY <1>2, <1>4, <2>1 DEF TakeBlock
<1> QED BY <1>1, <1>3, <1>4 DEF ata_pio_transfer, Goto

\* The disk, at any time.
LEMMA HdproDriveKeeps ==
  ASSUME HddInv, driver = "hdpro", HddFrame, UNCHANGED atadvars, HdproDrive
  PROVE  HddInv'
<1>a. HddTypes /\ CallInv /\ JobInv /\ ChunkInv /\ MemoryInv /\ HdproInv BY HdproParts
<1>q. job \in Jobs /\ drive \in Drive /\ cause \in BOOLEAN /\ hfaults \in Nat BY HdproParts
<1>f. UNCHANGED <<driver, lba_48bit, specs, CurrentPart, hcall, hmy, hresult>> BY DEF HddFrame
<1>b. UNCHANGED <<hmem, job, hat>> BY DEF HdproDrive
<1>e. cause' \in BOOLEAN /\ hfaults' \in Nat
  <2>1. HddFault \/ NoHddFault BY DEF HdproDrive, PioReady, DriveFails, DriveHangs, DriveWakes
  <2> QED BY <1>a, <2>1, FaultTyped
<1>1. drive' \in Drive /\ (drive'.busy => drive.busy) /\ ~(drive'.busy /\ drive'.drq)
      /\ (drive'.busy \/ drive'.drq => (drive.busy \/ drive.drq) /\ drive'.lba = drive.lba)
      /\ (drive'.drq => drive'.left > 0)
  <2>h. ~(drive.busy /\ drive.drq) /\ (drive.drq => drive.left > 0) BY <1>a DEF HdproInv
  <2>1. CASE PioReady
    <3>1. drive.busy /\ drive.left > 0 /\ drive' = [drive EXCEPT !.busy = FALSE, !.drq = TRUE] BY <2>1 DEF PioReady
    <3> QED BY <1>q, <3>1 DEF Drive
  <2>2. CASE DriveFails
    <3>1. drive.busy /\ drive' = [drive EXCEPT !.busy = FALSE, !.intrq = TRUE, !.err = "abrt", !.left = 0]
      BY <2>2 DEF DriveFails
    <3> QED BY <1>q, <2>h, <3>1 DEF Drive
  <2>3. CASE DriveHangs
    <3>1. drive' = [drive EXCEPT !.hung = TRUE, !.slow = TRUE] BY <2>3 DEF DriveHangs
    <3> QED BY <1>q, <2>h, <3>1 DEF Drive
  <2>4. CASE DriveWakes
    <3>1. drive' = [drive EXCEPT !.hung = FALSE] BY <2>4 DEF DriveWakes
    <3> QED BY <1>q, <2>h, <3>1 DEF Drive
  <2> QED BY <2>1, <2>2, <2>3, <2>4 DEF HdproDrive
<1>2. CallInv' /\ JobInv' /\ ChunkInv' /\ MemoryInv' BY <1>a, <1>b, JobKept
<1>3. HddTypes' BY <1>a, <1>b, <1>e, <1>f, <1>1 DEF HddTypes, atadvars
<1>4. AtadInv' BY <1>f DEF AtadInv
<1>5. HdproInv'
  <2>1. Done' = Done BY <1>b DEF Done
  <2>2. HasBlocks(job.buf, job.lba, Done) => HasBlocks(job.buf, job.lba, Done)' BY <1>b, <2>1 DEF HasBlocks
  <2> QED BY <1>a, <1>b, <1>f, <1>1, <2>1, <2>2 DEF HdproInv
<1> QED BY <1>2, <1>3, <1>4, <1>5 DEF HddInv

\* The drivers and their hardware.
LEMMA DriverKeeps ==
  ASSUME HddInv, PartsOnDisk, DriverThread \/ HddHardware, UNCHANGED <<driver, lba_48bit>>
  PROVE  HddInv'
<1>0. driver \in {"atad", "hdpro"} BY DEF HddInv, HddTypes
<1>f. HddFrame BY DEF DriverThread, HddHardware, HddFrame
<1>1. CASE driver = "atad"
  <2>1. AtadThread \/ AtadDrive \/ AtadIntr BY <1>1 DEF DriverThread, HddHardware
  <2>2. CASE AtadThread
    BY <1>1, <1>f, <2>2, AtadChunkKeeps, AtadStartKeeps, AtadSelectKeeps, AtadIssueKeeps, AtadSetDirKeeps,
       AtadTransferKeeps, AtadMovesKeep, AtadFinishKeeps DEF AtadThread
  <2>3. CASE AtadDrive \/ AtadIntr BY <1>1, <1>f, <2>3, AtadHardwareKeeps
  <2> QED BY <2>1, <2>2, <2>3
<1>2. CASE driver = "hdpro"
  <2>1. (HdproThread \/ HdproDrive) /\ UNCHANGED atadvars BY <1>2 DEF DriverThread, HddHardware
  <2>2. CASE HdproThread
    BY <1>2, <1>f, <2>1, <2>2, HdproCallKeeps, HdproChunkKeeps, HdproEndKeeps, HdproWaitKeeps, HdproIssueKeeps,
       HdproPioKeeps, HdproStatusKeeps DEF HdproThread
  <2>3. CASE HdproDrive BY <1>2, <1>f, <2>1, <2>3, HdproDriveKeeps
  <2> QED BY <2>1, <2>2, <2>3
<1> QED BY <1>0, <1>1, <1>2

-----------------------------------------------------------------------------
(***************************************************************************)
(* The steps of device-hdd.c.                                              *)
(***************************************************************************)
\* Between calls of a driver nothing is to be shown of it.
LEMMA OuterStep ==
  ASSUME HddInv, hat \in OuterPlaces, hat' \in OuterPlaces \cup {"call"}, hat' = "call" => job'.res = "OK",
         UNCHANGED <<driver, drive, atadvars>>
  PROVE  ChunkInv' /\ AtadInv' /\ HdproInv'
<1>a. AtadInv /\ HdproInv BY DEF HddInv
<1>1. ChunkInv' BY DEF ChunkInv, InIo
<1>2. AtadInv' BY <1>a DEF AtadInv, AtadPlace, AtadTransfer, OuterPlaces, atadvars
<1>3. HdproInv' BY <1>a DEF HdproInv, OuterPlaces, HdproPlaces
<1> QED BY <1>1, <1>2, <1>3

\* A call of a driver.
LEMMA IoTyped ==
  ASSUME NEW buf \in Nat, NEW lba \in Nat, NEW n \in Nat, SectorIo(buf, lba, n)
  PROVE  /\ hat' = "call" /\ job' \in Jobs /\ job'.res = "OK"
         /\ job'.buf = buf /\ job'.lba = lba /\ job'.left = n
<1>1. hat' = "call" /\ job' = [NoIo EXCEPT !.buf = buf, !.lba = lba, !.left = n] BY DEF SectorIo, Goto
<1> QED BY <1>1 DEF NoIo, Jobs, IoResults

\* DeviceInit reads the header until it can be read.
LEMMA HeaderKeeps ==
  ASSUME HddInv, DeviceInit \/ HeaderRead, UNCHANGED <<driver, lba_48bit>>
  PROVE  HddInv'
<1>a. HddTypes /\ CallInv /\ JobInv BY DEF HddInv
<1>q. LbaStart \in Nat /\ MemBlocks \in Nat /\ MemBlocks > 1 BY HddAssumption, AtaAssumption
<1>b. UNCHANGED <<driver, lba_48bit, drive, atadvars, CurrentPart, hcall, hmy, hresult>> /\ hcall = NoCall
      /\ hat \in {"boot", "done"}
  BY <1>a DEF DeviceInit, HeaderRead, driverstate, CallInv
<1>e. cause' \in BOOLEAN /\ hfaults' \in Nat
  <2>1. CASE DeviceInit
    <3>1. HddFault \/ NoHddFault BY <2>1 DEF DeviceInit
    <3> QED BY <1>a, <3>1, FaultTyped
  <2>2. CASE HeaderRead BY <1>a, <2>2 DEF HeaderRead, HddTypes
  <2> QED BY <2>1, <2>2
<1>1. CASE SectorIo(0, LbaStart, 2) /\ UNCHANGED <<specs, hmem>>
  <2>1. /\ hat' = "call" /\ job' \in Jobs /\ job'.res = "OK"
        /\ job'.buf = 0 /\ job'.lba = LbaStart /\ job'.left = 2
    BY <1>1, <1>q, IoTyped
  <2>2. ChunkInv' /\ AtadInv' /\ HdproInv' BY <1>b, <2>1, OuterStep DEF OuterPlaces
  <2>3. JobInv'
    <3>1. AskedBuf' = 0 /\ AskedLba' = LbaStart /\ AskedBlocks' = 2 BY <1>b DEF AskedBuf, AskedLba, AskedBlocks
    <3> QED BY <2>1, <3>1, <1>q DEF JobInv, HasBlocks
  <2>4. CallInv' BY <1>b, <2>1 DEF CallInv
  <2>5. MemoryInv' BY <1>b DEF MemoryInv
  <2>6. HddTypes' BY <1>a, <1>b, <1>e, <1>1, <2>1 DEF HddTypes, atadvars, AtadPlaces, AtadStarting, HdproPlaces
  <2> QED BY <2>2, <2>3, <2>4, <2>5, <2>6 DEF HddInv
<1>2. CASE HeaderRead /\ job.res = "OK"
  <2>1. /\ hat = "done" /\ hat' = "idle" /\ job' = job
        /\ specs' = (IF hmem[0] = LbaStart /\ hmem[1] = LbaStart + 1 THEN PartSpecs ELSE <<>>)
        /\ hmem' = [b \in DOMAIN hmem |-> Unwritten]
    BY <1>2 DEF HeaderRead, Goto
  <2>2. specs' = PartSpecs
    <3>1. InDevice BY <2>1 DEF InDevice, OuterPlaces
    <3>2. HasBlocks(AskedBuf, AskedLba, AskedBlocks - job.left) /\ job.left = 0
      BY <1>a, <1>2, <2>1, <3>1 DEF JobInv
    <3>3. AskedBuf = 0 /\ AskedLba = LbaStart /\ AskedBlocks = 2 BY <1>b DEF AskedBuf, AskedLba, AskedBlocks
    <3>4. HasBlocks(0, LbaStart, 2) BY <3>2, <3>3
    <3>5. hmem[0 + 0] = LbaStart + 0 /\ hmem[0 + 1] = LbaStart + 1 BY <3>4 DEF HasBlocks
    <3>6. hmem[0] = LbaStart /\ hmem[1] = LbaStart + 1 BY <3>5, <1>q
    <3> QED BY <2>1, <3>6
  <2>3. ChunkInv' /\ AtadInv' /\ HdproInv' BY <1>b, <2>1, OuterStep DEF OuterPlaces
  <2>4. JobInv' BY <2>1 DEF JobInv, InDevice, OuterPlaces
  <2>5. CallInv' BY <1>b, <2>1, <2>2 DEF CallInv, InDevice, OuterPlaces
  <2>6. MemoryInv' BY <1>b DEF MemoryInv
  <2>7. HddTypes' BY <1>a, <1>b, <1>e, <2>1, <2>2 DEF HddTypes, atadvars, OuterPlaces
  <2> QED BY <2>3, <2>4, <2>5, <2>6, <2>7 DEF HddInv
<1> QED BY <1>1, <1>2 DEF DeviceInit, HeaderRead

\* DeviceReadSectors is called.
LEMMA CalledKeeps ==
  ASSUME HddInv, DeviceReadSectors, UNCHANGED <<driver, lba_48bit>>
  PROVE  HddInv'
<1>a. HddTypes /\ CallInv BY DEF HddInv
<1>1. PICK r \in HddReads :
        /\ hat = "idle" /\ hat' = "next" /\ hcall' = r /\ hmy' = [lsn |-> r.lsn, left |-> r.n, off |-> 0]
        /\ UNCHANGED <<drive, atadvars, hmem, job, specs, CurrentPart, hresult, hfaults>>
        /\ cause' = (drive.busy \/ drive.drq \/ hdpro_io_active)
  BY Zenon DEF DeviceReadSectors, Goto, driverstate
<1>2. r.lsn \in Nat /\ r.n \in Nat \ {0} BY HddAssumption
<1>3. hmy' \in [lsn: Nat, left: Nat, off: Nat] /\ hmy'.lsn = r.lsn /\ hmy'.left = r.n /\ hmy'.off = 0 BY <1>1, <1>2
<1>4. cause' \in BOOLEAN BY <1>1, Zenon
<1>5. r # NoCall BY <1>2 DEF NoCall
<1>6. ChunkInv' /\ AtadInv' /\ HdproInv' BY <1>1, OuterStep DEF OuterPlaces
<1>7. JobInv' BY <1>1 DEF JobInv, InDevice, OuterPlaces
<1>8. CallInv'
  <2>1. r.lsn = r.lsn + 0 /\ r.n + 0 = r.n BY <1>2
  <2>2. specs' = PartSpecs BY <1>a, <1>1 DEF CallInv
  <2> QED BY <1>1, <1>3, <1>5, <2>1, <2>2 DEF CallInv, InDevice, OuterPlaces
<1>9. MemoryInv'
  <2>1. \A b \in DOMAIN hmem : hmem[b] = Unwritten BY <1>a, <1>1 DEF CallInv
  <2>2. DOMAIN hmem = 0 .. MemBlocks - 1 /\ MemBlocks \in Nat BY <1>a, AtaAssumption DEF HddTypes
  <2>3. r.n * Blk \in Nat BY <1>2, HddAssumption
  <2>4. \A b \in r.n * Blk .. MemBlocks - 1 : hmem[b] = Unwritten BY <2>1, <2>2, <2>3
  <2>5. \A i \in 0 .. hmy'.off - 1 : FALSE BY <1>3
  <2> QED BY <1>1, <2>4, <2>5 DEF MemoryInv
<1>10. HddTypes' BY <1>a, <1>1, <1>3, <1>4 DEF HddTypes, atadvars, OuterPlaces
<1> QED BY <1>6, <1>7, <1>8, <1>9, <1>10 DEF HddInv

\* It has returned, and the caller has its data.
LEMMA ReturnedKeeps ==
  ASSUME HddInv, HddReturned, UNCHANGED <<driver, lba_48bit>>
  PROVE  HddInv'
<1>a. HddTypes /\ CallInv BY DEF HddInv
<1>1. /\ hat = "return" /\ hat' = "idle" /\ hcall' = NoCall /\ job' = NoIo
      /\ hmy' = [lsn |-> 0, left |-> 0, off |-> 0] /\ hresult' = "OK"
      /\ hmem' = [b \in DOMAIN hmem |-> Unwritten]
      /\ UNCHANGED <<drive, atadvars, specs, CurrentPart, cause, hfaults>>
  BY DEF HddReturned, Goto, driverstate
<1>2. ChunkInv' /\ AtadInv' /\ HdproInv' BY <1>1, OuterStep DEF OuterPlaces
<1>3. JobInv' BY <1>1 DEF JobInv, InDevice, OuterPlaces
<1>4. CallInv' BY <1>a, <1>1 DEF CallInv, InDevice, OuterPlaces
<1>5. MemoryInv' BY <1>1 DEF MemoryInv
<1>6. NoIo \in Jobs BY DEF NoIo, Jobs, IoResults
<1>7. HddTypes' BY <1>a, <1>1, <1>6 DEF HddTypes, atadvars, OuterPlaces
<1> QED BY <1>2, <1>3, <1>4, <1>5, <1>7 DEF HddInv

\* At most one partition holds a sector, and the read finds it.
LEMMA OnePart ==
  ASSUME PartsApart, specs = PartSpecs, hmy.lsn \in Nat
  PROVE  /\ \A p, q : Holds(p) /\ Holds(q) => p = q
         /\ PartFor # 0 => Holds(PartFor)
         /\ (\E p : Holds(p)) => PartFor # 0
         /\ \A p : Holds(p) => p # 0 /\ p \in Nat
<1>1. ASSUME NEW p, NEW q, Holds(p), Holds(q) PROVE p = q
  <2>1. p \in DOMAIN PartSpecs /\ q \in DOMAIN PartSpecs BY <1>1 DEF Holds
  <2>2. /\ PartSpecs[p].part_offset \in Nat /\ PartSpecs[p].part_size \in Nat
        /\ PartSpecs[q].part_offset \in Nat /\ PartSpecs[q].part_size \in Nat
    BY <2>1, PartTyped
  <2>3. /\ hmy.lsn >= PartSpecs[p].part_offset /\ hmy.lsn < PartSpecs[p].part_offset + PartSpecs[p].part_size
        /\ hmy.lsn >= PartSpecs[q].part_offset /\ hmy.lsn < PartSpecs[q].part_offset + PartSpecs[q].part_size
    BY <1>1 DEF Holds
  <2> DEFINE a == PartSpecs[p].part_offset
             b == PartSpecs[q].part_offset
             m == PartSpecs[p].part_size
             n == PartSpecs[q].part_size
  <2>4. ~(a + m <= b) /\ ~(b + n <= a)
    <3>1. a \in Nat /\ b \in Nat /\ m \in Nat /\ n \in Nat BY <2>2
    <3>2. hmy.lsn >= a /\ hmy.lsn < a + m /\ hmy.lsn >= b /\ hmy.lsn < b + n BY <2>3
    <3> HIDE DEF a, b, m, n
    <3> QED BY <3>1, <3>2
  <2> QED BY <2>1, <2>4 DEF PartsApart
<1>2. (PartFor # 0 => Holds(PartFor)) /\ ((\E p : Holds(p)) => Holds(PartFor))
  <2>0. \A p : Holds(p) => p \in DOMAIN specs BY DEF Holds
  <2>1. CASE Holds(CurrentPart) BY <2>1 DEF PartFor
  <2>2. CASE ~Holds(CurrentPart) /\ ~\E p \in DOMAIN specs : Holds(p) BY <2>0, <2>2 DEF PartFor
  <2>3. CASE ~Holds(CurrentPart) /\ \E p \in DOMAIN specs : Holds(p)
    <3>1. PICK p \in DOMAIN specs : Holds(p) BY <2>3
    <3>2. p \in Nat
      <4>1. PartSpecs \in Seq([part_offset: Nat, part_size: Nat, data_start: Nat]) BY HddAssumption
      <4>2. DOMAIN PartSpecs = 1 .. Len(PartSpecs) BY <4>1
      <4> QED BY <3>1, <4>2
    <3>3. \A q \in 1 .. p - 1 : q # p BY <3>2
    <3>4. \A q \in 1 .. p - 1 : ~Holds(q) BY <1>1, <3>1, <3>3
    <3>5. PartFor = CHOOSE r \in DOMAIN specs : Holds(r) /\ \A q \in 1 .. r - 1 : ~Holds(q) BY <2>3, Zenon DEF PartFor
    <3>6. Holds(PartFor) BY <3>1, <3>4, <3>5, Zenon
    <3> QED BY <3>6
  <2> QED BY <2>0, <2>1, <2>2, <2>3
<1>3. ASSUME NEW p, Holds(p) PROVE p # 0 /\ p \in Nat
  <2>1. PartSpecs \in Seq([part_offset: Nat, part_size: Nat, data_start: Nat]) BY HddAssumption
  <2>2. DOMAIN PartSpecs = 1 .. Len(PartSpecs) BY <2>1
  <2>3. p \in DOMAIN PartSpecs BY <1>3 DEF Holds
  <2> QED BY <2>2, <2>3
<1>4. (\E p : Holds(p)) => PartFor # 0
  <2> SUFFICES ASSUME NEW p, Holds(p) PROVE PartFor # 0 OBVIOUS
  <2>1. Holds(PartFor) BY <1>2
  <2> HIDE DEF PartFor
  <2> QED BY <1>3, <2>1
<1>5. PartFor # 0 => Holds(PartFor) BY <1>2
<1> QED BY <1>1, <1>3, <1>4, <1>5

\* A turn of its loop: what the sector's partition has of the rest is asked for.
LEMMA ReadPartKeeps ==
  ASSUME HddInv, PartsApart, ReadPart, UNCHANGED <<driver, lba_48bit>>
  PROVE  HddInv'
<1>a. HddTypes /\ CallInv /\ MemoryInv BY DEF HddInv
<1>b. /\ hat = "next" /\ hmy.left > 0
      /\ UNCHANGED <<driver, lba_48bit, drive, atadvars, hmem, specs, hcall, hmy, cause, hfaults>>
  BY DEF ReadPart, driverstate
<1>c. hcall # NoCall /\ specs = PartSpecs /\ hcall \in HddReads /\ hmy \in [lsn: Nat, left: Nat, off: Nat]
  BY <1>a, <1>b DEF CallInv, HddTypes
<1>d. hmy.lsn \in Nat /\ hmy.left \in Nat /\ hmy.off \in Nat /\ Blk \in Nat \ {0} BY <1>c, HddAssumption
<1>m. MemoryInv'
  <2>1. MemoryInv BY <1>a
  <2>2. hmem' = hmem /\ hcall' = hcall /\ hmy' = hmy BY <1>b
  <2> QED BY <2>1, <2>2, MemoryKept
<1>1. CASE PartFor = 0 /\ Returns("ENXIO") /\ UNCHANGED <<job, CurrentPart>>
  <2>1. hat' = "return" /\ hresult' = "ENXIO" /\ UNCHANGED <<job, CurrentPart>> BY <1>1 DEF Returns, Goto
  <2>2. ChunkInv' /\ AtadInv' /\ HdproInv' BY <1>b, <2>1, OuterStep DEF OuterPlaces
  <2>3. JobInv' BY <2>1 DEF JobInv, InDevice, OuterPlaces
  <2>4. PartFor' = PartFor BY <1>b, <2>1 DEF PartFor, Holds
  <2>5. CallInv' BY <1>a, <1>b, <1>c, <1>1, <2>1, <2>4 DEF CallInv, InDevice, OuterPlaces
  <2>6. HddTypes' BY <1>a, <1>b, <2>1 DEF HddTypes, atadvars, OuterPlaces
  <2> QED BY <1>m, <2>2, <2>3, <2>5, <2>6 DEF HddInv
<1>2. CASE PartFor # 0
  <2> DEFINE p == specs[PartFor]
             n == AtMost(hmy.left, p.part_offset + p.part_size - hmy.lsn)
             buf == hmy.off * Blk
             lba == p.data_start + (hmy.lsn - p.part_offset) * Blk
  <2>1. CurrentPart' = PartFor /\ SectorIo(buf, lba, n * Blk) /\ hresult' = hresult BY <1>2 DEF ReadPart
  <2>2. Holds(PartFor) /\ PartFor \in Nat BY <1>2, <1>c, <1>d, OnePart
  <2>3. p.part_offset \in Nat /\ p.part_size \in Nat /\ p.data_start \in Nat
        /\ hmy.lsn >= p.part_offset /\ hmy.lsn < p.part_offset + p.part_size
    BY <2>2, <1>c, PartTyped DEF Holds
  <2>4. buf \in Nat /\ lba \in Nat /\ n \in Nat
    <3>1. n \in Nat
      <4> HIDE DEF p
      <4> QED BY <2>3, <1>d DEF AtMost
    <3>2. buf \in Nat BY <1>d
    <3>3. PICK d \in Nat : hmy.lsn - p.part_offset = d
      <4> HIDE DEF p
      <4> QED BY <2>3, <1>d
    <3>4. d * Blk \in Nat BY <3>3, <1>d
    <3>5. lba \in Nat
      <4> HIDE DEF p
      <4> QED BY <2>3, <3>3, <3>4
    <3> QED BY <3>1, <3>2, <3>5
  <2>5. AskedBuf' = buf /\ AskedLba' = lba /\ AskedBlocks' = n * Blk
    BY <1>b, <1>c, <2>1 DEF AskedBuf, AskedLba, AskedBlocks, AskedSectors
  <2> HIDE DEF p, n, buf, lba
  <2>6. n * Blk \in Nat BY <2>4, <1>d
  <2>7. hat' = "call" /\ job' \in Jobs /\ job'.res = "OK" /\ job'.buf = buf /\ job'.lba = lba /\ job'.left = n * Blk
    BY <2>1, <2>4, <2>6, IoTyped
  <2>8. ChunkInv' /\ AtadInv' /\ HdproInv' BY <1>b, <2>7, OuterStep DEF OuterPlaces
  <2>9. JobInv'
    <3> DEFINE m == n * Blk
    <3>1. m \in Nat /\ job'.left = m /\ AskedBlocks' = m BY <2>5, <2>6, <2>7
    <3> HIDE DEF m
    <3>2. m <= m /\ m - m = 0 BY <3>1
    <3>3. HasBlocks(AskedBuf, AskedLba, AskedBlocks - job.left)' BY <3>1, <3>2 DEF HasBlocks
    <3> QED BY <2>5, <2>7, <3>1, <3>2, <3>3 DEF JobInv
  <2>10. CallInv'
    <3>1. Holds(CurrentPart)' BY <1>b, <2>1, <2>2 DEF Holds
    <3> QED BY <1>a, <1>b, <1>c, <2>7, <3>1 DEF CallInv
  <2>11. HddTypes' BY <1>a, <1>b, <2>1, <2>2, <2>7 DEF HddTypes, atadvars, AtadPlaces, AtadStarting, HdproPlaces
  <2> QED BY <1>m, <2>8, <2>9, <2>10, <2>11 DEF HddInv
<1> QED BY <1>1, <1>2 DEF ReadPart

\* The loop's end.
LEMMA ReadEndKeeps ==
  ASSUME HddInv, ReadEnd, UNCHANGED <<driver, lba_48bit>>
  PROVE  HddInv'
<1>a. HddTypes /\ CallInv /\ MemoryInv BY DEF HddInv
<1>1. /\ hat = "next" /\ hat' = "return" /\ hresult' = "OK" /\ hmy.left = 0
      /\ UNCHANGED <<driver, lba_48bit, drive, atadvars, hmem, job, specs, CurrentPart, hcall, hmy, cause, hfaults>>
  BY DEF ReadEnd, Returns, Goto, driverstate
<1>2. ChunkInv' /\ AtadInv' /\ HdproInv' BY <1>1, OuterStep DEF OuterPlaces
<1>3. JobInv' BY <1>1 DEF JobInv, InDevice, OuterPlaces
<1>4. CallInv' BY <1>a, <1>1 DEF CallInv, InDevice, OuterPlaces
<1>5. MemoryInv' BY <1>a, <1>1, MemoryKept
<1>6. HddTypes' BY <1>a, <1>1 DEF HddTypes, atadvars, OuterPlaces
<1> QED BY <1>2, <1>3, <1>4, <1>5, <1>6 DEF HddInv

\* The partition that holds a sector is where the disc's sector is on the
\* disk.
LEMMA BlockIs ==
  ASSUME PartsApart, NEW p \in DOMAIN PartSpecs, NEW lsn \in Nat, NEW k,
         lsn >= PartSpecs[p].part_offset, lsn < PartSpecs[p].part_offset + PartSpecs[p].part_size
  PROVE  BlockOf(lsn, k) = PartSpecs[p].data_start + (lsn - PartSpecs[p].part_offset) * Blk + k
<1> DEFINE in(q) == lsn \in PartSpecs[q].part_offset .. PartSpecs[q].part_offset + PartSpecs[q].part_size - 1
           c == CHOOSE q \in DOMAIN PartSpecs : in(q)
<1>1. PartSpecs[p].part_offset \in Nat /\ PartSpecs[p].part_size \in Nat BY PartTyped
<1>2. in(p) BY <1>1
<1>3. ASSUME NEW q \in DOMAIN PartSpecs, in(q) PROVE q = p
  <2>1. PartSpecs[q].part_offset \in Nat /\ PartSpecs[q].part_size \in Nat BY PartTyped
  <2> DEFINE a == PartSpecs[p].part_offset
             b == PartSpecs[q].part_offset
             m == PartSpecs[p].part_size
             n == PartSpecs[q].part_size
  <2>2. ~(a + m <= b) /\ ~(b + n <= a)
    <3>1. a \in Nat /\ b \in Nat /\ m \in Nat /\ n \in Nat BY <1>1, <2>1
    <3>2. lsn >= a /\ lsn < a + m OBVIOUS
    <3>3. lsn \in b .. b + n - 1 BY <1>3
    <3> HIDE DEF a, b, m, n
    <3> QED BY <3>1, <3>2, <3>3
  <2> QED BY <2>2 DEF PartsApart
<1>4. BlockOf(lsn, k) = PartSpecs[c].data_start + (lsn - PartSpecs[c].part_offset) * Blk + k BY Zenon DEF BlockOf
<1> HIDE DEF in
<1>5. c \in DOMAIN PartSpecs /\ in(c) BY <1>2, Zenon
<1>6. c = p BY <1>3, <1>5
<1> QED BY <1>4, <1>6

\* A part of the call has been read: its blocks are the disc's next sectors.
LEMMA PartReadKeeps ==
  ASSUME HddInv, PartsOnDisk, PartsApart, PartRead, UNCHANGED <<driver, lba_48bit>>
  PROVE  HddInv'
<1>a. HddTypes /\ CallInv /\ JobInv /\ MemoryInv BY DEF HddInv
<1>b. /\ hat = "done" /\ hcall # NoCall
      /\ UNCHANGED <<driver, lba_48bit, drive, atadvars, hmem, job, specs, CurrentPart, hcall, cause, hfaults>>
  BY DEF PartRead, driverstate
<1>c. InDevice BY <1>b DEF InDevice, OuterPlaces
<1>g. /\ hmy.left > 0 /\ Holds(CurrentPart) /\ specs = PartSpecs
      /\ hmy.lsn = hcall.lsn + hmy.off /\ hmy.left + hmy.off = hcall.n
  BY <1>a, <1>b, <1>c DEF CallInv
<1>d. /\ hcall \in HddReads /\ hmy \in [lsn: Nat, left: Nat, off: Nat] /\ Blk \in Nat \ {0}
      /\ hmy.lsn \in Nat /\ hmy.left \in Nat /\ hmy.off \in Nat /\ hcall.lsn \in Nat /\ hcall.n \in Nat
  BY <1>a, <1>b, HddAssumption DEF HddTypes
<1>1. CASE job.res # "OK"
  <2>1. hat' = "return" /\ hresult' = "EIO" /\ hmy' = hmy BY <1>1 DEF PartRead, Returns, Goto
  <2>2. ChunkInv' /\ AtadInv' /\ HdproInv' BY <1>b, <2>1, OuterStep DEF OuterPlaces
  <2>3. JobInv' BY <2>1 DEF JobInv, InDevice, OuterPlaces
  <2>4. CallInv' BY <1>b, <1>g, <2>1 DEF CallInv, InDevice, OuterPlaces
  <2>5. MemoryInv' BY <1>a, <1>b, <2>1, MemoryKept
  <2>6. HddTypes' BY <1>a, <1>b, <2>1 DEF HddTypes, atadvars, OuterPlaces
  <2> QED BY <2>2, <2>3, <2>4, <2>5, <2>6 DEF HddInv
<1>2. CASE job.res = "OK"
  <2> DEFINE p == specs[CurrentPart]
             n == AtMost(hmy.left, p.part_offset + p.part_size - hmy.lsn)
  <2>1. /\ hat' = "next" /\ hresult' = hresult
        /\ hmy' = [lsn |-> hmy.lsn + n, left |-> hmy.left - n, off |-> hmy.off + n]
    BY <1>2 DEF PartRead, Goto
  <2>2. CurrentPart \in DOMAIN PartSpecs /\ p = PartSpecs[CurrentPart]
        /\ hmy.lsn >= p.part_offset /\ hmy.lsn < p.part_offset + p.part_size
    BY <1>g DEF Holds
  <2>3. p.part_offset \in Nat /\ p.part_size \in Nat /\ p.data_start \in Nat BY <2>2, PartTyped
  <2>4. AskedBuf = hmy.off * Blk /\ AskedBlocks = n * Blk
        /\ AskedLba = p.data_start + (hmy.lsn - p.part_offset) * Blk
    BY <1>b DEF AskedBuf, AskedBlocks, AskedLba, AskedSectors
  <2>5. n \in Nat /\ n <= hmy.left /\ n <= p.part_offset + p.part_size - hmy.lsn
    <3> HIDE DEF p
    <3> QED BY <1>d, <2>2, <2>3 DEF AtMost
  <2> HIDE DEF n
  <2>6. hmy'.lsn = hmy.lsn + n /\ hmy'.left = hmy.left - n /\ hmy'.off = hmy.off + n BY <2>1
  <2>7. hmy' \in [lsn: Nat, left: Nat, off: Nat]
    <3>1. hmy.lsn + n \in Nat /\ hmy.left - n \in Nat /\ hmy.off + n \in Nat BY <1>d, <2>5
    <3> QED BY <2>1, <3>1
  <2>8. HasBlocks(AskedBuf, AskedLba, n * Blk)
    <3>1. HasBlocks(AskedBuf, AskedLba, AskedBlocks - job.left) /\ job.left = 0
      BY <1>a, <1>b, <1>c, <1>2 DEF JobInv
    <3>2. n * Blk \in Nat BY <1>d, <2>5
    <3>3. AskedBlocks - job.left = n * Blk BY <2>4, <3>1, <3>2
    <3> QED BY <3>1, <3>3
  <2>9. ChunkInv' /\ AtadInv' /\ HdproInv' BY <1>b, <2>1, OuterStep DEF OuterPlaces
  <2>10. JobInv' BY <2>1 DEF JobInv, InDevice, OuterPlaces
  <2>11. CallInv'
    <3>1. hmy.lsn + n = hcall.lsn + (hmy.off + n) /\ (hmy.left - n) + (hmy.off + n) = hcall.n
      BY <1>d, <1>g, <2>5
    <3> QED BY <1>b, <1>g, <2>1, <2>6, <3>1 DEF CallInv, InDevice, OuterPlaces
  <2>12. ASSUME NEW i \in Nat, i < hmy.off + n, NEW k \in 0 .. Blk - 1
         PROVE  hmem[i * Blk + k] = BlockOf(hcall.lsn + i, k)
    <3>1. CASE i < hmy.off
      <4>1. i \in 0 .. hmy.off - 1 BY <3>1, <1>d
      <4> QED BY <1>a, <1>b, <4>1 DEF MemoryInv
    <3>2. CASE i >= hmy.off
      <4>1. PICK j \in Nat : i = hmy.off + j /\ j < n
        <5>1. i - hmy.off \in Nat /\ i = hmy.off + (i - hmy.off) /\ i - hmy.off < n BY <2>12, <3>2, <1>d, <2>5
        <5> QED BY <5>1
      <4>2. i * Blk = hmy.off * Blk + j * Blk BY <4>1, <1>d
      <4>3. j * Blk \in Nat /\ hmy.off * Blk \in Nat /\ k \in Nat /\ k < Blk BY <4>1, <1>d
      <4>4. j * Blk + k \in 0 .. n * Blk - 1
        <5>1. PICK e \in Nat : n = j + 1 + e
          <6>1. n - j - 1 \in Nat /\ n = j + 1 + (n - j - 1) BY <4>1, <2>5
          <6> QED BY <6>1
        <5>2. n * Blk = j * Blk + Blk + e * Blk BY <5>1, <4>1, <1>d
        <5>3. e * Blk \in Nat BY <5>1, <1>d
        <5> QED BY <5>2, <5>3, <4>3, <1>d
      <4>5. hmem[AskedBuf + (j * Blk + k)] = AskedLba + (j * Blk + k) BY <4>4, <2>8 DEF HasBlocks
      <4>6. AskedBuf + (j * Blk + k) = i * Blk + k BY <2>4, <4>2, <4>3
      <4>7. BlockOf(hcall.lsn + i, k) = AskedLba + (j * Blk + k)
        <5> DEFINE lsn == hcall.lsn + i
        <5>1. lsn \in Nat /\ lsn = hmy.lsn + j BY <1>d, <1>g, <4>1
        <5>2. lsn >= p.part_offset /\ lsn < p.part_offset + p.part_size
          <6> HIDE DEF p, lsn
          <6> QED BY <1>d, <2>2, <2>3, <2>5, <4>1, <5>1
        <5> HIDE DEF lsn
        <5>3. BlockOf(lsn, k) = p.data_start + (lsn - p.part_offset) * Blk + k BY <2>2, <5>1, <5>2, BlockIs
        <5>4. PICK d \in Nat : hmy.lsn - p.part_offset = d
          <6> HIDE DEF p
          <6> QED BY <1>d, <2>2, <2>3
        <5>5. lsn - p.part_offset = d + j
          <6> HIDE DEF p
          <6> QED BY <1>d, <2>3, <5>1, <5>4, <4>1
        <5>6. (d + j) * Blk = d * Blk + j * Blk BY <4>1, <5>4, <1>d
        <5>7. d * Blk \in Nat BY <5>4, <1>d
        <5>8. AskedLba = p.data_start + d * Blk BY <2>4, <5>4
        <5>9. BlockOf(lsn, k) = p.data_start + (d * Blk + j * Blk) + k BY <5>3, <5>5, <5>6
        <5>10. p.data_start + (d * Blk + j * Blk) + k = (p.data_start + d * Blk) + (j * Blk + k)
          <6> DEFINE x == d * Blk
                     y == j * Blk
          <6>1. x \in Nat /\ y \in Nat BY <5>7, <4>3
          <6> HIDE DEF p, x, y
          <6>2. p.data_start + (x + y) + k = (p.data_start + x) + (y + k) BY <6>1, <2>3, <4>3
          <6> QED BY <6>2 DEF x, y
        <5>11. BlockOf(lsn, k) = AskedLba + (j * Blk + k) BY <5>8, <5>9, <5>10
        <5> QED BY <5>11 DEF lsn
      <4> QED BY <4>5, <4>6, <4>7
    <3> QED BY <3>1, <3>2, <1>d
  <2>13. MemoryInv'
    <3>1. \A b \in hcall.n * Blk .. MemBlocks - 1 : hmem[b] = Unwritten BY <1>a, <1>b DEF MemoryInv
    <3> DEFINE o == hmy.off + n
    <3>2. ASSUME NEW i \in 0 .. o - 1, NEW k \in 0 .. Blk - 1
          PROVE  hmem[i * Blk + k] = BlockOf(hcall.lsn + i, k)
      <4>1. i \in Nat /\ i < hmy.off + n BY <1>d, <2>5
      <4> QED BY <4>1, <2>12
    <3>3. hmy'.off = o BY <2>6
    <3> HIDE DEF o
    <3>4. UNCHANGED <<hmem, hcall>> BY <1>b
    <3> QED BY <3>1, <3>2, <3>3, <3>4 DEF MemoryInv, BlockOf
  <2>14. HddTypes' BY <1>a, <1>b, <2>1, <2>7 DEF HddTypes, atadvars, OuterPlaces
  <2> QED BY <2>9, <2>10, <2>11, <2>13, <2>14 DEF HddInv
<1> QED BY <1>1, <1>2
-----------------------------------------------------------------------------
(***************************************************************************)
(* The hard disk: the theorem.                                             *)
(***************************************************************************)
\* A step of a build is a step of its hard disk, or leaves it alone.
LEMMA HddSteps == [DevNext]_devvars => [HddNext]_hddvars
  BY DEF DevNext, InUsb, InHdd, InSmb, InBdm, InMechacon, devvars, hddvars

\* Before anything was read.
LEMMA HddStarts == DevInit => HddInv
<1> SUFFICES ASSUME DevInit PROVE HddInv OBVIOUS
<1>1. HddInit BY DEF DevInit
<1>2. /\ driver \in {"atad", "hdpro"} /\ lba_48bit \in BOOLEAN /\ hat = "boot" /\ drive = IdleDrive
      /\ hmem = [b \in 0 .. MemBlocks - 1 |-> Unwritten] /\ job = NoIo /\ cause = FALSE /\ hfaults = 0
      /\ fifo = <<>> /\ dma = FALSE /\ alarm = FALSE /\ icrc = 0 /\ specs = <<>> /\ CurrentPart = 1
      /\ hcall = NoCall /\ hmy = [lsn |-> 0, left |-> 0, off |-> 0] /\ hresult = "OK"
  BY <1>1 DEF HddInit, AtaInit, AtadInit, HdproInit
<1>3. HddTypes
  <2>1. IdleDrive \in Drive BY DEF IdleDrive, Drive
  <2>2. NoIo \in Jobs BY DEF NoIo, Jobs, IoResults
  <2>3. hmy \in [lsn: Nat, left: Nat, off: Nat] /\ CurrentPart \in Nat BY <1>2
  <2>4. DOMAIN hmem = 0 .. MemBlocks - 1 BY <1>2
  <2>5. fifo \in Seq(Int) /\ hfaults \in Nat /\ icrc \in Nat BY <1>2
  <2>6. hat \in OuterPlaces BY <1>2 DEF OuterPlaces
  <2>7. drive \in Drive /\ job \in Jobs /\ dma \in BOOLEAN /\ alarm \in BOOLEAN /\ cause \in BOOLEAN
    BY <1>2, <2>1, <2>2
  <2>8. specs \in {<<>>, PartSpecs} /\ hcall \in HddReads \cup {NoCall} /\ hresult \in {"OK", "EIO", "ENXIO"} BY <1>2
  <2> QED BY <1>2, <2>3, <2>4, <2>5, <2>6, <2>7, <2>8 DEF HddTypes
<1>4. CallInv BY <1>2 DEF CallInv, InDevice, OuterPlaces
<1>5. JobInv BY <1>2 DEF JobInv, InDevice, OuterPlaces
<1>6. ChunkInv BY <1>2 DEF ChunkInv, InIo, OuterPlaces
<1>7. AtadInv BY <1>2 DEF AtadInv, AtadPlace, AtadTransfer
<1>8. HdproInv BY <1>2 DEF HdproInv, HdproPlaces, IdleDrive
<1>9. MemoryInv BY <1>2 DEF MemoryInv
<1> QED BY <1>3, <1>4, <1>5, <1>6, <1>7, <1>8, <1>9 DEF HddInv

\* Every step of the hard disk's build keeps the invariant.
LEMMA HddKeeps ==
  ASSUME HddInv, PartsOnDisk, PartsApart, [HddNext]_hddvars
  PROVE  HddInv' /\ PartsOnDisk'
<1>1. CASE UNCHANGED hddvars
  <2>1. UNCHANGED <<driver, lba_48bit, drive, hmem, job, hat, cause, hfaults, fifo, dma, alarm, icrc,
                    specs, CurrentPart, hcall, hmy, hresult>>
    BY <1>1 DEF hddvars, atadvars
  <2>f. HddFrame BY <2>1 DEF HddFrame
  <2>2. CallInv' /\ JobInv' /\ ChunkInv' /\ MemoryInv' BY <2>1, <2>f, JobKept DEF HddInv
  <2>3. HddTypes' BY <2>1 DEF HddInv, HddTypes
  <2>4. Done' = Done /\ InFifo' = InFifo BY <2>1 DEF Done, InFifo
  <2>5. (Sound => Sound') /\ (HasBlocks(job.buf, job.lba, Done) => HasBlocks(job.buf, job.lba, Done)')
        /\ (HasBlocks(job.buf, job.lba, job.len) => HasBlocks(job.buf, job.lba, job.len)')
    BY <2>1, <2>4 DEF Sound, HasBlocks
  <2>6. FifoInv => FifoInv' BY <2>1, <2>4, <2>5 DEF FifoInv
  <2>7. AtadInv'
    <3>1. AtadInv BY DEF HddInv
    <3> QED BY <2>1, <2>5, <2>6, <3>1 DEF AtadInv, AtadPlace
  <2>8. HdproInv'
    <3>1. HdproInv BY DEF HddInv
    <3> QED BY <2>1, <2>4, <2>5, <3>1 DEF HdproInv
  <2>9. PartsOnDisk' BY <2>1 DEF PartsOnDisk, AddressLimit
  <2> QED BY <2>2, <2>3, <2>7, <2>8, <2>9 DEF HddInv
<1>2. CASE HddNext
  <2>0. UNCHANGED <<driver, lba_48bit>> BY <1>2 DEF HddNext, HddCall, HddThread, HddHardware
  <2>1. PartsOnDisk' BY <2>0 DEF PartsOnDisk, AddressLimit
  <2>2. CASE HddCall BY <2>0, <2>1, <2>2, CalledKeeps DEF HddCall
  <2>3. CASE HddHardware BY <2>0, <2>1, <2>3, DriverKeeps
  <2>4. CASE HddThread
    BY <2>0, <2>1, <2>4, HeaderKeeps, ReadPartKeeps, ReadEndKeeps, PartReadKeeps, ReturnedKeeps, DriverKeeps DEF HddThread
  <2> QED BY <1>2, <2>1, <2>2, <2>3, <2>4 DEF HddNext
<1> QED BY <1>1, <1>2

\* And the invariant gives the property.
LEMMA HddGives ==
  ASSUME HddInv
  PROVE  HddDelivers
<1>a. HddTypes /\ CallInv /\ MemoryInv BY DEF HddInv
<1>1. ASSUME hat = "return", hresult = "OK"
      PROVE  \A i \in 0 .. hcall.n - 1, k \in 0 .. Blk - 1 : hmem[i * Blk + k] = BlockOf(hcall.lsn + i, k)
  <2>1. hcall # NoCall /\ hmy.left = 0 /\ hmy.left + hmy.off = hcall.n BY <1>a, <1>1 DEF CallInv
  <2>2. hmy.off \in Nat BY <1>a DEF HddTypes
  <2>3. hcall.n = hmy.off BY <2>1, <2>2
  <2> QED BY <1>a, <2>1, <2>3 DEF MemoryInv
<1> QED BY <1>a, <1>1 DEF HddDelivers, MemoryInv

\* With a header and partitions within the reach of the game's commands, and
\* partitions that hold different sectors of the disc, DeviceReadSectors of
\* device-hdd.c returns 0 only with the disc's sectors in the buffer, and
\* writes nowhere else, with either driver.
THEOREM HddSafe ==
  ASSUME PartsApart
  PROVE  DevSpec /\ PartsOnDisk => []HddDelivers
<1>1. DevInit => HddInv BY HddStarts
<1>2. HddInv /\ PartsOnDisk /\ [DevNext]_devvars => (HddInv /\ PartsOnDisk)' BY HddSteps, HddKeeps
<1>3. HddInv => HddDelivers BY HddGives
<1> QED BY <1>1, <1>2, <1>3, PTL DEF DevSpec
-----------------------------------------------------------------------------
(***************************************************************************)
(* The hard disk: why a call may fail.                                     *)
(***************************************************************************)
\* An event or an alarm of an earlier command is gone when the next is sent,
\* and a disk that is occupied has been so since the call began or by a
\* fault in it.
AtadEvents ==
  /\ alarm => hat \in AtadTransfer \cup {"finish"}
  /\ hat \in {"select", "issue"} => "TIMEOUT" \notin ata_evflg
  /\ hat \in AtadPlaces \ {"call"} => icrc + job.retries = RETRIES /\ job.retries > 0
AtadExcused == cause \/ hcall = NoCall
AtadFaults ==
  /\ hat \in AtadTransfer \cup {"finish"} =>
       /\ drive.hung => drive.slow
       /\ "TIMEOUT" \in ata_evflg \/ drive.slow => AtadExcused
       /\ drive.err = "abrt" => AtadExcused
  /\ hat \in {"next", "call", "start", "select", "done", "finish"} /\ drive.busy => AtadExcused
  /\ hat = "finish" /\ job.res \notin {"OK", "ICRC"} => AtadExcused
HdproCauses == hcall # NoCall /\ hat \in {"next", "call", "done"} /\ hdpro_io_active => cause
ResultCauses == hcall # NoCall =>
  /\ hat \in {"call", "done"} /\ job.res # "OK" => cause
  /\ hat = "return" /\ hresult = "EIO" => cause
CauseInv ==
  /\ driver = "atad" => AtadEvents /\ AtadFaults
  /\ driver = "hdpro" => HdproCauses
  /\ ResultCauses

\* A command of atad.c that is begun, or tried again.
LEMMA AtadBeginCauses ==
  ASSUME HddInv, CauseInv, driver = "atad", HddFrame, AtadChunk \/ AtadStart \/ AtadSelect
  PROVE  CauseInv'
<1>a. HddTypes /\ AtadPlace /\ job \in Jobs BY AtadParts DEF HddTypes
<1>f. UNCHANGED <<driver, hcall, hresult>> BY DEF HddFrame
<1>b. AtadEvents /\ AtadFaults /\ ResultCauses BY DEF CauseInv
<1>r. RETRIES \in Nat \ {0} BY AtadAssumption
<1>1. CASE AtadChunk
  <2>1. /\ hat = "call" /\ UNCHANGED <<ata_evflg, alarm, drive, cause>>
        /\ \/ /\ hat' = "start" /\ icrc' = 0 /\ job'.retries = RETRIES
           \/ /\ hat' = "done" /\ job' = job
    <3>1. \/ job' = [job EXCEPT !.len = AtMost(job.left, MaxLen), !.retries = RETRIES] /\ hat' = "start" /\ icrc' = 0
          \/ hat' = "done" /\ job' = job
      BY <1>1, Zenon DEF AtadChunk, Goto
    <3>2. job' = [job EXCEPT !.len = AtMost(job.left, MaxLen), !.retries = RETRIES] => job'.retries = RETRIES
      BY <1>a DEF Jobs
    <3>3. hat = "call" /\ UNCHANGED <<ata_evflg, alarm, drive, cause>> BY <1>1 DEF AtadChunk
    <3> QED BY <3>1, <3>2, <3>3
  <2>2. AtadEvents' BY <1>b, <1>r, <2>1 DEF AtadEvents, AtadTransfer, AtadPlaces, AtadStarting
  <2>3. AtadFaults' BY <1>b, <1>f, <2>1 DEF AtadFaults, AtadTransfer, AtadExcused
  <2>4. ResultCauses' BY <1>b, <1>f, <2>1 DEF ResultCauses
  <2> QED BY <1>f, <2>2, <2>3, <2>4 DEF CauseInv
<1>2. CASE AtadStart
  <2>1. /\ hat = "start" /\ hat' = "select" /\ ata_evflg' = {} /\ UNCHANGED <<alarm, icrc, drive, cause>>
        /\ job'.retries = job.retries
    BY <1>a, <1>2 DEF AtadStart, Goto, Jobs
  <2>2. AtadEvents' BY <1>b, <2>1 DEF AtadEvents, AtadTransfer, AtadPlaces, AtadStarting
  <2>3. AtadFaults' BY <1>b, <1>f, <2>1 DEF AtadFaults, AtadTransfer, AtadExcused
  <2>4. ResultCauses' BY <1>b, <1>f, <2>1 DEF ResultCauses
  <2> QED BY <1>f, <2>2, <2>3, <2>4 DEF CauseInv
<1>3. CASE AtadSelect
  <2>1. /\ hat = "select" /\ UNCHANGED <<ata_evflg, alarm, icrc, drive, cause>>
        /\ \/ ~drive.busy /\ hat' = "issue" /\ job' = job
           \/ drive.busy /\ hat' = "call"
    BY <1>3 DEF AtadSelect, Goto, Advanced, Stuck, atadvars
  <2>2. AtadEvents' BY <1>b, <2>1 DEF AtadEvents, AtadTransfer, AtadPlaces, AtadStarting
  <2>3. AtadFaults' BY <1>b, <1>f, <2>1 DEF AtadFaults, AtadTransfer, AtadExcused
  <2>4. ResultCauses' BY <1>b, <1>f, <2>1 DEF ResultCauses, AtadFaults, AtadExcused
  <2> QED BY <1>f, <2>2, <2>3, <2>4 DEF CauseInv
<1> QED BY <1>1, <1>2, <1>3

\* A command that is sent, or refused.
LEMMA AtadIssueCauses ==
  ASSUME HddInv, CauseInv, PartsOnDisk, driver = "atad", HddFrame, AtadIssue \/ ata_set_dir
  PROVE  CauseInv'
<1>a. HddTypes /\ CallInv /\ JobInv /\ ChunkInv /\ AtadPlace BY AtadParts
<1>f. UNCHANGED <<driver, hcall, hresult>> BY DEF HddFrame
<1>b. AtadEvents /\ AtadFaults /\ ResultCauses BY DEF CauseInv
<1>1. CASE AtadIssue /\ job' = job /\ hat' = "set_dir" /\ cause' = cause
           /\ drive' = Commanded(job.lba, job.len)
  <2>1. hat = "issue" /\ UNCHANGED <<ata_evflg, icrc>> BY <1>1 DEF AtadIssue
  <2>2. drive'.hung = FALSE /\ drive'.slow = FALSE /\ drive'.err = "none"
    BY <1>1 DEF Commanded, IdleDrive
  <2>3. AtadEvents' BY <1>b, <1>1, <2>1 DEF AtadEvents, AtadTransfer, AtadPlaces, AtadStarting
  <2>4. AtadFaults' BY <1>b, <1>f, <1>1, <2>1, <2>2 DEF AtadEvents, AtadFaults, AtadTransfer, AtadExcused
  <2>5. ResultCauses' BY <1>1 DEF ResultCauses
  <2> QED BY <1>f, <2>3, <2>4, <2>5 DEF CauseInv
<1>2. CASE AtadIssue /\ cause' = TRUE /\ hat' = "call" /\ alarm' = alarm
  <2>1. hat = "issue" BY <1>2 DEF AtadIssue
  <2>3. AtadEvents' BY <1>b, <1>2, <2>1 DEF AtadEvents, AtadTransfer, AtadPlaces, AtadStarting
  <2>4. AtadFaults' BY <1>2 DEF AtadFaults, AtadTransfer, AtadExcused
  <2>5. ResultCauses' BY <1>2 DEF ResultCauses
  <2> QED BY <1>f, <2>3, <2>4, <2>5 DEF CauseInv
<1>3. CASE ata_set_dir
  <2>1. hat = "set_dir" /\ hat' = "poll" /\ UNCHANGED <<ata_evflg, alarm, icrc, drive, job, cause>>
    BY <1>3 DEF ata_set_dir, Goto
  <2>2. AtadEvents' BY <1>b, <2>1 DEF AtadEvents, AtadTransfer, AtadPlaces, AtadStarting
  <2>3. AtadFaults' BY <1>b, <1>f, <2>1 DEF AtadFaults, AtadTransfer, AtadExcused
  <2>4. ResultCauses' BY <2>1 DEF ResultCauses
  <2> QED BY <1>f, <2>2, <2>3, <2>4 DEF CauseInv
<1> QED BY <1>1, <1>2, <1>3 DEF AtadIssue, Goto, HddFault, NoHddFault, Advanced

\* The transfer: it ends early only for a timeout or an error of the disk, and
\* the disk is not stuck with data at its end.
LEMMA AtadTransferCauses ==
  ASSUME HddInv, CauseInv, driver = "atad", HddFrame,
         DmaTransfer \/ DmaWait \/ DmaWoken \/ DmaDone \/ LastWoken \/ AtadStatus
  PROVE  CauseInv'
<1>a. HddTypes /\ AtadPlace /\ (hat \in AtadTransfer => FifoInv) /\ job \in Jobs /\ drive \in Drive
  BY AtadParts DEF HddTypes
<1>f. UNCHANGED <<driver, hcall, hresult>> BY DEF HddFrame
<1>b. AtadEvents /\ AtadFaults /\ ResultCauses BY DEF CauseInv
<1>1. /\ hat \in {"poll", "wait", "last", "status"} /\ hat' \in {"poll", "wait", "last", "status", "finish"}
      /\ UNCHANGED <<alarm, icrc, cause>> /\ ata_evflg' \in {{}, ata_evflg}
      /\ drive' \in {drive, [drive EXCEPT !.intrq = FALSE]}
  BY DEF DmaTransfer, DmaWait, DmaWoken, DmaDone, LastWoken, AtadStatus, Goto, Failed, atadvars
<1>2. job'.retries = job.retries
  BY <1>a DEF DmaTransfer, DmaWait, DmaWoken, DmaDone, LastWoken, AtadStatus, Failed, Jobs
<1>3. drive'.hung = drive.hung /\ drive'.slow = drive.slow /\ drive'.err = drive.err /\ drive'.busy = drive.busy
  BY <1>a, <1>1 DEF Drive
<1>4. AtadEvents' BY <1>b, <1>1, <1>2 DEF AtadEvents, AtadTransfer, AtadPlaces, AtadStarting
<1>5. hat' = "finish" => /\ job'.res \notin {"OK", "ICRC"} => AtadExcused
                         /\ drive.busy => AtadExcused
  <2> SUFFICES ASSUME hat' = "finish"
               PROVE  (job'.res \notin {"OK", "ICRC"} => AtadExcused) /\ (drive.busy => AtadExcused)
    OBVIOUS
  <2>0. FifoInv BY <1>a, <1>1 DEF AtadTransfer
  <2>1. hat \in AtadTransfer BY <1>1 DEF AtadTransfer
  <2>2. CASE "TIMEOUT" \in ata_evflg BY <1>b, <2>1, <2>2 DEF AtadFaults
  <2>3. CASE drive.err = "abrt" BY <1>b, <2>1, <2>3 DEF AtadFaults
  <2>4. CASE "TIMEOUT" \notin ata_evflg /\ drive.err # "abrt"
    <3>1. DmaWoken \/ AtadStatus
      BY <2>4, Zenon DEF DmaTransfer, DmaWait, DmaDone, LastWoken, Goto
    <3>2. CASE DmaWoken
      <4>1. drive.err # "none" /\ job' = [job EXCEPT !.res = ErrorOf]
        BY <2>4, <3>2, Zenon DEF DmaWoken, Failed, Goto
      <4>2. drive.err = "icrc" BY <1>a, <2>4, <4>1 DEF Drive
      <4>3. job'.res = "ICRC" BY <1>a, <4>1, <4>2 DEF ErrorOf, Jobs
      <4>4. ~drive.busy BY <2>0, <4>2 DEF FifoInv
      <4> QED BY <4>3, <4>4
    <3>3. CASE AtadStatus
      <4>1. hat = "status" /\ job.blk = 0 BY <1>a, <3>3 DEF AtadStatus, AtadPlace
      <4>2. ~drive.busy => /\ job' = [job EXCEPT !.res = IF drive.err = "none" THEN "OK" ELSE ErrorOf]
        BY <3>3 DEF AtadStatus, Failed, Stuck
      <4>3. ~drive.busy => job'.res \in {"OK", "ICRC"}
        <5>1. drive.err \in {"none", "icrc"} BY <1>a, <2>4 DEF Drive
        <5> QED BY <1>a, <4>2, <5>1 DEF ErrorOf, Jobs
      <4>4. drive.busy => drive.hung
        <5>1. drive.left + InFifo = job.blk BY <2>0, <2>4 DEF FifoInv
        <5>2. drive.left \in Nat /\ InFifo \in Nat BY <1>a DEF Drive, InFifo, HddTypes
        <5>3. ~(drive.left > 0) BY <4>1, <5>1, <5>2
        <5> QED BY <3>3, <5>3 DEF AtadStatus, Stuck
      <4>5. drive.busy => AtadExcused BY <1>b, <2>1, <4>4 DEF AtadFaults
      <4> QED BY <4>3, <4>5
    <3> QED BY <3>1, <3>2, <3>3
  <2> QED BY <2>2, <2>3, <2>4
<1>6. AtadExcused' = AtadExcused BY <1>f, <1>1 DEF AtadExcused
<1>7. AtadFaults' BY <1>b, <1>1, <1>3, <1>5, <1>6 DEF AtadFaults, AtadTransfer
<1>8. ResultCauses' BY <1>1 DEF ResultCauses
<1> QED BY <1>f, <1>4, <1>7, <1>8 DEF CauseInv

\* The end of a command: it is tried again only after ICRC, RETRIES times.
LEMMA AtadFinishCauses ==
  ASSUME HddInv, CauseInv, driver = "atad", HddFrame, AtadFinish
  PROVE  CauseInv'
<1>a. HddTypes /\ job \in Jobs BY DEF HddInv, HddTypes
<1>f. UNCHANGED <<driver, hcall, hresult>> BY DEF HddFrame
<1>b. AtadEvents /\ AtadFaults /\ ResultCauses BY DEF CauseInv
<1>1. /\ hat = "finish" /\ alarm' = FALSE /\ UNCHANGED <<ata_evflg, drive>>
      /\ icrc' = IF job.res = "ICRC" THEN icrc + 1 ELSE icrc
      /\ cause' = (cause \/ icrc' = RETRIES)
      /\ \/ job.res = "ICRC" /\ job.retries > 1 /\ hat' = "start" /\ job' = [job EXCEPT !.retries = @ - 1]
         \/ ~(job.res = "ICRC" /\ job.retries > 1) /\ Advanced(job.res)
  BY Zenon DEF AtadFinish, Goto
<1>2. icrc \in Nat /\ job.retries \in Nat /\ RETRIES \in Nat BY <1>a, AtadAssumption DEF HddTypes, Jobs
<1>3. icrc + job.retries = RETRIES /\ job.retries > 0
  BY <1>b, <1>1 DEF AtadEvents, AtadPlaces
<1>4. AtadExcused => AtadExcused' BY <1>f, <1>1 DEF AtadExcused
<1>5. CASE hat' = "start" /\ job.res = "ICRC" /\ job.retries > 1 /\ job' = [job EXCEPT !.retries = @ - 1]
  <2>1. job'.retries = job.retries - 1 BY <1>a, <1>5 DEF Jobs
  <2>2. icrc' = icrc + 1 BY <1>1, <1>5
  <2>3. icrc' + job'.retries = RETRIES /\ job'.retries > 0 BY <1>2, <1>3, <1>5, <2>1, <2>2
  <2>4. AtadEvents' BY <1>1, <1>5, <2>3 DEF AtadEvents
  <2>5. AtadFaults' BY <1>b, <1>1, <1>4, <1>5 DEF AtadFaults, AtadTransfer
  <2>6. ResultCauses' BY <1>5 DEF ResultCauses
  <2> QED BY <1>f, <2>4, <2>5, <2>6 DEF CauseInv
<1>6. CASE ~(job.res = "ICRC" /\ job.retries > 1) /\ Advanced(job.res)
  <2>1. hat' = "call" /\ job'.res = job.res BY <1>a, <1>6 DEF Advanced, Goto, Jobs
  <2>2. job.res # "OK" => AtadExcused'
    <3>1. CASE job.res = "ICRC"
      <4>1. job.retries = 1 BY <1>2, <1>3, <1>6, <3>1
      <4>2. icrc' = RETRIES BY <1>1, <1>2, <1>3, <3>1, <4>1
      <4> QED BY <1>1, <4>2 DEF AtadExcused
    <3>2. CASE job.res \notin {"OK", "ICRC"} BY <1>b, <1>1, <1>4, <3>2 DEF AtadFaults
    <3> QED BY <3>1, <3>2
  <2>3. AtadEvents' BY <1>1, <2>1 DEF AtadEvents, AtadTransfer, AtadPlaces, AtadStarting
  <2>4. AtadFaults' BY <1>b, <1>1, <1>4, <2>1 DEF AtadFaults, AtadTransfer
  <2>5. ResultCauses' BY <2>1, <2>2 DEF ResultCauses, AtadExcused
  <2> QED BY <1>f, <2>3, <2>4, <2>5 DEF CauseInv
<1> QED BY <1>1, <1>5, <1>6

\* The disk and the interrupts: a fault is a cause, and only a slow disk's
\* alarm goes off.
LEMMA AtadHardwareCauses ==
  ASSUME HddInv, CauseInv, driver = "atad", HddFrame, AtadDrive \/ AtadIntr
  PROVE  CauseInv'
<1>a. HddTypes /\ AtadPlace /\ job \in Jobs /\ drive \in Drive BY AtadParts DEF HddTypes
<1>f. UNCHANGED <<driver, hcall, hresult>> BY DEF HddFrame
<1>b. AtadEvents /\ AtadFaults /\ ResultCauses BY DEF CauseInv
<1>1. UNCHANGED <<hat, job, icrc>>
  BY DEF AtadDrive, AtadIntr, FillFifo, dev9_intr_dispatch, ata_alarm_cb, atadvars
<1>2. /\ alarm' => alarm
      /\ ata_evflg' \in {ata_evflg, ata_evflg \cup {"COMPLETE"}} \/ (alarm /\ drive.slow)
      /\ cause => cause'
  <2>1. cause => cause'
    BY Zenon DEF AtadDrive, AtadIntr, FillFifo, DriveEnds, DriveFails, DriveHangs, DriveWakes,
       dev9_intr_dispatch, ata_alarm_cb, HddFault, NoHddFault
  <2>2. \/ AtadDrive /\ alarm' = alarm /\ ata_evflg' = ata_evflg
        \/ dev9_intr_dispatch
        \/ ata_alarm_cb
    BY DEF AtadDrive, AtadIntr, FillFifo, atadvars
  <2>3. CASE AtadDrive /\ alarm' = alarm /\ ata_evflg' = ata_evflg BY <2>1, <2>3
  <2>4. CASE dev9_intr_dispatch BY <2>1, <2>4 DEF dev9_intr_dispatch
  <2>5. CASE ata_alarm_cb BY <2>1, <2>5 DEF ata_alarm_cb
  <2> QED BY <2>2, <2>3, <2>4, <2>5
<1>3. AtadEvents'
  <2>1. hat \in {"select", "issue"} => ~alarm BY <1>b DEF AtadEvents, AtadTransfer
  <2> QED BY <1>b, <1>1, <1>2, <2>1 DEF AtadEvents
<1>4. /\ drive'.hung => cause' \/ drive.hung
      /\ drive'.hung /\ ~drive.hung => drive'.slow
      /\ drive.slow => drive'.slow
      /\ drive'.slow => drive.slow \/ cause'
      /\ drive'.err = "abrt" => drive.err = "abrt" \/ cause'
      /\ drive'.busy => drive.busy
  <2>1. CASE drive' = drive BY <2>1
  <2>2. CASE FillFifo
    <3>1. \/ drive' = [drive EXCEPT !.lba = @ + 1, !.left = @ - 1]
          \/ drive' = [drive EXCEPT !.lba = @ + 1, !.left = @ - 1, !.crc = TRUE]
      BY <2>2, Zenon DEF FillFifo
    <3> QED BY <1>a, <3>1 DEF Drive
  <2>3. CASE DriveEnds
    <3>1. drive' = [drive EXCEPT !.busy = FALSE, !.intrq = TRUE, !.err = IF drive.crc THEN "icrc" ELSE "none"]
      BY <2>3, Zenon DEF DriveEnds
    <3> QED BY <1>a, <3>1 DEF Drive
  <2>4. CASE DriveFails
    <3>1. drive' = [drive EXCEPT !.busy = FALSE, !.intrq = TRUE, !.err = "abrt", !.left = 0] /\ cause'
      BY <2>4, Zenon DEF DriveFails, HddFault
    <3> QED BY <1>a, <3>1 DEF Drive
  <2>5. CASE DriveHangs
    <3>1. drive' = [drive EXCEPT !.hung = TRUE, !.slow = TRUE] /\ cause' BY <2>5, Zenon DEF DriveHangs, HddFault
    <3> QED BY <1>a, <3>1 DEF Drive
  <2>6. CASE DriveWakes
    <3>1. drive' = [drive EXCEPT !.hung = FALSE] BY <2>6, Zenon DEF DriveWakes
    <3> QED BY <1>a, <3>1 DEF Drive
  <2> QED BY <2>1, <2>2, <2>3, <2>4, <2>5, <2>6 DEF AtadDrive, AtadIntr, dev9_intr_dispatch, ata_alarm_cb
<1>5. AtadExcused => AtadExcused' BY <1>f, <1>2 DEF AtadExcused
<1>6. AtadFaults'
  <2>1. hat \in AtadTransfer \cup {"finish"} => (drive'.hung => drive'.slow) BY <1>b, <1>4 DEF AtadFaults
  <2>2. hat \in AtadTransfer \cup {"finish"} =>
          /\ "TIMEOUT" \in ata_evflg' => AtadExcused'
          /\ drive'.slow => AtadExcused'
          /\ drive'.err = "abrt" => AtadExcused'
    <3>1. cause' => AtadExcused' BY DEF AtadExcused
    <3>2. "TIMEOUT" \in ata_evflg' => "TIMEOUT" \in ata_evflg \/ drive.slow BY <1>2
    <3> QED BY <1>b, <1>4, <1>5, <3>1, <3>2 DEF AtadFaults
  <2>3. hat \in {"next", "call", "start", "select", "done", "finish"} /\ drive'.busy => AtadExcused'
    BY <1>b, <1>4, <1>5 DEF AtadFaults
  <2>4. hat = "finish" /\ job.res \notin {"OK", "ICRC"} => AtadExcused' BY <1>b, <1>5 DEF AtadFaults
  <2> QED BY <1>1, <2>1, <2>2, <2>3, <2>4 DEF AtadFaults
<1>7. ResultCauses' BY <1>b, <1>f, <1>1, <1>2 DEF ResultCauses
<1> QED BY <1>f, <1>3, <1>6, <1>7 DEF CauseInv

\* hdpro_atad.c: a call fails when the port does not open or close, and when
\* it is open already.
LEMMA HdproDriverCauses ==
  ASSUME HddInv, CauseInv, driver = "hdpro", HddFrame, HdproThread \/ HdproDrive
  PROVE  CauseInv'
<1>a. job \in Jobs /\ hat \in OuterPlaces \cup HdproPlaces BY HdproParts
<1>f. UNCHANGED <<driver, hcall, hresult>> BY DEF HddFrame
<1>b. HdproCauses /\ ResultCauses BY DEF CauseInv
<1>0. cause => cause'
  BY Zenon DEF HdproThread, HdproCall, HdproChunk, HdproEnd, HdproSelect, HdproIssue, HdproBusy, WaitBusy, Opens,
     StaysClosed, ata_pio_transfer, HdproStatus, HdproDrive, PioReady, DriveFails, DriveHangs, DriveWakes,
     HddFault, NoHddFault
<1>1. CASE HdproCall
  <2>1. hat = "call" /\ ((hat' = "chunk") \/ (hat' = "done" /\ ((~hdpro_io_active' /\ cause') \/ hdpro_io_active)))
    BY <1>1, Zenon DEF HdproCall, Opens, StaysClosed, Goto, HddFault
  <2>2. hcall # NoCall /\ hdpro_io_active => cause' BY <1>0, <1>b, <2>1 DEF HdproCauses
  <2>3. HdproCauses' BY <1>f, <2>1, <2>2 DEF HdproCauses
  <2>4. ResultCauses' BY <1>f, <2>1, <2>2 DEF ResultCauses
  <2> QED BY <1>f, <2>3, <2>4 DEF CauseInv
<1>2. CASE HdproEnd
  <2>1. hat' = "done" /\ ((hdpro_io_active' = FALSE /\ job' = job) \/ cause')
    BY <1>2, Zenon DEF HdproEnd, Goto, HddFault
  <2>2. hat = "chunk" BY <1>2 DEF HdproEnd
  <2>3. job.res = "OK" BY <2>2, HdproParts DEF HdproPlaces
  <2>4. HdproCauses' BY <1>f, <2>1 DEF HdproCauses
  <2>5. ResultCauses' BY <1>f, <2>1, <2>3 DEF ResultCauses
  <2> QED BY <1>f, <2>4, <2>5 DEF CauseInv
<1>3. CASE hat' \in {"chunk", "select", "issue", "busy", "pio", "status"}
  <2>1. HdproCauses' BY <1>3 DEF HdproCauses
  <2>2. ResultCauses' BY <1>3 DEF ResultCauses
  <2> QED BY <1>f, <2>1, <2>2 DEF CauseInv
<1>4. CASE HdproDrive
  <2>1. UNCHANGED <<hat, job, hdpro_io_active>> BY <1>4 DEF HdproDrive
  <2>2. HdproCauses' BY <1>0, <1>b, <1>f, <2>1 DEF HdproCauses
  <2>3. ResultCauses' BY <1>0, <1>b, <1>f, <2>1 DEF ResultCauses
  <2> QED BY <1>f, <2>2, <2>3 DEF CauseInv
<1>5. HdproCall \/ HdproEnd \/ HdproDrive \/ hat' \in {"chunk", "select", "issue", "busy", "pio", "status"}
  BY Zenon DEF HdproThread, HdproChunk, HdproSelect, HdproIssue, HdproBusy, WaitBusy, ata_pio_transfer,
     HdproStatus, Goto
<1> QED BY <1>1, <1>2, <1>3, <1>4, <1>5

\* device-hdd.c: a call begins with what an earlier fault has left occupied,
\* and passes the error of the driver on.
LEMMA OuterCauses ==
  ASSUME HddInv, CauseInv, UNCHANGED <<driver, lba_48bit>>,
         DeviceReadSectors \/ DeviceInit \/ HeaderRead \/ ReadPart \/ ReadEnd \/ PartRead \/ HddReturned
  PROVE  CauseInv'
<1>a. HddTypes /\ CallInv /\ ResultCauses BY DEF HddInv, CauseInv
<1>b. UNCHANGED <<driver, ata_evflg, alarm, icrc, drive>>
  BY DEF DeviceReadSectors, DeviceInit, HeaderRead, ReadPart, ReadEnd, PartRead, HddReturned, driverstate, atadvars
<1>c. hat \in OuterPlaces /\ hat' \in OuterPlaces \cup {"call"}
  BY DEF DeviceReadSectors, DeviceInit, HeaderRead, ReadPart, ReadEnd, PartRead, HddReturned, OuterPlaces, Goto,
     Returns, SectorIo
<1>1. CASE hcall' = NoCall
  <2>1. driver = "atad" => AtadEvents'
    <3> SUFFICES ASSUME driver = "atad" PROVE AtadEvents' OBVIOUS
    <3>1. AtadEvents BY DEF CauseInv
    <3>2. ~alarm BY <1>c, <3>1 DEF AtadEvents, OuterPlaces, AtadTransfer
    <3> QED BY <1>b, <1>c, <3>2 DEF AtadEvents, OuterPlaces, AtadPlaces, AtadStarting, AtadTransfer
  <2>2. AtadFaults' BY <1>c, <1>1 DEF AtadFaults, AtadExcused, AtadTransfer, OuterPlaces
  <2>3. HdproCauses' BY <1>1 DEF HdproCauses
  <2>4. ResultCauses' BY <1>1 DEF ResultCauses
  <2> QED BY <1>b, <2>1, <2>2, <2>3, <2>4 DEF CauseInv
<1>2. CASE DeviceReadSectors
  <2>1. hat' = "next" /\ cause' = (drive.busy \/ drive.drq \/ hdpro_io_active) /\ UNCHANGED hdpro_io_active
        /\ UNCHANGED driver /\ hat = "idle"
    BY <1>2 DEF DeviceReadSectors, Goto, driverstate
  <2>2. driver = "atad" => AtadEvents'
    <3> SUFFICES ASSUME driver = "atad" PROVE AtadEvents' OBVIOUS
    <3>1. AtadEvents BY DEF CauseInv
    <3>2. ~alarm BY <1>c, <3>1 DEF AtadEvents, OuterPlaces, AtadTransfer
    <3> QED BY <1>b, <2>1, <3>2 DEF AtadEvents, OuterPlaces, AtadPlaces, AtadStarting, AtadTransfer
  <2>3. AtadFaults' BY <1>b, <2>1, Zenon DEF AtadFaults, AtadExcused, AtadTransfer
  <2>4. HdproCauses' BY <2>1 DEF HdproCauses
  <2>5. ResultCauses' BY <2>1 DEF ResultCauses
  <2> QED BY <1>b, <2>2, <2>3, <2>4, <2>5 DEF CauseInv
<1>3. CASE hcall' # NoCall /\ ~DeviceReadSectors
  <2>1. ReadPart \/ ReadEnd \/ PartRead
    BY <1>3, <1>a DEF DeviceInit, HeaderRead, HddReturned, CallInv
  <2>2. UNCHANGED <<hcall, cause, hdpro_io_active>> BY <2>1 DEF ReadPart, ReadEnd, PartRead, driverstate
  <2>3. /\ hat \in {"next", "done"}
        /\ hat' = "call" => job'.res = "OK"
        /\ hat' = "return" /\ hresult' = "EIO" => hat = "done" /\ job.res # "OK"
        /\ hat' # "done"
    BY <2>1 DEF ReadPart, ReadEnd, PartRead, Goto, Returns, SectorIo, NoIo
  <2>4. driver = "atad" => AtadEvents'
    <3> SUFFICES ASSUME driver = "atad" PROVE AtadEvents' OBVIOUS
    <3>1. AtadEvents BY DEF CauseInv
    <3>2. ~alarm BY <1>c, <3>1 DEF AtadEvents, OuterPlaces, AtadTransfer
    <3> QED BY <1>b, <1>c, <3>2 DEF AtadEvents, OuterPlaces, AtadPlaces, AtadStarting, AtadTransfer
  <2>5. driver = "atad" => AtadFaults'
    <3> SUFFICES ASSUME driver = "atad" PROVE AtadFaults' OBVIOUS
    <3>1. AtadFaults BY DEF CauseInv
    <3>2. AtadExcused' = AtadExcused BY <2>2 DEF AtadExcused
    <3>3. drive.busy => AtadExcused BY <2>3, <3>1 DEF AtadFaults
    <3> QED BY <1>b, <1>c, <3>2, <3>3 DEF AtadFaults, OuterPlaces, AtadTransfer
  <2>6. driver = "hdpro" => HdproCauses' BY <2>2, <2>3 DEF CauseInv, HdproCauses
  <2>7. ResultCauses' BY <1>a, <1>3, <2>2, <2>3 DEF ResultCauses
  <2> QED BY <1>b, <2>4, <2>5, <2>6, <2>7 DEF CauseInv
<1> QED BY <1>1, <1>2, <1>3

\* Every step of the hard disk's build keeps the causes.
LEMMA CauseKeeps ==
  ASSUME HddInv, CauseInv, PartsOnDisk, [HddNext]_hddvars
  PROVE  CauseInv'
<1>0. driver \in {"atad", "hdpro"} BY DEF HddInv, HddTypes
<1>1. CASE UNCHANGED hddvars
  <2>1. UNCHANGED <<driver, drive, job, hat, cause, alarm, ata_evflg, icrc, hdpro_io_active, hcall, hresult>>
    BY <1>1 DEF hddvars, atadvars
  <2>2. (AtadEvents => AtadEvents') /\ (AtadFaults => AtadFaults') /\ (HdproCauses => HdproCauses')
        /\ (ResultCauses => ResultCauses')
    BY <2>1 DEF AtadEvents, AtadFaults, AtadExcused, HdproCauses, ResultCauses
  <2> QED BY <2>1, <2>2 DEF CauseInv
<1>2. CASE DriverThread \/ HddHardware
  <2>0. UNCHANGED <<driver, lba_48bit>>
    <3>1. HddNext => UNCHANGED <<driver, lba_48bit>> BY DEF HddNext, HddCall, HddThread, HddHardware
    <3>2. UNCHANGED hddvars => UNCHANGED <<driver, lba_48bit>> BY DEF hddvars
    <3> QED BY <3>1, <3>2
  <2>1. HddFrame BY <1>2, <2>0 DEF DriverThread, HddHardware, HddFrame
  <2>2. CASE driver = "atad"
    <3>1. AtadThread \/ AtadDrive \/ AtadIntr BY <1>2, <2>2 DEF DriverThread, HddHardware
    <3> QED BY <2>1, <2>2, <3>1, AtadBeginCauses, AtadIssueCauses, AtadTransferCauses, AtadFinishCauses,
               AtadHardwareCauses DEF AtadThread
  <2>3. CASE driver = "hdpro"
    <3>1. HdproThread \/ HdproDrive BY <1>2, <2>3 DEF DriverThread, HddHardware
    <3> QED BY <2>1, <2>3, <3>1, HdproDriverCauses
  <2> QED BY <1>0, <2>2, <2>3
<1>3. CASE HddNext /\ ~(DriverThread \/ HddHardware)
  BY <1>3, OuterCauses DEF HddNext, HddCall, HddThread
<1> QED BY <1>1, <1>2, <1>3 DEF HddNext

\* A sector beyond the disc is in no partition.
LEMMA CauseGives ==
  ASSUME HddInv, CauseInv, PartsApart
  PROVE  ErrorHasCause
<1>a. HddTypes /\ CallInv /\ ResultCauses BY DEF HddInv, CauseInv
<1> SUFFICES ASSUME hat = "return" PROVE ErrorHasCause BY DEF ErrorHasCause
<1>1. hcall # NoCall /\ specs = PartSpecs BY <1>a DEF CallInv
<1>2. hresult = "EIO" => cause BY <1>a, <1>1 DEF ResultCauses
<1>3. ASSUME hresult = "ENXIO"
      PROVE  \E s \in hcall.lsn .. hcall.lsn + hcall.n - 1 :
                \A p \in DOMAIN PartSpecs : s - PartSpecs[p].part_offset \notin 0 .. PartSpecs[p].part_size - 1
  <2>1. hmy.left > 0 /\ PartFor = 0 /\ hmy.lsn = hcall.lsn + hmy.off /\ hmy.left + hmy.off = hcall.n
    BY <1>a, <1>1, <1>3 DEF CallInv
  <2>2. hmy.lsn \in Nat /\ hmy.left \in Nat /\ hmy.off \in Nat BY <1>a DEF HddTypes
  <2>3. hcall.lsn \in Nat /\ hcall.n \in Nat
    <3>1. hcall \in HddReads BY <1>a, <1>1 DEF HddTypes
    <3> QED BY <3>1, HddAssumption
  <2>4. hmy.lsn \in hcall.lsn .. hcall.lsn + hcall.n - 1 BY <2>1, <2>2, <2>3
  <2>5. \A p : ~Holds(p) BY <1>1, <2>1, <2>2, OnePart
  <2>6. ASSUME NEW p \in DOMAIN PartSpecs
        PROVE  hmy.lsn - PartSpecs[p].part_offset \notin 0 .. PartSpecs[p].part_size - 1
    <3>1. ~(hmy.lsn >= PartSpecs[p].part_offset /\ hmy.lsn < PartSpecs[p].part_offset + PartSpecs[p].part_size)
      BY <1>1, <2>5 DEF Holds
    <3>2. PartSpecs[p].part_offset \in Nat /\ PartSpecs[p].part_size \in Nat BY PartTyped
    <3> QED BY <2>2, <3>1, <3>2
  <2> QED BY <2>4, <2>6
<1> QED BY <1>2, <1>3 DEF ErrorHasCause

\* Under the same hypotheses, DeviceReadSectors of device-hdd.c fails with EIO
\* only if the disk or the port failed in this call or was left occupied by an
\* earlier one, or a block was damaged as often as there are tries; and with
\* ENXIO only if a sector asked for is in no partition.  Late interrupts,
\* alarms and events of an earlier command make no call fail.
THEOREM HddErrorsHaveCauses ==
  ASSUME PartsApart
  PROVE  DevSpec /\ PartsOnDisk => []ErrorHasCause
<1>1. DevInit => HddInv BY HddStarts
<1>2. HddInv /\ PartsOnDisk /\ [DevNext]_devvars => (HddInv /\ PartsOnDisk)' BY HddSteps, HddKeeps
<1>3. DevInit => CauseInv
  <2> SUFFICES ASSUME DevInit PROVE CauseInv OBVIOUS
  <2>1. HddInit BY DEF DevInit
  <2>2. hat = "boot" /\ hcall = NoCall /\ alarm = FALSE BY <2>1 DEF HddInit, AtaInit, AtadInit
  <2> QED BY <2>2 DEF CauseInv, AtadEvents, AtadFaults, AtadExcused, HdproCauses, ResultCauses, AtadPlaces,
                      AtadStarting, AtadTransfer
<1>4. HddInv /\ CauseInv /\ PartsOnDisk /\ [DevNext]_devvars => CauseInv' BY HddSteps, CauseKeeps
<1>5. HddInv /\ CauseInv => ErrorHasCause BY CauseGives
<1> QED BY <1>1, <1>2, <1>3, <1>4, <1>5, PTL DEF DevSpec
=============================================================================
