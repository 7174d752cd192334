--------------------------- MODULE CdvdfsvProofs ---------------------------
(***************************************************************************)
(* The RPC thread of cdvdfsv.c, for any sizes of sectors, DMA lines and    *)
(* buffers and any reads: the read it has under way fits cdvdman_fs_buf,   *)
(* and what the EE finds in its memory is what it asked for.               *)
(***************************************************************************)
EXTENDS Cdvdfsv, TLAPS

-----------------------------------------------------------------------------
(***************************************************************************)
(* Types, and who is where.                                                *)
(***************************************************************************)
Looping == {"head", "read", "sync", "send", "progress"}
Linking == {"link", "linkread", "linksync"}
Waiting == {"sync", "linksync", "iopmsync"}
Places == {"idle", "iosema", "leave", "ready", "readywait", "iopm", "iopmsync"} \cup Looping \cup Linking
CallNames == {"none", "readee", "readchain", "readiopm", "other"}
Locals == [call: CallNames, first: Int, lsn: Int, sectors: Int, buf: Int, left: Int, n: Int, addr: Int,
           sent: Int, chain: Chains \cup {<<>>}, i: Int, ok: BOOLEAN]
DriveReads == [lsn: Int, n: Int, dst: {"fs_buf", "iop", "raw"}, off: Int, begun: BOOLEAN,
               by: {"rpc", "cdrom", "game"}]
EeMemory == 0 .. EeUnits - 1
FsMemory == 0 .. FsBufUnits - 1

FsvTypes ==
  /\ drive \in DriveReads \cup {NoRead}
  /\ io_sema \in {0, 1} /\ cdrom \in {"idle", "read", "sync"}
  /\ DOMAIN fs_buf = FsMemory /\ DOMAIN ee = EeMemory
  /\ at \in Places /\ my \in Locals
  /\ curlsn \in Int /\ result \in Int

\* Which call is at which place, and how it began.
PlaceInv ==
  /\ at = "idle" => my = NoCall /\ curlsn = 0 /\ readee = EmptyReadee
  /\ at \in {"ready", "readywait"} => my.call \in {"readee", "other"}
  /\ at \in Looping => my.call = "readee"
  /\ at \in Linking => my.call = "readchain"
  /\ at \in {"iopm", "iopmsync"} => my.call = "readiopm"
  /\ at \in {"iosema", "ready", "readywait", "iopm"} => my.ok /\ my.sent = 0 /\ curlsn = 0
  /\ my.call = "readee" =>
       \E r \in Reads : my.first = r.lsn /\ my.sectors = r.sectors /\ my.buf = r.buf
  /\ my.call = "readee" /\ at = "iosema" => my.lsn = my.first
  /\ my.call = "readee" /\ at \in {"ready", "readywait"} => my.lsn = my.first /\ my.sectors > 0
  /\ my.call = "readchain" => my.chain \in Chains
  /\ my.call = "readchain" /\ at \in {"iosema", "link"} => my.i \in 0 .. Len(my.chain)
  /\ my.call = "readchain" /\ at = "iosema" => my.i = 0
  /\ my.call = "readiopm" => \E r \in IopReads : my.lsn = r.lsn /\ my.sectors = r.sectors

\* cdrom_io_sema lets in one of the RPC thread and the cdrom driver.
InRpc == at \notin {"idle", "iosema"}
SemaInv ==
  /\ io_sema = 1 => ~InRpc /\ cdrom = "idle"
  /\ ~(InRpc /\ cdrom # "idle")

\* A read under way belongs to whoever waits for it, and is the one it asked
\* for.
Pending == ~DriveIdle /\ drive.by = "rpc"
DriveInv == ~DriveIdle =>
  /\ drive.by = "rpc" => at \in Waiting
  /\ drive.by = "cdrom" => cdrom = "sync" /\ drive.dst = "fs_buf" /\ drive.off = 0 /\ drive.n = 1
  /\ drive.by = "game" => drive.dst = "raw"
  /\ Pending /\ at = "sync" => /\ drive.dst = "fs_buf" /\ drive.lsn = my.lsn
                               /\ drive.n = SectorsRead(my.n) /\ drive.off = FsvRbuf
  /\ Pending /\ at = "linksync" => /\ drive.dst = IF Link.iop THEN "iop" ELSE "fs_buf"
                                   /\ drive.lsn = my.lsn /\ drive.n = my.n /\ drive.off = 0
  /\ Pending /\ at = "iopmsync" => drive.dst = "iop"

ControlInv == FsvTypes /\ PlaceInv /\ SemaInv /\ DriveInv

-----------------------------------------------------------------------------
(***************************************************************************)
(* How far cdvd_readee and cdvd_readchain are.                             *)
(***************************************************************************)
Done == my.sectors - my.left
\* What was sent when that many sectors are done: the last line of the last
\* pass of an unaligned call goes into buf2.
Sent == IF my.left = 0 /\ ~Aligned THEN Nbytes - Align ELSE Done * SectorSize
ReadeeNumbers ==
  at \in Looping =>
    /\ my.sectors > 0 /\ my.left \in 0 .. my.sectors
    /\ my.lsn = my.first + Done /\ my.addr = my.buf + B1len + Done * SectorSize
    /\ at # "head" => my.left > 0 /\ my.n = Nsectors
    /\ at # "progress" => my.sent = Sent /\ curlsn = my.sent
    /\ at = "progress" => my.sent = Done * SectorSize + SendSize /\ curlsn = Done * SectorSize
    /\ DOMAIN readee.buf1 = 1 .. B1len /\ DOMAIN readee.buf2 = 1 .. B2len

LinkDone == Link.sectors - my.left
ChainNumbers ==
  /\ at \in {"linkread", "linksync"} =>
       /\ my.i \in 1 .. Len(my.chain) /\ my.left \in 0 .. Link.sectors
       /\ my.lsn = Link.lsn + LinkDone /\ my.addr = Link.buf + LinkDone * SectorSize
  /\ at = "linksync" => /\ my.n \in 1 .. my.left
                        /\ ~Link.iop => my.n <= CDVDFSV_BUF_SECTORS

\* What cdvdman_fs_buf holds, and what the EE's memory does: units of the disc,
\* but for those that a read of the call was cut short before.
FsHolds(p, from, n) == \A k \in 0 .. n - 1 : Brought(fs_buf, p + k, from + k)
Arrived ==
  /\ at \in {"send", "progress"} \/ (at = "sync" /\ ~Pending) =>
       FsHolds(FsvRbuf, my.lsn * SectorSize, SectorsRead(my.n) * SectorSize)
  /\ at = "linksync" /\ ~Pending /\ ~Link.iop => FsHolds(0, my.lsn * SectorSize, my.n * SectorSize)

\* A message of the head or the tail.
Message(s, from, n) == \A i \in 1 .. n : Brought(s, i, from + i - 1)
ReadeeData ==
  /\ at \in Looping =>
       /\ Holds(my.buf + B1len, my.first * SectorSize + B1len, my.sent)
       /\ my.left < my.sectors \/ at \in {"send", "progress"} =>
            Message(readee.buf1, my.first * SectorSize, B1len)
       /\ at = "head" /\ my.left = 0 =>
            Message(readee.buf2, my.first * SectorSize + (Nbytes - B2len), B2len)
  /\ my.call = "readee" /\ at = "leave" =>
       /\ my.ok => Holds(my.buf, my.first * SectorSize, Nbytes)
       /\ Holds(my.buf + B1len, my.first * SectorSize + B1len, my.sent)
       /\ curlsn <= my.sent \/ curlsn = Nbytes
       /\ result = curlsn
       /\ result = Nbytes => my.ok \/ broken

Filled(k) == LET c == my.chain[k]
             IN  ~c.iop => Holds(c.buf, c.lsn * SectorSize, c.sectors * SectorSize)
ChainData ==
  /\ at = "link" \/ (my.call = "readchain" /\ at = "leave" /\ my.ok) => \A k \in 1 .. my.i : Filled(k)
  /\ at \in {"linkread", "linksync"} =>
       /\ \A k \in 1 .. my.i - 1 : Filled(k)
       /\ ~Link.iop => Holds(Link.buf, Link.lsn * SectorSize, LinkDone * SectorSize)

\* The error sceCdBreak leaves is seen by a pass only if the break came during
\* the passes.
BrokenInv == at \in Looping \cup {"readywait"} /\ err = "ABRT" => broken

DestInv ==
  /\ OnlyDestination
  /\ at \in {"idle", "iosema", "ready", "readywait"} => \A u \in EeMemory : ee[u] = Junk

\* The links of a chain do not write over each other.
ChainsApart ==
  \A c \in Chains : \A j, k \in 1 .. Len(c) :
    j # k /\ ~c[j].iop /\ ~c[k].iop =>
      \/ c[j].buf + c[j].sectors * SectorSize <= c[k].buf
      \/ c[k].buf + c[k].sectors * SectorSize <= c[j].buf

-----------------------------------------------------------------------------
(***************************************************************************)
(* Sectors and lines.                                                      *)
(***************************************************************************)
LEMMA DivMod ==
  ASSUME NEW d \in Nat \ {0}, NEW x \in Nat
  PROVE  x = (x \div d) * d + (x % d) /\ x \div d \in Nat /\ x % d \in 0 .. d - 1
<1>1. x = (x \div d) * d + (x % d) OBVIOUS
<1>2. x \div d \in Nat OBVIOUS
<1>3. x % d \in 0 .. d - 1 OBVIOUS
<1> QED BY <1>1, <1>2, <1>3

\* Products of naturals.
LEMMA Times ==
  ASSUME NEW d \in Nat, NEW x \in Int, NEW y \in Int
  PROVE  /\ (x + y) * d = x * d + y * d /\ (x - y) * d = x * d - y * d /\ x * d \in Int
         /\ x <= y => x * d <= y * d
         /\ x \in Nat => x * d \in Nat
<1>1. (x + y) * d = x * d + y * d OBVIOUS
<1>2. (x - y) * d = x * d - y * d OBVIOUS
<1>3. x * d \in Int OBVIOUS
<1>4. \A z \in Nat : z * d \in Nat OBVIOUS
<1>5. ASSUME x <= y PROVE x * d <= y * d
  <2>1. (y - x) * d \in Nat BY <1>4, <1>5
  <2>2. (y - x) * d = y * d - x * d OBVIOUS
  <2> QED BY <1>3, <2>1, <2>2
<1> QED BY <1>1, <1>2, <1>3, <1>4, <1>5

\* What a number of whole lines more leaves of a line.
LEMMA ModShift ==
  ASSUME NEW d \in Nat \ {0}, NEW x \in Nat, NEW m \in Nat
  PROVE  (x + m * d) % d = x % d
<1> DEFINE y == x + m * d
           q == x \div d
           r == x % d
           s == y \div d
           e == y % d
<1>1. y \in Nat BY Times
<1>2. x = q * d + r /\ q \in Nat /\ r \in 0 .. d - 1 BY DivMod
<1>3. y = s * d + e /\ s \in Nat /\ e \in 0 .. d - 1 BY <1>1, DivMod
<1>4. y = x + m * d OBVIOUS
<1> HIDE DEF y, q, r, s, e
<1>5. (q + m - s) * d = e - r
  <2>1. (q + m) * d = q * d + m * d BY <1>2, Times
  <2>2. ((q + m) - s) * d = (q + m) * d - s * d BY <1>2, <1>3, Times
  <2>3. q * d \in Int /\ m * d \in Int /\ s * d \in Int BY <1>2, <1>3, Times
  <2> QED BY <1>2, <1>3, <1>4, <2>1, <2>2, <2>3
<1>6. e = r
  <2>1. CASE q + m - s >= 1
    <3>1. 1 * d <= (q + m - s) * d BY <1>2, <1>3, <2>1, Times
    <3> QED BY <1>2, <1>3, <1>5, <3>1
  <2>2. CASE q + m - s <= -1
    <3>1. (q + m - s) * d <= (-1) * d BY <1>2, <1>3, <2>2, Times
    <3> QED BY <1>2, <1>3, <1>5, <3>1
  <2>3. CASE q + m - s = 0 BY <1>2, <1>3, <1>5, <2>3
  <2> QED BY <1>2, <1>3, <2>1, <2>2, <2>3
<1> QED BY <1>6 DEF e, r, y

\* The sizes the constants give.
LEMMA Sizes ==
  /\ SectorSize \in Nat \ {0} /\ Align \in Nat \ {0} /\ Align <= SectorSize
  /\ FsSectors \in Nat \ {0} /\ EeUnits \in Nat
  /\ FsBufUnits \in Nat /\ CDVDFSV_BUF_SECTORS = FsSectors + 1
<1>1. SectorSize \in Nat \ {0} /\ Align \in Nat \ {0} /\ Align <= SectorSize /\ FsSectors \in Nat \ {0} /\ EeUnits \in Nat
  BY FsvAssumption
<1>2. FsBufUnits \in Nat BY <1>1, Times DEF FsBufUnits
<1> QED BY <1>1, <1>2 DEF CDVDFSV_BUF_SECTORS

\* Head and tail: there are none, or they make a line together.
LEMMA Lines ==
  ASSUME my.buf \in Nat, my.sectors \in Nat
  PROVE  /\ Nbytes \in Nat /\ B1len \in Nat /\ B2len \in Nat /\ Aligned \in BOOLEAN
         /\ Aligned => B1len = 0 /\ B2len = 0
         /\ ~Aligned => B1len + B2len = Align /\ B1len > 0 /\ B2len > 0
         /\ B1len < Align /\ B2len < Align
<1> DEFINE b == my.buf
           s == my.sectors
           r == b % Align
           k == SectorSize \div Align
<1>1. r \in 0 .. Align - 1 BY Sizes, DivMod
<1>2. SectorSize = k * Align /\ k \in Nat
  <2>1. SectorSize % Align = 0 BY FsvAssumption
  <2>2. SectorSize = k * Align + (SectorSize % Align) /\ k \in Nat BY Sizes, DivMod
  <2>3. k * Align \in Int BY <2>2, Sizes, Times
  <2> HIDE DEF k
  <2> QED BY <2>1, <2>2, <2>3
<1>3. Nbytes \in Nat BY Sizes, Times DEF Nbytes
<1>4. B2len = r
  <2> HIDE DEF k
  <2>1. s * SectorSize = (s * k) * Align
    <3>1. \A x, y, z \in Nat : x * (y * z) = (x * y) * z OBVIOUS
    <3> QED BY <1>2, <3>1, Sizes
  <2>2. s * k \in Nat
    <3>1. \A x, y \in Nat : x * y \in Nat OBVIOUS
    <3> QED BY <1>2, <3>1
  <2>3. (b + (s * k) * Align) % Align = b % Align BY <2>2, Sizes, ModShift
  <2> QED BY <2>1, <2>3 DEF B2len, Nbytes
<1>5. B1len = IF r = 0 THEN 0 ELSE Align - r BY DEF B1len
<1> HIDE DEF r, k
<1> QED BY <1>1, <1>3, <1>4, <1>5, Sizes DEF Aligned

-----------------------------------------------------------------------------
(***************************************************************************)
(* Writing into memory: what is in the place written to, and that the rest *)
(* stays.                                                                  *)
(***************************************************************************)
LEMMA StoredAt ==
  ASSUME NEW m, NEW a \in Int, NEW s, NEW n \in Nat, DOMAIN s = 1 .. n, NEW u \in Int, u \in DOMAIN m
  PROVE  /\ DOMAIN Stored(m, a, s) = DOMAIN m
         /\ u \in a .. a + n - 1 => Stored(m, a, s)[u] = s[u - a + 1]
         /\ u \notin a .. a + n - 1 => Stored(m, a, s)[u] = m[u]
<1>1. DOMAIN Stored(m, a, s) = DOMAIN m BY DEF Stored
<1>2. Stored(m, a, s)[u] = IF u - a + 1 \in 1 .. n THEN s[u - a + 1] ELSE m[u] BY DEF Stored
<1>3. u - a + 1 \in 1 .. n <=> u \in a .. a + n - 1 OBVIOUS
<1> QED BY <1>1, <1>2, <1>3

\* What a buffer's part and a piece of the disc are made of.
LEMMA PartIs ==
  ASSUME NEW m, NEW p \in Int, NEW n \in Nat
  PROVE  DOMAIN Part(m, p, n) = 1 .. n /\ \A i \in 1 .. n : Part(m, p, n)[i] = m[p + i - 1]
  BY DEF Part

LEMMA DiscIs ==
  ASSUME NEW f \in Int, NEW n \in Nat
  PROVE  DOMAIN Disc(f, n) = 1 .. n /\ \A i \in 1 .. n : Disc(f, n)[i] = f + i - 1
  BY DEF Disc

\* Memory m has n units of the disc, from unit c on, at place p.
Has(m, p, c, n) == \A i \in 0 .. n - 1 : Brought(m, p + i, c + i)

\* A transfer goes on where the last one ended.
LEMMA SentOn ==
  ASSUME DOMAIN ee = EeMemory, NEW p \in Nat, NEW c \in Int, NEW s \in Nat, Holds(p, c, s),
         NEW q \in Int, NEW f \in Int, NEW m \in Nat, FsHolds(q, f, m), f = c + s,
         NEW a \in Int, a = p + s, a + m <= EeUnits, ee' = Stored(ee, a, Part(fs_buf, q, m))
  PROVE  Has(ee', p, c, s + m)
<1> SUFFICES \A i \in 0 .. (s + m) - 1 : Brought(ee', p + i, c + i) BY DEF Has
<1>1. TAKE i \in 0 .. (s + m) - 1
<1>2. p + i \in Int /\ p + i \in DOMAIN ee BY Sizes DEF EeMemory
<1>3. DOMAIN Part(fs_buf, q, m) = 1 .. m BY PartIs
<1>4. /\ p + i \in a .. a + m - 1 => ee'[p + i] = Part(fs_buf, q, m)[p + i - a + 1]
      /\ p + i \notin a .. a + m - 1 => ee'[p + i] = ee[p + i]
  BY <1>2, <1>3, StoredAt
<1>5. CASE i < s
  <2>1. Brought(ee, p + i, c + i) BY <1>5 DEF Holds
  <2> QED BY <1>4, <1>5, <2>1 DEF Brought
<1>6. CASE i >= s
  <2>1. i - s \in 0 .. m - 1 /\ i - s + 1 \in 1 .. m BY <1>6
  <2>2. Brought(fs_buf, q + (i - s), c + s + (i - s)) BY <2>1 DEF FsHolds
  <2>3. Part(fs_buf, q, m)[i - s + 1] = fs_buf[q + (i - s + 1) - 1] BY <2>1, PartIs
  <2>4. q + (i - s + 1) - 1 = q + (i - s) /\ p + i - a + 1 = i - s + 1 /\ c + s + (i - s) = c + i BY <1>6
  <2>5. p + i \in a .. a + m - 1 BY <1>6
  <2>6. ee'[p + i] = fs_buf[q + (i - s)] BY <1>4, <2>3, <2>4, <2>5
  <2> QED BY <2>2, <2>4, <2>6 DEF Brought
<1> QED BY <1>5, <1>6

\* A transfer elsewhere changes nothing.
LEMMA SentElsewhere ==
  ASSUME DOMAIN ee = EeMemory, NEW p \in Nat, NEW c, NEW n \in Nat, Holds(p, c, n), p + n <= EeUnits,
         NEW a \in Int, NEW s, NEW m \in Nat, DOMAIN s = 1 .. m,
         a + m <= p \/ p + n <= a, ee' = Stored(ee, a, s)
  PROVE  Has(ee', p, c, n)
<1> SUFFICES \A i \in 0 .. n - 1 : Brought(ee', p + i, c + i) BY DEF Has
<1>1. TAKE i \in 0 .. n - 1
<1>2. p + i \in Int /\ p + i \in DOMAIN ee /\ p + i \notin a .. a + m - 1 BY Sizes DEF EeMemory
<1>3. ee'[p + i] = ee[p + i] BY <1>2, StoredAt
<1> QED BY <1>3 DEF Holds, Brought

\* A write stays between its ends.
LEMMA WrittenWithin ==
  ASSUME DOMAIN ee = EeMemory, NEW a \in Int, NEW s, NEW m \in Nat, DOMAIN s = 1 .. m,
         ee' = Stored(ee, a, s), NEW D, \A u \in EeMemory : ee[u] # Junk => u \in D, a .. a + m - 1 \subseteq D
  PROVE  DOMAIN ee' = EeMemory /\ \A u \in EeMemory : ee'[u] # Junk => u \in D
<1>1. DOMAIN ee' = EeMemory BY DEF Stored
<1>2. ASSUME NEW u \in EeMemory, ee'[u] # Junk PROVE u \in D
  <2>1. u \in Int /\ u \in DOMAIN ee BY Sizes DEF EeMemory
  <2>2. u \notin a .. a + m - 1 => ee'[u] = ee[u] BY <2>1, StoredAt
  <2> QED BY <1>2, <2>2
<1> QED BY <1>1, <1>2

\* The read path writes what was asked for where it was asked for.
LEMMA FsFilled ==
  ASSUME DOMAIN fs_buf = FsMemory, NEW p \in Nat, NEW f \in Int, NEW m \in Nat,
         p + m <= FsBufUnits, fs_buf' = Stored(fs_buf, p, Disc(f, m))
  PROVE  \A k \in 0 .. m - 1 : fs_buf'[p + k] = f + k
<1>1. TAKE k \in 0 .. m - 1
<1>2. DOMAIN Disc(f, m) = 1 .. m /\ \A i \in 1 .. m : Disc(f, m)[i] = f + i - 1 BY DiscIs
<1>3. p + k \in DOMAIN fs_buf /\ p + k \in Int /\ p + k \in p .. p + m - 1 BY Sizes DEF FsMemory
<1>4. fs_buf'[p + k] = Disc(f, m)[p + k - p + 1]
  <2>1. DOMAIN Disc(f, m) = 1 .. m BY <1>2
  <2>2. p + k \in p .. p + m - 1 => Stored(fs_buf, p, Disc(f, m))[p + k] = Disc(f, m)[p + k - p + 1]
    BY <1>3, <2>1, StoredAt
  <2> QED BY <1>3, <2>2
<1>5. p + k - p + 1 = k + 1 /\ k + 1 \in 1 .. m /\ f + (k + 1) - 1 = f + k OBVIOUS
<1> QED BY <1>2, <1>4, <1>5

-----------------------------------------------------------------------------
(***************************************************************************)
(* What a call of cdvd_readee was given, and the sizes of its passes.      *)
(***************************************************************************)
LEMMA ReadeeGiven ==
  ASSUME PlaceInv, my.call = "readee"
  PROVE  /\ my.buf \in Nat /\ my.sectors \in Nat /\ my.first \in Nat
         /\ my.buf + Nbytes <= EeUnits
<1>1. PICK r \in Reads : my.first = r.lsn /\ my.sectors = r.sectors /\ my.buf = r.buf BY DEF PlaceInv
<1> QED BY <1>1, FsvAssumption DEF Nbytes

\* A pass fits into cdvdman_fs_buf.
LEMMA Passes ==
  ASSUME PlaceInv, ReadeeNumbers, at \in Looping, my.left > 0
  PROVE  /\ Nsectors \in 1 .. my.left /\ Nsectors <= CDVDFSV_BUF_SECTORS
         /\ SectorsRead(Nsectors) \in Nat
         /\ FsvRbuf \in Nat /\ FsvRbuf + SectorsRead(Nsectors) * SectorSize <= FsBufUnits
<1>1. my.left \in Nat /\ my.left > 0 /\ my.call = "readee"
  <2>1. my.call = "readee" BY DEF PlaceInv
  <2> QED BY <2>1, ReadeeGiven DEF ReadeeNumbers
<1>2. Nsectors \in 1 .. my.left /\ Nsectors <= CDVDFSV_BUF_SECTORS /\ (~Aligned => Nsectors <= FsSectors)
  BY <1>1, Sizes DEF Nsectors, Min2
<1> DEFINE n == Nsectors
<1>3. n \in Nat /\ n <= FsSectors + 1 /\ (~Aligned => n <= FsSectors) BY <1>1, <1>2, Sizes
<1>4. /\ FsvRbuf \in Nat /\ FsvRbuf < Align /\ Aligned \in BOOLEAN
      /\ Aligned => FsvRbuf = 0
  BY <1>1, ReadeeGiven, Lines DEF FsvRbuf
<1> HIDE DEF n
<1>5. SectorsRead(n) \in Nat /\ SectorsRead(n) <= FsSectors + 1
  BY <1>3, Sizes DEF SectorsRead
<1>6. SectorsRead(n) * SectorSize <= (FsSectors + 1) * SectorSize
  BY <1>5, Sizes, Times
<1>7. FsBufUnits = (FsSectors + 1) * SectorSize + 1 * SectorSize
  <2>1. ((FsSectors + 1) + 1) * SectorSize = (FsSectors + 1) * SectorSize + 1 * SectorSize BY Sizes, Times
  <2>2. FsSectors + 2 = (FsSectors + 1) + 1 BY Sizes
  <2> QED BY <2>1, <2>2 DEF FsBufUnits
<1>8. FsvRbuf + SectorsRead(n) * SectorSize <= FsBufUnits
  <2> DEFINE x == SectorsRead(n) * SectorSize
             y == (FsSectors + 1) * SectorSize
  <2>1. x \in Int /\ y \in Int BY <1>5, Sizes, Times
  <2>2. x <= y /\ FsBufUnits = y + SectorSize BY <1>6, <1>7, Sizes
  <2> HIDE DEF x, y
  <2> QED BY <1>4, <2>1, <2>2, Sizes DEF x
<1> QED BY <1>2, <1>4, <1>5, <1>8 DEF n

-----------------------------------------------------------------------------
(***************************************************************************)
(* ControlInv is inductive: cdrom_io_sema keeps cdvdman_fs_buf to one      *)
(* user, and a read under way is its user's.                               *)
(***************************************************************************)
LEMMA GeoKept ==
  ASSUME my'.buf = my.buf, my'.sectors = my.sectors
  PROVE  /\ Nbytes' = Nbytes /\ B1len' = B1len /\ B2len' = B2len /\ Aligned' = Aligned /\ FsvRbuf' = FsvRbuf
         /\ \A n : SectorsRead(n)' = SectorsRead(n)
  BY DEF Nbytes, B1len, B2len, Aligned, FsvRbuf, SectorsRead

\* Storing does not change the size of a memory.
LEMMA StoredDomain == \A m, p, s : DOMAIN Stored(m, p, s) = DOMAIN m
  BY DEF Stored

\* The read path, the other users of the drive, and the S-command thread.
Elsewhere == DriveStep \/ CdromCall \/ CdromStep \/ RawRead \/ cbrpc_cdvdScmds

\* Steps of the others leave the RPC thread's call alone.
LEMMA ElsewhereKeeps ==
  ASSUME Elsewhere
  PROVE  UNCHANGED <<at, my, ee, readee, curlsn, result>>
  BY DEF Elsewhere, DriveStep, DriveBegin, DriveDone, DriveShort, CdromCall, CdromStep, CdromRead, CdromReturn,
         RawRead, cbrpc_cdvdScmds

LEMMA ElsewhereControl ==
  ASSUME ControlInv, Elsewhere
  PROVE  ControlInv'
<1>0. FsvTypes /\ PlaceInv /\ SemaInv /\ DriveInv BY DEF ControlInv
<1>1. UNCHANGED <<at, my, ee, readee, curlsn, result>> BY ElsewhereKeeps
<1>2. Aligned' = Aligned /\ FsvRbuf' = FsvRbuf /\ Link' = Link /\ \A n : SectorsRead(n)' = SectorsRead(n)
  BY <1>1, GeoKept DEF Link
<1>4. PlaceInv' BY <1>0, <1>1 DEF PlaceInv
<1>5. CASE DriveStep
  <2>1. io_sema' = io_sema /\ cdrom' = cdrom /\ ~DriveIdle
    BY <1>5 DEF DriveStep, DriveBegin, DriveDone, DriveShort
  <2>2. drive \in DriveReads BY <1>0, <2>1 DEF FsvTypes, DriveIdle
  <2>3. DOMAIN fs_buf' = FsMemory
    <3>1. \A n : DOMAIN Delivered(n) = FsMemory BY <1>0, StoredDomain DEF Delivered, FsvTypes
    <3>2. CASE DriveBegin BY <1>0, <3>2 DEF DriveBegin, FsvTypes
    <3>3. CASE DriveDone BY <3>1, <3>3 DEF DriveDone
    <3>4. CASE DriveShort BY <3>1, <3>4 DEF DriveShort
    <3> QED BY <1>5, <3>2, <3>3, <3>4 DEF DriveStep
  <2>4. \/ DriveBegin /\ drive' = [drive EXCEPT !.begun = TRUE]
        \/ drive' = NoRead
    BY <1>5 DEF DriveStep, DriveBegin, DriveDone, DriveShort, Finished
  <2>5. drive' \in DriveReads \cup {NoRead} BY <2>2, <2>4 DEF DriveReads
  <2>6. FsvTypes' BY <1>0, <1>1, <2>1, <2>3, <2>5 DEF FsvTypes
  <2>7. SemaInv' BY <1>0, <1>1, <2>1 DEF SemaInv, InRpc
  <2>8. DriveInv'
    <3>1. CASE drive' = NoRead BY <3>1 DEF DriveInv, DriveIdle
    <3>2. CASE drive' = [drive EXCEPT !.begun = TRUE]
      <4>1. drive'.by = drive.by /\ drive'.dst = drive.dst /\ drive'.off = drive.off /\ drive'.n = drive.n
            /\ drive'.lsn = drive.lsn
        BY <2>2, <3>2 DEF DriveReads
      <4> QED BY <1>0, <1>1, <1>2, <2>1, <4>1 DEF DriveInv, Pending
    <3> QED BY <2>4, <3>1, <3>2
  <2> QED BY <1>4, <2>6, <2>7, <2>8 DEF ControlInv
<1>6. CASE cbrpc_cdvdScmds
  <2>1. UNCHANGED <<drive, io_sema, fs_buf, cdrom>> BY <1>6 DEF cbrpc_cdvdScmds
  <2>2. FsvTypes' BY <1>0, <1>1, <2>1 DEF FsvTypes
  <2>3. SemaInv' BY <1>0, <1>1, <2>1 DEF SemaInv, InRpc
  <2>4. DriveInv' BY <1>0, <1>1, <1>2, <2>1 DEF DriveInv, DriveIdle, Pending
  <2> QED BY <1>4, <2>2, <2>3, <2>4 DEF ControlInv
<1>7. CASE RawRead
  <2> DEFINE r == [lsn |-> 0, n |-> 1, dst |-> "raw", off |-> 0, begun |-> FALSE, by |-> "game"]
  <2>1. UNCHANGED <<io_sema, fs_buf, cdrom>> /\ drive' = r BY <1>7 DEF RawRead, Accepted
  <2>2. r \in DriveReads BY DEF DriveReads
  <2>3. FsvTypes' BY <1>0, <1>1, <2>1, <2>2 DEF FsvTypes
  <2>4. SemaInv' BY <1>0, <1>1, <2>1 DEF SemaInv, InRpc
  <2>5. drive'.by = "game" /\ drive'.dst = "raw" BY <2>1
  <2>6. DriveInv' BY <2>5 DEF DriveInv, Pending
  <2> QED BY <1>4, <2>3, <2>4, <2>6 DEF ControlInv
<1>8. CASE CdromCall
  <2>1. UNCHANGED <<drive, fs_buf>> /\ io_sema = 1 /\ io_sema' = 0 /\ cdrom = "idle" /\ cdrom' = "read"
    BY <1>8 DEF CdromCall
  <2>2. FsvTypes' BY <1>0, <1>1, <2>1 DEF FsvTypes
  <2>3. SemaInv' BY <1>0, <1>1, <2>1 DEF SemaInv, InRpc
  <2>4. DriveInv' BY <1>0, <1>1, <1>2, <2>1 DEF DriveInv, DriveIdle, Pending
  <2> QED BY <1>4, <2>2, <2>3, <2>4 DEF ControlInv
<1>9. CASE CdromRead
  <2> DEFINE r == [lsn |-> 0, n |-> 1, dst |-> "fs_buf", off |-> 0, begun |-> FALSE, by |-> "cdrom"]
  <2>1. UNCHANGED <<io_sema, fs_buf>> /\ drive' = r /\ cdrom = "read" /\ cdrom' = "sync"
    BY <1>9 DEF CdromRead, Accepted
  <2>2. r \in DriveReads BY DEF DriveReads
  <2>3. FsvTypes' BY <1>0, <1>1, <2>1, <2>2 DEF FsvTypes
  <2>4. SemaInv' BY <1>0, <1>1, <2>1 DEF SemaInv, InRpc
  <2>5. drive'.by = "cdrom" /\ drive'.dst = "fs_buf" /\ drive'.off = 0 /\ drive'.n = 1 BY <2>1
  <2>6. DriveInv' BY <2>1, <2>5 DEF DriveInv, Pending
  <2> QED BY <1>4, <2>3, <2>4, <2>6 DEF ControlInv
<1>10. CASE CdromReturn
  <2>1. UNCHANGED <<drive, fs_buf>> /\ DriveIdle /\ cdrom = "sync" /\ cdrom' = "idle"
        /\ io_sema' \in {0, 1}
    BY <1>0, <1>10 DEF CdromReturn, Min2, FsvTypes
  <2>2. FsvTypes' BY <1>0, <1>1, <2>1 DEF FsvTypes
  <2>3. SemaInv' BY <1>0, <1>1, <2>1 DEF SemaInv, InRpc
  <2>4. DriveInv' BY <2>1 DEF DriveInv, DriveIdle
  <2> QED BY <1>4, <2>2, <2>3, <2>4 DEF ControlInv
<1> QED BY <1>5, <1>6, <1>7, <1>8, <1>9, <1>10 DEF Elsewhere, CdromStep

\* A step of the RPC thread that starts no read.
LEMMA DriveLeft ==
  ASSUME ControlInv, UNCHANGED <<drive, cdrom>>, DriveIdle \/ at \notin Waiting
  PROVE  DriveInv'
  BY DEF ControlInv, DriveInv, DriveIdle, Pending, Waiting

\* The locals between calls.
LEMMA NoCallTyped == NoCall \in Locals /\ NoCall.ok /\ NoCall.sent = 0 /\ NoCall.i = 0
<1>1. <<>> \in Chains \cup {<<>>} OBVIOUS
<1> DEFINE e == <<>>
<1>2. NoCall = [call |-> "none", first |-> 0, lsn |-> 0, sectors |-> 0, buf |-> 0, left |-> 0, n |-> 0,
                addr |-> 0, sent |-> 0, chain |-> e, i |-> 0, ok |-> TRUE]
  BY DEF NoCall
<1>3. e \in Chains \cup {<<>>} BY <1>1
<1> HIDE DEF e
<1> QED BY <1>2, <1>3 DEF Locals, CallNames

\* The control part: a request arrives,
LEMMA ArrivesControl ==
  ASSUME ControlInv, RpcArrives
  PROVE  ControlInv'
<1>0. FsvTypes /\ PlaceInv /\ SemaInv BY DEF ControlInv
<1>1. ASSUME NEW c \in Locals, RpcCall(c),
             c.call \in {"readee", "readchain", "readiopm", "other"},
             c.ok, c.sent = 0, c.i = 0,
             c.call = "readee" =>
               c.lsn = c.first /\ \E r \in Reads : c.first = r.lsn /\ c.sectors = r.sectors /\ c.buf = r.buf,
             c.call = "readchain" => c.chain \in Chains,
             c.call = "readiopm" => \E r \in IopReads : c.lsn = r.lsn /\ c.sectors = r.sectors
      PROVE  ControlInv'
  <2>1. /\ at = "idle" /\ at' = "iosema" /\ my' = c /\ result' = c.first
        /\ UNCHANGED <<drive, io_sema, fs_buf, ee, readee, curlsn, cdrom>>
    BY <1>1 DEF RpcCall, Move
  <2>2. curlsn = 0 BY <1>0, <2>1 DEF PlaceInv
  <2>3. FsvTypes' BY <1>0, <1>1, <2>1 DEF FsvTypes, Places, Locals
  <2>4. c.call = "readchain" => Len(c.chain) \in Nat BY <1>1, FsvAssumption
  <2>5. PlaceInv'
    BY <1>1, <2>1, <2>2, <2>4 DEF PlaceInv, Looping, Linking
  <2>6. SemaInv' BY <1>0, <2>1 DEF SemaInv, InRpc
  <2>7. DriveInv' BY <2>1, DriveLeft DEF Waiting
  <2> QED BY <2>3, <2>5, <2>6, <2>7 DEF ControlInv
<1>2. CASE CallReadee
  <2>1. PICK r \in Reads : RpcCall([NoCall EXCEPT !.call = "readee", !.first = r.lsn, !.lsn = r.lsn,
                                                  !.sectors = r.sectors, !.buf = r.buf])
    BY <1>2 DEF CallReadee
  <2> DEFINE c == [NoCall EXCEPT !.call = "readee", !.first = r.lsn, !.lsn = r.lsn,
                                 !.sectors = r.sectors, !.buf = r.buf]
  <2>2. r.lsn \in Int /\ r.sectors \in Int /\ r.buf \in Int BY FsvAssumption
  <2>3. c \in Locals /\ c.call = "readee" /\ c.first = r.lsn /\ c.lsn = r.lsn /\ c.sectors = r.sectors
        /\ c.buf = r.buf /\ c.ok /\ c.sent = 0 /\ c.i = 0
    BY <2>2, NoCallTyped DEF Locals, CallNames
  <2> HIDE DEF c
  <2> QED BY <1>1, <2>1, <2>3 DEF c
<1>3. CASE CallReadchain
  <2>1. PICK h \in Chains : RpcCall([NoCall EXCEPT !.call = "readchain", !.first = h[1].lsn, !.chain = h])
    BY <1>3 DEF CallReadchain
  <2> DEFINE c == [NoCall EXCEPT !.call = "readchain", !.first = h[1].lsn, !.chain = h]
  <2>2. c.first = h[1].lsn /\ c.call = "readchain" /\ c.ok /\ c.sent = 0 /\ c.chain = h /\ c.i = 0
    BY NoCallTyped DEF Locals
  <2>3. c \in Locals
    <3>1. h[1].lsn \in Int
      <4>1. Len(h) \in Nat \ {0} /\ \A i \in 1 .. Len(h) : h[i].lsn \in Nat BY FsvAssumption
      <4>2. 1 \in 1 .. Len(h) BY <4>1
      <4> QED BY <4>1, <4>2
    <3> QED BY <3>1, NoCallTyped DEF Locals, CallNames
  <2> QED BY <1>1, <2>1, <2>2, <2>3
<1>4. CASE CallReadiopm
  <2>1. PICK r \in IopReads : RpcCall([NoCall EXCEPT !.call = "readiopm", !.first = r.lsn, !.lsn = r.lsn,
                                                     !.sectors = r.sectors])
    BY <1>4 DEF CallReadiopm
  <2> DEFINE c == [NoCall EXCEPT !.call = "readiopm", !.first = r.lsn, !.lsn = r.lsn, !.sectors = r.sectors]
  <2>2. r.lsn \in Int /\ r.sectors \in Int BY FsvAssumption
  <2>3. c \in Locals /\ c.call = "readiopm" /\ c.lsn = r.lsn /\ c.sectors = r.sectors
        /\ c.ok /\ c.sent = 0 /\ c.i = 0
    BY <2>2, NoCallTyped DEF Locals, CallNames
  <2> HIDE DEF c
  <2> QED BY <1>1, <2>1, <2>3 DEF c
<1>5. CASE CallOther
  <2> DEFINE c == [NoCall EXCEPT !.call = "other"]
  <2>1. c \in Locals /\ c.call = "other" /\ c.ok /\ c.sent = 0 /\ c.i = 0 BY NoCallTyped DEF Locals, CallNames
  <2>2. RpcCall(c) BY <1>5 DEF CallOther
  <2> HIDE DEF c
  <2> QED BY <1>1, <2>1, <2>2
<1> QED BY <1>2, <1>3, <1>4, <1>5 DEF RpcArrives

\* A step inside a call.
LEMMA InsideControl ==
  ASSUME ControlInv, InRpc, at' \in Places \ {"idle", "iosema"},
         UNCHANGED <<io_sema, cdrom, fs_buf>>, DOMAIN ee' = EeMemory,
         my' \in Locals, curlsn' \in Int, result' \in Int,
         my'.call = my.call, my'.first = my.first, my'.sectors = my.sectors, my'.buf = my.buf,
         my'.chain = my.chain, my.call = "readiopm" => my'.lsn = my.lsn,
         at' \in {"ready", "readywait"} => /\ my'.lsn = my.lsn /\ my'.ok = my.ok /\ my'.sent = my.sent
                                           /\ curlsn' = curlsn /\ at \in {"ready", "readywait"},
         at' \in Looping => my.call = "readee",
         at' \in Linking => my.call = "readchain",
         at' \in {"iopm", "iopmsync"} => my.call = "readiopm",
         at' # "iopm",
         my.call = "readchain" /\ at' = "link" => my'.i \in 0 .. Len(my.chain),
         drive' \in DriveReads \cup {NoRead},
         DriveInv' \/ (UNCHANGED drive /\ (DriveIdle \/ at \notin Waiting))
  PROVE  ControlInv'
<1>0. FsvTypes /\ PlaceInv /\ SemaInv BY DEF ControlInv
<1>1. FsvTypes' BY <1>0 DEF FsvTypes
<1>2. PlaceInv' BY <1>0 DEF PlaceInv
<1>3. SemaInv' BY <1>0 DEF SemaInv, InRpc
<1>4. DriveInv' BY DriveLeft
<1> QED BY <1>1, <1>2, <1>3, <1>4 DEF ControlInv

\* the dispatcher takes it,
LEMMA DispatchControl ==
  ASSUME ControlInv, cbrpc_cdvdNcmds \/ NcmdReturn
  PROVE  ControlInv'
<1>0. FsvTypes /\ PlaceInv /\ SemaInv BY DEF ControlInv
<1>1. CASE cbrpc_cdvdNcmds
  <2>1. /\ at = "iosema" /\ io_sema = 1 /\ io_sema' = 0 /\ my' = my
        /\ UNCHANGED <<drive, fs_buf, ee, readee, curlsn, cdrom>>
        /\ \/ my.call = "readee" /\ at' = "leave" /\ my.sectors = 0
           \/ my.call = "readee" /\ at' = "ready" /\ my.sectors # 0
           \/ my.call = "readchain" /\ at' = "link"
           \/ my.call = "readiopm" /\ at' = "iopm"
           \/ my.call = "other" /\ at' \in {"leave", "ready"}
    BY <1>1 DEF cbrpc_cdvdNcmds, Move
  <2>2. result' \in Int BY <1>0, <1>1 DEF cbrpc_cdvdNcmds, FsvTypes
  <2>3. FsvTypes' BY <1>0, <2>1, <2>2 DEF FsvTypes, Places, Looping, Linking
  <2>4. my.call = "readee" => my.sectors \in Nat BY <1>0, ReadeeGiven
  <2>5. PlaceInv' BY <1>0, <2>1, <2>4 DEF PlaceInv, Looping, Linking
  <2>6. SemaInv' BY <1>0, <2>1 DEF SemaInv, InRpc
  <2>7. DriveInv' BY <2>1, DriveLeft DEF Waiting
  <2> QED BY <2>3, <2>5, <2>6, <2>7 DEF ControlInv
<1>2. CASE NcmdReturn
  <2>1. /\ at = "leave" /\ at' = "idle" /\ io_sema' = Min2(io_sema + 1, 1) /\ my' = NoCall /\ readee' = EmptyReadee
        /\ ee' = [u \in DOMAIN ee |-> Junk] /\ curlsn' = 0 /\ result' = 0
        /\ UNCHANGED <<drive, fs_buf, cdrom>>
    BY <1>2 DEF NcmdReturn, Move
  <2>2. FsvTypes'
    <3>1. io_sema' \in {0, 1} BY <1>0, <2>1 DEF FsvTypes, Min2
    <3>2. DOMAIN ee' = EeMemory BY <1>0, <2>1 DEF FsvTypes
    <3>3. my' \in Locals /\ at' \in Places BY <2>1, NoCallTyped DEF Places
    <3>4. curlsn' \in Int /\ result' \in Int BY <2>1
    <3>5. UNCHANGED <<drive, fs_buf, cdrom>> BY <2>1
    <3> QED BY <1>0, <3>1, <3>2, <3>3, <3>4, <3>5 DEF FsvTypes
  <2>3. PlaceInv'
    <3>1. NoCall.call = "none" BY DEF NoCall
    <3> QED BY <2>1, <3>1 DEF PlaceInv, Looping, Linking
  <2>4. SemaInv' BY <1>0, <2>1 DEF SemaInv, InRpc
  <2>5. DriveInv' BY <2>1, DriveLeft DEF Waiting
  <2> QED BY <2>2, <2>3, <2>4, <2>5 DEF ControlInv
<1> QED BY <1>1, <1>2

\* cdvd_readee,
LEMMA ReadeeControl ==
  ASSUME ControlInv,
         \/ DiskReady \/ ReadeeBegin \/ ReadeeEnd \/ ReadeeNext \/ ReadeeRead \/ ReadeeRefused
         \/ ReadeeSync \/ ReadeeSend \/ ReadeeProgress
  PROVE  ControlInv'
<1>0. FsvTypes /\ PlaceInv BY DEF ControlInv
<1>1. my.call = "readee" =>
        /\ Nbytes \in Int /\ B1len \in Int /\ B2len \in Int /\ FsvRbuf \in Int
  BY <1>0, ReadeeGiven, Lines DEF FsvRbuf
<1>2. /\ my \in Locals /\ at \in Places /\ drive \in DriveReads \cup {NoRead}
      /\ curlsn \in Int /\ result \in Int /\ DOMAIN ee = EeMemory
  BY <1>0 DEF FsvTypes
<1>3. CASE DiskReady
  <2>1. /\ at = "ready" /\ at' = "readywait"
        /\ UNCHANGED <<drive, io_sema, fs_buf, ee, my, readee, curlsn, result, cdrom>>
    BY <1>3 DEF DiskReady, Move
  <2> QED BY <1>2, <2>1, InsideControl DEF InRpc, Places, Looping, Linking, Waiting
<1>4. CASE ReadeeBegin
  <2>1. /\ at = "readywait" /\ at' = IF my.call = "readee" THEN "head" ELSE "leave"
        /\ my' = [my EXCEPT !.left = my.sectors, !.addr = my.buf + B1len] /\ DriveIdle
        /\ UNCHANGED <<drive, io_sema, fs_buf, ee, curlsn, result, cdrom>>
    BY <1>4 DEF ReadeeBegin, Move
  <2>2. my.buf + B1len \in Int
    <3>1. my.buf \in Int /\ my.buf % Align \in Int BY <1>2, Sizes DEF Locals
    <3>2. B1len \in Int BY <3>1, Sizes DEF B1len
    <3> QED BY <3>1, <3>2
  <2>3. my' \in Locals /\ my'.call = my.call /\ my'.first = my.first /\ my'.sectors = my.sectors
        /\ my'.buf = my.buf /\ my'.chain = my.chain /\ my'.lsn = my.lsn
    BY <1>2, <2>1, <2>2 DEF Locals
  <2> QED BY <1>2, <2>1, <2>3, InsideControl DEF InRpc, Places, Looping, Linking, Waiting
<1>5. CASE ReadeeEnd
  <2>1. /\ at = "head" /\ at' = "leave" /\ curlsn' = Nbytes /\ result' = Nbytes
        /\ my' = [my EXCEPT !.ok = (my.left = 0)]
        /\ DOMAIN ee' = DOMAIN ee
        /\ UNCHANGED <<drive, io_sema, fs_buf, cdrom>>
    BY <1>5, StoredDomain DEF ReadeeEnd, Move
  <2>2. my.call = "readee" BY <1>0, <2>1 DEF PlaceInv, Looping
  <2>3. my' \in Locals /\ my'.call = my.call /\ my'.first = my.first /\ my'.sectors = my.sectors
        /\ my'.buf = my.buf /\ my'.chain = my.chain /\ my'.lsn = my.lsn
    BY <1>2, <2>1 DEF Locals
  <2> QED BY <1>1, <1>2, <2>1, <2>2, <2>3, InsideControl DEF InRpc, Places, Looping, Linking, Waiting
<1>6. CASE ReadeeNext
  <2>1. /\ at = "head" /\ at' = "read" /\ my' = [my EXCEPT !.n = Nsectors]
        /\ UNCHANGED <<drive, io_sema, fs_buf, ee, readee, curlsn, result, cdrom>>
    BY <1>6 DEF ReadeeNext, Move
  <2>2. my.call = "readee" BY <1>0, <2>1 DEF PlaceInv, Looping
  <2>3. Nsectors \in Int BY <1>2, Sizes DEF Nsectors, Min2, Locals
  <2>4. my' \in Locals /\ my'.call = my.call /\ my'.first = my.first /\ my'.sectors = my.sectors
        /\ my'.buf = my.buf /\ my'.chain = my.chain /\ my'.lsn = my.lsn
    BY <1>2, <2>1, <2>3 DEF Locals
  <2> QED BY <1>2, <2>1, <2>2, <2>4, InsideControl DEF InRpc, Places, Looping, Linking, Waiting
<1>7. CASE ReadeeRead
  <2> DEFINE r == FsRead(my.lsn, SectorsRead(my.n), FsvRbuf)
  <2>1. /\ at = "read" /\ at' = "sync" /\ my' = my /\ drive' = r
        /\ UNCHANGED <<io_sema, fs_buf, ee, readee, curlsn, result, cdrom>>
    BY <1>7 DEF ReadeeRead, Move, Accepted
  <2>2. my.call = "readee" BY <1>0, <2>1 DEF PlaceInv, Looping
  <2>3. my.lsn \in Int /\ SectorsRead(my.n) \in Int BY <1>2 DEF Locals, SectorsRead
  <2>4. r \in DriveReads BY <1>1, <2>2, <2>3 DEF DriveReads, FsRead
  <2>5. drive'.by = "rpc" /\ drive'.dst = "fs_buf" /\ drive'.lsn = my.lsn /\ drive'.n = SectorsRead(my.n)
        /\ drive'.off = FsvRbuf
    BY <2>1 DEF FsRead
  <2>6. DriveInv' BY <2>1, <2>5, GeoKept DEF DriveInv, Waiting, Pending
  <2> QED BY <1>2, <2>1, <2>2, <2>4, <2>6, InsideControl DEF InRpc, Places, Looping, Linking
<1>8. CASE ReadeeRefused
  <2>1. /\ at = "read" /\ at' = "leave" /\ my' = [my EXCEPT !.ok = FALSE] /\ result' = my.sent
        /\ UNCHANGED <<drive, io_sema, fs_buf, ee, readee, curlsn, cdrom>>
    BY <1>8 DEF ReadeeRefused, Move, Refused
  <2>2. my' \in Locals /\ my'.call = my.call /\ my'.first = my.first /\ my'.sectors = my.sectors
        /\ my'.buf = my.buf /\ my'.chain = my.chain /\ my'.lsn = my.lsn /\ result' \in Int
    BY <1>2, <2>1 DEF Locals
  <2> QED BY <1>2, <2>1, <2>2, InsideControl DEF InRpc, Places, Looping, Linking, Waiting
<1>9. CASE ReadeeSync
  <2>1. /\ at = "sync" /\ at' = "send" /\ my' = my /\ DriveIdle
        /\ UNCHANGED <<drive, io_sema, fs_buf, ee, curlsn, result, cdrom>>
    BY <1>9 DEF ReadeeSync, Move
  <2>2. my.call = "readee" BY <1>0, <2>1 DEF PlaceInv, Looping
  <2> QED BY <1>2, <2>1, <2>2, InsideControl DEF InRpc, Places, Looping, Linking
<1>10. CASE ReadeeSend
  <2>1. /\ at = "send" /\ at' = "progress" /\ my' = [my EXCEPT !.sent = my.sent + SendSize]
        /\ DOMAIN ee' = DOMAIN ee
        /\ UNCHANGED <<drive, io_sema, fs_buf, curlsn, result, cdrom>>
    BY <1>10, StoredDomain DEF ReadeeSend, Move
  <2>2. my.call = "readee" BY <1>0, <2>1 DEF PlaceInv, Looping
  <2>3. SendSize \in Int
    <3>1. my.n \in Int BY <1>2 DEF Locals
    <3>2. my.n * SectorSize \in Int BY <3>1, Sizes, Times
    <3> QED BY <3>2, Sizes DEF SendSize
  <2>4. my' \in Locals /\ my'.call = my.call /\ my'.first = my.first /\ my'.sectors = my.sectors
        /\ my'.buf = my.buf /\ my'.chain = my.chain /\ my'.lsn = my.lsn
    <3>1. my.sent + SendSize \in Int BY <1>2, <2>3 DEF Locals
    <3>2. \A x \in Int : [my EXCEPT !.sent = x] \in Locals BY <1>2 DEF Locals
    <3>3. my' \in Locals BY <2>1, <3>1, <3>2
    <3> QED BY <1>2, <2>1, <3>3 DEF Locals
  <2> QED BY <1>2, <2>1, <2>2, <2>4, InsideControl DEF InRpc, Places, Looping, Linking, Waiting
<1>11. CASE ReadeeProgress
  <2>1. /\ at = "progress" /\ at' = "head" /\ curlsn' = my.sent
        /\ my' = [my EXCEPT !.left = my.left - my.n, !.lsn = my.lsn + my.n, !.addr = my.addr + my.n * SectorSize]
        /\ UNCHANGED <<drive, io_sema, fs_buf, ee, result, cdrom>>
    BY <1>11 DEF ReadeeProgress, Move
  <2>2. my.call = "readee" BY <1>0, <2>1 DEF PlaceInv, Looping
  <2>3. my.n * SectorSize \in Int
    <3>1. my.n \in Int BY <1>2 DEF Locals
    <3> QED BY <3>1, Sizes, Times
  <2>4. my' \in Locals /\ my'.call = my.call /\ my'.first = my.first /\ my'.sectors = my.sectors
        /\ my'.buf = my.buf /\ my'.chain = my.chain /\ curlsn' \in Int
    <3>1. my.left - my.n \in Int /\ my.lsn + my.n \in Int BY <1>2 DEF Locals
    <3>2. my.addr + my.n * SectorSize \in Int BY <1>2, <2>3 DEF Locals
    <3>3. \A x, y, z \in Int : [my EXCEPT !.left = x, !.lsn = y, !.addr = z] \in Locals BY <1>2 DEF Locals
    <3>4. my' \in Locals BY <2>1, <3>1, <3>2, <3>3
    <3> QED BY <1>2, <2>1, <3>4 DEF Locals
  <2> QED BY <1>2, <2>1, <2>2, <2>4, InsideControl DEF InRpc, Places, Looping, Linking, Waiting
<1> QED BY <1>3, <1>4, <1>5, <1>6, <1>7, <1>8, <1>9, <1>10, <1>11

\* The link a chain is at, and the next one.
LEMMA Links ==
  ASSUME my.chain \in Chains, NEW i \in 1 .. Len(my.chain)
  PROVE  LET c == my.chain[i]
         IN  c.sectors \in Nat \ {0} /\ c.lsn \in Nat /\ c.buf \in Nat /\ c.iop \in BOOLEAN
             /\ (~c.iop => c.buf + c.sectors * SectorSize <= EeUnits)
  BY FsvAssumption

\* cdvd_readchain.
LEMMA ChainControl ==
  ASSUME ControlInv, ChainNumbers,
         ChainNext \/ ChainRead \/ ChainRefused \/ ChainSync \/ ChainProgress \/ ReadiopmRead \/ ReadiopmSync
  PROVE  ControlInv'
<1>0. FsvTypes /\ PlaceInv BY DEF ControlInv
<1>2. /\ my \in Locals /\ at \in Places /\ drive \in DriveReads \cup {NoRead}
      /\ curlsn \in Int /\ result \in Int /\ DOMAIN ee = EeMemory
  BY <1>0 DEF FsvTypes
<1>3. CASE ChainNext
  <2>1. /\ at = "link" /\ UNCHANGED <<drive, io_sema, fs_buf, ee, readee, curlsn, result, cdrom>>
        /\ \/ at' = "leave" /\ my' = my
           \/ /\ at' = "linkread" /\ my.i # Len(my.chain)
              /\ my' = [my EXCEPT !.i = my.i + 1, !.lsn = my.chain[my.i + 1].lsn,
                                  !.left = my.chain[my.i + 1].sectors, !.addr = my.chain[my.i + 1].buf]
    BY <1>3 DEF ChainNext
  <2>2. my.call = "readchain" /\ my.chain \in Chains /\ my.i \in 0 .. Len(my.chain)
    BY <1>0, <2>1 DEF PlaceInv, Linking
  <2>3. CASE at' = "leave" /\ my' = my
    BY <1>2, <2>1, <2>2, <2>3, InsideControl DEF InRpc, Places, Looping, Linking, Waiting
  <2>4. CASE at' = "linkread" /\ my.i # Len(my.chain)
    <3> DEFINE c == my.chain[my.i + 1]
    <3>1. my.i + 1 \in 1 .. Len(my.chain)
      <4>1. Len(my.chain) \in Nat BY <2>2, FsvAssumption
      <4> QED BY <2>2, <2>4, <4>1
    <3>2. c.lsn \in Int /\ c.sectors \in Int /\ c.buf \in Int BY <2>2, <3>1, Links
    <3>3. my.i + 1 \in Int BY <1>2 DEF Locals
    <3>4. my' = [my EXCEPT !.i = my.i + 1, !.lsn = c.lsn, !.left = c.sectors, !.addr = c.buf]
      BY <2>1, <2>4
    <3> HIDE DEF c
    <3>5. my' \in Locals /\ my'.call = my.call /\ my'.first = my.first /\ my'.sectors = my.sectors
          /\ my'.buf = my.buf /\ my'.chain = my.chain
      BY <1>2, <3>2, <3>3, <3>4 DEF Locals
    <3> QED BY <1>2, <2>1, <2>2, <2>4, <3>5, InsideControl DEF InRpc, Places, Looping, Linking, Waiting
  <2> QED BY <2>1, <2>3, <2>4
<1>4. CASE ChainRead
  <2> DEFINE n == IF Link.iop THEN my.left ELSE Min2(my.left, CDVDFSV_BUF_SECTORS)
             r == IF Link.iop THEN IopRead(my.lsn, n) ELSE FsRead(my.lsn, n, 0)
  <2>1. /\ at = "linkread" /\ at' = "linksync" /\ drive' = r /\ my' = [my EXCEPT !.n = n]
        /\ UNCHANGED <<io_sema, fs_buf, ee, readee, curlsn, result, cdrom>>
    BY <1>4 DEF ChainRead, Move, Accepted
  <2>2. my.call = "readchain" BY <1>0, <2>1 DEF PlaceInv, Linking
  <2>3. n \in Int BY <1>2, Sizes DEF Locals, Min2
  <2> HIDE DEF n
  <2>4. my.lsn \in Int BY <1>2 DEF Locals
  <2>5. r \in DriveReads BY <2>3, <2>4 DEF DriveReads, IopRead, FsRead
  <2>6. drive'.by = "rpc" /\ drive'.dst = (IF Link.iop THEN "iop" ELSE "fs_buf")
        /\ drive'.lsn = my.lsn /\ drive'.n = n /\ drive'.off = 0
    BY <2>1 DEF FsRead, IopRead
  <2>7. my' \in Locals /\ my'.call = my.call /\ my'.first = my.first /\ my'.sectors = my.sectors
        /\ my'.buf = my.buf /\ my'.chain = my.chain /\ my'.lsn = my.lsn /\ my'.i = my.i /\ my'.n = n
    BY <1>2, <2>1, <2>3 DEF Locals
  <2>8. DriveInv' BY <2>1, <2>6, <2>7 DEF DriveInv, Waiting, Pending, Link
  <2> QED BY <1>2, <2>1, <2>2, <2>5, <2>7, <2>8, InsideControl DEF InRpc, Places, Looping, Linking
<1>5. CASE ChainRefused
  <2>1. /\ at = "linkread" /\ at' = "leave" /\ my' = [my EXCEPT !.ok = FALSE] /\ result' = 0
        /\ UNCHANGED <<drive, io_sema, fs_buf, ee, readee, curlsn, cdrom>>
    BY <1>5 DEF ChainRefused, Move, Refused
  <2>2. my' \in Locals /\ my'.call = my.call /\ my'.first = my.first /\ my'.sectors = my.sectors
        /\ my'.buf = my.buf /\ my'.chain = my.chain /\ my'.lsn = my.lsn
    BY <1>2, <2>1 DEF Locals
  <2> QED BY <1>2, <2>1, <2>2, InsideControl DEF InRpc, Places, Looping, Linking, Waiting
<1>6. CASE ChainSync
  <2>1. /\ at = "linksync" /\ at' = "linkread" /\ DriveIdle /\ DOMAIN ee' = DOMAIN ee
        /\ my' = [my EXCEPT !.lsn = my.lsn + my.n, !.left = my.left - my.n,
                            !.addr = my.addr + my.n * SectorSize, !.sent = my.sent + my.n * SectorSize]
        /\ UNCHANGED <<drive, io_sema, fs_buf, readee, curlsn, result, cdrom>>
    BY <1>6, StoredDomain DEF ChainSync, Move
  <2>2. my.call = "readchain" BY <1>0, <2>1 DEF PlaceInv, Linking
  <2>3. my' \in Locals /\ my'.call = my.call /\ my'.first = my.first /\ my'.sectors = my.sectors
        /\ my'.buf = my.buf /\ my'.chain = my.chain
    <3>1. my.n \in Int /\ my.lsn \in Int /\ my.left \in Int /\ my.addr \in Int /\ my.sent \in Int
      BY <1>2 DEF Locals
    <3>2. my.n * SectorSize \in Int BY <3>1, Sizes, Times
    <3>3. my.lsn + my.n \in Int /\ my.left - my.n \in Int /\ my.addr + my.n * SectorSize \in Int
          /\ my.sent + my.n * SectorSize \in Int
      BY <3>1, <3>2
    <3>4. \A w, x, y, z \in Int : [my EXCEPT !.lsn = w, !.left = x, !.addr = y, !.sent = z] \in Locals
      BY <1>2 DEF Locals
    <3>5. my' \in Locals BY <2>1, <3>3, <3>4
    <3> QED BY <1>2, <2>1, <3>5 DEF Locals
  <2> QED BY <1>2, <2>1, <2>2, <2>3, InsideControl DEF InRpc, Places, Looping, Linking
<1>7. CASE ChainProgress
  <2>1. /\ at = "linkread" /\ at' = "link" /\ curlsn' = my.sent /\ my' = my
        /\ UNCHANGED <<drive, io_sema, fs_buf, ee, readee, result, cdrom>>
    BY <1>7 DEF ChainProgress, Move
  <2>2. my.call = "readchain" BY <1>0, <2>1 DEF PlaceInv, Linking
  <2>3. my.i \in 0 .. Len(my.chain) /\ curlsn' \in Int BY <1>2, <2>1 DEF ChainNumbers, Locals
  <2> QED BY <1>2, <2>1, <2>2, <2>3, InsideControl DEF InRpc, Places, Looping, Linking, Waiting
<1>8. CASE ReadiopmRead
  <2> DEFINE r == IopRead(my.lsn, my.sectors)
  <2>1. /\ at = "iopm" /\ at' = "iopmsync"
        /\ UNCHANGED <<io_sema, fs_buf, ee, readee, curlsn, result, cdrom>>
        /\ \/ DriveIdle /\ drive' = r /\ my' = my
           \/ drive' = drive /\ my' = [my EXCEPT !.ok = FALSE]
    BY <1>8 DEF ReadiopmRead, Move, Accepted, Refused
  <2>2. my.call = "readiopm" BY <1>0, <2>1 DEF PlaceInv
  <2>3. my' \in Locals /\ my'.call = my.call /\ my'.first = my.first /\ my'.sectors = my.sectors
        /\ my'.buf = my.buf /\ my'.chain = my.chain /\ my'.lsn = my.lsn
    BY <1>2, <2>1 DEF Locals
  <2>4. r \in DriveReads /\ r.by = "rpc" /\ r.dst = "iop" BY <1>2 DEF Locals, DriveReads, IopRead
  <2>5. DriveInv'
    <3>1. CASE drive' = r BY <2>1, <2>4, <3>1 DEF DriveInv, Pending, Waiting
    <3>2. CASE drive' = drive BY <2>1, <3>2, DriveLeft DEF Waiting
    <3> QED BY <2>1, <3>1, <3>2
  <2> QED BY <1>2, <2>1, <2>2, <2>3, <2>4, <2>5, InsideControl DEF InRpc, Places, Looping, Linking
<1>9. CASE ReadiopmSync
  <2>1. /\ at = "iopmsync" /\ at' = "leave" /\ DriveIdle
        /\ UNCHANGED <<drive, io_sema, fs_buf, ee, my, readee, curlsn, result, cdrom>>
    BY <1>9 DEF ReadiopmSync, Move
  <2> QED BY <1>2, <2>1, InsideControl DEF InRpc, Places, Looping, Linking
<1> QED BY <1>3, <1>4, <1>5, <1>6, <1>7, <1>8, <1>9

-----------------------------------------------------------------------------
(***************************************************************************)
(* How far the calls are: a pass moves lsn, address and progress on by the *)
(* sectors it sent.                                                        *)
(***************************************************************************)
NumbersInv == ReadeeNumbers /\ ChainNumbers

\* The sizes of a pass as it is sent: all of its sectors, or, in the last one
\* of an unaligned call, all but the line the EE gets in buf2.
LEMMA SendSizes ==
  ASSUME PlaceInv, ReadeeNumbers, at \in {"send", "progress"}
  PROVE  /\ SendSize \in Nat /\ SendSize = IF my.left = my.n /\ ~Aligned THEN my.n * SectorSize - Align
                                                                         ELSE my.n * SectorSize
         /\ my.n * SectorSize \in Nat /\ my.n * SectorSize >= Align
<1>1. my.call = "readee" /\ at \in Looping /\ my.left > 0 /\ my.n = Nsectors
  BY DEF PlaceInv, ReadeeNumbers, Looping
<1>2. my.n \in Nat /\ my.n >= 1
  <2>1. my.n \in 1 .. my.left BY <1>1, Passes
  <2>2. my.left \in Int BY <1>1, ReadeeGiven DEF ReadeeNumbers
  <2> QED BY <2>1, <2>2
<1>3. my.n * SectorSize \in Nat /\ 1 * SectorSize <= my.n * SectorSize BY <1>2, Sizes, Times
<1>4. my.n * SectorSize >= Align BY <1>3, Sizes
<1>5. (Aligned => B1len = 0) /\ (~Aligned => B1len # 0) BY <1>1, ReadeeGiven, Lines
<1> DEFINE x == my.n * SectorSize
<1>6. SendSize = IF my.left = my.n /\ ~Aligned THEN x - Align ELSE x BY <1>5 DEF SendSize
<1> HIDE DEF x
<1> QED BY <1>3, <1>4, <1>6, Sizes DEF x

\* The numbers: steps of the others,
LEMMA ElsewhereNumbers ==
  ASSUME NumbersInv, Elsewhere
  PROVE  NumbersInv'
<1>1. UNCHANGED <<at, my, ee, readee, curlsn, result>> BY ElsewhereKeeps
<1> QED BY <1>1 DEF NumbersInv, ReadeeNumbers, ChainNumbers, Done, Sent, SendSize, Nbytes, B1len, B2len,
   Aligned, Nsectors, Link, LinkDone, CDVDFSV_BUF_SECTORS

\* Outside the loops there is nothing to say.
LEMMA OutsideNumbers ==
  ASSUME at' \notin Looping, at' \notin {"linkread", "linksync"}
  PROVE  NumbersInv'
  BY DEF NumbersInv, ReadeeNumbers, ChainNumbers

\* cdvd_readee,
LEMMA ReadeeNumbersStep ==
  ASSUME ControlInv, ReadeeNumbers,
         \/ ReadeeBegin \/ ReadeeNext \/ ReadeeRead \/ ReadeeSync \/ ReadeeSend \/ ReadeeProgress
  PROVE  ReadeeNumbers'
<1>0. FsvTypes /\ PlaceInv /\ my \in Locals BY DEF ControlInv, FsvTypes
<1>1. CASE ReadeeBegin
  <2>1. /\ at = "readywait" /\ at' = (IF my.call = "readee" THEN "head" ELSE "leave")
        /\ my' = [my EXCEPT !.left = my.sectors, !.addr = my.buf + B1len]
        /\ readee' = [buf1 |-> [i \in 1 .. B1len |-> Garbage], buf2 |-> [i \in 1 .. B2len |-> Garbage]]
        /\ curlsn' = curlsn
    BY <1>1 DEF ReadeeBegin, Move
  <2>2. SUFFICES ASSUME my.call = "readee" PROVE ReadeeNumbers' BY <2>1 DEF ReadeeNumbers, Looping
  <2>3. my.buf \in Nat /\ my.sectors \in Nat /\ my.sectors > 0 /\ my.lsn = my.first /\ my.first \in Nat
        /\ my.sent = 0 /\ curlsn = 0
    BY <1>0, <2>1, <2>2, ReadeeGiven DEF PlaceInv
  <2>4. /\ my'.left = my.sectors /\ my'.sectors = my.sectors /\ my'.buf = my.buf /\ my'.first = my.first
        /\ my'.lsn = my.lsn /\ my'.sent = my.sent /\ my'.addr = my.buf + B1len
    BY <1>0, <2>1 DEF Locals
  <2>5. Nbytes' = Nbytes /\ B1len' = B1len /\ B2len' = B2len /\ Aligned' = Aligned BY <2>4, GeoKept
  <2>6. Done' = 0 /\ 0 * SectorSize = 0 BY <2>3, <2>4, Sizes DEF Done
  <2>7. Sent' = 0 BY <2>3, <2>4, <2>5, <2>6 DEF Sent
  <2>8. DOMAIN readee'.buf1 = 1 .. B1len /\ DOMAIN readee'.buf2 = 1 .. B2len BY <2>1
  <2>9. my'.lsn = my'.first + Done' BY <2>3, <2>4, <2>6
  <2>10. my'.addr = my'.buf + B1len' + Done' * SectorSize
    BY <2>3, <2>4, <2>5, <2>6, Lines
  <2> QED BY <2>1, <2>2, <2>3, <2>4, <2>5, <2>7, <2>8, <2>9, <2>10 DEF ReadeeNumbers
<1>2. CASE ReadeeNext
  <2>1. /\ at = "head" /\ at' = "read" /\ my' = [my EXCEPT !.n = Nsectors] /\ my.left # 0
        /\ UNCHANGED <<readee, curlsn>>
    BY <1>2 DEF ReadeeNext, Move
  <2>2. /\ my'.left = my.left /\ my'.sectors = my.sectors /\ my'.buf = my.buf /\ my'.first = my.first
        /\ my'.lsn = my.lsn /\ my'.sent = my.sent /\ my'.addr = my.addr /\ my'.n = Nsectors
    BY <1>0, <2>1 DEF Locals
  <2>3. Nbytes' = Nbytes /\ B1len' = B1len /\ B2len' = B2len /\ Aligned' = Aligned BY <2>2, GeoKept
  <2>4. Nsectors' = Nsectors /\ Done' = Done /\ Sent' = Sent BY <2>2, <2>3 DEF Nsectors, Done, Sent
  <2>5. my.left > 0
    <3>1. my.left \in 0 .. my.sectors /\ my.sectors \in Nat
      BY <1>0, <2>1, ReadeeGiven DEF ReadeeNumbers, PlaceInv, Looping
    <3> QED BY <2>1, <3>1
  <2> QED BY <2>1, <2>2, <2>3, <2>4, <2>5 DEF ReadeeNumbers, Looping
<1>3. CASE ReadeeRead \/ ReadeeSync
  <2>1. /\ at \in {"read", "sync"} /\ at' \in {"sync", "send"} /\ my' = my /\ curlsn' = curlsn
    BY <1>3 DEF ReadeeRead, ReadeeSync, Move
  <2>2. Nbytes' = Nbytes /\ B1len' = B1len /\ B2len' = B2len /\ Aligned' = Aligned BY <2>1, GeoKept
  <2>3. Nsectors' = Nsectors /\ Done' = Done /\ Sent' = Sent BY <2>1, <2>2 DEF Nsectors, Done, Sent
  <2>4. DOMAIN readee'.buf1 = 1 .. B1len /\ DOMAIN readee'.buf2 = 1 .. B2len
    <3>0. DOMAIN readee.buf1 = 1 .. B1len /\ DOMAIN readee.buf2 = 1 .. B2len
      BY <2>1 DEF ReadeeNumbers, Looping
    <3>1. CASE readee' = readee BY <3>0, <3>1
    <3>2. CASE readee' = [readee EXCEPT !.buf1 = Part(fs_buf, FsvRbuf, B1len)]
      <4>1. DOMAIN Part(fs_buf, FsvRbuf, B1len) = 1 .. B1len BY DEF Part
      <4>2. DOMAIN readee'.buf2 = 1 .. B2len BY <3>0, <3>2
      <4>3. DOMAIN readee'.buf1 = 1 .. B1len BY <3>2, <4>1
      <4> QED BY <4>2, <4>3
    <3> QED BY <1>3, <3>1, <3>2 DEF ReadeeRead, ReadeeSync
  <2> QED BY <2>1, <2>2, <2>3, <2>4 DEF ReadeeNumbers, Looping
<1>4. CASE ReadeeSend
  <2>1. /\ at = "send" /\ at' = "progress" /\ my' = [my EXCEPT !.sent = my.sent + SendSize]
        /\ UNCHANGED <<readee, curlsn>>
    BY <1>4 DEF ReadeeSend, Move
  <2>2. /\ my'.left = my.left /\ my'.sectors = my.sectors /\ my'.buf = my.buf /\ my'.first = my.first
        /\ my'.lsn = my.lsn /\ my'.sent = my.sent + SendSize /\ my'.addr = my.addr /\ my'.n = my.n
    BY <1>0, <2>1 DEF Locals
  <2>3. Nbytes' = Nbytes /\ B1len' = B1len /\ B2len' = B2len /\ Aligned' = Aligned BY <2>2, GeoKept
  <2>4. Nsectors' = Nsectors /\ Done' = Done /\ SendSize' = SendSize
    BY <2>2, <2>3 DEF Nsectors, Done, SendSize
  <2>5. my.sent = Done * SectorSize /\ curlsn = my.sent
    <3>1. my.sent = Sent /\ curlsn = my.sent /\ my.left > 0 BY <2>1 DEF ReadeeNumbers, Looping
    <3>2. my.left # 0
      <4>1. my.left \in Int BY <1>0 DEF Locals
      <4> QED BY <3>1, <4>1
    <3> QED BY <3>1, <3>2 DEF Sent
  <2> QED BY <2>1, <2>2, <2>3, <2>4, <2>5 DEF ReadeeNumbers, Looping
<1>5. CASE ReadeeProgress
  <2>1. /\ at = "progress" /\ at' = "head" /\ curlsn' = my.sent
        /\ my' = [my EXCEPT !.left = my.left - my.n, !.lsn = my.lsn + my.n, !.addr = my.addr + my.n * SectorSize]
    BY <1>5 DEF ReadeeProgress, Move
  <2>2. /\ my'.left = my.left - my.n /\ my'.sectors = my.sectors /\ my'.buf = my.buf /\ my'.first = my.first
        /\ my'.lsn = my.lsn + my.n /\ my'.sent = my.sent /\ my'.addr = my.addr + my.n * SectorSize
    BY <1>0, <2>1 DEF Locals
  <2>3. Nbytes' = Nbytes /\ B1len' = B1len /\ B2len' = B2len /\ Aligned' = Aligned BY <2>2, GeoKept
  <2>4. /\ my.n \in 1 .. my.left /\ my.left \in 0 .. my.sectors /\ my.sectors > 0 /\ my.sectors \in Nat
        /\ my.first \in Nat /\ my.buf \in Nat
        /\ my.lsn = my.first + Done /\ my.addr = my.buf + B1len + Done * SectorSize
        /\ my.sent = Done * SectorSize + SendSize
    <3>1. my.left > 0 /\ my.n = Nsectors /\ at \in Looping BY <2>1 DEF ReadeeNumbers, Looping
    <3>2. my.n \in 1 .. my.left BY <1>0, <3>1, Passes
    <3> QED BY <1>0, <2>1, <3>1, <3>2, ReadeeGiven DEF ReadeeNumbers, PlaceInv
  <2>5. Done \in Nat /\ my.n \in Nat /\ Done' = Done + my.n BY <2>2, <2>4 DEF Done
  <2>6. Done' * SectorSize = Done * SectorSize + my.n * SectorSize
        /\ Done * SectorSize \in Nat /\ my.n * SectorSize \in Nat
    BY <2>5, Sizes, Times
  <2>7. my'.left \in 0 .. my'.sectors BY <2>2, <2>4
  <2>8. my'.lsn = my'.first + Done' BY <2>2, <2>4, <2>5
  <2>9. my'.addr = my'.buf + B1len' + Done' * SectorSize
    <3> DEFINE x == Done * SectorSize
               y == my.n * SectorSize
    <3>1. B1len \in Nat BY <2>4, Lines
    <3>2. x \in Nat /\ y \in Nat /\ Done' * SectorSize = x + y BY <2>6
    <3>3. my.addr = my.buf + B1len + x /\ my'.addr = my.addr + y BY <2>2, <2>4
    <3> HIDE DEF x, y
    <3> QED BY <2>2, <2>3, <2>4, <3>1, <3>2, <3>3
  <2>10. my.sent = Sent'
    <3> DEFINE x == Done * SectorSize
               y == my.n * SectorSize
    <3>1. SendSize = IF my.left = my.n /\ ~Aligned THEN y - Align ELSE y BY <1>0, <2>1, SendSizes
    <3>2. my.sent = x + SendSize /\ x \in Nat /\ y \in Nat /\ Done' * SectorSize = x + y BY <2>4, <2>6
    <3>3. my'.left = 0 <=> my.left = my.n BY <2>2, <2>4
    <3>4. my.left = my.n => Nbytes = x + y
      <4>1. my.left = my.n => Done' = my.sectors BY <2>4, <2>5 DEF Done
      <4> QED BY <3>2, <4>1 DEF Nbytes
    <3>5. Sent' = IF my'.left = 0 /\ ~Aligned THEN Nbytes - Align ELSE x + y BY <2>3, <3>2 DEF Sent
    <3> HIDE DEF x, y
    <3> QED BY <3>1, <3>2, <3>3, <3>4, <3>5, Sizes
  <2>11. DOMAIN readee'.buf1 = 1 .. B1len /\ DOMAIN readee'.buf2 = 1 .. B2len
    <3>0. DOMAIN readee.buf1 = 1 .. B1len /\ DOMAIN readee.buf2 = 1 .. B2len
      BY <2>1 DEF ReadeeNumbers, Looping
    <3>1. CASE readee' = readee BY <3>0, <3>1
    <3>2. ASSUME NEW p, readee' = [readee EXCEPT !.buf2 = Part(fs_buf, p, B2len)]
          PROVE DOMAIN readee'.buf1 = 1 .. B1len /\ DOMAIN readee'.buf2 = 1 .. B2len
      <4>1. DOMAIN Part(fs_buf, p, B2len) = 1 .. B2len BY DEF Part
      <4>2. DOMAIN readee'.buf1 = 1 .. B1len BY <3>0, <3>2
      <4>3. DOMAIN readee'.buf2 = 1 .. B2len BY <3>2, <4>1
      <4> QED BY <4>2, <4>3
    <3> QED BY <1>5, <3>1, <3>2 DEF ReadeeProgress
  <2> QED BY <2>1, <2>2, <2>3, <2>4, <2>7, <2>8, <2>9, <2>10, <2>11 DEF ReadeeNumbers
<1> QED BY <1>1, <1>2, <1>3, <1>4, <1>5

\* cdvd_readchain.
LEMMA ChainNumbersStep ==
  ASSUME ControlInv, ChainNumbers, ChainNext \/ ChainRead \/ ChainSync \/ ChainProgress
  PROVE  ChainNumbers'
<1>0. FsvTypes /\ PlaceInv /\ my \in Locals BY DEF ControlInv, FsvTypes
<1>1. CASE ChainNext
  <2>1. /\ at = "link"
        /\ \/ at' = "leave" /\ my' = my
           \/ /\ at' = "linkread" /\ my.i # Len(my.chain)
              /\ my' = [my EXCEPT !.i = my.i + 1, !.lsn = my.chain[my.i + 1].lsn,
                                  !.left = my.chain[my.i + 1].sectors, !.addr = my.chain[my.i + 1].buf]
    BY <1>1 DEF ChainNext
  <2>2. CASE at' = "leave" BY <2>2 DEF ChainNumbers
  <2>3. CASE at' = "linkread" /\ my.i # Len(my.chain)
    <3> DEFINE c == my.chain[my.i + 1]
    <3>1. my.chain \in Chains /\ my.i \in 0 .. Len(my.chain) BY <1>0, <2>1 DEF PlaceInv, Linking
    <3>2. my.i + 1 \in 1 .. Len(my.chain)
      <4>1. Len(my.chain) \in Nat BY <3>1, FsvAssumption
      <4> QED BY <2>3, <3>1, <4>1
    <3>3. c.lsn \in Nat /\ c.sectors \in Nat \ {0} /\ c.buf \in Nat BY <3>1, <3>2, Links
    <3>4. my' = [my EXCEPT !.i = my.i + 1, !.lsn = c.lsn, !.left = c.sectors, !.addr = c.buf]
      BY <2>1, <2>3
    <3>5. /\ my'.i = my.i + 1 /\ my'.lsn = c.lsn /\ my'.left = c.sectors /\ my'.addr = c.buf /\ my'.chain = my.chain
      BY <1>0, <3>4 DEF Locals
    <3>6. Link' = c BY <3>5 DEF Link
    <3> HIDE DEF c
    <3>7. LinkDone' = 0 /\ 0 * SectorSize = 0 BY <3>3, <3>5, <3>6, Sizes DEF LinkDone
    <3>8. my'.i \in 1 .. Len(my'.chain) /\ my'.left \in 0 .. Link'.sectors BY <3>2, <3>3, <3>5, <3>6
    <3>9. my'.lsn = Link'.lsn + LinkDone' BY <3>3, <3>5, <3>6, <3>7
    <3>10. my'.addr = Link'.buf + LinkDone' * SectorSize BY <3>3, <3>5, <3>6, <3>7
    <3> QED BY <2>3, <3>8, <3>9, <3>10 DEF ChainNumbers
  <2> QED BY <2>1, <2>2, <2>3
<1>2. CASE ChainRead
  <2> DEFINE n == IF Link.iop THEN my.left ELSE Min2(my.left, CDVDFSV_BUF_SECTORS)
  <2>1. /\ at = "linkread" /\ at' = "linksync" /\ my.left > 0 /\ my' = [my EXCEPT !.n = n]
    BY <1>2 DEF ChainRead, Move
  <2>2. /\ my'.i = my.i /\ my'.lsn = my.lsn /\ my'.left = my.left /\ my'.addr = my.addr /\ my'.chain = my.chain
        /\ my'.n = n
    BY <1>0, <2>1 DEF Locals
  <2>3. Link' = Link /\ LinkDone' = LinkDone BY <2>2 DEF Link, LinkDone
  <2>4. my.left \in Int BY <1>0 DEF Locals
  <2>5. n \in 1 .. my.left /\ (~Link.iop => n <= CDVDFSV_BUF_SECTORS)
    BY <2>1, <2>4, Sizes DEF Min2
  <2> HIDE DEF n
  <2> QED BY <2>1, <2>2, <2>3, <2>5 DEF ChainNumbers
<1>3. CASE ChainSync
  <2>1. /\ at = "linksync" /\ at' = "linkread"
        /\ my' = [my EXCEPT !.lsn = my.lsn + my.n, !.left = my.left - my.n,
                            !.addr = my.addr + my.n * SectorSize, !.sent = my.sent + my.n * SectorSize]
    BY <1>3 DEF ChainSync, Move
  <2>2. /\ my'.i = my.i /\ my'.lsn = my.lsn + my.n /\ my'.left = my.left - my.n
        /\ my'.addr = my.addr + my.n * SectorSize /\ my'.chain = my.chain
    BY <1>0, <2>1 DEF Locals
  <2>3. Link' = Link BY <2>2 DEF Link
  <2>4. my.chain \in Chains /\ my.i \in 1 .. Len(my.chain) /\ my.left \in 0 .. Link.sectors /\ my.n \in 1 .. my.left
        /\ my.lsn = Link.lsn + LinkDone /\ my.addr = Link.buf + LinkDone * SectorSize
    BY <1>0, <2>1 DEF ChainNumbers, PlaceInv, Linking
  <2>5. Link.sectors \in Nat /\ Link.lsn \in Nat /\ Link.buf \in Nat BY <2>4, Links DEF Link
  <2>6. LinkDone \in Nat /\ LinkDone' = LinkDone + my.n BY <2>2, <2>3, <2>4, <2>5 DEF LinkDone
  <2>7. my'.left \in 0 .. Link'.sectors BY <2>2, <2>3, <2>4, <2>5
  <2>8. my'.lsn = Link'.lsn + LinkDone' BY <2>2, <2>3, <2>4, <2>5, <2>6
  <2>9. my'.addr = Link'.buf + LinkDone' * SectorSize
    <3> DEFINE x == LinkDone * SectorSize
               y == my.n * SectorSize
    <3>1. my.n \in Int BY <1>0 DEF Locals
    <3>2. LinkDone' * SectorSize = x + y /\ x \in Int /\ y \in Int BY <2>6, <3>1, Sizes, Times
    <3>3. my.addr = Link.buf + x /\ my'.addr = my.addr + y BY <2>2, <2>4
    <3> HIDE DEF x, y
    <3> QED BY <2>3, <2>5, <3>2, <3>3
  <2> QED BY <2>1, <2>2, <2>4, <2>7, <2>8, <2>9 DEF ChainNumbers
<1>4. CASE ChainProgress BY <1>4 DEF ChainProgress, Move, ChainNumbers
<1> QED BY <1>1, <1>2, <1>3, <1>4

\* Every step of the RPC thread and of the others.
LEMMA NumbersStep ==
  ASSUME ControlInv, NumbersInv, [FsvNext]_fsvvars
  PROVE  ControlInv' /\ NumbersInv'
<1>0. ReadeeNumbers /\ ChainNumbers /\ PlaceInv BY DEF NumbersInv, ControlInv
<1>1. CASE Elsewhere BY <1>1, ElsewhereControl, ElsewhereNumbers
<1>2. CASE RpcArrives
  <2>1. at' = "iosema"
    BY <1>2 DEF RpcArrives, CallReadee, CallReadchain, CallReadiopm, CallOther, RpcCall, Move
  <2>2. NumbersInv' BY <2>1, OutsideNumbers DEF Looping
  <2> QED BY <1>2, <2>2, ArrivesControl
<1>3. CASE cbrpc_cdvdNcmds \/ NcmdReturn
  <2>1. at' \in {"leave", "ready", "link", "iopm", "idle"}
    BY <1>3 DEF cbrpc_cdvdNcmds, NcmdReturn, Move
  <2>2. NumbersInv' BY <2>1, OutsideNumbers DEF Looping
  <2> QED BY <1>3, <2>2, DispatchControl
<1>4. CASE DiskReady \/ ReadeeEnd \/ ReadeeRefused
  <2>1. at' \in {"readywait", "leave"} BY <1>4 DEF DiskReady, ReadeeEnd, ReadeeRefused, Move
  <2>2. NumbersInv' BY <2>1, OutsideNumbers DEF Looping
  <2> QED BY <1>4, <2>2, ReadeeControl
<1>5. CASE ReadeeBegin \/ ReadeeNext \/ ReadeeRead \/ ReadeeSync \/ ReadeeSend \/ ReadeeProgress
  <2>1. at' \notin {"linkread", "linksync"}
    BY <1>5 DEF ReadeeBegin, ReadeeNext, ReadeeRead, ReadeeSync, ReadeeSend, ReadeeProgress, Move
  <2>2. ChainNumbers' BY <2>1 DEF ChainNumbers
  <2> QED BY <1>0, <1>5, <2>2, ReadeeControl, ReadeeNumbersStep DEF NumbersInv
<1>6. CASE ChainRefused \/ ReadiopmRead \/ ReadiopmSync
  <2>1. at' \in {"iopmsync", "leave"} BY <1>6 DEF ChainRefused, ReadiopmRead, ReadiopmSync, Move
  <2>2. NumbersInv' BY <2>1, OutsideNumbers DEF Looping
  <2> QED BY <1>0, <1>6, <2>2, ChainControl
<1>7. CASE ChainNext \/ ChainRead \/ ChainSync \/ ChainProgress
  <2>1. at' \in {"leave", "linkread", "linksync", "link"}
    BY <1>7 DEF ChainNext, ChainRead, ChainSync, ChainProgress, Move
  <2>2. ReadeeNumbers' BY <2>1 DEF ReadeeNumbers, Looping
  <2> QED BY <1>0, <1>7, <2>2, ChainControl, ChainNumbersStep DEF NumbersInv
<1>8. CASE UNCHANGED fsvvars
  <2>1. UNCHANGED <<drive, io_sema, fs_buf, ee, at, my, readee, curlsn, result, cdrom>>
    BY <1>8 DEF fsvvars
  <2>2. FsvTypes' /\ PlaceInv' /\ SemaInv'
    BY <2>1 DEF ControlInv, FsvTypes, PlaceInv, SemaInv, InRpc
  <2>3. DriveInv'
    BY <2>1 DEF ControlInv, DriveInv, DriveIdle, Pending, SectorsRead, Aligned, B1len, B2len, Nbytes, FsvRbuf, Link
  <2>4. NumbersInv'
    BY <2>1 DEF NumbersInv, ReadeeNumbers, ChainNumbers, Done, Sent, SendSize, Nbytes, B1len, B2len,
      Aligned, Nsectors, Link, LinkDone, CDVDFSV_BUF_SECTORS
  <2> QED BY <2>2, <2>3, <2>4 DEF ControlInv
<1> QED BY <1>1, <1>2, <1>3, <1>4, <1>5, <1>6, <1>7, <1>8 DEF FsvNext, RpcStep, Elsewhere

\* The start, and every state.
LEMMA FsvStart ==
  ASSUME FsvInit
  PROVE  ControlInv /\ NumbersInv
<1>1. /\ drive = NoRead /\ io_sema = 1 /\ at = "idle" /\ my = NoCall /\ readee = EmptyReadee /\ curlsn = 0
      /\ result = 0 /\ cdrom = "idle"
      /\ fs_buf = [u \in 0 .. FsBufUnits - 1 |-> Junk] /\ ee = [u \in 0 .. EeUnits - 1 |-> Junk]
  BY DEF FsvInit
<1>2. FsvTypes
  <2>2. DOMAIN fs_buf = FsMemory /\ DOMAIN ee = EeMemory BY <1>1 DEF FsMemory, EeMemory
  <2> QED BY <1>1, <2>2, NoCallTyped DEF FsvTypes, Places
<1>3. PlaceInv
  <2>1. NoCall.call = "none" BY DEF NoCall
  <2> QED BY <1>1, <2>1 DEF PlaceInv, Looping, Linking
<1>4. SemaInv BY <1>1 DEF SemaInv, InRpc
<1>5. DriveInv BY <1>1 DEF DriveInv, DriveIdle
<1>6. NumbersInv BY <1>1 DEF NumbersInv, ReadeeNumbers, ChainNumbers, Looping
<1> QED BY <1>2, <1>3, <1>4, <1>5, <1>6 DEF ControlInv

LEMMA Numbers == FsvSpec => [](ControlInv /\ NumbersInv)
<1>1. FsvInit => ControlInv /\ NumbersInv BY FsvStart
<1>2. ControlInv /\ NumbersInv /\ [FsvNext]_fsvvars => (ControlInv /\ NumbersInv)' BY NumbersStep
<1> QED BY <1>1, <1>2, PTL DEF FsvSpec

\* The read under way fits the buffer.
LEMMA Fits ==
  ASSUME ControlInv, NumbersInv
  PROVE  FsBufNotOverrun
<1> SUFFICES ASSUME ~DriveIdle, drive.dst = "fs_buf"
             PROVE  drive.off + drive.n * SectorSize <= FsBufUnits
  BY DEF FsBufNotOverrun
<1>0. FsvTypes /\ PlaceInv /\ DriveInv /\ ReadeeNumbers /\ ChainNumbers BY DEF ControlInv, NumbersInv
<1>1. drive.by \in {"rpc", "cdrom", "game"} BY <1>0 DEF FsvTypes, DriveReads, DriveIdle
<1>2. CASE drive.by = "game" BY <1>0, <1>2 DEF DriveInv
<1>3. FsBufUnits = FsSectors * SectorSize + 2 * SectorSize /\ FsSectors * SectorSize \in Nat
  BY Sizes, Times DEF FsBufUnits
<1>4. CASE drive.by = "cdrom"
  <2>1. drive.off = 0 /\ drive.n = 1 BY <1>0, <1>4 DEF DriveInv
  <2> QED BY <1>3, <2>1, Sizes
<1>5. CASE drive.by = "rpc"
  <2>1. at \in Waiting /\ Pending BY <1>0, <1>5 DEF DriveInv, Pending
  <2>2. CASE at = "sync"
    <3>1. drive.n = SectorsRead(my.n) /\ drive.off = FsvRbuf BY <1>0, <2>1, <2>2 DEF DriveInv
    <3>2. at \in Looping /\ my.left > 0 /\ my.n = Nsectors BY <1>0, <2>2 DEF ReadeeNumbers, Looping
    <3> QED BY <1>0, <3>1, <3>2, Passes
  <2>3. CASE at = "linksync"
    <3>1. drive.n = my.n /\ drive.off = 0 /\ ~Link.iop BY <1>0, <2>1, <2>3 DEF DriveInv
    <3>2. my.n \in Int /\ my.n <= FsSectors + 1
      BY <1>0, <2>3, <3>1, Sizes DEF ChainNumbers, FsvTypes, Locals
    <3>3. my.n * SectorSize <= (FsSectors + 1) * SectorSize BY <3>2, Sizes, Times
    <3>4. (FsSectors + 1) * SectorSize = FsSectors * SectorSize + 1 * SectorSize BY Sizes, Times
    <3>5. my.n * SectorSize \in Int BY <3>2, Sizes, Times
    <3> QED BY <1>3, <3>1, <3>3, <3>4, <3>5, Sizes
  <2>4. CASE at = "iopmsync" BY <1>0, <2>1, <2>4 DEF DriveInv
  <2> QED BY <2>1, <2>2, <2>3, <2>4 DEF Waiting
<1> QED BY <1>1, <1>2, <1>4, <1>5

\* No read overruns cdvdman_fs_buf: not the shifted and lengthened ones of an
\* unaligned cdvd_readee, not those of cdvd_readchain, and not the cdrom
\* driver's, whatever the sizes of the buffer, the sectors and the DMA lines.
THEOREM ReadsFitBuffer == FsvSpec => []FsBufNotOverrun
<1>1. ControlInv /\ NumbersInv => FsBufNotOverrun BY Fits
<1> QED BY <1>1, Numbers, PTL

-----------------------------------------------------------------------------
(***************************************************************************)
(* Nothing is written outside the destinations of a call.                  *)
(***************************************************************************)
LEMMA WholeSectors ==
  ASSUME PlaceInv, ReadeeNumbers, at \in Looping
  PROVE  /\ my.buf \in Nat /\ my.first \in Nat /\ Done \in Nat /\ Done * SectorSize \in Nat
         /\ Nbytes \in Nat /\ SectorSize <= Nbytes /\ my.buf + Nbytes <= EeUnits
         /\ B1len \in Nat /\ B2len \in Nat /\ B1len < Align /\ B2len < Align
         /\ Done = 0 => Done * SectorSize = 0
<1>1. my.call = "readee" BY DEF PlaceInv
<1>2. my.buf \in Nat /\ my.sectors \in Nat /\ my.first \in Nat /\ my.buf + Nbytes <= EeUnits
  BY <1>1, ReadeeGiven
<1>3. my.sectors >= 1 /\ my.left \in 0 .. my.sectors BY <1>2 DEF ReadeeNumbers
<1>4. Done \in Nat BY <1>2, <1>3 DEF Done
<1>5. Done * SectorSize \in Nat /\ 0 * SectorSize = 0 BY <1>4, Sizes, Times
<1>6. 1 * SectorSize <= my.sectors * SectorSize BY <1>2, <1>3, Sizes, Times
<1>7. SectorSize <= Nbytes BY <1>6, Sizes DEF Nbytes
<1> QED BY <1>2, <1>4, <1>5, <1>7, Lines

\* The DMA of a pass ends before the tail begins.
LEMMA SendFits ==
  ASSUME PlaceInv, ReadeeNumbers, at = "send"
  PROVE  /\ my.sent = Done * SectorSize /\ my.addr = my.buf + B1len + my.sent
         /\ B1len + my.sent + SendSize <= Nbytes - B2len
<1>1. at \in Looping /\ my.call = "readee" BY DEF Looping, PlaceInv
<1>2. my.left > 0 /\ my.n = Nsectors /\ my.left \in 0 .. my.sectors /\ my.sent = Sent
      /\ my.addr = my.buf + B1len + Done * SectorSize
  BY <1>1 DEF ReadeeNumbers
<1>3. my.n \in 1 .. my.left BY <1>1, <1>2, Passes
<1>4. my.sectors \in Nat BY <1>1, ReadeeGiven
<1>5. my.sent = Done * SectorSize
  <2>1. my.left # 0 BY <1>2, <1>4
  <2> QED BY <1>2, <2>1 DEF Sent
<1>6. /\ Done * SectorSize \in Nat /\ Done \in Nat /\ Nbytes \in Nat
      /\ B1len \in Nat /\ B2len \in Nat /\ B1len < Align /\ B2len < Align
  BY <1>1, WholeSectors
<1>7. /\ Aligned => B1len = 0 /\ B2len = 0
      /\ ~Aligned => B1len + B2len = Align /\ B1len > 0
      /\ Aligned \in BOOLEAN
  BY <1>1, ReadeeGiven, Lines
<1>8. /\ SendSize = IF my.left = my.n /\ ~Aligned THEN my.n * SectorSize - Align ELSE my.n * SectorSize
      /\ my.n * SectorSize \in Nat
  BY SendSizes
<1> DEFINE x == Done * SectorSize
           y == my.n * SectorSize
           z == (my.left - my.n) * SectorSize
<1>9. my.n \in Int /\ my.left \in Int BY <1>2, <1>3, <1>4
<1>10. Nbytes = x + y + z
  <2>1. my.sectors = (Done + my.n) + (my.left - my.n) BY <1>4, <1>9 DEF Done
  <2>2. ((Done + my.n) + (my.left - my.n)) * SectorSize = (Done + my.n) * SectorSize + z
    BY <1>6, <1>9, Sizes, Times
  <2>3. (Done + my.n) * SectorSize = x + y BY <1>6, <1>9, Sizes, Times
  <2> QED BY <2>1, <2>2, <2>3 DEF Nbytes
<1>11. CASE my.left = my.n
  <2>1. z = 0 BY <1>9, <1>11, Sizes
  <2> HIDE DEF x, y, z
  <2>2. x \in Nat /\ y \in Nat BY <1>6, <1>8 DEF x, y
  <2>3. SendSize = IF ~Aligned THEN y - Align ELSE y BY <1>8, <1>11 DEF y
  <2>4. my.sent = x BY <1>5 DEF x
  <2>5. B1len + my.sent + SendSize <= Nbytes - B2len
    BY <1>6, <1>7, <1>10, <2>1, <2>2, <2>3, <2>4, Sizes
  <2> QED BY <1>2, <1>5, <2>5
<1>12. CASE my.left # my.n
  <2>1. my.left - my.n >= 1 BY <1>3, <1>9, <1>12
  <2>2. 1 * SectorSize <= z /\ z \in Int BY <1>9, <2>1, Sizes, Times
  <2> HIDE DEF x, y, z
  <2>3. x \in Nat /\ y \in Nat BY <1>6, <1>8 DEF x, y
  <2>4. SendSize = y BY <1>8, <1>12 DEF y
  <2>5. my.sent = x BY <1>5 DEF x
  <2>6. B1len + my.sent + SendSize <= Nbytes - B2len
    BY <1>6, <1>7, <1>10, <2>2, <2>3, <2>4, <2>5, Sizes
  <2> QED BY <1>2, <1>5, <2>6
<1> QED BY <1>11, <1>12

\* So does that of a part of a link, within the link's buffer.
LEMMA LinkFits ==
  ASSUME ControlInv, ChainNumbers, at = "linksync"
  PROVE  /\ my.chain \in Chains /\ my.i \in 1 .. Len(my.chain)
         /\ my.n \in Nat /\ my.n * SectorSize \in Nat /\ LinkDone \in Nat /\ LinkDone * SectorSize \in Nat
         /\ Link.buf \in Nat /\ Link.lsn \in Nat /\ Link.sectors * SectorSize \in Nat
         /\ LinkDone * SectorSize + my.n * SectorSize <= Link.sectors * SectorSize
         /\ (LinkDone + my.n) * SectorSize = LinkDone * SectorSize + my.n * SectorSize
         /\ (Link.lsn + LinkDone) * SectorSize = Link.lsn * SectorSize + LinkDone * SectorSize
         /\ my.addr = Link.buf + LinkDone * SectorSize /\ my.lsn = Link.lsn + LinkDone
         /\ ~Link.iop => Link.buf + Link.sectors * SectorSize <= EeUnits
<1>1. my.chain \in Chains /\ my.i \in 1 .. Len(my.chain) /\ my.left \in 0 .. Link.sectors /\ my.n \in 1 .. my.left
      /\ my.addr = Link.buf + LinkDone * SectorSize /\ my.lsn = Link.lsn + LinkDone
  BY DEF ChainNumbers, ControlInv, PlaceInv, Linking
<1>2. Link.sectors \in Nat /\ Link.lsn \in Nat /\ Link.buf \in Nat
      /\ (~Link.iop => Link.buf + Link.sectors * SectorSize <= EeUnits)
  BY <1>1, Links DEF Link
<1>3. my.n \in Nat /\ LinkDone \in Nat /\ LinkDone + my.n <= Link.sectors BY <1>1, <1>2 DEF LinkDone
<1>4. (LinkDone + my.n) * SectorSize = LinkDone * SectorSize + my.n * SectorSize
      /\ (LinkDone + my.n) * SectorSize <= Link.sectors * SectorSize
      /\ my.n * SectorSize \in Nat /\ LinkDone * SectorSize \in Nat /\ Link.sectors * SectorSize \in Nat
      /\ (Link.lsn + LinkDone) * SectorSize = Link.lsn * SectorSize + LinkDone * SectorSize
  BY <1>2, <1>3, Sizes, Times
<1> QED BY <1>1, <1>2, <1>3, <1>4

Early == {"idle", "iosema", "ready", "readywait"}
LEMMA DestKept ==
  ASSUME DestInv, ee' = ee, Destination' = Destination, at = "idle" => at' = "idle", at' \in Early => at \in Early
  PROVE  DestInv'
  BY DEF DestInv, OnlyDestination, Early

\* A step that keeps the request keeps its destination.
LEMMA SameDestination ==
  ASSUME my'.call = my.call, my'.buf = my.buf, my'.sectors = my.sectors, my'.chain = my.chain
  PROVE  Destination' = Destination
  BY DEF Destination, Nbytes

\* A write inside the destination keeps DestInv.
LEMMA DestWritten ==
  ASSUME FsvTypes, DestInv, at # "idle", at' \notin Early, Destination' = Destination,
         NEW a \in Int, NEW s, NEW m \in Nat, DOMAIN s = 1 .. m, ee' = Stored(ee, a, s),
         a .. a + m - 1 \subseteq Destination
  PROVE  DestInv'
<1>1. DOMAIN ee = EeMemory BY DEF FsvTypes
<1>2. \A u \in EeMemory : ee[u] # Junk => u \in Destination BY <1>1 DEF DestInv, OnlyDestination
<1>3. DOMAIN ee' = EeMemory /\ \A u \in EeMemory : ee'[u] # Junk => u \in Destination BY <1>1, <1>2, WrittenWithin
<1> QED BY <1>3 DEF DestInv, OnlyDestination, Early

\* Every step keeps DestInv.
LEMMA DestStep ==
  ASSUME ControlInv, NumbersInv, DestInv, [FsvNext]_fsvvars
  PROVE  DestInv'
<1>0. FsvTypes /\ PlaceInv /\ ReadeeNumbers /\ ChainNumbers /\ my \in Locals /\ DOMAIN ee = EeMemory
  BY DEF ControlInv, NumbersInv, FsvTypes
<1>1. CASE Elsewhere
  <2>1. UNCHANGED <<at, my, ee>> BY <1>1, ElsewhereKeeps
  <2> QED BY <2>1, DestKept, SameDestination DEF Early
<1>2. CASE RpcArrives
  <2>1. at = "idle" /\ at' = "iosema" /\ ee' = ee
    BY <1>2 DEF RpcArrives, CallReadee, CallReadchain, CallReadiopm, CallOther, RpcCall, Move
  <2> QED BY <1>0, <2>1 DEF DestInv, OnlyDestination
<1>3. CASE cbrpc_cdvdNcmds
  <2>1. at = "iosema" /\ ee' = ee /\ my' = my BY <1>3 DEF cbrpc_cdvdNcmds, Move
  <2> QED BY <2>1, DestKept, SameDestination DEF Early
<1>4. CASE NcmdReturn
  <2>1. at' = "idle" /\ ee' = [u \in DOMAIN ee |-> Junk] BY <1>4 DEF NcmdReturn, Move
  <2> QED BY <1>0, <2>1 DEF DestInv, OnlyDestination
<1>5. CASE DiskReady \/ ReadeeNext \/ ReadeeBegin \/ ReadeeRead \/ ReadeeRefused \/ ReadeeSync \/ ReadeeProgress
  <2>1. /\ at # "idle" /\ ee' = ee /\ (at' \in Early => at \in Early)
        /\ my'.call = my.call /\ my'.buf = my.buf /\ my'.sectors = my.sectors /\ my'.chain = my.chain
    BY <1>0, <1>5 DEF DiskReady, ReadeeNext, ReadeeBegin, ReadeeRead, ReadeeRefused, ReadeeSync, ReadeeProgress,
         Move, Early, Locals
  <2> QED BY <2>1, DestKept, SameDestination
<1>6. CASE ReadeeEnd
  <2> DEFINE b == my.buf
             t == my.buf + Nbytes - B2len
             e == Stored(ee, b, readee.buf1)
  <2>1. /\ at = "head" /\ at' = "leave" /\ ee' = Stored(e, t, readee.buf2)
        /\ my' = [my EXCEPT !.ok = (my.left = 0)]
    BY <1>6 DEF ReadeeEnd, Move
  <2>2. at \in Looping /\ my.call = "readee" BY <1>0, <2>1 DEF Looping, PlaceInv
  <2>3. DOMAIN readee.buf1 = 1 .. B1len /\ DOMAIN readee.buf2 = 1 .. B2len BY <1>0, <2>2 DEF ReadeeNumbers
  <2>4. my'.call = my.call /\ my'.buf = my.buf /\ my'.sectors = my.sectors /\ my'.chain = my.chain
    BY <1>0, <2>1 DEF Locals
  <2>5. Destination' = Destination BY <2>4, SameDestination
  <2>6. /\ b \in Nat /\ Nbytes \in Nat /\ B1len \in Nat /\ B2len \in Nat /\ B1len <= Nbytes /\ B2len <= Nbytes
        /\ b + Nbytes <= EeUnits
    BY <1>0, <2>2, WholeSectors, Sizes
  <2>7. Destination = b .. b + Nbytes - 1 BY <2>2 DEF Destination
  <2>8. DOMAIN e = EeMemory BY <1>0, StoredDomain
  <2>9. \A u \in EeMemory : ee'[u] # Junk => u \in Destination
    <3>1. TAKE u \in EeMemory
    <3>2. HAVE ee'[u] # Junk
    <3>3. u \in Int /\ t \in Int BY <2>6, Sizes DEF EeMemory
    <3> HIDE DEF t, e
    <3>4. u \notin t .. t + B2len - 1 => ee'[u] = e[u] BY <2>1, <2>3, <2>6, <2>8, <3>1, <3>3, StoredAt
    <3>5. u \notin b .. b + B1len - 1 => e[u] = ee[u] BY <1>0, <2>3, <2>6, <3>1, <3>3, StoredAt DEF e
    <3>6. ee[u] # Junk => u \in Destination BY <1>0, <2>1, <3>1 DEF DestInv, OnlyDestination
    <3>7. u \in t .. t + B2len - 1 => u \in Destination BY <2>6, <2>7, <3>3 DEF t
    <3>8. u \in b .. b + B1len - 1 => u \in Destination BY <2>6, <2>7, <3>3
    <3> QED BY <3>2, <3>4, <3>5, <3>6, <3>7, <3>8
  <2>10. DOMAIN ee' = EeMemory BY <2>1, <2>8, StoredDomain
  <2> QED BY <2>1, <2>5, <2>9, <2>10 DEF DestInv, OnlyDestination
<1>7. CASE ReadeeSend
  <2> DEFINE s == Part(fs_buf, FsvRbuf + B1len, SendSize)
  <2>1. /\ at = "send" /\ at' = "progress" /\ ee' = Stored(ee, my.addr, s)
        /\ my' = [my EXCEPT !.sent = my.sent + SendSize]
    BY <1>7 DEF ReadeeSend, Move
  <2>2. at \in Looping /\ my.call = "readee" BY <1>0, <2>1 DEF Looping, PlaceInv
  <2>3. my'.call = my.call /\ my'.buf = my.buf /\ my'.sectors = my.sectors /\ my'.chain = my.chain
    BY <1>0, <2>1 DEF Locals
  <2>4. Destination' = Destination BY <2>3, SameDestination
  <2>5. SendSize \in Nat BY <1>0, <2>1, SendSizes
  <2>6. my.addr = my.buf + B1len + my.sent /\ B1len + my.sent + SendSize <= Nbytes - B2len
        /\ my.sent = Done * SectorSize
    BY <1>0, <2>1, SendFits
  <2>7. my.buf \in Nat /\ B1len \in Nat /\ B2len \in Nat /\ Nbytes \in Nat /\ my.sent \in Nat
    BY <1>0, <2>2, <2>6, WholeSectors
  <2>8. DOMAIN s = 1 .. SendSize BY DEF Part
  <2>9. Destination = my.buf .. my.buf + Nbytes - 1 BY <2>2 DEF Destination
  <2>10. my.addr .. my.addr + SendSize - 1 \subseteq Destination BY <2>5, <2>6, <2>7, <2>9
  <2>11. my.addr \in Int BY <2>6, <2>7
  <2> HIDE DEF s
  <2> QED BY <1>0, <2>1, <2>4, <2>5, <2>8, <2>10, <2>11, DestWritten DEF Early
<1>8. CASE ChainNext \/ ChainRead \/ ChainRefused \/ ChainProgress \/ ReadiopmRead \/ ReadiopmSync
  <2>1. /\ at # "idle" /\ ee' = ee /\ at' \notin Early
        /\ my'.call = my.call /\ my'.buf = my.buf /\ my'.sectors = my.sectors /\ my'.chain = my.chain
    <3>1. CASE ChainNext BY <1>0, <3>1 DEF ChainNext, Early, Locals
    <3>2. CASE ChainRead BY <1>0, <3>2 DEF ChainRead, Move, Early, Locals
    <3> QED BY <1>0, <1>8, <3>1, <3>2 DEF ChainRefused, ChainProgress, ReadiopmRead, ReadiopmSync,
           Move, Early, Locals
  <2> QED BY <2>1, DestKept, SameDestination
<1>9. CASE ChainSync
  <2> DEFINE m == my.n * SectorSize
             s == Part(fs_buf, 0, m)
  <2>1. /\ at = "linksync" /\ at' = "linkread" /\ ee' = (IF Link.iop THEN ee ELSE Stored(ee, my.addr, s))
        /\ my' = [my EXCEPT !.lsn = my.lsn + my.n, !.left = my.left - my.n,
                            !.addr = my.addr + my.n * SectorSize, !.sent = my.sent + my.n * SectorSize]
    BY <1>9 DEF ChainSync, Move
  <2>2. my'.call = my.call /\ my'.buf = my.buf /\ my'.sectors = my.sectors /\ my'.chain = my.chain
    BY <1>0, <2>1 DEF Locals
  <2>3. Destination' = Destination BY <2>2, SameDestination
  <2>4. CASE Link.iop BY <2>1, <2>3, <2>4, DestKept DEF Early
  <2>5. CASE ~Link.iop
    <3> DEFINE x == LinkDone * SectorSize
               z == Link.sectors * SectorSize
    <3>1. /\ my.chain \in Chains /\ my.i \in 1 .. Len(my.chain) /\ m \in Nat /\ x \in Nat /\ z \in Nat
          /\ x + m <= z /\ my.addr = Link.buf + x /\ Link.buf \in Nat
      BY <1>0, <2>1, LinkFits
    <3>2. my.call = "readchain" BY <1>0, <2>1 DEF PlaceInv, Linking
    <3>3. Link.buf .. Link.buf + z - 1 \subseteq Destination
      <4>1. my.i \in {j \in 1 .. Len(my.chain) : ~my.chain[j].iop} BY <2>5, <3>1 DEF Link
      <4> QED BY <3>2, <4>1 DEF Destination, Link
    <3>4. DOMAIN s = 1 .. m BY DEF Part
    <3> HIDE DEF m, x, z, s
    <3>5. my.addr \in Int /\ my.addr .. my.addr + m - 1 \subseteq Link.buf .. Link.buf + z - 1 BY <3>1
    <3>6. my.addr .. my.addr + m - 1 \subseteq Destination BY <3>3, <3>5
    <3> QED BY <1>0, <2>1, <2>3, <2>5, <3>1, <3>4, <3>5, <3>6, DestWritten DEF Early
  <2> QED BY <2>4, <2>5
<1>10. CASE UNCHANGED fsvvars
  <2>1. UNCHANGED <<at, my, ee>> BY <1>10 DEF fsvvars
  <2> QED BY <2>1, DestKept, SameDestination DEF Early
<1> QED BY <1>1, <1>2, <1>3, <1>4, <1>5, <1>6, <1>7, <1>8, <1>9, <1>10 DEF FsvNext, RpcStep, Elsewhere

\* No call writes EE memory outside the buffers it was given: the DMA of the
\* passes, whose last line may go into buf2, the head and the tail the EE
\* copies itself, and the parts of the links of a chain, whatever becomes of
\* the reads.
THEOREM WritesStayInside == FsvSpec => []OnlyDestination
<1>1. FsvInit => DestInv BY DEF FsvInit, DestInv, OnlyDestination, EeMemory
<1>2. ControlInv /\ NumbersInv /\ DestInv /\ [FsvNext]_fsvvars => DestInv' BY DestStep
<1>3. DestInv => OnlyDestination BY DEF DestInv
<1> QED BY <1>1, <1>2, <1>3, Numbers, PTL DEF FsvSpec

-----------------------------------------------------------------------------
(***************************************************************************)
(* cdvdman_fs_buf holds what the last read was to bring, but for what it   *)
(* was cut short before, until the call has passed it on.                  *)
(***************************************************************************)
\* The others only add to the history of a call.
LEMMA ElsewhereHistory ==
  ASSUME Elsewhere
  PROVE  lost \subseteq lost' /\ (broken => broken')
<1>1. CASE DriveShort BY <1>1 DEF DriveShort
<1>2. CASE DriveBegin \/ DriveDone BY <1>2 DEF DriveBegin, DriveDone
<1>3. CASE CdromCall \/ CdromStep \/ RawRead BY <1>3 DEF CdromCall, CdromStep, CdromRead, CdromReturn, RawRead
<1>4. CASE cbrpc_cdvdScmds BY <1>4 DEF cbrpc_cdvdScmds
<1> QED BY <1>1, <1>2, <1>3, <1>4 DEF Elsewhere, DriveStep

\* While the RPC thread has cdrom_io_sema, nobody else's read comes into the
\* buffer.
LEMMA OthersLeaveBuffer ==
  ASSUME ControlInv, InRpc, Elsewhere
  PROVE  \/ fs_buf' = fs_buf /\ (Pending' <=> Pending)
         \/ (DriveDone \/ DriveShort) /\ Pending
<1>0. FsvTypes /\ SemaInv /\ DriveInv /\ cdrom = "idle" BY DEF ControlInv, SemaInv, FsvTypes
<1>1. CASE DriveBegin
  <2>1. ~DriveIdle /\ drive' = [drive EXCEPT !.begun = TRUE] /\ fs_buf' = fs_buf BY <1>1 DEF DriveBegin
  <2>2. drive \in DriveReads BY <1>0, <2>1 DEF FsvTypes, DriveIdle
  <2>3. drive' \in DriveReads /\ drive'.by = drive.by BY <2>1, <2>2 DEF DriveReads
  <2>4. NoRead \notin DriveReads BY FsvAssumption DEF DriveReads
  <2>5. drive' # NoRead BY <2>3, <2>4
  <2> QED BY <2>1, <2>3, <2>5 DEF Pending, DriveIdle
<1>2. CASE DriveDone \/ DriveShort
  <2>1. CASE Pending BY <1>2, <2>1
  <2>2. CASE ~Pending
    <3>1. ~DriveIdle /\ drive' = NoRead BY <1>2 DEF DriveDone, DriveShort, Finished
    <3>2. drive.by = "game"
      <4>1. drive.by \in {"rpc", "cdrom", "game"} BY <1>0, <3>1 DEF FsvTypes, DriveReads, DriveIdle
      <4> QED BY <1>0, <2>2, <3>1, <4>1 DEF DriveInv, Pending
    <3>3. drive.dst = "raw" BY <1>0, <3>1, <3>2 DEF DriveInv
    <3>4. fs_buf' = fs_buf BY <1>2, <3>3 DEF DriveDone, DriveShort, Delivered
    <3>5. ~Pending' BY <3>1 DEF Pending, DriveIdle
    <3> QED BY <2>2, <3>4, <3>5
  <2> QED BY <2>1, <2>2
<1>3. CASE CdromCall \/ CdromStep
  <2>1. io_sema # 1 BY <1>0 DEF SemaInv
  <2> QED BY <1>0, <1>3, <2>1 DEF CdromCall, CdromStep, CdromRead, CdromReturn
<1>4. CASE RawRead
  <2>1. DriveIdle /\ fs_buf' = fs_buf /\ drive'.by = "game" BY <1>4 DEF RawRead, Accepted
  <2>2. ~Pending /\ ~Pending' BY <2>1 DEF Pending
  <2> QED BY <2>1, <2>2
<1>5. CASE cbrpc_cdvdScmds
  <2>1. drive' = drive /\ fs_buf' = fs_buf BY <1>5 DEF cbrpc_cdvdScmds
  <2>2. Pending' <=> Pending BY <2>1 DEF Pending, DriveIdle
  <2> QED BY <2>1, <2>2
<1> QED BY <1>1, <1>2, <1>3, <1>4, <1>5 DEF Elsewhere, DriveStep

\* The read path has brought the read it was given, or says what it left out.
LEMMA BufferFilled ==
  ASSUME ControlInv, NumbersInv, DriveDone \/ DriveShort, Pending, at \in {"sync", "linksync"},
         drive.dst = "fs_buf", NEW p, NEW l, NEW m, p = drive.off, l = drive.lsn, m = drive.n,
         p \in Nat, m \in Nat, l \in Int
  PROVE  \A k \in 0 .. m * SectorSize - 1 : Brought(fs_buf, p + k, l * SectorSize + k)'
<1>1. m * SectorSize \in Nat /\ l * SectorSize \in Int BY Sizes, Times
<1>2. p + m * SectorSize <= FsBufUnits BY Fits DEF FsBufNotOverrun, Pending
<1>3. DOMAIN fs_buf = FsMemory BY DEF ControlInv, FsvTypes
<1>4. PICK n \in 0 .. m : /\ fs_buf' = Stored(fs_buf, p, Disc(l * SectorSize, n * SectorSize))
                          /\ n = m \/ lost' = lost \cup LeftOut(n)
  <2>1. CASE DriveDone BY <2>1 DEF DriveDone, Delivered
  <2>2. CASE DriveShort
    <3>1. PICK n \in 0 .. m - 1 : fs_buf' = Delivered(n) /\ lost' = lost \cup LeftOut(n)
      BY <2>2 DEF DriveShort, Pending
    <3>2. n \in 0 .. m OBVIOUS
    <3> QED BY <3>1, <3>2 DEF Delivered
  <2> QED BY <2>1, <2>2
<1> DEFINE x == m * SectorSize
           y == l * SectorSize
           z == n * SectorSize
<1>5. n \in Nat /\ n <= m OBVIOUS
<1>6. z \in Nat /\ z <= x BY <1>5, Sizes, Times
<1>7. LeftOut(n) = y + z .. y + x - 1 BY DEF LeftOut
<1>8. fs_buf' = Stored(fs_buf, p, Disc(y, z)) BY <1>4
<1>9. n = m => z = x OBVIOUS
<1> HIDE DEF x, y, z
<1>10. x \in Nat /\ y \in Int /\ p + z <= FsBufUnits BY <1>1, <1>2, <1>6, Sizes DEF x, y
<1>11. \A k \in 0 .. z - 1 : fs_buf'[p + k] = y + k BY <1>3, <1>6, <1>8, <1>10, FsFilled
<1>12. ASSUME NEW k \in 0 .. x - 1 PROVE fs_buf'[p + k] = y + k \/ y + k \in lost'
  <2>1. CASE k < z
    <3>1. k \in 0 .. z - 1 BY <1>6, <1>10, <2>1
    <3> QED BY <1>11, <3>1
  <2>2. CASE k >= z
    <3>1. n # m BY <1>6, <1>9, <1>10, <2>2
    <3>2. y + k \in y + z .. y + x - 1 BY <1>6, <1>10, <2>2
    <3> QED BY <1>4, <1>7, <3>1, <3>2
  <2> QED BY <1>6, <1>10, <2>1, <2>2
<1> QED BY <1>12 DEF x, y, Brought

\* Every step keeps Arrived.
LEMMA ArrivedStep ==
  ASSUME ControlInv, NumbersInv, Arrived, [FsvNext]_fsvvars
  PROVE  Arrived'
<1>0. FsvTypes /\ PlaceInv /\ ReadeeNumbers /\ ChainNumbers /\ my \in Locals /\ DriveInv
  BY DEF ControlInv, NumbersInv, FsvTypes
<1>1. CASE at' \notin {"sync", "send", "progress", "linksync"} BY <1>1 DEF Arrived
<1>2. CASE at' \in {"sync", "send", "progress", "linksync"}
  <2>2. CASE Elsewhere
    <3>1. UNCHANGED <<at, my>> BY <2>2, ElsewhereKeeps
    <3>2. FsvRbuf' = FsvRbuf /\ Link' = Link /\ SectorsRead(my.n)' = SectorsRead(my.n)
      BY <3>1, GeoKept DEF Link
    <3>3. InRpc BY <1>2, <3>1 DEF InRpc
    <3>4. CASE fs_buf' = fs_buf /\ (Pending' <=> Pending)
      <4>1. lost \subseteq lost' BY <2>2, ElsewhereHistory
      <4> QED BY <3>1, <3>2, <3>4, <4>1 DEF Arrived, FsHolds, Brought
    <3>5. CASE (DriveDone \/ DriveShort) /\ Pending
      <4>1. at \in {"sync", "linksync"} BY <1>0, <1>2, <3>1, <3>5 DEF DriveInv, Pending, Waiting
      <4>2. CASE at = "sync"
        <5> DEFINE m == SectorsRead(my.n)
        <5>1. drive.dst = "fs_buf" /\ drive.lsn = my.lsn /\ drive.n = m /\ drive.off = FsvRbuf
          BY <1>0, <3>5, <4>2 DEF DriveInv, Pending
        <5>2. my.n = Nsectors /\ my.left > 0 BY <1>0, <4>2 DEF ReadeeNumbers, Looping
        <5>3. m \in Nat /\ FsvRbuf \in Nat BY <1>0, <4>2, <5>2, Passes DEF Looping
        <5>4. my.lsn \in Int BY <1>0 DEF Locals
        <5> HIDE DEF m
        <5>5. \A k \in 0 .. m * SectorSize - 1 :
                fs_buf'[FsvRbuf + k] = my.lsn * SectorSize + k \/ my.lsn * SectorSize + k \in lost'
          BY <3>5, <4>1, <5>1, <5>3, <5>4, BufferFilled DEF Brought
        <5> QED BY <3>1, <3>2, <4>2, <5>5 DEF Arrived, FsHolds, Brought, m
      <4>3. CASE at = "linksync" /\ ~Link.iop
        <5>1. drive.dst = "fs_buf" /\ drive.lsn = my.lsn /\ drive.n = my.n /\ drive.off = 0
          BY <1>0, <3>5, <4>3 DEF DriveInv, Pending
        <5>2. my.n \in Nat /\ my.lsn \in Int BY <4>3, LinkFits, <1>0 DEF NumbersInv, Locals
        <5>3. \A k \in 0 .. my.n * SectorSize - 1 :
                fs_buf'[0 + k] = my.lsn * SectorSize + k \/ my.lsn * SectorSize + k \in lost'
          BY <3>5, <4>1, <5>1, <5>2, BufferFilled DEF Brought
        <5> QED BY <3>1, <4>3, <5>3 DEF Arrived, FsHolds, Brought
      <4>4. CASE at = "linksync" /\ Link.iop BY <3>1, <3>2, <4>4 DEF Arrived
      <4> QED BY <4>1, <4>2, <4>3, <4>4
    <3> QED BY <2>2, <3>3, <3>4, <3>5, OthersLeaveBuffer
  <2>3. CASE ReadeeRead
    <3>1. drive' = FsRead(my.lsn, SectorsRead(my.n), FsvRbuf) /\ at' = "sync" BY <2>3 DEF ReadeeRead, Accepted, Move
    <3>2. drive'.by = "rpc" BY <3>1 DEF FsRead
    <3>3. drive' # NoRead
      <4>1. at \in Looping /\ my.n = Nsectors /\ my.left > 0 BY <1>0, <2>3 DEF ReadeeNumbers, Looping, ReadeeRead, Move
      <4>2. SectorsRead(my.n) \in Int /\ FsvRbuf \in Int /\ my.lsn \in Int BY <1>0, <4>1, Passes DEF Locals
      <4>3. drive' \in DriveReads BY <3>1, <4>2 DEF FsRead, DriveReads
      <4>4. NoRead \notin DriveReads BY FsvAssumption DEF DriveReads
      <4> QED BY <4>3, <4>4
    <3> QED BY <3>1, <3>2, <3>3 DEF Arrived, Pending, DriveIdle
  <2>4. CASE ReadeeSync
    <3>1. at = "sync" /\ at' = "send" /\ UNCHANGED <<my, fs_buf, lost>> /\ ~Pending BY <2>4 DEF ReadeeSync, Move, Pending
    <3>2. FsvRbuf' = FsvRbuf /\ SectorsRead(my.n)' = SectorsRead(my.n) BY <3>1, GeoKept
    <3> QED BY <3>1, <3>2 DEF Arrived, FsHolds, Brought
  <2>5. CASE ReadeeSend
    <3>1. at = "send" /\ at' = "progress" /\ UNCHANGED <<fs_buf, lost>>
          /\ my' = [my EXCEPT !.sent = my.sent + SendSize]
      BY <2>5 DEF ReadeeSend, Move
    <3>2. my'.buf = my.buf /\ my'.sectors = my.sectors /\ my'.n = my.n /\ my'.lsn = my.lsn BY <1>0, <3>1 DEF Locals
    <3>3. FsvRbuf' = FsvRbuf /\ SectorsRead(my.n)' = SectorsRead(my'.n)
      BY <3>2, GeoKept DEF SectorsRead
    <3>4. SectorsRead(my.n)' = SectorsRead(my.n) BY <3>2, GeoKept DEF SectorsRead
    <3> QED BY <3>1, <3>2, <3>3, <3>4 DEF Arrived, FsHolds, Brought
  <2>6. CASE ChainRead
    <3> DEFINE n == IF Link.iop THEN my.left ELSE Min2(my.left, CDVDFSV_BUF_SECTORS)
               r == IF Link.iop THEN IopRead(my.lsn, n) ELSE FsRead(my.lsn, n, 0)
    <3>1. at' = "linksync" /\ drive' = r BY <2>6 DEF ChainRead, Accepted, Move
    <3>2. n \in Int /\ my.lsn \in Int BY <1>0, Sizes DEF Locals, Min2
    <3> HIDE DEF n
    <3>3. r \in DriveReads /\ r.by = "rpc" BY <3>2 DEF FsRead, IopRead, DriveReads
    <3>4. NoRead \notin DriveReads BY FsvAssumption DEF DriveReads
    <3>5. Pending' BY <3>1, <3>3, <3>4 DEF Pending, DriveIdle
    <3> QED BY <3>1, <3>5 DEF Arrived
  <2>7. CASE UNCHANGED fsvvars
    <3>1. UNCHANGED <<at, my, fs_buf, drive, lost>> BY <2>7 DEF fsvvars
    <3>2. FsvRbuf' = FsvRbuf /\ Link' = Link /\ SectorsRead(my.n)' = SectorsRead(my.n) /\ Pending' = Pending
      BY <3>1, GeoKept DEF Link, Pending, DriveIdle
    <3> QED BY <3>1, <3>2 DEF Arrived, FsHolds, Brought
  <2>8. CASE \/ RpcArrives \/ cbrpc_cdvdNcmds \/ NcmdReturn \/ DiskReady \/ ReadeeBegin \/ ReadeeEnd \/ ReadeeNext
             \/ ReadeeRefused \/ ReadeeProgress \/ ChainNext \/ ChainRefused \/ ChainSync \/ ChainProgress
             \/ ReadiopmRead \/ ReadiopmSync
    <3>1. CASE RpcArrives
      BY <1>2, <3>1 DEF RpcArrives, CallReadee, CallReadchain, CallReadiopm, CallOther, RpcCall, Move
    <3>2. CASE ChainNext BY <1>2, <3>2 DEF ChainNext
    <3> QED BY <1>2, <2>8, <3>1, <3>2 DEF cbrpc_cdvdNcmds, NcmdReturn, DiskReady, ReadeeBegin, ReadeeEnd, ReadeeNext,
           ReadeeRefused, ReadeeProgress, ChainRefused, ChainSync, ChainProgress, ReadiopmRead, ReadiopmSync, Move
  <2> QED BY <2>2, <2>3, <2>4, <2>5, <2>6, <2>7, <2>8 DEF FsvNext, RpcStep, Elsewhere
<1> QED BY <1>1, <1>2

-----------------------------------------------------------------------------
(***************************************************************************)
(* What cdvd_readee has brought: the head in buf1, the tail in buf2, and   *)
(* by DMA what lies between them.                                          *)
(***************************************************************************)
\* Where a pass finds its sectors in cdvdman_fs_buf: the head of the first,
\* and what is sent, are in what was read.
LEMMA PassArrived ==
  ASSUME ControlInv, NumbersInv, Arrived, at \in {"send", "progress"} \/ (at = "sync" /\ DriveIdle),
         NEW j \in Nat, j < SectorsRead(my.n) * SectorSize
  PROVE  Brought(fs_buf, FsvRbuf + j, my.first * SectorSize + Done * SectorSize + j)
<1>1. ReadeeNumbers /\ PlaceInv /\ at \in Looping BY DEF ControlInv, NumbersInv, Looping
<1>2. my.lsn = my.first + Done /\ my.first \in Nat /\ Done \in Nat /\ my.left > 0 /\ my.n = Nsectors
  BY <1>1, WholeSectors DEF ReadeeNumbers
<1>3. (my.first + Done) * SectorSize = my.first * SectorSize + Done * SectorSize BY <1>2, Sizes, Times
<1>4. SectorsRead(my.n) \in Nat BY <1>1, <1>2, Passes
<1>5. SectorsRead(my.n) * SectorSize \in Nat BY <1>4, Sizes, Times
<1>6. FsHolds(FsvRbuf, my.lsn * SectorSize, SectorsRead(my.n) * SectorSize)
  BY DEF Arrived, Pending
<1>7. j \in 0 .. SectorsRead(my.n) * SectorSize - 1 BY <1>5
<1>8. Brought(fs_buf, FsvRbuf + j, my.lsn * SectorSize + j) BY <1>6, <1>7 DEF FsHolds
<1> QED BY <1>2, <1>3, <1>8

\* The sectors of a pass, and for an unaligned call a sector more.
LEMMA PassSize ==
  ASSUME PlaceInv, ReadeeNumbers, at \in {"sync", "send", "progress"}
  PROVE  /\ my.n \in Nat /\ my.n >= 1 /\ my.n <= my.left /\ my.n * SectorSize \in Nat
         /\ SectorSize <= my.n * SectorSize
         /\ SectorsRead(my.n) * SectorSize = IF Aligned THEN my.n * SectorSize ELSE my.n * SectorSize + SectorSize
<1>1. my.call = "readee" /\ at \in Looping /\ my.left > 0 /\ my.n = Nsectors
  BY DEF PlaceInv, ReadeeNumbers, Looping
<1>2. my.n \in Nat /\ my.n >= 1 /\ my.n <= my.left
  <2>1. my.n \in 1 .. my.left BY <1>1, Passes
  <2>2. my.left \in Int BY <1>1, ReadeeGiven DEF ReadeeNumbers
  <2> QED BY <2>1, <2>2
<1>3. my.n * SectorSize \in Nat /\ 1 * SectorSize <= my.n * SectorSize BY <1>2, Sizes, Times
<1>4. (my.n + 1) * SectorSize = my.n * SectorSize + 1 * SectorSize BY <1>2, Sizes, Times
<1>5. 1 * SectorSize = SectorSize BY Sizes
<1> QED BY <1>2, <1>3, <1>4, <1>5 DEF SectorsRead

\* A step that leaves memory and call alone keeps ReadeeData.
LEMMA ReadeeDataKept ==
  ASSUME ReadeeData, UNCHANGED <<at, my, ee, readee, curlsn, result>>,
         lost \subseteq lost', broken => broken'
  PROVE  ReadeeData'
<1>1. Nbytes' = Nbytes /\ B1len' = B1len /\ B2len' = B2len BY GeoKept
<1>2. \A p, f, n : Holds(p, f, n) => Holds(p, f, n)' BY DEF Holds, Brought
<1>3. \A t, f, n : Message(t, f, n) => \A i \in 1 .. n : Brought(t, i, f + i - 1)' BY DEF Message, Brought
<1>4. my.first' * SectorSize = my.first * SectorSize OBVIOUS
<1>5. CASE at \in Looping
  <2>1. Holds(my.buf + B1len, my.first * SectorSize + B1len, my.sent)' BY <1>1, <1>2, <1>5 DEF ReadeeData
  <2>2. my.left < my.sectors \/ at \in {"send", "progress"} => Message(readee.buf1, my.first * SectorSize, B1len)'
    BY <1>1, <1>3, <1>5 DEF ReadeeData, Message
  <2>3. at = "head" /\ my.left = 0 => Message(readee.buf2, my.first * SectorSize + (Nbytes - B2len), B2len)'
    BY <1>1, <1>3, <1>5 DEF ReadeeData, Message
  <2> QED BY <1>5, <2>1, <2>2, <2>3 DEF ReadeeData, Looping
<1>6. CASE my.call = "readee" /\ at = "leave"
  <2>1. Holds(my.buf + B1len, my.first * SectorSize + B1len, my.sent)' BY <1>1, <1>2, <1>6 DEF ReadeeData
  <2>2. my.ok => Holds(my.buf, my.first * SectorSize, Nbytes)' BY <1>1, <1>2, <1>6 DEF ReadeeData
  <2>3. curlsn' <= my'.sent \/ curlsn' = Nbytes' BY <1>1, <1>6 DEF ReadeeData
  <2>4. result' = curlsn' /\ (result' = Nbytes' => my'.ok \/ broken') BY <1>1, <1>6 DEF ReadeeData
  <2> QED BY <1>6, <2>1, <2>2, <2>3, <2>4 DEF ReadeeData, Looping
<1>7. CASE at \notin Looping /\ ~(my.call = "readee" /\ at = "leave") BY <1>7 DEF ReadeeData
<1> QED BY <1>5, <1>6, <1>7

\* The end of a pass's read,
LEMMA ReadeeSyncData ==
  ASSUME ControlInv, NumbersInv, Arrived, ReadeeData, ReadeeSync
  PROVE  ReadeeData'
<1>0. FsvTypes /\ PlaceInv /\ ReadeeNumbers BY DEF ControlInv, NumbersInv
<1>1. /\ at = "sync" /\ at' = "send" /\ my' = my /\ ee' = ee /\ lost' = lost /\ DriveIdle
      /\ readee' = IF ~Aligned /\ my.left = my.sectors
                     THEN [readee EXCEPT !.buf1 = Part(fs_buf, FsvRbuf, B1len)] ELSE readee
  BY DEF ReadeeSync, Move
<1>2. Nbytes' = Nbytes /\ B1len' = B1len /\ B2len' = B2len BY <1>1, GeoKept
<1>3. Holds(my.buf + B1len, my.first * SectorSize + B1len, my.sent) BY <1>1 DEF ReadeeData, Looping
<1>4. Message(readee'.buf1, my.first * SectorSize, B1len)
  <2>1. at \in Looping /\ my.call = "readee" BY <1>0, <1>1 DEF Looping, PlaceInv
  <2>2. /\ Done = 0 => Done * SectorSize = 0
        /\ my.first \in Nat /\ B1len \in Nat /\ B1len < Align
    BY <1>0, <2>1, WholeSectors
  <2>3. Aligned => B1len = 0 BY <2>1, <1>0, ReadeeGiven, Lines
  <2>4. my.left \in 0 .. my.sectors /\ my.sectors \in Nat BY <1>0, <2>1, ReadeeGiven DEF ReadeeNumbers
  <2>5. CASE my.left # my.sectors
    <3>1. my.left < my.sectors BY <2>4, <2>5
    <3> QED BY <1>1, <2>1, <2>5, <3>1 DEF ReadeeData
  <2>6. CASE Aligned BY <2>3, <2>6 DEF Message
  <2>7. CASE ~Aligned /\ my.left = my.sectors
    <3>1. readee'.buf1 = Part(fs_buf, FsvRbuf, B1len)
      <4>1. DOMAIN readee.buf1 = 1 .. B1len BY <1>0, <2>1 DEF ReadeeNumbers
      <4>2. at \in Looping BY <2>1
      <4> QED BY <1>1, <2>7 DEF ReadeeNumbers
    <3>2. Done * SectorSize = 0 BY <2>2, <2>4, <2>7 DEF Done
    <3>3. ASSUME NEW i \in 1 .. B1len PROVE Brought(readee'.buf1, i, my.first * SectorSize + i - 1)
      <4>1. Part(fs_buf, FsvRbuf, B1len)[i] = fs_buf[FsvRbuf + i - 1]
        <5>1. FsvRbuf \in Int BY <1>0, <2>1, WholeSectors DEF FsvRbuf
        <5> QED BY <2>2, <5>1, PartIs
      <4>2. i - 1 \in Nat /\ i - 1 < SectorSize BY <2>2, Sizes
      <4>3. i - 1 < SectorsRead(my.n) * SectorSize
        <5> DEFINE y == my.n * SectorSize
        <5>1. y \in Nat /\ SectorSize <= y /\ SectorsRead(my.n) * SectorSize = y + SectorSize
          BY <1>0, <1>1, <2>7, PassSize
        <5> HIDE DEF y
        <5> QED BY <4>2, <5>1, Sizes
      <4>4. Brought(fs_buf, FsvRbuf + (i - 1), my.first * SectorSize + Done * SectorSize + (i - 1))
        BY <1>1, <4>2, <4>3, PassArrived
      <4>5. FsvRbuf + (i - 1) = FsvRbuf + i - 1
        <5>1. FsvRbuf \in Int BY <1>0, <2>1, WholeSectors DEF FsvRbuf
        <5> QED BY <5>1
      <4>6. my.first * SectorSize \in Int BY <2>2, Sizes, Times
      <4> DEFINE x == my.first * SectorSize
      <4> HIDE DEF x
      <4>7. x \in Int /\ Brought(fs_buf, FsvRbuf + (i - 1), x + 0 + (i - 1)) BY <3>2, <4>4, <4>6 DEF x
      <4>8. x + 0 + (i - 1) = x + i - 1 BY <4>7
      <4> QED BY <3>1, <4>1, <4>5, <4>7, <4>8 DEF x, Brought
    <3> QED BY <3>3 DEF Message
  <2> QED BY <2>5, <2>6, <2>7
<1>5. Holds(my.buf + B1len, my.first * SectorSize + B1len, my.sent)' BY <1>1, <1>2, <1>3 DEF Holds, Brought
<1>6. Message(readee.buf1, my.first * SectorSize, B1len)' BY <1>1, <1>2, <1>4 DEF Message, Brought
<1> QED BY <1>1, <1>5, <1>6 DEF ReadeeData, Looping

\* its DMA,
LEMMA ReadeeSendData ==
  ASSUME ControlInv, NumbersInv, Arrived, ReadeeData, ReadeeSend
  PROVE  ReadeeData'
<1>0. FsvTypes /\ PlaceInv /\ ReadeeNumbers /\ my \in Locals /\ DOMAIN ee = EeMemory
  BY DEF ControlInv, NumbersInv, FsvTypes
<1> DEFINE p == my.buf + B1len
           s == my.sent
           c == my.first * SectorSize + B1len
           q == FsvRbuf + B1len
           m == SendSize
<1>1. /\ at = "send" /\ at' = "progress" /\ readee' = readee /\ lost' = lost
      /\ ee' = Stored(ee, my.addr, Part(fs_buf, q, m)) /\ my' = [my EXCEPT !.sent = s + m]
  BY DEF ReadeeSend, Move
<1>2. at \in Looping /\ my.call = "readee" BY <1>0, <1>1 DEF Looping, PlaceInv
<1>3. my'.buf = my.buf /\ my'.sectors = my.sectors /\ my'.first = my.first /\ my'.left = my.left
      /\ my'.sent = s + m
  BY <1>0, <1>1 DEF Locals
<1>4. Nbytes' = Nbytes /\ B1len' = B1len /\ B2len' = B2len BY <1>3, GeoKept
<1>5. /\ my.buf \in Nat /\ my.first \in Nat /\ B1len \in Nat /\ B2len \in Nat /\ Nbytes \in Nat
      /\ my.buf + Nbytes <= EeUnits /\ Done * SectorSize \in Nat /\ B1len < Align
  BY <1>0, <1>2, WholeSectors
<1>6. s = Done * SectorSize /\ my.addr = my.buf + B1len + s /\ B1len + s + m <= Nbytes - B2len
  BY <1>0, <1>1, SendFits
<1>7. /\ m \in Nat
      /\ m = IF my.left = my.n /\ ~Aligned THEN my.n * SectorSize - Align ELSE my.n * SectorSize
  BY <1>0, <1>1, SendSizes
<1>8. \A k \in 0 .. m - 1 : Brought(fs_buf, q + k, c + s + k)
  <2>1. TAKE k \in 0 .. m - 1
  <2>2. B1len + k \in Nat BY <1>5
  <2>3. B1len + k < SectorsRead(my.n) * SectorSize
    <3> DEFINE y == my.n * SectorSize
    <3>1. y \in Nat /\ SectorsRead(my.n) * SectorSize = IF Aligned THEN y ELSE y + SectorSize
      BY <1>0, <1>1, PassSize
    <3>2. Aligned => B1len = 0 BY <1>0, <1>2, ReadeeGiven, Lines
    <3>3. m <= y
      <4> HIDE DEF m, y
      <4>1. m = y - Align \/ m = y BY <1>7 DEF y
      <4> QED BY <3>1, <4>1, Sizes
    <3> HIDE DEF m, y
    <3>4. k \in Nat /\ k < m BY <1>7, <2>1
    <3> QED BY <1>5, <1>7, <3>1, <3>2, <3>3, <3>4, Sizes
  <2>4. Brought(fs_buf, FsvRbuf + (B1len + k), my.first * SectorSize + Done * SectorSize + (B1len + k))
    BY <1>1, <2>2, <2>3, PassArrived
  <2>5. FsvRbuf + (B1len + k) = q + k BY <1>5 DEF FsvRbuf
  <2>6. my.first * SectorSize \in Int BY <1>5, Sizes, Times
  <2> DEFINE x == my.first * SectorSize
             z == Done * SectorSize
  <2>7. x \in Int /\ z \in Int /\ c = x + B1len /\ s = z BY <1>5, <1>6, <2>6
  <2>8. Brought(fs_buf, q + k, x + z + (B1len + k)) BY <2>4, <2>5
  <2> HIDE DEF x, z, c, q, s
  <2>9. x + z + (B1len + k) = c + s + k BY <1>5, <2>7
  <2> QED BY <2>8, <2>9
<1>9. Holds(p, c, s) BY <1>2 DEF ReadeeData
<1>10. p \in Nat /\ c \in Int /\ s \in Nat /\ q \in Int /\ p + s + m <= EeUnits /\ my.addr = p + s
  <2>1. c \in Int BY <1>5, Sizes, Times
  <2>2. s \in Nat BY <1>5, <1>6
  <2>3. q \in Int BY <1>5 DEF FsvRbuf
  <2> HIDE DEF m, s
  <2>4. p + s + m <= EeUnits BY <1>5, <1>6, <1>7, <2>2, Sizes
  <2> QED BY <1>5, <1>6, <2>1, <2>2, <2>3, <2>4
<1>11. Has(ee', p, c, s + m)
  <2>1. FsHolds(q, c + s, m) BY <1>8 DEF FsHolds
  <2>2. c + s \in Int /\ my.addr \in Int /\ my.addr + m <= EeUnits BY <1>10
  <2> HIDE DEF p, s, c, q, m
  <2> QED BY <1>0, <1>1, <1>7, <1>9, <1>10, <2>1, <2>2, SentOn
<1>12. Message(readee.buf1, my.first * SectorSize, B1len) BY <1>1, <1>2 DEF ReadeeData
<1>13. Holds(my.buf + B1len, my.first * SectorSize + B1len, my.sent)'
  <2> HIDE DEF m, s
  <2> QED BY <1>1, <1>3, <1>4, <1>11 DEF Holds, Has, Brought
<1>14. Message(readee.buf1, my.first * SectorSize, B1len)' BY <1>1, <1>3, <1>4, <1>12 DEF Message, Brought
<1> QED BY <1>1, <1>13, <1>14 DEF ReadeeData, Looping

\* and its progress.
LEMMA ReadeeProgressData ==
  ASSUME ControlInv, NumbersInv, Arrived, ReadeeData, ReadeeProgress
  PROVE  ReadeeData'
<1>0. FsvTypes /\ PlaceInv /\ ReadeeNumbers /\ my \in Locals BY DEF ControlInv, NumbersInv, FsvTypes
<1> DEFINE y == my.n * SectorSize
           z == Done * SectorSize
           x == my.first * SectorSize
<1>1. /\ at = "progress" /\ at' = "head" /\ ee' = ee /\ lost' = lost
      /\ my' = [my EXCEPT !.left = my.left - my.n, !.lsn = my.lsn + my.n, !.addr = my.addr + y]
      /\ readee' = IF ~Aligned /\ my.left = my.n
                     THEN [readee EXCEPT !.buf2 = Part(fs_buf, FsvRbuf + y - B2len, B2len)] ELSE readee
  BY DEF ReadeeProgress, Move
<1>2. at \in Looping /\ my.call = "readee" BY <1>0, <1>1 DEF Looping, PlaceInv
<1>3. my'.buf = my.buf /\ my'.sectors = my.sectors /\ my'.first = my.first /\ my'.left = my.left - my.n
      /\ my'.sent = my.sent
  BY <1>0, <1>1 DEF Locals
<1>4. Nbytes' = Nbytes /\ B1len' = B1len /\ B2len' = B2len BY <1>3, GeoKept
<1>5. /\ my.buf \in Nat /\ my.first \in Nat /\ B1len \in Nat /\ B2len \in Nat /\ Nbytes \in Nat
      /\ z \in Nat /\ B2len < Align /\ Done \in Nat
  BY <1>0, <1>2, WholeSectors
<1>6. my.n \in Nat /\ my.n >= 1 /\ y \in Nat /\ SectorSize <= y
      /\ SectorsRead(my.n) * SectorSize = IF Aligned THEN y ELSE y + SectorSize
  BY <1>0, <1>1, PassSize
<1>7. Holds(my.buf + B1len, x + B1len, my.sent) /\ Message(readee.buf1, x, B1len)
  BY <1>1, <1>2 DEF ReadeeData
<1>8. Message(readee'.buf1, x, B1len)
  <2>1. readee'.buf1 = readee.buf1 BY <1>1
  <2> QED BY <1>7, <2>1
<1>9. ASSUME my.left = my.n PROVE Message(readee'.buf2, x + (Nbytes - B2len), B2len)
  <2>1. CASE Aligned
    <3>1. B2len = 0 BY <1>0, <1>2, <2>1, ReadeeGiven, Lines
    <3> QED BY <3>1 DEF Message
  <2>2. CASE ~Aligned
    <3>1. readee'.buf2 = Part(fs_buf, FsvRbuf + y - B2len, B2len)
      <4>1. readee' = [readee EXCEPT !.buf2 = Part(fs_buf, FsvRbuf + y - B2len, B2len)] BY <1>1, <1>9, <2>2
      <4> QED BY <4>1, <1>2, <1>0 DEF ReadeeNumbers
    <3>2. Nbytes = z + y
      <4>1. my.sectors = Done + my.n
        <5>1. my.sectors \in Int /\ my.n \in Int BY <1>0 DEF Locals
        <5> QED BY <1>9, <5>1 DEF Done
      <4>2. (Done + my.n) * SectorSize = z + y BY <1>5, <1>6, Sizes, Times
      <4> QED BY <4>1, <4>2 DEF Nbytes
    <3>3. ASSUME NEW i \in 1 .. B2len PROVE Brought(readee'.buf2, i, x + (Nbytes - B2len) + i - 1)
      <4> DEFINE j == y - B2len + i - 1
      <4>0. FsvRbuf \in Int /\ x \in Int BY <1>5, Sizes, Times DEF FsvRbuf
      <4>1. j \in Nat /\ j < SectorsRead(my.n) * SectorSize
        <5> HIDE DEF y
        <5> QED BY <1>5, <1>6, <2>2, Sizes
      <4>2. Brought(fs_buf, FsvRbuf + j, x + z + j) BY <1>1, <4>1, PassArrived
      <4>3. Part(fs_buf, FsvRbuf + y - B2len, B2len)[i] = fs_buf[FsvRbuf + y - B2len + i - 1]
        <5> HIDE DEF y
        <5>1. FsvRbuf + y - B2len \in Int BY <1>5, <1>6, <4>0
        <5> QED BY <1>5, <5>1, PartIs
      <4> HIDE DEF x, y, z
      <4>4. FsvRbuf + j = FsvRbuf + y - B2len + i - 1 BY <1>5, <1>6, <4>0
      <4>5. x + z + j = x + (Nbytes - B2len) + i - 1 BY <1>5, <1>6, <3>2, <4>0
      <4> QED BY <3>1, <4>2, <4>3, <4>4, <4>5 DEF Brought
    <3> QED BY <3>3 DEF Message
  <2> QED BY <2>1, <2>2
<1>10. Holds(my.buf + B1len, my.first * SectorSize + B1len, my.sent)' BY <1>1, <1>3, <1>4, <1>7 DEF Holds, Brought
<1>11. Message(readee.buf1, my.first * SectorSize, B1len)' BY <1>1, <1>3, <1>4, <1>8 DEF Message, Brought
<1>12. my'.left = 0 => Message(readee.buf2, my.first * SectorSize + (Nbytes - B2len), B2len)'
  <2>1. my'.left = 0 => my.left = my.n
    <3>1. my.left \in Int /\ my.n \in Int BY <1>0 DEF Locals
    <3> QED BY <1>3, <3>1
  <2> QED BY <1>1, <1>3, <1>4, <1>9, <2>1 DEF Message, Brought
<1> QED BY <1>1, <1>10, <1>11, <1>12 DEF ReadeeData, Looping

\* The EE puts head and tail to what the DMA brought, and writes nothing over
\* it: at the end of the passes, and after a sceCdBreak between them.
LEMMA ReadeeEndData ==
  ASSUME ControlInv, NumbersInv, BrokenInv, ReadeeData, ReadeeEnd
  PROVE  ReadeeData'
<1>0. FsvTypes /\ PlaceInv /\ ReadeeNumbers /\ my \in Locals /\ DOMAIN ee = EeMemory
  BY DEF ControlInv, NumbersInv, FsvTypes
<1> DEFINE b == my.buf
           t == my.buf + Nbytes - B2len
           e == Stored(ee, b, readee.buf1)
           x == my.first * SectorSize
<1>1. /\ at = "head" /\ at' = "leave" /\ ee' = Stored(e, t, readee.buf2) /\ curlsn' = Nbytes /\ result' = Nbytes
      /\ my' = [my EXCEPT !.ok = (my.left = 0)] /\ lost' = lost /\ broken' = broken
      /\ my.left = 0 \/ err = "ABRT"
  BY DEF ReadeeEnd, Move
<1>2. at \in Looping /\ my.call = "readee" BY <1>0, <1>1 DEF Looping, PlaceInv
<1>3. my'.buf = my.buf /\ my'.sectors = my.sectors /\ my'.first = my.first /\ my'.ok = (my.left = 0)
      /\ my'.sent = my.sent
  BY <1>0, <1>1 DEF Locals
<1>4. Nbytes' = Nbytes /\ B1len' = B1len /\ B2len' = B2len BY <1>3, GeoKept
<1>5. /\ b \in Nat /\ my.first \in Nat /\ B1len \in Nat /\ B2len \in Nat /\ Nbytes \in Nat
      /\ b + Nbytes <= EeUnits /\ B1len < Align /\ B2len < Align /\ SectorSize <= Nbytes
      /\ Done * SectorSize \in Nat
  BY <1>0, <1>2, WholeSectors
<1>6. /\ Aligned => B1len = 0 /\ B2len = 0
      /\ ~Aligned => B1len + B2len = Align
      /\ Aligned \in BOOLEAN
  BY <1>0, <1>2, ReadeeGiven, Lines
<1>7. my.sectors \in Nat /\ my.sectors > 0 /\ my.left \in 0 .. my.sectors BY <1>0, <1>2, ReadeeGiven DEF ReadeeNumbers
<1>8. my.left = 0 => my.sent = Nbytes - B1len - B2len
  <2>1. my.sent = Sent BY <1>0, <1>1, <1>2 DEF ReadeeNumbers
  <2>2. my.left = 0 => Done = my.sectors BY <1>7 DEF Done
  <2>3. my.left = 0 => Sent = IF ~Aligned THEN Nbytes - Align ELSE Nbytes BY <2>2 DEF Sent, Nbytes
  <2> QED BY <1>5, <1>6, <2>1, <2>3, Sizes
<1>9. my.sent \in Int /\ my.sent <= Nbytes - B1len - B2len
  <2>1. CASE my.left = 0 BY <1>5, <1>8, <2>1
  <2>2. CASE my.left # 0
    <3> DEFINE d == Done * SectorSize
               w == my.left * SectorSize
    <3>1. my.sent = d BY <1>0, <1>1, <1>2, <2>2 DEF ReadeeNumbers, Sent
    <3>2. my.left \in Int /\ 1 <= my.left /\ Done \in Int BY <1>7, <2>2 DEF Done
    <3>3. w \in Int /\ 1 * SectorSize <= w BY <3>2, Sizes, Times
    <3>4. (Done + my.left) * SectorSize = d + w BY <3>2, Sizes, Times
    <3>5. Done + my.left = my.sectors BY <1>7 DEF Done
    <3>6. Nbytes = d + w BY <3>4, <3>5 DEF Nbytes
    <3>7. d \in Int BY <1>5
    <3>8. 1 * SectorSize = SectorSize BY Sizes
    <3> HIDE DEF d, w
    <3> QED BY <1>5, <1>6, <3>1, <3>3, <3>6, <3>7, <3>8, Sizes
  <2> QED BY <2>1, <2>2
<1>10. /\ Holds(b + B1len, x + B1len, my.sent)
       /\ my.left = 0 => Message(readee.buf1, x, B1len) /\ Message(readee.buf2, x + (Nbytes - B2len), B2len)
  BY <1>1, <1>2, <1>7 DEF ReadeeData
<1>11. DOMAIN readee.buf1 = 1 .. B1len /\ DOMAIN readee.buf2 = 1 .. B2len BY <1>0, <1>2 DEF ReadeeNumbers
<1>12. DOMAIN e = EeMemory BY <1>0, StoredDomain
<1>13. x \in Int BY <1>5, Sizes, Times
<1> HIDE DEF e
\* Who wrote which unit of the EE's buffer.
<1>14. ASSUME NEW i \in 0 .. Nbytes - 1
       PROVE  /\ i >= Nbytes - B2len => ee'[b + i] = readee.buf2[i - (Nbytes - B2len) + 1]
              /\ i < Nbytes - B2len /\ i < B1len => ee'[b + i] = readee.buf1[i + 1]
              /\ i < Nbytes - B2len /\ i >= B1len => ee'[b + i] = ee[b + i]
  <2>1. b + i \in EeMemory /\ b + i \in Int /\ t \in Int BY <1>5, Sizes DEF EeMemory
  <2> DEFINE u == b + i
             part == readee.buf2
  <2>2. u = b + i OBVIOUS
  <2> HIDE DEF u
  <2>3. u \in Int /\ u \in DOMAIN e /\ u \in DOMAIN ee BY <1>0, <1>12, <2>1 DEF u
  <2>4. /\ u \in t .. t + B2len - 1 => ee'[u] = readee.buf2[u - t + 1]
        /\ u \notin t .. t + B2len - 1 => ee'[u] = e[u]
    <3>1. DOMAIN part = 1 .. B2len /\ ee' = Stored(e, t, part) BY <1>1, <1>11
    <3> HIDE DEF t, part
    <3>2. Stored(e, t, part)[u] = IF u - t + 1 \in 1 .. B2len THEN part[u - t + 1] ELSE e[u]
      BY <2>3, <3>1 DEF Stored
    <3>3. u - t + 1 \in 1 .. B2len <=> u \in t .. t + B2len - 1 BY <1>5, <2>1, <2>3
    <3> QED BY <3>1, <3>2, <3>3 DEF part
  <2>5. /\ u \in b .. b + B1len - 1 => e[u] = readee.buf1[u - b + 1]
        /\ u \notin b .. b + B1len - 1 => e[u] = ee[u]
    <3> DEFINE head == readee.buf1
    <3>1. DOMAIN head = 1 .. B1len /\ e = Stored(ee, b, head) BY <1>11 DEF e
    <3>2. b \in Int /\ B1len \in Nat BY <1>5
    <3> HIDE DEF b, head
    <3>3. Stored(ee, b, head)[u] = IF u - b + 1 \in 1 .. B1len THEN head[u - b + 1] ELSE ee[u]
      BY <2>3, <3>1 DEF Stored
    <3>4. u - b + 1 \in 1 .. B1len <=> u \in b .. b + B1len - 1 BY <2>3, <3>2
    <3> QED BY <3>1, <3>3, <3>4 DEF head
  <2>6. u \in t .. t + B2len - 1 <=> i >= Nbytes - B2len BY <1>5, <2>2
  <2>7. u \in b .. b + B1len - 1 <=> i < B1len BY <1>5, <2>2
  <2>8. u - t + 1 = i - (Nbytes - B2len) + 1 /\ u - b + 1 = i + 1 BY <1>5, <2>2
  <2>9. CASE i >= Nbytes - B2len BY <1>5, <2>2, <2>4, <2>6, <2>8, <2>9
  <2>10. CASE i < Nbytes - B2len
    <3>1. ee'[u] = e[u] BY <1>5, <2>4, <2>6, <2>10
    <3> QED BY <1>5, <2>2, <2>5, <2>7, <2>8, <2>10, <3>1
  <2> QED BY <1>5, <2>9, <2>10
<1> HIDE DEF t
<1>15. \A i \in 0 .. my.sent - 1 : Brought(ee', b + B1len + i, x + B1len + i)
  <2>1. TAKE i \in 0 .. my.sent - 1
  <2> DEFINE j == B1len + i
  <2>2. j \in 0 .. Nbytes - 1 /\ j >= B1len /\ j < Nbytes - B2len BY <1>5, <1>9
  <2> HIDE DEF j
  <2>3. ee'[b + j] = ee[b + j] BY <1>14, <2>2
  <2>4. b + j = b + B1len + i BY <1>5 DEF j
  <2>5. Brought(ee, b + B1len + i, x + B1len + i) BY <1>10 DEF Holds
  <2> QED BY <2>3, <2>4, <2>5 DEF Brought
<1>16. ASSUME my.left = 0, NEW i \in 0 .. Nbytes - 1 PROVE Brought(ee', b + i, x + i)
  <2> HIDE DEF x, b
  <2>1. CASE i >= Nbytes - B2len
    <3> DEFINE k == i - (Nbytes - B2len) + 1
    <3>1. k \in 1 .. B2len /\ x + (Nbytes - B2len) + k - 1 = x + i BY <1>5, <1>13, <2>1
    <3> HIDE DEF k
    <3>2. Brought(readee.buf2, k, x + (Nbytes - B2len) + k - 1) BY <1>10, <1>16, <3>1 DEF Message
    <3>3. ee'[b + i] = readee.buf2[k] BY <1>14, <2>1 DEF k
    <3> QED BY <3>1, <3>2, <3>3 DEF Brought
  <2>2. CASE i < Nbytes - B2len /\ i < B1len
    <3> DEFINE k == i + 1
    <3>1. k \in 1 .. B1len /\ x + k - 1 = x + i BY <1>5, <1>13, <2>2
    <3> HIDE DEF k
    <3>2. Brought(readee.buf1, k, x + k - 1) BY <1>10, <1>16, <3>1 DEF Message
    <3>3. ee'[b + i] = readee.buf1[k] BY <1>14, <2>2 DEF k
    <3> QED BY <3>1, <3>2, <3>3 DEF Brought
  <2>3. CASE i < Nbytes - B2len /\ i >= B1len
    <3> DEFINE k == i - B1len
    <3>1. k \in 0 .. my.sent - 1 BY <1>5, <1>8, <1>16, <2>3
    <3>2. b + B1len + k = b + i /\ x + B1len + k = x + i BY <1>5, <1>13 DEF b
    <3> HIDE DEF k
    <3>3. Brought(ee', b + B1len + k, x + B1len + k) BY <1>15, <3>1
    <3> QED BY <3>2, <3>3
  <2> QED BY <1>5, <2>1, <2>2, <2>3
<1>17. my'.ok => Holds(my.buf, my.first * SectorSize, Nbytes)'
  <2>1. my'.ok => my.left = 0 BY <1>3
  <2> QED BY <1>1, <1>3, <1>4, <1>16, <2>1 DEF Holds, Brought
<1>18. Holds(my.buf + B1len, my.first * SectorSize + B1len, my.sent)'
  BY <1>1, <1>3, <1>4, <1>15 DEF Holds, Brought
<1>19. curlsn' = Nbytes' /\ result' = curlsn' BY <1>1, <1>4
<1>20. my'.ok \/ broken'
  <2>1. my.left # 0 => broken BY <1>1, <1>2 DEF BrokenInv
  <2> QED BY <1>1, <1>3, <2>1
<1> QED BY <1>1, <1>17, <1>18, <1>19, <1>20 DEF ReadeeData, Looping

\* Every step keeps ReadeeData.
LEMMA ReadeeDataStep ==
  ASSUME ControlInv, NumbersInv, BrokenInv, Arrived, ReadeeData, [FsvNext]_fsvvars
  PROVE  ReadeeData'
<1>0. FsvTypes /\ PlaceInv /\ ReadeeNumbers /\ my \in Locals BY DEF ControlInv, NumbersInv, FsvTypes
<1>1. CASE at' \notin Looping /\ (my'.call # "readee" \/ at' # "leave") BY <1>1 DEF ReadeeData
<1>2. CASE at' \in Looping \/ (my'.call = "readee" /\ at' = "leave")
  <2>2. CASE Elsewhere BY <2>2, ElsewhereKeeps, ElsewhereHistory, ReadeeDataKept
  <2>3. CASE UNCHANGED fsvvars
    <3>1. UNCHANGED <<at, my, ee, readee, curlsn, result, lost, broken>> BY <2>3 DEF fsvvars
    <3>2. lost \subseteq lost' /\ (broken => broken') BY <3>1
    <3> QED BY <3>1, <3>2, ReadeeDataKept
  <2>4. CASE RpcArrives \/ NcmdReturn \/ DiskReady
    BY <1>2, <2>4 DEF RpcArrives, CallReadee, CallReadchain, CallReadiopm, CallOther, RpcCall, NcmdReturn, DiskReady,
      Move, Looping
  <2>5. CASE cbrpc_cdvdNcmds
    <3>1. at = "iosema" /\ my' = my /\ my.call = "readee" /\ at' = "leave" /\ my.sectors = 0 /\ result' = 0
          /\ curlsn' = curlsn
      BY <1>2, <2>5 DEF cbrpc_cdvdNcmds, Move, Looping
    <3>2. Nbytes' = 0
      <4>1. 0 * SectorSize = 0 BY Sizes
      <4> QED BY <3>1, <4>1 DEF Nbytes
    <3>3. 0 .. 0 - 1 = {} OBVIOUS
    <3>4. Holds(my.buf, my.first * SectorSize, Nbytes)' BY <3>2, <3>3 DEF Holds
    <3>5. my.ok /\ my.sent = 0 /\ curlsn = 0 BY <1>0, <3>1 DEF PlaceInv
    <3>6. Holds(my.buf + B1len, my.first * SectorSize + B1len, my.sent)' BY <3>1, <3>3, <3>5 DEF Holds
    <3> QED BY <3>1, <3>2, <3>4, <3>5, <3>6 DEF ReadeeData, Looping
  <2>6. CASE ReadeeBegin
    <3>1. /\ at = "readywait" /\ at' = (IF my.call = "readee" THEN "head" ELSE "leave")
          /\ my' = [my EXCEPT !.left = my.sectors, !.addr = my.buf + B1len]
      BY <2>6 DEF ReadeeBegin, Move
    <3>2. my'.left = my.sectors /\ my'.sectors = my.sectors /\ my'.sent = my.sent /\ my'.call = my.call
      BY <1>0, <3>1 DEF Locals
    <3>3. my.call = "readee" /\ at' = "head" BY <1>2, <3>1, <3>2 DEF Looping
    <3>4. my.sent = 0 /\ my.sectors \in Nat /\ my.sectors > 0 BY <1>0, <3>1, <3>3, ReadeeGiven DEF PlaceInv
    <3>5. Holds(my.buf + B1len, my.first * SectorSize + B1len, my.sent)'
      <4>1. 0 .. 0 - 1 = {} OBVIOUS
      <4> QED BY <3>2, <3>4, <4>1 DEF Holds
    <3>6. my'.left # 0 /\ ~(my'.left < my'.sectors) BY <3>2, <3>4
    <3> QED BY <3>3, <3>5, <3>6 DEF ReadeeData
  <2>7. CASE ReadeeEnd BY <2>7, ReadeeEndData
  <2>8. CASE ReadeeNext \/ ReadeeRead
    <3>1. /\ at \in {"head", "read"} /\ at' \in {"read", "sync"} /\ UNCHANGED <<ee, readee, lost>>
          /\ my'.buf = my.buf /\ my'.sectors = my.sectors /\ my'.first = my.first /\ my'.left = my.left
          /\ my'.sent = my.sent
      BY <1>0, <2>8 DEF ReadeeNext, ReadeeRead, Move, Locals
    <3>2. Nbytes' = Nbytes /\ B1len' = B1len /\ B2len' = B2len BY <3>1, GeoKept
    <3>3. Holds(my.buf + B1len, my.first * SectorSize + B1len, my.sent) BY <3>1 DEF ReadeeData, Looping
    <3>4. Holds(my.buf + B1len, my.first * SectorSize + B1len, my.sent)' BY <3>1, <3>2, <3>3 DEF Holds, Brought
    <3>5. my.left < my.sectors => Message(readee.buf1, my.first * SectorSize, B1len) BY <3>1 DEF ReadeeData, Looping
    <3>6. my.left < my.sectors => Message(readee.buf1, my.first * SectorSize, B1len)'
      BY <3>1, <3>2, <3>5 DEF Message, Brought
    <3> QED BY <3>1, <3>4, <3>6 DEF ReadeeData
  <2>9. CASE ReadeeRefused
    <3>1. /\ at = "read" /\ at' = "leave" /\ my' = [my EXCEPT !.ok = FALSE] /\ result' = my.sent
          /\ UNCHANGED <<ee, curlsn, lost>>
      BY <2>9 DEF ReadeeRefused, Move
    <3>2. my'.buf = my.buf /\ my'.sectors = my.sectors /\ my'.first = my.first /\ my'.ok = FALSE /\ my'.sent = my.sent
      BY <1>0, <3>1 DEF Locals
    <3>3. Nbytes' = Nbytes /\ B1len' = B1len /\ B2len' = B2len BY <3>2, GeoKept
    <3>4. at \in Looping /\ curlsn = my.sent BY <1>0, <3>1 DEF ReadeeNumbers, Looping
    <3>5. Holds(my.buf + B1len, my.first * SectorSize + B1len, my.sent) BY <3>4 DEF ReadeeData
    <3>6. Holds(my.buf + B1len, my.first * SectorSize + B1len, my.sent)'
      BY <3>1, <3>2, <3>3, <3>5 DEF Holds, Brought
    <3>7. my.sent # Nbytes
      <4>1. my.sent = Done * SectorSize /\ my.left > 0 /\ my.left \in 0 .. my.sectors
        BY <1>0, <3>1, <3>4 DEF ReadeeNumbers, Sent
      <4>2. my.sectors \in Nat
        <5>1. my.call = "readee" BY <1>0, <3>4 DEF PlaceInv
        <5> QED BY <1>0, <5>1, ReadeeGiven
      <4>3. Done \in Int /\ Done + 1 <= my.sectors BY <4>1, <4>2 DEF Done
      <4>4. (Done + 1) * SectorSize <= my.sectors * SectorSize BY <4>2, <4>3, Sizes, Times
      <4>5. (Done + 1) * SectorSize = Done * SectorSize + 1 * SectorSize BY <4>3, Sizes, Times
      <4> DEFINE d == Done * SectorSize
      <4>6. d \in Int /\ Nbytes \in Int BY <4>2, <4>3, Sizes, Times DEF Nbytes
      <4>7. d + SectorSize <= Nbytes /\ my.sent = d BY <4>1, <4>4, <4>5, Sizes DEF Nbytes
      <4> HIDE DEF d
      <4> QED BY <4>6, <4>7, Sizes
    <3>8. curlsn' = my'.sent /\ my.sent \in Int BY <1>0, <3>1, <3>2, <3>4 DEF Locals
    <3>9. result' = curlsn' /\ result' # Nbytes' BY <3>1, <3>3, <3>4, <3>7
    <3>10. curlsn' <= my'.sent BY <3>2, <3>8
    <3> QED BY <3>1, <3>2, <3>6, <3>9, <3>10 DEF ReadeeData, Looping
  <2>10. CASE ReadeeSync BY <2>10, ReadeeSyncData
  <2>11. CASE ReadeeSend BY <2>11, ReadeeSendData
  <2>12. CASE ReadeeProgress BY <2>12, ReadeeProgressData
  <2>13. CASE ChainNext \/ ChainRead \/ ChainRefused \/ ChainSync \/ ChainProgress \/ ReadiopmRead \/ ReadiopmSync
    <3>1. at \in Linking \cup {"iopm", "iopmsync"} /\ at' \notin Looping
      <4>1. CASE ChainNext BY <4>1 DEF ChainNext, Linking, Looping
      <4>2. CASE ChainRead BY <4>2 DEF ChainRead, Move, Linking, Looping
      <4> QED BY <2>13, <4>1, <4>2 DEF ChainRefused, ChainSync, ChainProgress, ReadiopmRead, ReadiopmSync, Move,
             Linking, Looping
    <3>2. my.call # "readee" BY <1>0, <3>1 DEF PlaceInv
    <3>3. my'.call = my.call
      <4>1. CASE ChainNext BY <1>0, <4>1 DEF ChainNext, Locals
      <4>2. CASE ChainRead BY <1>0, <4>2 DEF ChainRead, Locals
      <4>3. CASE ChainSync BY <1>0, <4>3 DEF ChainSync, Locals
      <4> QED BY <1>0, <2>13, <4>1, <4>2, <4>3 DEF ChainRefused, ChainProgress, ReadiopmRead, ReadiopmSync, Locals
    <3> QED BY <1>2, <3>1, <3>2, <3>3
  <2> QED BY <2>2, <2>3, <2>4, <2>5, <2>6, <2>7, <2>8, <2>9, <2>10, <2>11, <2>12, <2>13
         DEF FsvNext, RpcStep, Elsewhere
<1> QED BY <1>1, <1>2

\* The error that ends the passes early is that of a sceCdBreak during them.
LEMMA BrokenStep ==
  ASSUME BrokenInv, [FsvNext]_fsvvars
  PROVE  BrokenInv'
<1> SUFFICES ASSUME at' \in Looping \cup {"readywait"}, err' = "ABRT" PROVE broken' BY DEF BrokenInv
<1>1. CASE RpcArrives
  BY <1>1 DEF RpcArrives, CallReadee, CallReadchain, CallReadiopm, CallOther, RpcCall, Move, Looping
<1>2. CASE cbrpc_cdvdNcmds \/ NcmdReturn \/ DiskReady
  BY <1>2 DEF cbrpc_cdvdNcmds, NcmdReturn, DiskReady, Move, Looping
<1>3. CASE ReadeeBegin \/ ReadeeEnd \/ ReadeeNext \/ ReadeeRead \/ ReadeeSync \/ ReadeeSend \/ ReadeeProgress
  <2>1. at \in Looping \cup {"readywait"} /\ err' = err /\ broken' = broken
    BY <1>3 DEF ReadeeBegin, ReadeeEnd, ReadeeNext, ReadeeRead, ReadeeSync, ReadeeSend, ReadeeProgress, Move, Looping
  <2> QED BY <2>1 DEF BrokenInv
<1>4. CASE \/ ReadeeRefused \/ ChainNext \/ ChainRead \/ ChainRefused \/ ChainSync \/ ChainProgress
           \/ ReadiopmRead \/ ReadiopmSync
  <2>1. at' \in {"leave", "iopmsync", "link", "linkread", "linksync"}
    BY <1>4 DEF ReadeeRefused, ChainNext, ChainRead, ChainRefused, ChainSync, ChainProgress, ReadiopmRead,
      ReadiopmSync, Move
  <2> QED BY <2>1 DEF Looping
<1>5. CASE Elsewhere
  <2>1. at' = at BY <1>5, ElsewhereKeeps
  <2>2. CASE cbrpc_cdvdScmds
    <3>1. at # "idle" BY <2>1 DEF Looping
    <3> QED BY <2>2, <3>1 DEF cbrpc_cdvdScmds
  <2>3. CASE DriveBegin BY <2>3 DEF DriveBegin
  <2>4. CASE DriveDone \/ DriveShort \/ CdromCall \/ CdromStep \/ RawRead
    <3>1. err = "ABRT"
      BY <2>4 DEF DriveDone, DriveShort, SetError, CdromCall, CdromStep, CdromRead, CdromReturn, RawRead
    <3>2. broken BY <2>1, <3>1 DEF BrokenInv
    <3> QED BY <1>5, <3>2, ElsewhereHistory
  <2> QED BY <1>5, <2>2, <2>3, <2>4 DEF Elsewhere, DriveStep
<1>6. CASE UNCHANGED fsvvars
  <2>1. UNCHANGED <<at, err, broken>> BY <1>6 DEF fsvvars
  <2> QED BY <2>1 DEF BrokenInv
<1> QED BY <1>1, <1>2, <1>3, <1>4, <1>5, <1>6 DEF FsvNext, RpcStep, Elsewhere

BufferInv == BrokenInv /\ Arrived /\ ReadeeData

\* And so every state has it.
LEMMA BufferKept == FsvSpec => []BufferInv
<1>1. FsvInit => BufferInv
  <2> SUFFICES ASSUME FsvInit PROVE BrokenInv /\ Arrived /\ ReadeeData BY DEF BufferInv
  <2>1. at = "idle" /\ my = NoCall /\ NoCall.call = "none" BY DEF FsvInit, NoCall
  <2> QED BY <2>1 DEF BrokenInv, Arrived, ReadeeData, Looping
<1>2. ControlInv /\ NumbersInv /\ BufferInv /\ [FsvNext]_fsvvars => BufferInv'
  BY ArrivedStep, ReadeeDataStep, BrokenStep DEF BufferInv
<1> QED BY <1>1, <1>2, Numbers, PTL DEF FsvSpec

\* When cdvd_readee returns the full size, and no sceCdBreak came between, the
\* EE's buffer holds exactly the sectors asked for, but for those that a read was
\* cut short before: head and tail messages and the DMA of all passes fit
\* together, at any alignment of the buffer and any size of sectors, lines and
\* cdvdman_fs_buf, and a failure in one pass harms no sector of another.
THEOREM ReadsReachTheEE == FsvSpec => []ReadeeDelivers
<1>1. BufferInv => ReadeeDelivers BY DEF BufferInv, ReadeeData, ReadeeDelivers
<1> QED BY <1>1, BufferKept, PTL

\* What cdvd_readee has sent is in the EE's memory, on every exit too, whatever
\* was refused, cut short or broken off.  The progress it shows counts no more
\* than that before the end, which shows the full size, and the result is the
\* progress shown last.
THEOREM ProgressIsThere == FsvSpec => []ProgressDelivered
<1>1. ASSUME ControlInv, NumbersInv, BufferInv PROVE ProgressDelivered
  <2> SUFFICES ASSUME my.call = "readee"
               PROVE  /\ Holds(my.buf + B1len, my.first * SectorSize + B1len, my.sent)
                      /\ curlsn <= my.sent \/ (at = "leave" /\ curlsn = Nbytes)
                      /\ at = "leave" => result = curlsn
    BY DEF ProgressDelivered
  <2>1. FsvTypes /\ PlaceInv /\ ReadeeNumbers BY <1>1 DEF ControlInv, NumbersInv
  <2>2. CASE at \in Looping
    <3>1. Holds(my.buf + B1len, my.first * SectorSize + B1len, my.sent) BY <1>1, <2>2 DEF BufferInv, ReadeeData
    <3>2. CASE at # "progress"
      <4>1. curlsn = my.sent /\ curlsn \in Int BY <2>1, <2>2, <3>2 DEF ReadeeNumbers, FsvTypes
      <4> QED BY <2>2, <3>1, <4>1 DEF Looping
    <3>3. CASE at = "progress"
      <4>1. curlsn = Done * SectorSize /\ my.sent = Done * SectorSize + SendSize
        BY <2>1, <2>2, <3>3 DEF ReadeeNumbers
      <4>2. SendSize \in Nat BY <2>1, <3>3, SendSizes
      <4>3. curlsn \in Int BY <2>1 DEF FsvTypes
      <4>4. curlsn <= my.sent BY <4>1, <4>2, <4>3
      <4> QED BY <3>1, <3>3, <4>4
    <3> QED BY <3>2, <3>3
  <2>3. CASE at = "leave" BY <1>1, <2>3 DEF BufferInv, ReadeeData
  <2>4. CASE at \in {"iosema", "ready", "readywait"}
    <3>1. curlsn = 0 /\ my.sent = 0 BY <2>1, <2>4 DEF PlaceInv
    <3>2. 0 .. 0 - 1 = {} OBVIOUS
    <3> QED BY <2>4, <3>1, <3>2 DEF Holds
  <2>5. CASE at \in {"idle", "iopm", "iopmsync"} \cup Linking BY <2>1, <2>5 DEF PlaceInv, NoCall
  <2> QED BY <2>1, <2>2, <2>3, <2>4, <2>5 DEF FsvTypes, Places
<1> QED BY <1>1, BufferKept, Numbers, PTL

-----------------------------------------------------------------------------
(***************************************************************************)
(* What cdvd_readchain has brought: the links that are done, and the part  *)
(* of the one it is at.  The links must not write over each other.         *)
(***************************************************************************)
LEMMA ChainDataKept ==
  ASSUME ChainData, UNCHANGED <<at, my, ee>>, lost \subseteq lost'
  PROVE  ChainData'
<1>1. \A p, f, n : Holds(p, f, n) => Holds(p, f, n)' BY DEF Holds, Brought
<1>2. \A k : Filled(k) => Filled(k)' BY <1>1 DEF Filled
<1>3. Link' = Link /\ LinkDone' = LinkDone BY DEF Link, LinkDone
<1> QED BY <1>1, <1>2, <1>3 DEF ChainData

\* The end of a read of a link.
LEMMA ChainSyncData ==
  ASSUME ControlInv, NumbersInv, Arrived, ChainData, ChainsApart, ChainSync
  PROVE  ChainData'
<1>0. FsvTypes /\ PlaceInv /\ ChainNumbers /\ my \in Locals /\ DOMAIN ee = EeMemory
  BY DEF ControlInv, NumbersInv, FsvTypes
<1> DEFINE m == my.n * SectorSize
           s == LinkDone * SectorSize
           z == Link.sectors * SectorSize
           c == Link.lsn * SectorSize
<1>1. /\ at = "linksync" /\ at' = "linkread" /\ DriveIdle /\ lost' = lost
      /\ ee' = (IF Link.iop THEN ee ELSE Stored(ee, my.addr, Part(fs_buf, 0, m)))
      /\ my' = [my EXCEPT !.lsn = my.lsn + my.n, !.left = my.left - my.n, !.addr = my.addr + m, !.sent = my.sent + m]
  BY DEF ChainSync, Move
<1>2. my'.chain = my.chain /\ my'.i = my.i /\ my'.left = my.left - my.n BY <1>0, <1>1 DEF Locals
<1>3. Link' = Link BY <1>2 DEF Link
<1>4. /\ my.chain \in Chains /\ my.i \in 1 .. Len(my.chain) /\ Link.buf \in Nat /\ Link.lsn \in Nat
      /\ m \in Nat /\ s \in Nat /\ z \in Nat /\ s + m <= z
      /\ (LinkDone + my.n) * SectorSize = s + m /\ (Link.lsn + LinkDone) * SectorSize = c + s
      /\ my.addr = Link.buf + s /\ my.lsn = Link.lsn + LinkDone
      /\ ~Link.iop => Link.buf + z <= EeUnits
  BY <1>0, <1>1, LinkFits
<1>5. LinkDone' = LinkDone + my.n
  <2>1. Link.sectors \in Nat BY <1>4, Links DEF Link
  <2>2. my.left \in Int /\ my.n \in Int BY <1>0 DEF Locals
  <2> QED BY <1>2, <1>3, <2>1, <2>2 DEF LinkDone
<1>6. \A k \in 1 .. my.i - 1 : Filled(k) BY <1>1 DEF ChainData
<1>7. CASE Link.iop
  <2>1. ee' = ee BY <1>1, <1>7
  <2> QED BY <1>1, <1>2, <1>3, <1>6, <1>7, <2>1 DEF ChainData, Filled, Holds, Brought
<1>8. CASE ~Link.iop
  <2>1. ee' = Stored(ee, my.addr, Part(fs_buf, 0, m)) BY <1>1, <1>8
  <2>2. Holds(Link.buf, c, s) BY <1>1, <1>8 DEF ChainData
  <2>3. FsHolds(0, c + s, m)
    <3>1. FsHolds(0, my.lsn * SectorSize, my.n * SectorSize) BY <1>1, <1>8 DEF Arrived, Pending
    <3> QED BY <1>4, <3>1
  <2>4. c \in Int BY <1>4, Sizes, Times
  <2>5. Has(ee', Link.buf, c, s + m)
    <3>1. /\ Link.buf \in Nat /\ c \in Int /\ s \in Nat /\ c + s \in Int /\ m \in Nat /\ my.addr \in Int
          /\ my.addr = Link.buf + s /\ my.addr + m <= EeUnits
      <4> HIDE DEF m, s, z, c
      <4> QED BY SMTT(30), <1>4, <1>8, <2>4, Sizes
    <3> DEFINE from == c + s
               to == Link.buf
               next == my.addr
               zero == 0
    <3>2. /\ DOMAIN ee = EeMemory /\ Holds(to, c, s) /\ FsHolds(zero, from, m)
          /\ ee' = Stored(ee, next, Part(fs_buf, zero, m)) /\ zero \in Int
          /\ to \in Nat /\ from \in Int /\ from = c + s /\ next = to + s /\ next \in Int /\ next + m <= EeUnits
      BY <1>0, <2>1, <2>2, <2>3, <3>1
    <3>3. c \in Int /\ s \in Nat /\ m \in Nat BY <3>1
    <3> HIDE DEF m, s, z, c, from, to, next, zero
    <3>4. Has(ee', to, c, s + m) BY <3>2, <3>3, SentOn
    <3> QED BY <3>4 DEF to
  <2>6. Holds(Link.buf, Link.lsn * SectorSize, LinkDone * SectorSize)'
    BY <1>1, <1>3, <1>4, <1>5, <2>5 DEF Holds, Has, Brought
  <2>7. ASSUME NEW k \in 1 .. my.i - 1 PROVE Filled(k)'
    <3> DEFINE l == my.chain[k]
               y == l.sectors * SectorSize
               f == l.lsn * SectorSize
    <3>1. k \in 1 .. Len(my.chain) /\ k # my.i
      <4>1. Len(my.chain) \in Nat BY <1>4, FsvAssumption
      <4> QED BY <1>4, <2>7, <4>1
    <3>2. CASE l.iop BY <1>2, <3>2 DEF Filled
    <3>3. CASE ~l.iop
      <4>1. l.buf \in Nat /\ l.sectors \in Nat /\ l.buf + y <= EeUnits BY <1>4, <3>1, <3>3, Links
      <4>2. y \in Nat BY <4>1, Sizes, Times
      <4>3. Holds(l.buf, f, y) BY <1>6, <2>7, <3>3 DEF Filled
      <4>4. l.buf + y <= Link.buf \/ Link.buf + z <= l.buf
        <5>1. Link = my.chain[my.i] BY DEF Link
        <5> QED BY <1>4, <1>8, <3>1, <3>3, <5>1 DEF ChainsApart
      <4>5. DOMAIN Part(fs_buf, 0, m) = 1 .. m BY DEF Part
      <4> DEFINE p == l.buf
                 a == my.addr
                 w == Part(fs_buf, 0, m)
      <4>6. p \in Nat /\ a \in Int /\ (a + m <= p \/ p + y <= a)
        <5> DEFINE b == Link.buf
        <5>1. /\ p \in Nat /\ y \in Nat /\ b \in Nat /\ m \in Nat /\ s \in Nat /\ z \in Nat /\ s + m <= z
              /\ a = b + s /\ (p + y <= b \/ b + z <= p)
          BY <1>4, <4>1, <4>2, <4>4
        <5> HIDE DEF m, s, z, y, p, a, b
        <5> QED BY <5>1
      <4>7. DOMAIN w = 1 .. m /\ ee' = Stored(ee, a, w) BY <2>1, <4>5
      <4>8. Holds(p, f, y) /\ p + y <= EeUnits BY <4>1, <4>3
      <4> HIDE DEF p, a, w, m, y, f
      <4>9. Has(ee', p, f, y)
        BY <1>0, <1>4, <4>2, <4>6, <4>7, <4>8, SentElsewhere
      <4> QED BY <1>1, <1>2, <4>9 DEF Filled, Holds, Has, Brought, p, y, f
    <3> QED BY <3>2, <3>3
  <2> QED BY <1>1, <1>2, <2>6, <2>7 DEF ChainData
<1> QED BY <1>7, <1>8

\* Every step keeps ChainData.
LEMMA ChainDataStep ==
  ASSUME ControlInv, NumbersInv, Arrived, ChainData, ChainsApart, [FsvNext]_fsvvars
  PROVE  ChainData'
<1>0. FsvTypes /\ PlaceInv /\ ChainNumbers /\ my \in Locals BY DEF ControlInv, NumbersInv, FsvTypes
<1>1. CASE at' \notin Linking /\ (my'.call # "readchain" \/ at' # "leave" \/ ~my'.ok)
  BY <1>1 DEF ChainData, Linking
<1>2. CASE at' \in Linking \/ (my'.call = "readchain" /\ at' = "leave" /\ my'.ok)
  <2>2. CASE Elsewhere BY <2>2, ElsewhereKeeps, ElsewhereHistory, ChainDataKept
  <2>3. CASE UNCHANGED fsvvars
    <3>1. UNCHANGED <<at, my, ee, lost>> BY <2>3 DEF fsvvars
    <3> QED BY <3>1, ChainDataKept
  <2>4. CASE RpcArrives \/ NcmdReturn \/ DiskReady
    BY <1>2, <2>4 DEF RpcArrives, CallReadee, CallReadchain, CallReadiopm, CallOther, RpcCall, NcmdReturn, DiskReady,
      Move, Linking
  <2>5. CASE cbrpc_cdvdNcmds
    <3>1. at = "iosema" /\ my' = my /\ my.call = "readchain" /\ at' = "link"
      BY <1>2, <2>5 DEF cbrpc_cdvdNcmds, Move, Linking
    <3>2. my.i = 0 BY <1>0, <3>1 DEF PlaceInv
    <3>3. 1 .. 0 = {} OBVIOUS
    <3> QED BY <3>1, <3>2, <3>3 DEF ChainData
  <2>6. CASE \/ ReadeeBegin \/ ReadeeEnd \/ ReadeeNext \/ ReadeeRead \/ ReadeeRefused \/ ReadeeSync \/ ReadeeSend
             \/ ReadeeProgress \/ ReadiopmRead \/ ReadiopmSync
    <3>1. at \in Looping \cup {"readywait", "iopm", "iopmsync"} /\ at' \notin Linking
      BY <2>6 DEF ReadeeBegin, ReadeeEnd, ReadeeNext, ReadeeRead, ReadeeRefused, ReadeeSync, ReadeeSend,
        ReadeeProgress, ReadiopmRead, ReadiopmSync, Move, Looping, Linking
    <3>2. my.call # "readchain" BY <1>0, <3>1 DEF PlaceInv
    <3>3. my'.call = my.call
      BY <1>0, <2>6 DEF ReadeeBegin, ReadeeEnd, ReadeeNext, ReadeeRead, ReadeeRefused, ReadeeSync, ReadeeSend,
        ReadeeProgress, ReadiopmRead, ReadiopmSync, Locals
    <3> QED BY <1>2, <3>1, <3>2, <3>3
  <2>7. CASE ChainNext
    <3>1. /\ at = "link" /\ ee' = ee /\ lost' = lost
          /\ \/ at' = "leave" /\ my' = my
             \/ /\ at' = "linkread" /\ my.i # Len(my.chain)
                /\ my' = [my EXCEPT !.i = my.i + 1, !.lsn = my.chain[my.i + 1].lsn,
                                    !.left = my.chain[my.i + 1].sectors, !.addr = my.chain[my.i + 1].buf]
      BY <2>7 DEF ChainNext
    <3>2. \A k \in 1 .. my.i : Filled(k) BY <3>1 DEF ChainData
    <3>3. CASE at' = "leave" /\ my' = my BY <3>1, <3>2, <3>3 DEF ChainData, Filled, Holds, Brought
    <3>4. CASE at' = "linkread" /\ my.i # Len(my.chain)
      <4>1. my.chain \in Chains /\ my.i \in 0 .. Len(my.chain) BY <1>0, <3>1 DEF PlaceInv, Linking
      <4>2. my.i + 1 \in 1 .. Len(my.chain) /\ (my.i + 1) - 1 = my.i
        <5>1. Len(my.chain) \in Nat BY <4>1, FsvAssumption
        <5> QED BY <3>4, <4>1, <5>1
      <4> DEFINE l == my.chain[my.i + 1]
      <4>3. my'.chain = my.chain /\ my'.i = my.i + 1 /\ my'.left = l.sectors
        BY <1>0, <3>1, <3>4 DEF Locals
      <4>4. Link' = l BY <4>3 DEF Link
      <4>5. l.sectors \in Nat BY <4>1, <4>2, Links
      <4>6. LinkDone' * SectorSize = 0
        <5>1. LinkDone' = 0 BY <4>3, <4>4, <4>5 DEF LinkDone
        <5> QED BY <5>1, Sizes
      <4>7. Holds(Link.buf, Link.lsn * SectorSize, LinkDone * SectorSize)'
        <5>1. 0 .. 0 - 1 = {} OBVIOUS
        <5> QED BY <4>6, <5>1 DEF Holds
      <4>8. \A k \in 1 .. my'.i - 1 : Filled(k)' BY <3>1, <3>2, <4>2, <4>3 DEF Filled, Holds, Brought
      <4> QED BY <3>4, <4>7, <4>8 DEF ChainData
    <3> QED BY <3>1, <3>3, <3>4
  <2>8. CASE ChainRead
    <3> DEFINE n == IF Link.iop THEN my.left ELSE Min2(my.left, CDVDFSV_BUF_SECTORS)
    <3>1. at = "linkread" /\ at' = "linksync" /\ my' = [my EXCEPT !.n = n] /\ UNCHANGED <<ee, lost>>
      BY <2>8 DEF ChainRead, Move
    <3>2. my'.chain = my.chain /\ my'.i = my.i /\ my'.left = my.left BY <1>0, <3>1 DEF Locals
    <3>3. Link' = Link /\ LinkDone' = LinkDone BY <3>2 DEF Link, LinkDone
    <3> QED BY <3>1, <3>2, <3>3 DEF ChainData, Filled, Holds, Brought
  <2>9. CASE ChainRefused
    <3>1. at' = "leave" /\ my'.ok = FALSE BY <1>0, <2>9 DEF ChainRefused, Move, Locals
    <3> QED BY <1>2, <3>1 DEF Linking
  <2>10. CASE ChainSync BY <2>10, ChainSyncData
  <2>11. CASE ChainProgress
    <3>1. at = "linkread" /\ at' = "link" /\ my.left = 0 /\ UNCHANGED <<my, ee, lost>>
      BY <2>11 DEF ChainProgress, Move
    <3>2. my.chain \in Chains /\ my.i \in 1 .. Len(my.chain) BY <1>0, <3>1 DEF ChainNumbers, PlaceInv, Linking
    <3>3. LinkDone = Link.sectors
      <4>1. Link.sectors \in Nat BY <3>2, Links DEF Link
      <4> QED BY <3>1, <4>1 DEF LinkDone
    <3>4. Filled(my.i) BY <3>1, <3>3 DEF ChainData, Filled, Link
    <3>5. \A k \in 1 .. my.i - 1 : Filled(k) BY <3>1 DEF ChainData
    <3>6. \A k \in 1 .. my.i : k = my.i \/ k \in 1 .. my.i - 1
      <4>1. my.i \in Int BY <1>0 DEF Locals
      <4> QED BY <4>1
    <3>7. \A k \in 1 .. my.i : Filled(k) BY <3>4, <3>5, <3>6
    <3> QED BY <3>1, <3>7 DEF ChainData, Filled, Holds, Brought
  <2> QED BY <2>2, <2>3, <2>4, <2>5, <2>6, <2>7, <2>8, <2>9, <2>10, <2>11 DEF FsvNext, RpcStep, Elsewhere
<1> QED BY <1>1, <1>2

LinksInv == Arrived /\ ChainData

\* Every link of a chain that is done has its data in EE memory, in one piece
\* or in many, but for what a read was cut short before, as long as the links of
\* a chain do not overlap.
THEOREM ChainsReachTheEE ==
  ASSUME ChainsApart
  PROVE  FsvSpec => []ChainDelivers
<1>1. FsvInit => LinksInv
  <2> SUFFICES ASSUME FsvInit PROVE Arrived /\ ChainData BY DEF LinksInv
  <2>1. at = "idle" BY DEF FsvInit
  <2> QED BY <2>1 DEF Arrived, ChainData
<1>2. ControlInv /\ NumbersInv /\ LinksInv /\ [FsvNext]_fsvvars => LinksInv'
  BY ArrivedStep, ChainDataStep DEF LinksInv
<1>3. LinksInv => ChainDelivers BY DEF LinksInv, ChainData, ChainDelivers, Filled
<1> QED BY <1>1, <1>2, <1>3, Numbers, PTL DEF FsvSpec

=============================================================================
