----------------------------- MODULE MpWorkProofs -----------------------------
(***************************************************************************)
(* What MpAcceptMemoryResourceRange promises, for every range, every size  *)
(* of the large page and the chunk, every mapping of the VMM and every     *)
(* number of CPUs: no page is the work of two CPUs, none outside the range *)
(* is accepted, and EFI_SUCCESS means that all of the range is.            *)
(*                                                                         *)
(* The argument: a CPU at work is at a place of its own stripe (CursorOK), *)
(* everything of the stripe below that place is accepted (DoneBelow), and  *)
(* the protocol (PhaseInv of TdxMailbox) keeps the arguments of the call,  *)
(* and the call itself, until the last CPU has come to the end.            *)
(***************************************************************************)
EXTENDS MpAcceptProofs, TdxPartitionProofs, SequenceTheorems

(* The CPU a page of part [start, end, size] belongs to.                   *)
Owner(p, part) == ((p - part.start) \div ChunkSize) % NumOfCpus

(* A cursor of CPU a in a part: it is in one of a's chunks, the rest of    *)
(* the chunk is whole pages up to the chunk's or the part's end, and a     *)
(* fall back is inside one 2MB page.                                       *)
ChunkEnd(base, part) == IF part.end - base < ChunkSize THEN part.end ELSE base + ChunkSize

PageStart(c) == IF c.fallback = 0 THEN c.addr ELSE c.addr - (Big - c.fallback)

CursorOK(c, a, part) ==
    /\ c \in Cursor
    /\ c.base >= part.start
    /\ (c.base - part.start) % ChunkSize = 0
    /\ Owner(c.base, part) = a
    /\ c.addr >= c.base
    /\ c.base < part.end =>
          /\ c.left > 0
          /\ c.left % part.size = 0
          /\ PageStart(c) >= c.base
          /\ PageStart(c) + c.left = ChunkEnd(c.base, part)
          /\ c.fallback > 0 => part.size = Big /\ c.fallback <= Big

(* The pages of CPU a in a part that lie below a limit are in a set.       *)
DoneBelow(pages, limit, a, part) ==
    \A p \in part.start .. part.end - 1 :
        Owner(p, part) = a /\ p < limit => p \in pages

TheParts(r) == {Part1(r.start, r.end), Part2(r.start, r.end), Part3(r.start, r.end)}

-----------------------------------------------------------------------------
(* Arithmetic.                                                             *)

LEMMA Cpus == CPU = 0 .. NumOfCpus - 1 /\ 0 \in CPU /\ AP = CPU \ {0} /\ NumOfCpus \in Nat \ {0}
BY CpusAssumption DEF CPU, AP

LEMMA Sizes ==
    /\ Big \in Nat \ {0, 1}
    /\ ChunkSize \in Nat \ {0}
    /\ ChunkSize >= 2 * Big
    /\ ChunkSize % Big = 0
BY PartitionAssumption

LEMMA ChunkNat == ChunkSize \in Nat \ {0} /\ NumOfCpus \in Nat \ {0}
BY Sizes, Cpus

LEMMA MultipleOf ==
    ASSUME NEW n \in Int, NEW b \in Nat \ {0}
    PROVE  n % b = 0 <=> \E k \in Int : n = b * k
<1>1. ASSUME n % b = 0 PROVE \E k \in Int : n = b * k
  <2>1. n \div b \in Int /\ n = b * (n \div b) + (n % b)
    BY DivMod
  <2>2. n = b * (n \div b)
    BY <1>1, <2>1
  <2>3. QED
    BY <2>1, <2>2
<1>2. ASSUME NEW k \in Int, n = b * k PROVE n % b = 0
  <2>1. 0 \in Int /\ 0 <= 0 /\ 0 < b
    OBVIOUS
  <2>2. (b * k + 0) % b = 0
    BY <2>1, ModOfSum
  <2>3. QED
    BY <1>2, <2>2
<1>3. QED
  BY <1>1, <1>2

LEMMA TimesInt ==
    ASSUME NEW c \in Int, NEW i \in Int
    PROVE  c * i \in Int
OBVIOUS

LEMMA Distributes ==
    ASSUME NEW b \in Int, NEW x \in Int, NEW y \in Int
    PROVE  /\ b * x + b * y = b * (x + y)
           /\ b * x - b * y = b * (x - y)
OBVIOUS

LEMMA Associates ==
    ASSUME NEW x \in Int, NEW y \in Int, NEW z \in Int
    PROVE  (x * y) * z = x * (y * z)
OBVIOUS

LEMMA MultipleOfSum ==
    ASSUME NEW x \in Int, NEW y \in Int, NEW b \in Nat \ {0}, x % b = 0, y % b = 0
    PROVE  (x + y) % b = 0 /\ (x - y) % b = 0
<1>1. PICK i \in Int : x = b * i
  BY MultipleOf
<1>2. PICK j \in Int : y = b * j
  BY MultipleOf
<1>3. x + y = b * (i + j) /\ x - y = b * (i - j)
  BY <1>1, <1>2, Distributes
<1>4. x + y \in Int /\ x - y \in Int /\ i + j \in Int /\ i - j \in Int
  OBVIOUS
<1>5. (x + y) % b = 0
  BY <1>3, <1>4, MultipleOf
<1>6. (x - y) % b = 0
  BY <1>3, <1>4, MultipleOf
<1>7. QED
  BY <1>5, <1>6

LEMMA MultipleOfMultiple ==
    ASSUME NEW x \in Int, NEW c \in Nat \ {0}, NEW b \in Nat \ {0}, x % c = 0, c % b = 0
    PROVE  x % b = 0
<1>1. PICK i \in Int : x = c * i
  BY MultipleOf
<1>2. PICK j \in Int : c = b * j
  BY MultipleOf
<1>3. (b * j) * i = b * (j * i) /\ j * i \in Int
  BY Associates, TimesInt
<1>4. x = b * (j * i)
  BY <1>1, <1>2, <1>3
<1>5. QED
  BY <1>3, <1>4, MultipleOf

LEMMA MultipleIsLarge ==
    ASSUME NEW x \in Int, NEW b \in Nat \ {0}, x % b = 0, x > 0
    PROVE  x >= b
<1>1. CASE x < b
  <2>1. x % b = x
    BY <1>1
  <2>2. QED
    BY <2>1
<1>2. QED
  BY <1>1

(* The chunk a page is in.                                                 *)
LEMMA ChunkOf ==
    ASSUME NEW s \in Int, NEW base \in Int, NEW p \in Int, NEW c \in Nat \ {0},
           (base - s) % c = 0, base <= p
    PROVE  /\ (base - s) \div c \in Int
           /\ (p - base) \div c \in Nat
           /\ (p - s) \div c = (base - s) \div c + (p - base) \div c
           /\ base - s = c * ((base - s) \div c)
<1> DEFINE j == (base - s) \div c
           q == (p - base) \div c
           r == (p - base) % c
<1>1. j \in Int /\ base - s = c * j
  BY DivMod
<1>2. q \in Int /\ r \in 0 .. c - 1 /\ p - base = c * q + r
  BY DivMod, ModType, SMTT(40)
<1>3. q >= 0
  OBVIOUS
<1>4. p - s = c * (j + q) + r
  <2>1. c * j + c * q = c * (j + q)
    BY <1>1, <1>2, Distributes
  <2>2. c * j \in Int /\ c * q \in Int /\ c * (j + q) \in Int
    BY <1>1, <1>2, TimesInt
  <2>3. p - s = (base - s) + (p - base)
    OBVIOUS
  <2>4. QED
    BY <1>1, <1>2, <2>1, <2>2, <2>3
<1>5. (c * (j + q) + r) \div c = j + q
  <2>1. j + q \in Int /\ r \in Int /\ 0 <= r /\ r < c
    BY <1>1, <1>2
  <2>2. QED
    BY <2>1, DivOfSum
<1>6. (p - s) \div c = j + q
  BY <1>4, <1>5
<1>7. QED
  BY <1>1, <1>2, <1>3, <1>6

(* Who is next after j chunks, modulo the number of CPUs.                  *)
LEMMA RoundRobin ==
    ASSUME NEW j \in Int, NEW q \in Int, NEW n \in Nat \ {0}
    PROVE  (j + q) % n = j % n <=> q % n = 0
<1>1. j \div n \in Int /\ j % n \in 0 .. n - 1 /\ j = n * (j \div n) + (j % n)
  BY DivMod, ModType
<1>2. ASSUME q % n = 0 PROVE (j + q) % n = j % n
  <2>1. PICK k \in Int : q = n * k
    BY <1>2, MultipleOf
  <2>2. n * (j \div n) + n * k = n * ((j \div n) + k)
    BY <1>1, Distributes
  <2>3. n * (j \div n) \in Int /\ n * k \in Int /\ (j \div n) + k \in Int
    BY <1>1, TimesInt
  <2>4. j + q = n * ((j \div n) + k) + (j % n)
    BY <1>1, <2>1, <2>2, <2>3
  <2>5. (n * ((j \div n) + k) + (j % n)) % n = j % n
    <3>1. j % n \in Int /\ 0 <= j % n /\ j % n < n
      BY <1>1
    <3>2. QED
      BY <2>3, <3>1, ModOfSum
  <2>6. QED
    BY <2>4, <2>5
<1>3. ASSUME (j + q) % n = j % n PROVE q % n = 0
  <2> DEFINE i == (j + q) \div n
  <2>1. i \in Int /\ j + q = n * i + (j % n)
    BY <1>3, DivMod
  <2>2. n * i - n * (j \div n) = n * (i - (j \div n))
    BY <1>1, <2>1, Distributes
  <2>3. n * i \in Int /\ n * (j \div n) \in Int /\ i - (j \div n) \in Int
    BY <1>1, <2>1, TimesInt
  <2>4. q = n * (i - (j \div n))
    <3> HIDE DEF i
    <3>1. QED
      BY <1>1, <2>1, <2>2, <2>3
  <2>5. QED
    BY <2>3, <2>4, MultipleOf
<1>4. QED
  BY <1>2, <1>3

-----------------------------------------------------------------------------
(* The parts of a range and the places in them.                            *)

Part == [start : Nat, end : Nat, size : {1, Big}]

PartOK(part) ==
    /\ part \in Part
    /\ part.start <= part.end
    /\ part.size = Big => (part.end - part.start) % Big = 0

LEMMA PartsOK ==
    ASSUME NEW r \in Ranges
    PROVE  LET p1 == Part1(r.start, r.end)
               p2 == Part2(r.start, r.end)
               p3 == Part3(r.start, r.end)
           IN  /\ PartOK(p1) /\ PartOK(p2) /\ PartOK(p3)
               /\ r.start \in Nat /\ r.end \in Nat
               /\ p1.start = r.start /\ p1.end = p2.start
               /\ p2.end = p3.start /\ p3.end = r.end
               /\ p1.end - p1.start < ChunkSize
               /\ p3.end - p3.start < ChunkSize
<1> DEFINE s == r.start
           e == r.end
           l1 == Length1(s, e)
           l2 == Length2(s, e)
           l3 == Length3(s, e)
<1>1. s \in Nat /\ e \in Nat /\ s <= e
  BY RangesAssumption
<1>2. PartFacts(s, e)
  BY <1>1, PartsOfRange
<1>3. /\ l1 \in Nat /\ l2 \in Nat /\ l3 \in Nat
      /\ l1 + l2 + l3 = e - s
      /\ l1 < 2 * Big
      /\ l3 < Big
      /\ PageSize2(s, e) = Big /\ l2 > 0 => l2 % Big = 0
  BY <1>2 DEF PartFacts
<1>4. PageSize2(s, e) \in {1, Big}
  BY PartitionAssumption DEF PageSize2
<1>5. 0 % Big = 0
  BY Sizes
<1>6. PageSize2(s, e) = Big => l2 % Big = 0
  BY <1>3, <1>5
<1> HIDE DEF s, e, l1, l2, l3
<1>7. /\ Part1(s, e) = [start |-> s, end |-> s + l1, size |-> 1]
      /\ Part2(s, e) = [start |-> s + l1, end |-> s + l1 + l2, size |-> PageSize2(s, e)]
      /\ Part3(s, e) = [start |-> s + l1 + l2, end |-> e, size |-> 1]
  BY <1>1, <1>3, Zenon DEF Part1, Part2, Part3, l1, l2, l3
<1>8. s + l1 + l2 + l3 = e /\ (s + l1 + l2) - (s + l1) = l2
  BY <1>1, <1>3
<1>9. PartOK(Part1(s, e)) /\ PartOK(Part3(s, e))
  BY <1>1, <1>3, <1>7, <1>8, Sizes DEF PartOK, Part
<1>10. PartOK(Part2(s, e))
  <2> DEFINE p2 == Part2(s, e)
  <2>1. p2.start = s + l1 /\ p2.end = s + l1 + l2 /\ p2.size = PageSize2(s, e) /\ p2 \in Part
    BY <1>1, <1>3, <1>4, <1>7 DEF Part
  <2>2. p2.end - p2.start = l2
    BY <1>8, <2>1
  <2>3. QED
    BY <1>1, <1>3, <1>6, <2>1, <2>2 DEF PartOK
<1>11. QED
  <2>1. /\ Part1(s, e).start = s /\ Part1(s, e).end = Part2(s, e).start
        /\ Part2(s, e).end = Part3(s, e).start /\ Part3(s, e).end = e
    BY <1>7
  <2>2. Part1(s, e).end - Part1(s, e).start < ChunkSize
    BY <1>1, <1>3, <1>7, Sizes
  <2>3. Part3(s, e).end - Part3(s, e).start < ChunkSize
    BY <1>1, <1>3, <1>7, <1>8, Sizes
  <2>4. QED
    BY <1>1, <1>9, <1>10, <2>1, <2>2, <2>3 DEF s, e

(* The owner of a page, from the chunk of a CPU at or below it.            *)
LEMMA OwnerFrom ==
    ASSUME NEW part, PartOK(part), NEW base \in Int, NEW p \in Int,
           (base - part.start) % ChunkSize = 0, base <= p
    PROVE  /\ Owner(p, part) = Owner(base, part)
                 <=> ((p - base) \div ChunkSize) % NumOfCpus = 0
           /\ Owner(p, part) \in CPU
<1> DEFINE s == part.start
           j == (base - s) \div ChunkSize
           q == (p - base) \div ChunkSize
<1>1. s \in Int /\ (base - s) % ChunkSize = 0
  BY DEF PartOK, Part
<1>2. j \in Int /\ q \in Int /\ (p - s) \div ChunkSize = j + q
  <2> HIDE DEF s
  <2>1. j \in Int /\ q \in Nat /\ (p - s) \div ChunkSize = j + q
    BY <1>1, ChunkNat, ChunkOf, ZenonT(60)
  <2>2. QED
    BY <2>1
<1>3. Owner(base, part) = j % NumOfCpus /\ Owner(p, part) = (j + q) % NumOfCpus
  BY <1>2 DEF Owner
<1>4. (j + q) % NumOfCpus = j % NumOfCpus <=> q % NumOfCpus = 0
  BY <1>2, Cpus, RoundRobin
<1>5. (j + q) % NumOfCpus \in 0 .. NumOfCpus - 1
  <2> HIDE DEF j, q
  <2>1. j + q \in Int
    BY <1>2
  <2>2. QED
    BY <2>1, Cpus, ModType
<1>6. QED
  BY <1>3, <1>4, <1>5, Cpus

(* The chunk at base is all its owner's ...                                *)
LEMMA InChunk ==
    ASSUME NEW part, PartOK(part), NEW base \in Int, NEW p \in Int,
           (base - part.start) % ChunkSize = 0, base <= p, p < base + ChunkSize
    PROVE  Owner(p, part) = Owner(base, part)
<1>1. (p - base) \div ChunkSize = 0
  BY Sizes, DivOfSmall
<1>2. 0 % NumOfCpus = 0
  BY Cpus
<1>3. QED
  BY <1>1, <1>2, OwnerFrom

(* ... and its next chunk is the one a stride further on.                  *)
LEMMA BetweenChunks ==
    ASSUME NEW part, PartOK(part), NEW base \in Int, NEW p \in Int,
           (base - part.start) % ChunkSize = 0,
           base + ChunkSize <= p, p < base + NumOfCpus * ChunkSize
    PROVE  Owner(p, part) # Owner(base, part)
<1> DEFINE q == (p - base) \div ChunkSize
           r == (p - base) % ChunkSize
<1>1. q \in Int /\ r \in 0 .. ChunkSize - 1 /\ p - base = ChunkSize * q + r
  <2>1. p - base \in Int
    OBVIOUS
  <2>2. QED
    BY <2>1, ChunkNat, DivMod, ModType
<1> HIDE DEF q, r
<1>2. q > 0
  <2>1. SUFFICES ASSUME q <= 0 PROVE FALSE
    BY <1>1
  <2>2. ChunkSize * (0 - q) \in Nat
    BY <1>1, <2>1, Sizes, TimesNat
  <2>3. ChunkSize * 0 - ChunkSize * q = ChunkSize * (0 - q)
    BY <1>1, Sizes, Distributes
  <2>4. ChunkSize * q <= 0
    BY <1>1, <2>2, <2>3, Sizes, TimesInt
  <2>5. QED
    BY <1>1, <2>4, Sizes, TimesInt
<1>3. q < NumOfCpus
  <2>1. SUFFICES ASSUME q >= NumOfCpus PROVE FALSE
    BY <1>1, Cpus
  <2>2. ChunkSize * (q - NumOfCpus) \in Nat
    BY <1>1, <2>1, Sizes, Cpus, TimesNat
  <2>3. ChunkSize * q - ChunkSize * NumOfCpus = ChunkSize * (q - NumOfCpus)
    BY <1>1, Sizes, Cpus, Distributes
  <2>4. ChunkSize * q \in Int /\ ChunkSize * NumOfCpus \in Int
        /\ ChunkSize * NumOfCpus = NumOfCpus * ChunkSize
    BY <1>1, Sizes, Cpus, TimesInt
  <2>5. QED
    BY <1>1, <2>2, <2>3, <2>4, Sizes
<1>4. q % NumOfCpus = q
  BY <1>1, <1>2, <1>3, Cpus
<1>5. base <= p
  BY Sizes
<1>6. Owner(p, part) = Owner(base, part) <=> q % NumOfCpus = 0
  BY <1>5, OwnerFrom DEF q
<1>7. QED
  BY <1>1, <1>2, <1>4, <1>6

LEMMA NextChunk ==
    ASSUME NEW part, PartOK(part), NEW base \in Nat, base >= part.start,
           (base - part.start) % ChunkSize = 0
    PROVE  LET next == base + NumOfCpus * ChunkSize
           IN  /\ next \in Nat /\ next >= base
               /\ (next - part.start) % ChunkSize = 0
               /\ Owner(next, part) = Owner(base, part)
<1> DEFINE step == NumOfCpus * ChunkSize
           next == base + step
<1>1. step \in Nat /\ step = ChunkSize * NumOfCpus /\ part.start \in Nat
  BY Cpus, Sizes, TimesNat DEF PartOK, Part
<1>2. step % ChunkSize = 0
  <2> HIDE DEF step
  <2>1. QED
    BY <1>1, ChunkNat, MultipleOf
<1>3. step \div ChunkSize = NumOfCpus
  <2>1. 0 \in Int /\ 0 <= 0 /\ 0 < ChunkSize
    BY Sizes
  <2>2. (ChunkSize * NumOfCpus + 0) \div ChunkSize = NumOfCpus
    BY <2>1, Cpus, Sizes, DivOfSum
  <2>3. QED
    BY <1>1, <2>2
<1>4. NumOfCpus % NumOfCpus = 0
  BY Cpus
<1> HIDE DEF step
<1>5. (next - part.start) % ChunkSize = 0
  <2>1. next - part.start = (base - part.start) + step
    BY <1>1
  <2>2. QED
    BY <1>1, <1>2, <2>1, Sizes, MultipleOfSum
<1>6. next - base = step
  BY <1>1
<1>7. Owner(next, part) = Owner(base, part)
  <2>1. next \in Int /\ base <= next
    BY <1>1
  <2>2. ((next - base) \div ChunkSize) % NumOfCpus = 0
    BY <1>3, <1>4, <1>6
  <2>3. QED
    BY <2>1, <2>2, OwnerFrom
<1>8. QED
  BY <1>1, <1>5, <1>7 DEF step

-----------------------------------------------------------------------------
(* A cursor moves from page to page and from chunk to chunk.               *)

LEMMA ChunkAtOK ==
    ASSUME NEW part, PartOK(part), NEW a \in CPU, NEW base \in Nat, base >= part.start,
           (base - part.start) % ChunkSize = 0, Owner(base, part) = a
    PROVE  CursorOK(ChunkAt(base, part.end, ChunkSize), a, part)
<1> DEFINE c == ChunkAt(base, part.end, ChunkSize)
<1>1. part.start \in Nat /\ part.end \in Nat /\ part.size \in {1, Big}
  BY DEF PartOK, Part
<1>2. c.base = base /\ c.addr = base /\ c.fallback = 0
  BY DEF ChunkAt
<1>3. c \in Cursor
  BY <1>1, ChunkNat DEF ChunkAt, Cursor
<1>4. ASSUME base < part.end
      PROVE  c.left > 0 /\ base + c.left = ChunkEnd(base, part)
  BY <1>1, <1>4, ChunkNat DEF ChunkAt, ChunkEnd
<1>5. ASSUME base < part.end
      PROVE  c.left % part.size = 0
  <2>1. CASE part.size = 1
    <3>1. c.left \in Nat
      BY <1>3 DEF Cursor
    <3>2. QED
      BY <2>1, <3>1
  <2>2. CASE part.size = Big
    <3>1. Big \in Nat \ {0} /\ ChunkSize % Big = 0
      BY Sizes
    <3>2. base - part.start \in Int /\ part.end - part.start \in Int
      BY <1>1
    <3>3. (base - part.start) % Big = 0
      BY <3>1, <3>2, ChunkNat, MultipleOfMultiple
    <3>4. (part.end - part.start) % Big = 0
      BY <2>2 DEF PartOK
    <3>5. ((part.end - part.start) - (base - part.start)) % Big = 0
      BY <3>1, <3>2, <3>3, <3>4, MultipleOfSum
    <3>6. (part.end - part.start) - (base - part.start) = part.end - base
      BY <1>1
    <3>7. c.left = part.end - base \/ c.left = ChunkSize
      BY <1>1, <1>5 DEF ChunkAt
    <3>8. QED
      BY <2>2, <3>1, <3>5, <3>6, <3>7
  <2>3. QED
    BY <1>1, <2>1, <2>2
<1>6. QED
  <2> HIDE DEF c
  <2>1. PageStart(c) = base
    BY <1>2 DEF PageStart
  <2>2. QED
    BY <1>1, <1>2, <1>3, <1>4, <1>5, <2>1 DEF CursorOK, c

LEMMA FirstChunkOK ==
    ASSUME NEW part, PartOK(part), NEW a \in CPU
    PROVE  CursorOK(ChunkAt(part.start + a * ChunkSize, part.end, ChunkSize), a, part)
<1> DEFINE step == a * ChunkSize
           base == part.start + step
<1>1. a \in Nat /\ a < NumOfCpus /\ part.start \in Nat
  BY Cpus DEF PartOK, Part
<1>2. step = ChunkSize * a /\ step \in Nat
  BY <1>1, ChunkNat, TimesNat
<1> HIDE DEF step
<1>3. base \in Nat /\ base >= part.start /\ base - part.start = step
  BY <1>1, <1>2
<1>4. step % ChunkSize = 0
  BY <1>1, <1>2, ChunkNat, MultipleOf
<1>5. step \div ChunkSize = a
  <2>1. 0 \in Int /\ 0 <= 0 /\ 0 < ChunkSize /\ a \in Int
    BY <1>1, ChunkNat
  <2>2. (ChunkSize * a + 0) \div ChunkSize = a
    BY <2>1, ChunkNat, DivOfSum
  <2>3. ChunkSize * a + 0 = step
    BY <1>2
  <2>4. QED
    BY <2>2, <2>3
<1>6. a % NumOfCpus = a
  BY <1>1, ChunkNat
<1>7. Owner(base, part) = a
  BY <1>3, <1>5, <1>6 DEF Owner
<1>8. QED
  BY <1>3, <1>4, <1>7, ChunkAtOK DEF step

(* A page that is next is in the part and in the chunk.                    *)
LEMMA PageFits ==
    ASSUME NEW part, PartOK(part), NEW a \in CPU, NEW c, CursorOK(c, a, part),
           c.base < part.end
    PROVE  LET level == Level(c, part.size)
           IN  /\ level \in {1, Big}
               /\ c.addr >= part.start
               /\ c.addr + level <= ChunkEnd(c.base, part)
               /\ ChunkEnd(c.base, part) <= part.end
               /\ c.left >= part.size
<1>1. part.start \in Nat /\ part.end \in Nat /\ part.size \in {1, Big} /\ Big \in Nat
  BY Sizes DEF PartOK, Part
<1>2. c.base \in Nat /\ c.addr \in Nat /\ c.left \in Nat /\ c.fallback \in Nat
  BY DEF CursorOK, Cursor
<1>3. /\ c.base >= part.start
      /\ c.addr >= c.base
      /\ c.left > 0
      /\ PageStart(c) + c.left = ChunkEnd(c.base, part)
      /\ c.fallback > 0 => part.size = Big /\ c.fallback <= Big
  BY DEF CursorOK
<1>4. c.left >= part.size
  <2>1. part.size \in Nat \ {0} /\ c.left \in Int
    BY <1>1, <1>2, Sizes
  <2>2. c.left % part.size = 0
    BY DEF CursorOK
  <2>3. QED
    BY <1>3, <2>1, <2>2, MultipleIsLarge
<1>5. ChunkEnd(c.base, part) <= part.end
  BY <1>1, <1>2, ChunkNat DEF ChunkEnd
<1>6. Level(c, part.size) \in {1, Big}
  BY <1>1 DEF Level
<1>7. c.addr + Level(c, part.size) <= ChunkEnd(c.base, part)
  <2>1. CASE c.fallback = 0
    BY <1>1, <1>2, <1>3, <1>4, <2>1 DEF Level, PageStart
  <2>2. CASE c.fallback > 0
    BY <1>1, <1>2, <1>3, <1>4, <2>2 DEF Level, PageStart
  <2>3. QED
    BY <1>2, <2>1, <2>2
<1>8. QED
  BY <1>1, <1>2, <1>3, <1>4, <1>5, <1>6, <1>7

Step(c, part) == Advance(c, part.size, part.end, ChunkSize, NumOfCpus * ChunkSize)

(* The pages a 4KB or 2MB step takes off the rest of the chunk.            *)
Taken(c, part) ==
    IF c.fallback = 0 THEN part.size ELSE IF c.fallback = 1 THEN Big ELSE 0

LEMMA StepOK ==
    ASSUME NEW part, PartOK(part), NEW a \in CPU, NEW c, CursorOK(c, a, part),
           c.base < part.end
    PROVE  CursorOK(Step(c, part), a, part)
<1>1. part.start \in Nat /\ part.end \in Nat /\ part.size \in {1, Big} /\ Big \in Nat \ {0, 1}
  BY Sizes DEF PartOK, Part
<1>2. /\ c.base \in Nat /\ c.addr \in Nat /\ c.left \in Nat /\ c.fallback \in Nat
      /\ c.base >= part.start
      /\ c.addr >= c.base
      /\ c.left > 0
      /\ PageStart(c) >= c.base
      /\ PageStart(c) + c.left = ChunkEnd(c.base, part)
      /\ c.fallback > 0 => part.size = Big /\ c.fallback <= Big
  BY DEF CursorOK, Cursor
<1>3. c.left >= part.size
  BY PageFits
<1>4. /\ (c.base - part.start) % ChunkSize = 0
      /\ Owner(c.base, part) = a
      /\ c.left % part.size = 0
  BY DEF CursorOK
<1>5. CASE c.left = Taken(c, part)
  <2> DEFINE next == c.base + NumOfCpus * ChunkSize
  <2>1. Step(c, part) = ChunkAt(next, part.end, ChunkSize)
    BY <1>5, Zenon DEF Step, Advance, Taken
  <2>2. /\ next \in Nat /\ next >= c.base
        /\ (next - part.start) % ChunkSize = 0
        /\ Owner(next, part) = a
    BY <1>2, <1>4, NextChunk
  <2> HIDE DEF next
  <2>3. next >= part.start
    BY <1>1, <1>2, <2>2
  <2>4. QED
    BY <2>1, <2>2, <2>3, ChunkAtOK
<1>6. CASE c.left # Taken(c, part)
  <2> DEFINE d == Step(c, part)
  <2>1. d = [base |-> c.base, addr |-> c.addr + Level(c, part.size),
             left |-> c.left - Taken(c, part),
             fallback |-> IF c.fallback = 0 THEN 0 ELSE c.fallback - 1]
    BY <1>6, Zenon DEF Step, Advance, Taken
  <2> HIDE DEF d
  <2>2. Taken(c, part) \in Nat /\ Taken(c, part) <= part.size
        /\ Taken(c, part) \in {0, part.size}
    BY <1>1, <1>2 DEF Taken
  <2>3. /\ d.base = c.base
        /\ d.addr = c.addr + Level(c, part.size)
        /\ d.left = c.left - Taken(c, part)
        /\ d.left \in Nat /\ d.left > 0
        /\ d.fallback = IF c.fallback = 0 THEN 0 ELSE c.fallback - 1
        /\ d \in Cursor
    BY <1>1, <1>2, <1>3, <1>6, <2>1, <2>2 DEF Cursor, Level
  <2>4. d.left % part.size = 0
    <3>1. part.size \in Nat \ {0} /\ c.left \in Int
      BY <1>1, <1>2
    <3>2. part.size % part.size = 0
      BY <3>1
    <3>3. (c.left - part.size) % part.size = 0
      BY <1>4, <3>1, <3>2, MultipleOfSum
    <3>4. c.left - 0 = c.left
      BY <3>1
    <3>5. QED
      BY <1>4, <2>2, <2>3, <3>3, <3>4
  <2>5. PageStart(d) = PageStart(c) + Taken(c, part)
    <3>1. CASE c.fallback = 0
      BY <1>1, <1>2, <2>3, <3>1 DEF PageStart, Taken, Level
    <3>2. CASE c.fallback = 1
      BY <1>1, <1>2, <2>3, <3>2 DEF PageStart, Taken, Level
    <3>3. CASE c.fallback > 1
      BY <1>1, <1>2, <2>3, <3>3 DEF PageStart, Taken, Level
    <3>4. QED
      BY <1>2, <3>1, <3>2, <3>3
  <2>6. PageStart(c) \in Int
    BY <1>1, <1>2 DEF PageStart
  <2>7. d.addr >= d.base
    BY <1>1, <1>2, <2>3 DEF Level
  <2>8. d.fallback > 0 => part.size = Big /\ d.fallback <= Big
    BY <1>1, <1>2, <2>3
  <2>9. PageStart(d) >= d.base /\ PageStart(d) + d.left = ChunkEnd(d.base, part)
    BY <1>2, <2>2, <2>3, <2>5, <2>6
  <2>10. QED
    BY <1>2, <1>4, <2>3, <2>4, <2>7, <2>8, <2>9 DEF CursorOK, d
<1>7. QED
  BY <1>5, <1>6

(* A step leaves no page of its CPU behind but those just accepted.        *)
LEMMA StepCovers ==
    ASSUME NEW part, PartOK(part), NEW a \in CPU, NEW c, CursorOK(c, a, part),
           c.base < part.end, NEW p \in part.start .. part.end - 1,
           Owner(p, part) = a, c.addr <= p, p < Step(c, part).addr
    PROVE  p \in Block(c.addr, Level(c, part.size))
<1>1. part.start \in Nat /\ part.end \in Nat /\ part.size \in {1, Big} /\ Big \in Nat \ {0, 1}
  BY Sizes DEF PartOK, Part
<1>2. /\ c.base \in Nat /\ c.addr \in Nat /\ c.left \in Nat /\ c.fallback \in Nat
      /\ (c.base - part.start) % ChunkSize = 0
      /\ Owner(c.base, part) = a
      /\ c.addr >= c.base
      /\ PageStart(c) + c.left = ChunkEnd(c.base, part)
      /\ c.fallback > 0 => part.size = Big /\ c.fallback <= Big
  BY DEF CursorOK, Cursor
<1>3. CASE c.left = Taken(c, part)
  <2> DEFINE next == c.base + NumOfCpus * ChunkSize
  <2>1. Step(c, part).addr = next
    BY <1>3, Zenon DEF Step, Advance, Taken, ChunkAt
  <2>2. c.left > 0
    BY DEF CursorOK
  <2>3. c.addr + Level(c, part.size) = ChunkEnd(c.base, part)
    <3>1. CASE c.fallback = 0
      BY <1>1, <1>2, <1>3, <2>2, <3>1 DEF PageStart, Taken, Level
    <3>2. CASE c.fallback = 1
      BY <1>1, <1>2, <1>3, <2>2, <3>2 DEF PageStart, Taken, Level
    <3>3. CASE c.fallback > 1
      BY <1>1, <1>2, <1>3, <2>2, <3>3 DEF PageStart, Taken, Level
    <3>4. QED
      BY <1>2, <3>1, <3>2, <3>3
  <2>4. p < ChunkEnd(c.base, part)
    <3>1. SUFFICES ASSUME p >= ChunkEnd(c.base, part) PROVE FALSE
      BY <1>1, <1>2, ChunkNat DEF ChunkEnd
    <3>2. p >= c.base + ChunkSize
      BY <1>1, <1>2, <3>1, ChunkNat DEF ChunkEnd
    <3>3. p < c.base + NumOfCpus * ChunkSize /\ p \in Int
      BY <2>1
    <3>4. QED
      BY <1>2, <3>2, <3>3, BetweenChunks
  <2>5. QED
    BY <1>1, <1>2, <2>3, <2>4, ChunkNat DEF Block, Level
<1>4. CASE c.left # Taken(c, part)
  <2>1. Step(c, part).addr = c.addr + Level(c, part.size)
    BY <1>4, Zenon DEF Step, Advance, Taken
  <2>2. QED
    BY <1>1, <1>2, <2>1 DEF Block, Level
<1>5. QED
  BY <1>3, <1>4

LEMMA FallBackOK ==
    ASSUME NEW part, PartOK(part), NEW a \in CPU, NEW c, CursorOK(c, a, part),
           c.base < part.end, c.fallback = 0, part.size = Big
    PROVE  CursorOK(FallBack(c), a, part) /\ FallBack(c).addr = c.addr
<1>1. Big \in Nat \ {0, 1}
  BY Sizes
<1>2. c \in Cursor
  BY DEF CursorOK
<1>3. /\ FallBack(c) \in Cursor
      /\ FallBack(c).base = c.base /\ FallBack(c).addr = c.addr
      /\ FallBack(c).left = c.left /\ FallBack(c).fallback = Big
  BY <1>1, <1>2 DEF FallBack, Cursor
<1>4. PageStart(FallBack(c)) = PageStart(c)
  BY <1>1, <1>2, <1>3 DEF PageStart, Cursor
<1>5. QED
  BY <1>1, <1>3, <1>4 DEF CursorOK

(* What a cursor has ahead of it belongs to its CPU.                       *)
LEMMA RemainingIsOwned ==
    ASSUME NEW part, PartOK(part), NEW a \in CPU, NEW c, CursorOK(c, a, part),
           NEW p \in Remaining(c, part.end, ChunkSize, NumOfCpus)
    PROVE  p \in part.start .. part.end - 1 /\ Owner(p, part) = a
<1>1. /\ c.base \in Nat /\ c.addr \in Nat /\ c.addr >= c.base /\ c.base >= part.start
      /\ (c.base - part.start) % ChunkSize = 0
      /\ Owner(c.base, part) = a
  BY DEF CursorOK, Cursor
<1>2. part.start \in Nat /\ part.end \in Nat
  BY DEF PartOK, Part
<1>3. /\ p \in c.addr .. part.end - 1
      /\ p < c.base + ChunkSize \/ ((p - c.base) \div ChunkSize) % NumOfCpus = 0
  BY DEF Remaining
<1>4. p \in Int /\ c.base <= p /\ p \in part.start .. part.end - 1
  BY <1>1, <1>2, <1>3
<1>5. CASE p < c.base + ChunkSize
  BY <1>1, <1>4, <1>5, InChunk
<1>6. CASE ((p - c.base) \div ChunkSize) % NumOfCpus = 0
  BY <1>1, <1>4, <1>6, OwnerFrom
<1>7. QED
  BY <1>3, <1>4, <1>5, <1>6

(* The inductive invariant.  The types ...                                 *)
WorkTypes ==
    /\ range \in [start : Nat, end : Nat]
    /\ cur \in [CPU -> Cursor]
    /\ errors \in [CPU -> 0 .. 3]
    /\ status \in {"Success", "InvalidParameter", "DeviceError"}
    /\ mp \in {"out", "in", "dead"}

(* ... the call in progress and the request it makes of the mailbox ...    *)
CallInv ==
    /\ bsp # "idle" /\ req.command # Wakeup => range \in Ranges /\ req = RequestOf(range)
    /\ mp = "in" => range \in Ranges /\ req = RequestOf(range)
    /\ mp = "out" => bsp = "idle" \/ req.command = Wakeup
    /\ bsp \in {"end", "noop", "zero", "dec", "idle"} => todo = <<>>

(* ... the cursors of the CPUs that are at work ...                        *)
BspCursorInv ==
    /\ todo \in Seq(Part)
    /\ \A i \in 1 .. Len(todo) : todo[i] \in TheParts(range)
    /\ todo # <<>> => range \in Ranges /\ CursorOK(cur[0], 0, todo[1])

ApCursorInv ==
    \A a \in AP : ap[a] = "accept" => CursorOK(cur[a], a, Part2(range.start, range.end))

MpInv == Inv /\ WorkTypes /\ CallInv /\ BspCursorInv /\ ApCursorInv

(* ... and, if a failing ASSERT stops the BSP, what has been accepted.     *)
BspDoneInv ==
    mp = "in" =>
       /\ status = "Success"
       /\ todo # <<>> => DoneBelow(accepted, cur[0].addr, 0, todo[1])
       /\ \A part \in TheParts(range) :
             \/ \E i \in 1 .. Len(todo) : todo[i] = part
             \/ DoneBelow(accepted, part.end, 0, part)

Finished(a) ==
    \/ ap[a] \in {"finish", "exit"} /\ bsp \in {"work", "end", "noop", "zero", "dec"}
    \/ bsp = "idle"

ApDoneInv ==
    mp = "in" =>
       \A a \in AP :
          LET part == Part2(range.start, range.end)
          IN  /\ ap[a] = "accept" /\ errors[a] = 0 =>
                     DoneBelow(accepted, cur[a].addr, a, part)
              /\ Finished(a) => errors[a] > 0 \/ DoneBelow(accepted, part.end, a, part)

DoneInv == BspDoneInv /\ ApDoneInv /\ AcceptedOnSuccess

(* The parts the BSP goes through.                                         *)
LEMMA NonEmptySeq ==
    ASSUME NEW p \in Part
    PROVE  /\ NonEmpty(p) \in Seq(Part)
           /\ \A i \in 1 .. Len(NonEmpty(p)) : NonEmpty(p)[i] = p
           /\ p.end > p.start => Len(NonEmpty(p)) = 1 /\ NonEmpty(p)[1] = p
BY DEF NonEmpty

LEMMA ConcatElements ==
    ASSUME NEW S, NEW s \in Seq(S), NEW t \in Seq(S)
    PROVE  /\ s \o t \in Seq(S)
           /\ Len(s \o t) = Len(s) + Len(t)
           /\ \A i \in 1 .. Len(s) : (s \o t)[i] = s[i]
           /\ \A i \in 1 .. Len(t) : (s \o t)[Len(s) + i] = t[i]
           /\ \A i \in 1 .. Len(s \o t) :
                 \/ i \in 1 .. Len(s) /\ (s \o t)[i] = s[i]
                 \/ i - Len(s) \in 1 .. Len(t) /\ (s \o t)[i] = t[i - Len(s)]
OBVIOUS

LEMMA BspPartsOK ==
    ASSUME NEW r \in Ranges
    PROVE  /\ BspParts(r) \in Seq(Part)
           /\ \A i \in 1 .. Len(BspParts(r)) : BspParts(r)[i] \in TheParts(r)
           /\ \A part \in TheParts(r) : part.end > part.start =>
                 \E i \in 1 .. Len(BspParts(r)) : BspParts(r)[i] = part
<1> DEFINE p1 == Part1(r.start, r.end)
           p2 == Part2(r.start, r.end)
           p3 == Part3(r.start, r.end)
           s == NonEmpty(p2) \o NonEmpty(p1)
           t == NonEmpty(p3)
<1>1. p1 \in Part /\ p2 \in Part /\ p3 \in Part
  BY PartsOK DEF PartOK
<1> HIDE DEF p1, p2, p3
<1>2. /\ s \in Seq(Part)
      /\ \A i \in 1 .. Len(s) : s[i] \in {p1, p2}
      /\ p1.end > p1.start => \E i \in 1 .. Len(s) : s[i] = p1
      /\ p2.end > p2.start => \E i \in 1 .. Len(s) : s[i] = p2
  <2> DEFINE u == NonEmpty(p2)
             v == NonEmpty(p1)
  <2>1. u \in Seq(Part) /\ v \in Seq(Part)
        /\ (\A i \in 1 .. Len(u) : u[i] = p2) /\ (\A i \in 1 .. Len(v) : v[i] = p1)
        /\ (p2.end > p2.start => Len(u) = 1 /\ u[1] = p2)
        /\ (p1.end > p1.start => Len(v) = 1 /\ v[1] = p1)
    BY <1>1, NonEmptySeq, Zenon
  <2> HIDE DEF u, v
  <2>2. /\ u \o v \in Seq(Part)
        /\ Len(u \o v) = Len(u) + Len(v)
        /\ \A i \in 1 .. Len(u) : (u \o v)[i] = u[i]
        /\ \A i \in 1 .. Len(v) : (u \o v)[Len(u) + i] = v[i]
        /\ \A i \in 1 .. Len(u \o v) :
              \/ i \in 1 .. Len(u) /\ (u \o v)[i] = u[i]
              \/ i - Len(u) \in 1 .. Len(v) /\ (u \o v)[i] = v[i - Len(u)]
    BY <2>1, ConcatElements, Zenon
  <2>3. Len(u) \in Nat /\ Len(v) \in Nat
    BY <2>1
  <2> DEFINE w == u \o v
  <2> HIDE DEF w
  <2>4. \A i \in 1 .. Len(w) : w[i] \in {p1, p2}
    BY <2>1, <2>2, Zenon DEF w
  <2>5. p1.end > p1.start => \E i \in 1 .. Len(w) : w[i] = p1
    <3> SUFFICES ASSUME p1.end > p1.start PROVE \E i \in 1 .. Len(w) : w[i] = p1
      OBVIOUS
    <3>1. Len(v) = 1 /\ v[1] = p1
      BY <2>1
    <3>2. Len(w) = Len(u) + 1 /\ w[Len(u) + 1] = p1
      BY <2>2, <2>3, <3>1 DEF w
    <3>3. Len(u) + 1 \in 1 .. Len(w)
      BY <2>3, <3>2
    <3>4. QED
      BY <3>2, <3>3, Zenon
  <2>6. p2.end > p2.start => \E i \in 1 .. Len(w) : w[i] = p2
    <3> SUFFICES ASSUME p2.end > p2.start PROVE \E i \in 1 .. Len(w) : w[i] = p2
      OBVIOUS
    <3>1. Len(u) = 1 /\ u[1] = p2
      BY <2>1
    <3>2. Len(w) = 1 + Len(v) /\ w[1] = p2
      BY <2>2, <2>3, <3>1 DEF w
    <3>3. 1 \in 1 .. Len(w)
      BY <2>3, <3>2
    <3>4. QED
      BY <3>2, <3>3, Zenon
  <2>7. QED
    BY <2>2, <2>4, <2>5, <2>6, Zenon DEF u, v, w
<1>3. t \in Seq(Part) /\ (\A i \in 1 .. Len(t) : t[i] = p3)
      /\ (p3.end > p3.start => Len(t) = 1 /\ t[1] = p3)
  BY <1>1, NonEmptySeq, Zenon
<1> HIDE DEF s, t
<1> DEFINE w == s \o t
<1>4. /\ w \in Seq(Part)
      /\ Len(w) = Len(s) + Len(t)
      /\ \A i \in 1 .. Len(s) : w[i] = s[i]
      /\ \A i \in 1 .. Len(t) : w[Len(s) + i] = t[i]
      /\ \A i \in 1 .. Len(w) :
            \/ i \in 1 .. Len(s) /\ w[i] = s[i]
            \/ i - Len(s) \in 1 .. Len(t) /\ w[i] = t[i - Len(s)]
  BY <1>2, <1>3, ConcatElements, Zenon
<1> HIDE DEF w
<1>5. BspParts(r) = w
  BY Zenon DEF BspParts, w, s, t, p1, p2, p3
<1>6. \A i \in 1 .. Len(w) : w[i] \in {p1, p2, p3}
  BY <1>2, <1>3, <1>4, Zenon
<1>7. Len(s) \in Nat /\ Len(t) \in Nat
  BY <1>2, <1>3
<1>8. p3.end > p3.start => \E i \in 1 .. Len(w) : w[i] = p3
  <2> SUFFICES ASSUME p3.end > p3.start PROVE \E i \in 1 .. Len(w) : w[i] = p3
    OBVIOUS
  <2>1. Len(t) = 1 /\ t[1] = p3
    BY <1>3
  <2>2. Len(w) = Len(s) + 1 /\ w[Len(s) + 1] = p3
    BY <1>4, <1>7, <2>1
  <2>3. Len(s) + 1 \in 1 .. Len(w)
    BY <1>7, <2>2
  <2>4. QED
    BY <2>2, <2>3, Zenon
<1>9. ASSUME NEW p, \E i \in 1 .. Len(s) : s[i] = p
      PROVE  \E i \in 1 .. Len(w) : w[i] = p
  <2>1. PICK i \in 1 .. Len(s) : s[i] = p
    BY <1>9
  <2>2. i \in 1 .. Len(w) /\ w[i] = p
    BY <1>4, <1>7, <2>1
  <2>3. QED
    BY <2>2, Zenon
<1>10. ASSUME NEW part \in {p1, p2, p3}, part.end > part.start
       PROVE  \E i \in 1 .. Len(w) : w[i] = part
  BY <1>2, <1>8, <1>9, <1>10, Zenon
<1>11. TheParts(r) = {p1, p2, p3}
  BY Zenon DEF TheParts, p1, p2, p3
<1>12. QED
  BY <1>4, <1>5, <1>6, <1>10, <1>11, Zenon

LEMMA FirstCursorOK ==
    ASSUME NEW parts \in Seq(Part)
    PROVE  /\ FirstCursor(parts) \in Cursor
           /\ parts # <<>> /\ PartOK(parts[1]) => CursorOK(FirstCursor(parts), 0, parts[1])
<1>1. CASE parts = <<>>
  BY <1>1 DEF FirstCursor, NoCursor, Cursor
<1>2. CASE parts # <<>>
  <2> DEFINE p == parts[1]
  <2>1. p \in Part
    BY <1>2
  <2>2. FirstCursor(parts) = ChunkAt(p.start, p.end, ChunkSize)
    BY <1>2 DEF FirstCursor
  <2>3. p.start + 0 * ChunkSize = p.start
    BY <2>1, ChunkNat DEF Part
  <2>4. PartOK(p) => CursorOK(FirstCursor(parts), 0, p)
    BY <2>2, <2>3, FirstChunkOK, Cpus
  <2>5. FirstCursor(parts) \in Cursor
    BY <2>1, <2>2, ChunkNat DEF Part, ChunkAt, Cursor
  <2>6. QED
    BY <2>4, <2>5
<1>3. QED
  BY <1>1, <1>2

LEMMA TheirPartsOK ==
    ASSUME NEW r \in Ranges, NEW part \in TheParts(r)
    PROVE  PartOK(part) /\ part.start .. part.end - 1 \subseteq PagesOf(r)
<1>1. LET p1 == Part1(r.start, r.end)
          p2 == Part2(r.start, r.end)
          p3 == Part3(r.start, r.end)
      IN  /\ PartOK(p1) /\ PartOK(p2) /\ PartOK(p3)
          /\ r.start \in Nat /\ r.end \in Nat
          /\ p1.start = r.start /\ p1.end = p2.start
          /\ p2.end = p3.start /\ p3.end = r.end
  BY PartsOK
<1>2. QED
  BY <1>1 DEF TheParts, PartOK, Part, PagesOf

-----------------------------------------------------------------------------
(* One TDACCEPTPAGE of a CPU in a part, when it does not fail.             *)
LEMMA AcceptOneOK ==
    ASSUME NEW part, PartOK(part), NEW a \in CPU, cur \in [CPU -> Cursor],
           CursorOK(cur[a], a, part), cur[a].base < part.end,
           FailsNow(a, part.size) = 0, AcceptOne(a, part, ChunkSize)
    PROVE  /\ cur' \in [CPU -> Cursor]
           /\ CursorOK(cur'[a], a, part)
           /\ \A b \in CPU \ {a} : cur'[b] = cur[b]
           /\ accepted \subseteq accepted'
           /\ accepted' \ accepted \subseteq part.start .. part.end - 1
           /\ DoneBelow(accepted, cur[a].addr, a, part)
                 => DoneBelow(accepted', cur'[a].addr, a, part)
<1> DEFINE c == cur[a]
           level == Level(c, part.size)
           result == TdAccept(c.addr, level)
           d == IF result = "SizeMismatch" THEN FallBack(c) ELSE Step(c, part)
<1>1. cur' = [cur EXCEPT ![a] = d]
  BY Zenon DEF AcceptOne, Step
<1>2. accepted' = IF result = "Success" THEN accepted \cup Block(c.addr, level) ELSE accepted
  BY Zenon DEF AcceptOne
<1>3. ErrorOf(result, level) = 0
  BY Zenon DEF FailsNow
<1>4. /\ result \in {"SizeMismatch", "Success", "AlreadyAccepted"}
      /\ result = "SizeMismatch" => level # 1
      /\ result = "AlreadyAccepted" => Block(c.addr, level) \subseteq accepted
  BY <1>3 DEF ErrorOf, TdAccept
<1> HIDE DEF result
<1>5. /\ level \in {1, Big}
      /\ c.addr >= part.start
      /\ c.addr + level <= part.end
  <2>1. /\ level \in {1, Big}
        /\ c.addr >= part.start
        /\ c.addr + level <= ChunkEnd(c.base, part)
        /\ ChunkEnd(c.base, part) <= part.end
    BY PageFits
  <2>2. c.addr \in Nat /\ c.base \in Nat /\ part.end \in Nat /\ ChunkSize \in Nat /\ Big \in Nat
    BY ChunkNat, Sizes DEF CursorOK, Cursor, PartOK, Part
  <2>3. ChunkEnd(c.base, part) \in Int
    BY <2>2 DEF ChunkEnd
  <2>4. QED
    BY <2>1, <2>2, <2>3
<1>6. c \in Cursor /\ c.addr \in Nat /\ c.fallback \in Nat /\ Big \in Nat
      /\ part.start \in Nat /\ part.end \in Nat /\ part.size \in {1, Big}
  BY Sizes DEF CursorOK, Cursor, PartOK, Part
<1>7. Block(c.addr, level) \subseteq part.start .. part.end - 1
  BY <1>5, <1>6 DEF Block
<1>8. CASE result = "SizeMismatch"
  <2>1. c.fallback = 0 /\ part.size = Big
    BY <1>4, <1>6, <1>8 DEF Level
  <2>2. CursorOK(d, a, part) /\ d.addr = c.addr
    BY <1>8, <2>1, FallBackOK
  <2>3. accepted' = accepted
    BY <1>2, <1>8
  <2>4. cur'[a] = d /\ \A b \in CPU \ {a} : cur'[b] = cur[b]
    BY <1>1
  <2>5. cur' \in [CPU -> Cursor]
    BY <1>1, <2>2 DEF CursorOK
  <2>6. QED
    BY <2>2, <2>3, <2>4, <2>5, Zenon
<1>9. CASE result # "SizeMismatch"
  <2>1. d = Step(c, part)
    BY <1>9
  <2>2. CursorOK(d, a, part)
    BY <2>1, StepOK
  <2> HIDE DEF d
  <2>3. cur'[a] = d /\ \A b \in CPU \ {a} : cur'[b] = cur[b]
    BY <1>1
  <2>4. cur' \in [CPU -> Cursor]
    BY <1>1, <2>2 DEF CursorOK
  <2>5. accepted \subseteq accepted' /\ Block(c.addr, level) \subseteq accepted'
    BY <1>2, <1>4, <1>9
  <2>6. accepted' \ accepted \subseteq part.start .. part.end - 1
    BY <1>2, <1>7
  <2>7. ASSUME DoneBelow(accepted, c.addr, a, part)
        PROVE  DoneBelow(accepted', d.addr, a, part)
    <3> SUFFICES ASSUME NEW p \in part.start .. part.end - 1, Owner(p, part) = a, p < d.addr
                 PROVE  p \in accepted'
      BY DEF DoneBelow
    <3>1. CASE p < c.addr
      BY <2>5, <2>7, <3>1 DEF DoneBelow
    <3>2. CASE c.addr <= p
      BY <2>1, <2>5, <3>2, StepCovers
    <3>3. QED
      BY <1>6, <3>1, <3>2
  <2>8. QED
    BY <2>2, <2>3, <2>4, <2>5, <2>6, <2>7, Zenon
<1>10. QED
  BY <1>8, <1>9

(* What the protocol's own steps do not do.                                *)
LEMMA BspProtocolFacts ==
    ASSUME BspProtocol
    PROVE  /\ UNCHANGED workVars
           /\ UNCHANGED <<req, ap>>
           /\ bsp # "idle" /\ mp # "dead"
           /\ bsp' \in {"end", "noop", "zero", "dec", "idle"} =>
                 bsp \in {"end", "noop", "zero", "dec"} \/ todo = <<>>
           /\ bsp' = "idle" => bsp = "dec"
           /\ bsp' \in {"work", "end", "noop", "zero", "dec"} =>
                 bsp \in {"release", "send", "work", "end", "noop", "zero"}
BY DEF BspProtocol, MpSerializeStartArrived, MpSerializeStartRelease,
       MpSendWakeupCommandClear, MpSendWakeupCommandArgs, MpSendWakeupCommandSend,
       BspAcceptDone, MpSerializeEndExited, MpSerializeEndNoop, MpSerializeEndZero,
       MpSerializeEndRestart, BspGoto

LEMMA ApProtocolFacts ==
    ASSUME NEW b \in AP, ApProtocol(b), ap \in [AP -> ApPc]
    PROVE  /\ UNCHANGED workVars
           /\ UNCHANGED <<req, bsp>>
           /\ \A a \in AP : ap'[a] = "accept" => ap[a] = "accept"
           /\ \A a \in AP : ap'[a] \in {"finish", "exit"} => ap[a] \in {"finish", "exit"}
BY DEF ApProtocol, ApArrive, ApReleased, ApTakeWakeup, ApFinish, ApRestart, ApJump, ApGoto

LEMMA ApAcceptEndsFacts ==
    ASSUME NEW b \in AP, ApAcceptEnds(b), ap \in [AP -> ApPc]
    PROVE  /\ UNCHANGED workVars
           /\ UNCHANGED <<req, bsp>>
           /\ ap[b] = "accept"
           /\ errors[b] > 0 \/ cur[b].base >= args.end
           /\ \A a \in AP \ {b} : ap'[a] = ap[a]
           /\ ap'[b] = "finish"
BY DEF ApAcceptEnds, ApAcceptDone, ApGoto

(* An AP at work, or about to be, has the arguments of the current call.   *)
LEMMA ArgsOfCall ==
    ASSUME CallInv, bsp \in {"work", "end"}, req.command = AcceptPages, args = req.args
    PROVE  range \in Ranges /\ args = ArgsOf(range)
<1>1. range \in Ranges /\ req = RequestOf(range)
  BY DEF CallInv, AcceptPages, Wakeup
<1>2. args = ArgsOf(range)
  BY <1>1 DEF RequestOf, AcceptRequest, SilentRequest, AcceptPages, NoCommand
<1>3. QED
  BY <1>1, <1>2

LEMMA AtWork ==
    ASSUME Inv, CallInv, NEW a \in AP, ap[a] = "accept"
    PROVE  range \in Ranges /\ args = ArgsOf(range) /\ bsp \in {"work", "end"}
<1>1. bsp \in {"work", "end"} /\ req.command = AcceptPages /\ args = req.args
  BY DEF Inv, TypeOK, BspPc, PhaseInv, BetweenCalls, Releasing, Sending,
         Working, Restarting, HandingOver, ApsIn
<1>2. QED
  BY <1>1, ArgsOfCall

LEMMA AboutToWork ==
    ASSUME Inv, CallInv, NEW a \in AP, ap[a] = "command", command = AcceptPages
    PROVE  range \in Ranges /\ args = ArgsOf(range) /\ bsp \in {"work", "end"}
<1>1. bsp \in {"work", "end"} /\ req.command = AcceptPages /\ args = req.args
  BY DEF Inv, TypeOK, BspPc, PhaseInv, BetweenCalls, Releasing, Sending,
         Working, Restarting, HandingOver, ApsIn, Noop, Wakeup, AcceptPages
<1>2. QED
  BY <1>1, ArgsOfCall

LEMMA ArgsArePart2 ==
    ASSUME NEW r \in Ranges
    PROVE  LET p == Part2(r.start, r.end)
               g == ArgsOf(r)
           IN  g.start = p.start /\ g.end = p.end /\ g.size = p.size /\ g.chunk = ChunkSize
BY Zenon DEF ArgsOf

LEMMA MpInitInv == MpInit => MpInv
<1> SUFFICES ASSUME MpInit PROVE MpInv
  OBVIOUS
<1>1. Inv
  BY InitInv DEF MpInit
<1>2. NoCursor \in Cursor
  BY DEF NoCursor, Cursor
<1>3. WorkTypes
  BY <1>2 DEF MpInit, WorkTypes
<1>4. CallInv
  BY DEF MpInit, Init, CallInv
<1>5. BspCursorInv
  BY DEF MpInit, BspCursorInv
<1>6. ApCursorInv
  BY DEF MpInit, Init, ApCursorInv
<1>7. QED
  BY <1>1, <1>3, <1>4, <1>5, <1>6 DEF MpInv

(* Steps that leave the work alone.                                        *)
LEMMA IdleStep ==
    ASSUME MpInv, UNCHANGED workVars, CallInv',
           \A a \in AP : ap'[a] = "accept" => ap[a] = "accept"
    PROVE  WorkTypes' /\ BspCursorInv' /\ ApCursorInv'
<1>1. range' = range /\ todo' = todo /\ cur' = cur /\ errors' = errors
      /\ status' = status /\ mp' = mp
  BY DEF workVars
<1>2. WorkTypes'
  BY <1>1 DEF MpInv, WorkTypes
<1>3. BspCursorInv'
  BY <1>1 DEF MpInv, BspCursorInv
<1>4. ApCursorInv'
  BY <1>1 DEF MpInv, ApCursorInv
<1>5. QED
  BY <1>2, <1>3, <1>4

LEMMA BspProtocolInv ==
    ASSUME MpInv, BspProtocol
    PROVE  WorkTypes' /\ CallInv' /\ BspCursorInv' /\ ApCursorInv'
<1>1. /\ UNCHANGED workVars
      /\ req' = req /\ ap' = ap
      /\ bsp # "idle" /\ mp # "dead"
      /\ bsp' \in {"end", "noop", "zero", "dec", "idle"} =>
            bsp \in {"end", "noop", "zero", "dec"} \/ todo = <<>>
  BY BspProtocolFacts
<1>2. mp' = mp /\ range' = range /\ todo' = todo
  BY <1>1 DEF workVars
<1>3. CallInv'
  BY <1>1, <1>2 DEF MpInv, CallInv, RequestOf, ArgsOf, AcceptRequest, SilentRequest
<1>4. QED
  BY <1>1, <1>3, IdleStep

LEMMA ApIdleInv ==
    ASSUME MpInv, NEW b \in AP, ApProtocol(b) \/ ApAcceptEnds(b)
    PROVE  WorkTypes' /\ CallInv' /\ BspCursorInv' /\ ApCursorInv'
<1>1. ap \in [AP -> ApPc]
  BY DEF MpInv, Inv, TypeOK
<1>2. /\ UNCHANGED workVars
      /\ req' = req /\ bsp' = bsp
      /\ \A a \in AP : ap'[a] = "accept" => ap[a] = "accept"
  BY <1>1, ApProtocolFacts, ApAcceptEndsFacts
<1>3. mp' = mp /\ range' = range /\ todo' = todo
  BY <1>2 DEF workVars
<1>4. CallInv'
  BY <1>2, <1>3 DEF MpInv, CallInv
<1>5. QED
  BY <1>2, <1>4, IdleStep

LEMMA CallStep ==
    ASSUME MpInv, NEW r \in Ranges, MpAcceptCall(r)
    PROVE  WorkTypes' /\ CallInv' /\ BspCursorInv' /\ ApCursorInv'
<1>1. /\ mp = "out" /\ bsp = "idle" /\ bsp' = "start"
      /\ req' = RequestOf(r) /\ ap' = ap
      /\ mp' = "in" /\ range' = r /\ todo' = BspParts(r)
      /\ cur' = [cur EXCEPT ![0] = FirstCursor(BspParts(r))]
      /\ status' = "Success" /\ errors' = errors /\ accepted' = accepted
  BY DEF MpAcceptCall, MpSerializeStart, BspGoto
<1>2. /\ BspParts(r) \in Seq(Part)
      /\ \A i \in 1 .. Len(BspParts(r)) : BspParts(r)[i] \in TheParts(r)
  BY BspPartsOK
<1>3. /\ FirstCursor(BspParts(r)) \in Cursor
      /\ BspParts(r) # <<>> => CursorOK(FirstCursor(BspParts(r)), 0, BspParts(r)[1])
  <2>1. BspParts(r) # <<>> => PartOK(BspParts(r)[1])
    <3> SUFFICES ASSUME BspParts(r) # <<>> PROVE PartOK(BspParts(r)[1])
      OBVIOUS
    <3>1. 1 \in 1 .. Len(BspParts(r))
      BY <1>2
    <3>2. QED
      BY <1>2, <3>1, TheirPartsOK
  <2>2. QED
    BY <1>2, <2>1, FirstCursorOK
<1>4. r \in [start : Nat, end : Nat]
  BY RangesAssumption
<1>5. WorkTypes'
  BY <1>1, <1>3, <1>4, Cpus DEF MpInv, WorkTypes
<1>6. CallInv'
  BY <1>1 DEF CallInv
<1>7. BspCursorInv'
  <2>1. cur'[0] = FirstCursor(BspParts(r))
    BY <1>1, Cpus DEF MpInv, WorkTypes
  <2>2. QED
    BY <1>1, <1>2, <1>3, <2>1 DEF BspCursorInv
<1>8. ApCursorInv'
  <2>1. \A a \in AP : ap[a] # "accept"
    BY <1>1 DEF MpInv, Inv, PhaseInv, BetweenCalls, ApsIn
  <2>2. QED
    BY <1>1, <2>1 DEF ApCursorInv
<1>9. QED
  BY <1>5, <1>6, <1>7, <1>8

(* The part the BSP is in.                                                 *)
LEMMA BspPart ==
    ASSUME MpInv, todo # <<>>
    PROVE  /\ range \in Ranges
           /\ todo[1] \in TheParts(range)
           /\ PartOK(todo[1])
           /\ CursorOK(cur[0], 0, todo[1])
           /\ 1 \in 1 .. Len(todo)
<1>1. /\ todo \in Seq(Part)
      /\ \A i \in 1 .. Len(todo) : todo[i] \in TheParts(range)
      /\ range \in Ranges /\ CursorOK(cur[0], 0, todo[1])
  BY DEF MpInv, BspCursorInv
<1>2. 1 \in 1 .. Len(todo)
  BY <1>1
<1>3. todo[1] \in TheParts(range)
  BY <1>1, <1>2
<1>4. QED
  BY <1>1, <1>2, <1>3, TheirPartsOK

LEMMA BspAcceptOneInv ==
    ASSUME MpInv, BspAcceptOne
    PROVE  WorkTypes' /\ CallInv' /\ BspCursorInv' /\ ApCursorInv'
<1>1. /\ todo # <<>> /\ cur[0].base < todo[1].end
      /\ FailsNow(0, todo[1].size) = 0 /\ AcceptOne(0, todo[1], ChunkSize)
      /\ bsp' = bsp /\ req' = req /\ ap' = ap
      /\ range' = range /\ todo' = todo /\ errors' = errors
      /\ status' = status /\ mp' = mp
  BY DEF BspAcceptOne, vars
<1>2. PartOK(todo[1]) /\ CursorOK(cur[0], 0, todo[1]) /\ cur \in [CPU -> Cursor]
  BY <1>1, BspPart DEF MpInv, WorkTypes
<1>3. /\ cur' \in [CPU -> Cursor]
      /\ CursorOK(cur'[0], 0, todo[1])
      /\ \A b \in CPU \ {0} : cur'[b] = cur[b]
  BY <1>1, <1>2, AcceptOneOK, Cpus
<1>4. WorkTypes'
  BY <1>1, <1>3 DEF MpInv, WorkTypes
<1>5. CallInv'
  BY <1>1 DEF MpInv, CallInv
<1>6. BspCursorInv'
  BY <1>1, <1>3 DEF MpInv, BspCursorInv
<1>7. ApCursorInv'
  BY <1>1, <1>3, Cpus DEF MpInv, ApCursorInv
<1>8. QED
  BY <1>4, <1>5, <1>6, <1>7

LEMMA TailElements ==
    ASSUME NEW S, NEW s \in Seq(S), s # <<>>
    PROVE  /\ Tail(s) \in Seq(S)
           /\ Len(Tail(s)) = Len(s) - 1
           /\ Len(s) \in Nat /\ Len(s) > 0
           /\ \A i \in 1 .. Len(Tail(s)) : i + 1 \in 1 .. Len(s) /\ Tail(s)[i] = s[i + 1]
OBVIOUS

LEMMA PartReturnsInv ==
    ASSUME MpInv, BspAcceptFails \/ BspPartDone
    PROVE  WorkTypes' /\ CallInv' /\ BspCursorInv' /\ ApCursorInv'
<1>1. PICK s \in {"InvalidParameter", "Success"} : PartReturns(s)
  BY Zenon DEF BspAcceptFails, BspPartDone
<1>2. /\ mp = "in" /\ bsp = "work" /\ todo # <<>>
      /\ bsp' = bsp /\ req' = req /\ ap' = ap
      /\ range' = range /\ errors' = errors
  BY DEF BspAcceptFails, BspPartDone, vars
<1>3. /\ status' = s /\ todo' = Tail(todo)
      /\ cur' = [cur EXCEPT ![0] = FirstCursor(Tail(todo))]
      /\ mp' \in {"in", "dead"}
  BY <1>1, <1>2 DEF PartReturns
<1>4. /\ range \in Ranges /\ todo \in Seq(Part)
      /\ \A i \in 1 .. Len(todo) : todo[i] \in TheParts(range)
  BY <1>2, BspPart DEF MpInv, BspCursorInv
<1>5. /\ Tail(todo) \in Seq(Part)
      /\ \A i \in 1 .. Len(Tail(todo)) : Tail(todo)[i] \in TheParts(range)
  BY <1>2, <1>4, TailElements
<1>6. /\ FirstCursor(Tail(todo)) \in Cursor
      /\ Tail(todo) # <<>> => CursorOK(FirstCursor(Tail(todo)), 0, Tail(todo)[1])
  <2>1. Tail(todo) # <<>> => PartOK(Tail(todo)[1])
    <3> SUFFICES ASSUME Tail(todo) # <<>> PROVE PartOK(Tail(todo)[1])
      OBVIOUS
    <3>1. 1 \in 1 .. Len(Tail(todo))
      BY <1>5, TailElements
    <3>2. QED
      BY <1>4, <1>5, <3>1, TheirPartsOK
  <2>2. QED
    BY <1>5, <2>1, FirstCursorOK
<1>7. WorkTypes'
  BY <1>2, <1>3, <1>6, Cpus DEF MpInv, WorkTypes
<1>8. CallInv'
  BY <1>2, <1>3 DEF MpInv, CallInv
<1>9. BspCursorInv'
  <2>1. cur'[0] = FirstCursor(Tail(todo))
    BY <1>3, Cpus DEF MpInv, WorkTypes
  <2>2. QED
    BY <1>2, <1>3, <1>4, <1>5, <1>6, <2>1 DEF BspCursorInv
<1>10. ApCursorInv'
  <2>1. \A a \in AP : cur'[a] = cur[a]
    BY <1>3, Cpus DEF MpInv, WorkTypes
  <2>2. QED
    BY <1>2, <2>1 DEF MpInv, ApCursorInv
<1>11. QED
  BY <1>7, <1>8, <1>9, <1>10

(* The steps of the callers.                                               *)
LEMMA CallerInv ==
    ASSUME MpInv, StartupWakeup \/ StartupFails \/ MpAcceptReturn
    PROVE  WorkTypes' /\ CallInv' /\ BspCursorInv' /\ ApCursorInv'
<1>1. CASE StartupWakeup
  <2>1. /\ UNCHANGED workVars
        /\ mp = "out" /\ bsp = "idle" /\ bsp' = "start" /\ req' = WakeupRequest /\ ap' = ap
        /\ range' = range /\ todo' = todo /\ mp' = mp
    BY <1>1 DEF StartupWakeup, MpSerializeStart, BspGoto, workVars
  <2>2. CallInv'
    BY <2>1 DEF CallInv, WakeupRequest
  <2>3. QED
    BY <2>1, <2>2, IdleStep
<1>2. CASE StartupFails \/ MpAcceptReturn
  <2>1. /\ bsp = "idle" /\ bsp' = bsp /\ req' = req /\ ap' = ap
        /\ range' = range /\ todo' = todo /\ cur' = cur /\ errors' = errors
        /\ mp' \in {"out", "dead"}
        /\ status' \in {"DeviceError", status}
    BY <1>2 DEF StartupFails, MpAcceptReturn, vars
  <2>2. WorkTypes'
    BY <2>1 DEF MpInv, WorkTypes
  <2>3. CallInv'
    BY <2>1 DEF MpInv, CallInv
  <2>4. BspCursorInv'
    BY <2>1 DEF MpInv, BspCursorInv
  <2>5. ApCursorInv'
    BY <2>1 DEF MpInv, ApCursorInv
  <2>6. QED
    BY <2>2, <2>3, <2>4, <2>5
<1>3. QED
  BY <1>1, <1>2

(* The steps of an AP at work.                                             *)
LEMMA ApTakeInv ==
    ASSUME MpInv, NEW b \in AP, ApAcceptPage(b)
    PROVE  WorkTypes' /\ CallInv' /\ BspCursorInv' /\ ApCursorInv'
<1>1. /\ ap[b] = "command" /\ command = AcceptPages /\ bsp' = bsp /\ req' = req
      /\ ap' = [ap EXCEPT ![b] = "accept"]
      /\ range' = range /\ todo' = todo /\ status' = status /\ mp' = mp
      /\ errors' = [errors EXCEPT ![b] = IF args.size \in {1, Big} THEN 0 ELSE 1]
      /\ cur' = [cur EXCEPT ![b] =
                   ChunkAt(args.start + b * args.chunk, args.end, args.chunk)]
  BY DEF ApAcceptPage, ApTakeAccept, ApGoto, mailbox
<1>2. CallInv'
  BY <1>1 DEF MpInv, CallInv
<1>3. ap \in [AP -> ApPc] /\ cur \in [CPU -> Cursor] /\ b \in CPU \ {0}
  BY Cpus DEF MpInv, Inv, TypeOK, WorkTypes
<1>4. ap'[b] = "accept" /\ \A a \in AP \ {b} : ap'[a] = ap[a]
  BY <1>1, <1>3
<1>5. range \in Ranges /\ args = ArgsOf(range)
  BY <1>1, AboutToWork DEF MpInv
<1> DEFINE part == Part2(range.start, range.end)
<1>6. /\ args.start = part.start /\ args.end = part.end /\ args.size = part.size
      /\ args.chunk = ChunkSize
  BY <1>5, ArgsArePart2
<1>7. PartOK(part)
  BY <1>5, TheirPartsOK DEF TheParts
<1> HIDE DEF part
<1>8. CursorOK(cur'[b], b, part) /\ \A a \in CPU \ {b} : cur'[a] = cur[a]
  BY <1>1, <1>3, <1>6, <1>7, FirstChunkOK
<1>9. WorkTypes'
  <2>1. cur' \in [CPU -> Cursor]
    BY <1>1, <1>3, <1>8 DEF CursorOK
  <2>2. QED
    BY <1>1, <2>1 DEF MpInv, WorkTypes
<1>10. BspCursorInv'
  BY <1>1, <1>3, <1>8, Cpus DEF MpInv, BspCursorInv
<1>11. ApCursorInv'
  BY <1>1, <1>4, <1>8, Cpus DEF MpInv, ApCursorInv, part
<1>12. QED
  BY <1>2, <1>9, <1>10, <1>11

(* One step of .do_accept_loop is one TDACCEPTPAGE in part 2.              *)
LEMMA ApWorks ==
    ASSUME MpInv, NEW b \in AP, ApAcceptOne(b)
    PROVE  LET part == Part2(range.start, range.end)
           IN  /\ range \in Ranges /\ PartOK(part) /\ b \in CPU
               /\ ap[b] = "accept" /\ errors[b] = 0
               /\ CursorOK(cur[b], b, part)
               /\ cur[b].base < part.end
               /\ FailsNow(b, part.size) = 0
               /\ AcceptOne(b, part, ChunkSize)
<1>1. /\ ap[b] = "accept" /\ errors[b] = 0 /\ cur[b].base < args.end
      /\ FailsNow(b, args.size) = 0 /\ AcceptOne(b, args, args.chunk)
  BY DEF ApAcceptOne
<1>2. range \in Ranges /\ args = ArgsOf(range)
  BY <1>1, AtWork DEF MpInv
<1> DEFINE part == Part2(range.start, range.end)
<1>3. /\ args.start = part.start /\ args.end = part.end /\ args.size = part.size
      /\ args.chunk = ChunkSize
  BY <1>2, ArgsArePart2
<1>4. PartOK(part)
  BY <1>2, TheirPartsOK DEF TheParts
<1>5. CursorOK(cur[b], b, part) /\ b \in CPU
  BY <1>1, Cpus DEF MpInv, ApCursorInv
<1> HIDE DEF part
<1>6. cur[b].base < part.end /\ FailsNow(b, part.size) = 0
  BY <1>1, <1>3, Zenon
<1>7. AcceptOne(b, part, ChunkSize)
  BY <1>1, <1>3, Zenon DEF AcceptOne
<1>8. QED
  BY <1>1, <1>2, <1>4, <1>5, <1>6, <1>7 DEF part

LEMMA ApAcceptOneInv ==
    ASSUME MpInv, NEW b \in AP, ApAcceptOne(b)
    PROVE  WorkTypes' /\ CallInv' /\ BspCursorInv' /\ ApCursorInv'
<1> DEFINE part == Part2(range.start, range.end)
<1>1. /\ bsp' = bsp /\ req' = req /\ ap' = ap
      /\ range' = range /\ todo' = todo /\ errors' = errors
      /\ status' = status /\ mp' = mp
  BY DEF ApAcceptOne, vars
<1>2. /\ PartOK(part) /\ b \in CPU
      /\ CursorOK(cur[b], b, part)
      /\ cur[b].base < part.end
      /\ FailsNow(b, part.size) = 0
      /\ AcceptOne(b, part, ChunkSize)
      /\ cur \in [CPU -> Cursor]
  BY ApWorks DEF MpInv, WorkTypes
<1> HIDE DEF part
<1>3. /\ cur' \in [CPU -> Cursor]
      /\ CursorOK(cur'[b], b, part)
      /\ \A a \in CPU \ {b} : cur'[a] = cur[a]
  BY <1>2, AcceptOneOK
<1>4. WorkTypes'
  BY <1>1, <1>3 DEF MpInv, WorkTypes
<1>5. CallInv'
  BY <1>1 DEF MpInv, CallInv
<1>6. BspCursorInv'
  BY <1>1, <1>3, Cpus DEF MpInv, BspCursorInv
<1>7. ApCursorInv'
  BY <1>1, <1>3, Cpus DEF MpInv, ApCursorInv, part
<1>8. QED
  BY <1>4, <1>5, <1>6, <1>7

LEMMA ApAcceptFailsInv ==
    ASSUME MpInv, NEW b \in AP, ApAcceptFails(b)
    PROVE  WorkTypes' /\ CallInv' /\ BspCursorInv' /\ ApCursorInv'
<1>1. /\ bsp' = bsp /\ req' = req /\ ap' = ap /\ cur' = cur
      /\ range' = range /\ todo' = todo
      /\ errors' = [errors EXCEPT ![b] = FailsNow(b, args.size)]
      /\ status' = status /\ mp' = mp
  BY DEF ApAcceptFails, vars
<1>2. FailsNow(b, args.size) \in 0 .. 3
  BY DEF FailsNow, ErrorOf
<1>3. WorkTypes'
  BY <1>1, <1>2 DEF MpInv, WorkTypes
<1>4. CallInv'
  BY <1>1 DEF MpInv, CallInv
<1>5. BspCursorInv'
  BY <1>1 DEF MpInv, BspCursorInv
<1>6. ApCursorInv'
  BY <1>1 DEF MpInv, ApCursorInv
<1>7. QED
  BY <1>3, <1>4, <1>5, <1>6

LEMMA MpNextInv == MpInv /\ [MpNext]_mpvars => MpInv'
<1> SUFFICES ASSUME MpInv, [MpNext]_mpvars PROVE MpInv'
  OBVIOUS
<1>1. Inv'
  BY MpStep, NextInv DEF MpInv
<1> DEFINE Goal == WorkTypes' /\ CallInv' /\ BspCursorInv' /\ ApCursorInv'
<1>2. ASSUME NEW r \in Ranges, MpAcceptCall(r) PROVE Goal
  BY <1>2, CallStep
<1>3. ASSUME StartupWakeup \/ StartupFails \/ MpAcceptReturn PROVE Goal
  BY <1>3, CallerInv
<1>4. ASSUME BspProtocol PROVE Goal
  BY <1>4, BspProtocolInv
<1>5. ASSUME BspAcceptOne PROVE Goal
  BY <1>5, BspAcceptOneInv
<1>6. ASSUME BspAcceptFails \/ BspPartDone PROVE Goal
  BY <1>6, PartReturnsInv
<1>7. ASSUME NEW b \in AP, MpApNext(b) PROVE Goal
  <2>1. CASE ApProtocol(b) \/ ApAcceptEnds(b)
    BY <2>1, ApIdleInv
  <2>2. CASE ApAcceptPage(b)
    BY <2>2, ApTakeInv
  <2>3. CASE ApAcceptOne(b)
    BY <2>3, ApAcceptOneInv
  <2>4. CASE ApAcceptFails(b)
    BY <2>4, ApAcceptFailsInv
  <2>5. QED
    BY <1>7, <2>1, <2>2, <2>3, <2>4 DEF MpApNext
<1>8. ASSUME Booted \/ Halted \/ UNCHANGED mpvars PROVE Goal
  <2>1. UNCHANGED workVars /\ UNCHANGED vars
    BY <1>8 DEF Booted, Halted, HandedOver, mpvars
  <2>2. bsp' = bsp /\ req' = req /\ ap' = ap /\ mp' = mp /\ range' = range /\ todo' = todo
    BY <2>1 DEF workVars, vars
  <2>3. CallInv'
    BY <2>2 DEF MpInv, CallInv
  <2>4. QED
    BY <2>1, <2>2, <2>3, IdleStep
<1>9. Goal
  BY <1>2, <1>3, <1>4, <1>5, <1>6, <1>7, <1>8 DEF MpNext, MpBspNext
<1>10. QED
  BY <1>1, <1>9 DEF MpInv

\* The inductive invariant of the work: for every range, mapping and number
\* of CPUs each CPU of BspAcceptMemoryResourceRange and .ap_accept_page is at
\* a place of its own chunks, in the part its call is about.
THEOREM WorkInvariance == MpSpec => []MpInv
BY MpInitInv, MpNextInv, PTL DEF MpSpec

\* The state of the work keeps its types; in particular the bytes left of a
\* chunk never go below zero, also when a 2MB page falls back.
THEOREM MpTypeCorrect == MpSpec => []MpTypeOK
<1>1. MpInv => MpTypeOK
  BY DEF MpInv, Inv, WorkTypes, MpTypeOK
<1>2. QED
  BY <1>1, WorkInvariance, PTL

LEMMA InvOneOwner == MpInv => OneOwner
<1> SUFFICES ASSUME MpInv PROVE OneOwner
  OBVIOUS
<1> DEFINE part == Part2(range.start, range.end)
           Rest(a) == Remaining(cur[a], args.end, args.chunk, NumOfCpus)
<1>1. ASSUME NEW a \in AP, ap[a] = "accept"
      PROVE  /\ range \in Ranges /\ PartOK(part)
             /\ \A p \in Rest(a) : p \in part.start .. part.end - 1 /\ Owner(p, part) = a
  <2>1. range \in Ranges /\ args = ArgsOf(range)
    BY <1>1, AtWork DEF MpInv
  <2>2. args.end = part.end /\ args.chunk = ChunkSize
    BY <2>1, ArgsArePart2
  <2>3. PartOK(part)
    BY <2>1, TheirPartsOK DEF TheParts
  <2>4. CursorOK(cur[a], a, part) /\ a \in CPU
    BY <1>1, Cpus DEF MpInv, ApCursorInv
  <2> HIDE DEF part
  <2>5. QED
    BY <2>1, <2>2, <2>3, <2>4, RemainingIsOwned DEF part
<1>2. ASSUME NEW a \in AP, NEW b \in AP, a # b, ap[a] = "accept", ap[b] = "accept"
      PROVE  Rest(a) \cap Rest(b) = {}
  <2> HIDE DEF Rest, part
  <2>1. QED
    BY <1>1, <1>2
<1>3. ASSUME NEW a \in AP, ap[a] = "accept", bsp = "work", todo # <<>>
      PROVE  Rest(a) \cap Remaining(cur[0], todo[1].end, ChunkSize, NumOfCpus) = {}
  <2> DEFINE RestOfBsp == Remaining(cur[0], todo[1].end, ChunkSize, NumOfCpus)
  <2>1. /\ range \in Ranges /\ todo[1] \in TheParts(range)
        /\ PartOK(todo[1]) /\ CursorOK(cur[0], 0, todo[1]) /\ 0 \in CPU
    BY <1>3, BspPart, Cpus
  <2>2. \A p \in RestOfBsp : p \in todo[1].start .. todo[1].end - 1 /\ Owner(p, todo[1]) = 0
    BY <2>1, RemainingIsOwned
  <2>3. \A p \in Rest(a) : p \in part.start .. part.end - 1 /\ Owner(p, part) = a
    BY <1>1, <1>3
  <2>4. a # 0
    BY Cpus
  <2> HIDE DEF Rest, RestOfBsp
  <2>5. CASE todo[1] = part
    <3>1. \A p \in RestOfBsp : Owner(p, part) = 0
      BY <2>2, <2>5
    <3> HIDE DEF part
    <3>2. QED
      BY <2>3, <2>4, <3>1 DEF RestOfBsp
  <2>6. CASE todo[1] # part
    <3> DEFINE p1 == Part1(range.start, range.end)
               p3 == Part3(range.start, range.end)
    <3>1. /\ p1 \in Part /\ part \in Part /\ p3 \in Part
          /\ p1.end = part.start /\ part.end = p3.start
      BY <2>1, PartsOK DEF PartOK
    <3>2. todo[1] \in {p1, p3}
      BY <2>1, <2>6 DEF TheParts
    <3> HIDE DEF p1, part, p3
    <3>3. \A p \in RestOfBsp : p \notin part.start .. part.end - 1
      BY <2>2, <3>1, <3>2 DEF Part
    <3>4. QED
      BY <2>3, <3>3 DEF RestOfBsp
  <2>7. QED
    BY <2>5, <2>6 DEF RestOfBsp
<1>4. QED
  BY <1>2, <1>3 DEF OneOwner

\* No page is ever in the remaining work of two CPUs, for any range, chunk
\* size and number of CPUs: neither of two APs, nor of an AP and the BSP in
\* whichever of the three parts it is.
THEOREM OneOwnerAlways == MpSpec => []OneOwner
BY InvOneOwner, WorkInvariance, PTL

LEMMA StepInRange ==
    ASSUME MpInv, [MpNext]_mpvars
    PROVE  /\ accepted \subseteq accepted'
           /\ accepted' \ accepted \subseteq PagesOf(range)
<1>1. CASE BspAcceptOne
  <2>1. /\ todo # <<>> /\ cur[0].base < todo[1].end
        /\ FailsNow(0, todo[1].size) = 0 /\ AcceptOne(0, todo[1], ChunkSize)
    BY <1>1 DEF BspAcceptOne
  <2>2. /\ range \in Ranges /\ todo[1] \in TheParts(range) /\ PartOK(todo[1])
        /\ CursorOK(cur[0], 0, todo[1]) /\ cur \in [CPU -> Cursor] /\ 0 \in CPU
    BY <2>1, BspPart, Cpus DEF MpInv, WorkTypes
  <2>3. /\ accepted \subseteq accepted'
        /\ accepted' \ accepted \subseteq todo[1].start .. todo[1].end - 1
    BY <2>1, <2>2, AcceptOneOK
  <2>4. todo[1].start .. todo[1].end - 1 \subseteq PagesOf(range)
    BY <2>2, TheirPartsOK
  <2>5. QED
    BY <2>3, <2>4, Zenon
<1>2. ASSUME NEW b \in AP, ApAcceptOne(b)
      PROVE  /\ accepted \subseteq accepted'
             /\ accepted' \ accepted \subseteq PagesOf(range)
  <2> DEFINE part == Part2(range.start, range.end)
  <2>1. /\ range \in Ranges /\ PartOK(part) /\ b \in CPU
        /\ CursorOK(cur[b], b, part)
        /\ cur[b].base < part.end
        /\ FailsNow(b, part.size) = 0
        /\ AcceptOne(b, part, ChunkSize)
        /\ cur \in [CPU -> Cursor]
    BY <1>2, ApWorks DEF MpInv, WorkTypes
  <2>2. part.start .. part.end - 1 \subseteq PagesOf(range)
    BY <2>1, TheirPartsOK DEF TheParts
  <2> HIDE DEF part
  <2>3. /\ accepted \subseteq accepted'
        /\ accepted' \ accepted \subseteq part.start .. part.end - 1
    BY <2>1, AcceptOneOK
  <2>4. QED
    BY <2>2, <2>3, Zenon
<1>3. CASE accepted' = accepted
  BY <1>3
<1>4. ~ BspAcceptOne /\ (\A b \in AP : ~ ApAcceptOne(b)) => accepted' = accepted
  <2>1. UNCHANGED workVars => accepted' = accepted
    BY DEF workVars
  <2>2. UNCHANGED mpvars => accepted' = accepted
    BY DEF mpvars, workVars
  <2>3. QED
    BY <2>1, <2>2, Zenon
       DEF MpNext, MpBspNext, MpApNext, MpAcceptCall, StartupWakeup, StartupFails,
           BspProtocol, BspAcceptFails, BspPartDone, MpAcceptReturn, ApProtocol,
           ApAcceptPage, ApAcceptFails, ApAcceptEnds, Booted, Halted
<1>5. QED
  BY <1>1, <1>2, <1>3, <1>4

\* No TDACCEPTPAGE, of the BSP or of an AP, ever reaches a page outside the
\* range of the call, for any range, mapping and number of CPUs.
THEOREM StaysInRange == MpSpec => NothingBeyondRange
<1>1. MpInv /\ [MpNext]_mpvars =>
         [accepted' \ accepted \subseteq PagesOf(range) /\ accepted \subseteq accepted']_mpvars
  BY StepInRange
<1>2. QED
  BY <1>1, WorkInvariance, PTL DEF MpSpec, NothingBeyondRange

-----------------------------------------------------------------------------
(* What is accepted when MpAcceptMemoryResourceRange returns.              *)

LEMMA DoneGrows ==
    ASSUME NEW S, NEW T, S \subseteq T, NEW limit, NEW a, NEW part, DoneBelow(S, limit, a, part)
    PROVE  DoneBelow(T, limit, a, part)
BY DEF DoneBelow

(* A cursor behind the end of its part has left nothing.                   *)
LEMMA DoneAtEnd ==
    ASSUME NEW S, NEW a \in CPU, NEW part, PartOK(part), NEW c, CursorOK(c, a, part),
           c.base >= part.end, DoneBelow(S, c.addr, a, part)
    PROVE  DoneBelow(S, part.end, a, part)
<1>1. c.base \in Nat /\ c.addr \in Nat /\ c.addr >= c.base /\ part.start \in Nat /\ part.end \in Nat
  BY DEF CursorOK, Cursor, PartOK, Part
<1>2. \A p \in part.start .. part.end - 1 : p < c.addr
  BY <1>1
<1>3. QED
  BY <1>2 DEF DoneBelow

(* Before the first chunk of a CPU there is nothing of it.                 *)
LEMMA DoneAtStart ==
    ASSUME NEW S, NEW a \in CPU, NEW part, PartOK(part)
    PROVE  DoneBelow(S, part.start + a * ChunkSize, a, part)
<1> SUFFICES ASSUME NEW p \in part.start .. part.end - 1, Owner(p, part) = a,
                    p < part.start + a * ChunkSize
             PROVE  FALSE
  BY DEF DoneBelow
<1> DEFINE q == (p - part.start) \div ChunkSize
           r == (p - part.start) % ChunkSize
<1>1. part.start \in Nat /\ part.end \in Nat /\ a \in Nat /\ a < NumOfCpus
  BY Cpus DEF PartOK, Part
<1>2. p - part.start \in Nat
  BY <1>1
<1>3. q \in Int /\ r \in 0 .. ChunkSize - 1 /\ p - part.start = ChunkSize * q + r
  <2> DEFINE x == p - part.start
  <2>1. x \in Int
    BY <1>2
  <2> HIDE DEF x
  <2>2. /\ x \div ChunkSize \in Int
        /\ x = ChunkSize * (x \div ChunkSize) + (x % ChunkSize)
        /\ x % ChunkSize \in 0 .. ChunkSize - 1
    BY <2>1, ChunkNat, DivMod, ModType
  <2>3. QED
    BY <2>2 DEF x
<1>4. q % NumOfCpus = a
  BY DEF Owner
<1> HIDE DEF q, r
<1>5. q >= 0
  <2>1. SUFFICES ASSUME q < 0 PROVE FALSE
    BY <1>3
  <2>2. ChunkSize * (0 - q - 1) \in Nat
    BY <1>3, <2>1, ChunkNat, TimesNat
  <2>3. ChunkSize * (0 - q - 1) = ChunkSize * 0 - ChunkSize * (q + 1)
    BY <1>3, ChunkNat, Distributes
  <2>4. ChunkSize * q + ChunkSize * 1 = ChunkSize * (q + 1)
    BY <1>3, ChunkNat, Distributes
  <2>5. ChunkSize * q \in Int /\ ChunkSize * (q + 1) \in Int /\ ChunkSize * 0 = 0
        /\ ChunkSize * 1 = ChunkSize
    BY <1>3, ChunkNat, TimesInt
  <2>6. QED
    BY <1>2, <1>3, <2>2, <2>3, <2>4, <2>5, ChunkNat
<1>6. q < a
  <2>1. SUFFICES ASSUME q >= a PROVE FALSE
    BY <1>1, <1>3
  <2>2. ChunkSize * (q - a) \in Nat
    BY <1>1, <1>3, <2>1, ChunkNat, TimesNat
  <2>3. ChunkSize * q - ChunkSize * a = ChunkSize * (q - a)
    BY <1>1, <1>3, ChunkNat, Distributes
  <2>4. ChunkSize * q \in Int /\ ChunkSize * a \in Int /\ ChunkSize * a = a * ChunkSize
    BY <1>1, <1>3, ChunkNat, TimesInt
  <2>5. QED
    BY <1>1, <1>3, <2>2, <2>3, <2>4, ChunkNat
<1>7. q % NumOfCpus = q
  BY <1>1, <1>3, <1>5, <1>6, ChunkNat
<1>8. QED
  BY <1>3, <1>4, <1>6, <1>7, <1>1

(* The BSP's first cursor of a part, and a part that is empty.             *)
LEMMA DoneNothing ==
    ASSUME NEW S, NEW part, PartOK(part), NEW limit \in Int,
           limit <= part.start \/ part.end <= part.start
    PROVE  DoneBelow(S, limit, 0, part)
<1>1. part.start \in Nat /\ part.end \in Nat
  BY DEF PartOK, Part
<1>2. \A p \in part.start .. part.end - 1 : ~ (p < limit)
  BY <1>1
<1>3. QED
  BY <1>2 DEF DoneBelow

(* Parts 1 and 3 are the BSP's alone.                                      *)
LEMMA ShortPart ==
    ASSUME NEW part, PartOK(part), part.end - part.start < ChunkSize,
           NEW p \in part.start .. part.end - 1
    PROVE  Owner(p, part) = 0
<1>1. part.start \in Nat /\ part.end \in Nat
  BY DEF PartOK, Part
<1>2. p - part.start \in Int /\ 0 <= p - part.start /\ p - part.start < ChunkSize
  BY <1>1, ChunkNat
<1>3. (p - part.start) \div ChunkSize = 0
  BY <1>2, ChunkNat, DivOfSmall
<1>4. 0 % NumOfCpus = 0
  BY ChunkNat
<1>5. QED
  BY <1>3, <1>4 DEF Owner

LEMMA OwnerIsCpu ==
    ASSUME NEW part, PartOK(part), NEW p \in part.start .. part.end - 1
    PROVE  Owner(p, part) \in CPU
<1>1. p - part.start \in Int
  BY DEF PartOK, Part
<1>2. (p - part.start) \div ChunkSize \in Int
  BY <1>1, ChunkNat, DivMod
<1>3. QED
  BY <1>2, ChunkNat, Cpus, ModType DEF Owner

LEMMA MpInitDone == MpInit => DoneInv
<1> SUFFICES ASSUME MpInit PROVE DoneInv
  OBVIOUS
<1>1. range = [start |-> 0, end |-> 0] /\ mp = "out"
  BY DEF MpInit
<1>2. PagesOf(range) = {}
  BY <1>1 DEF PagesOf
<1>3. QED
  BY <1>1, <1>2 DEF DoneInv, BspDoneInv, ApDoneInv, AcceptedOnSuccess

(* Steps that leave the work alone and finish no AP.                       *)
LEMMA IdleDone ==
    ASSUME DoneInv, UNCHANGED workVars,
           \A a \in AP : ap'[a] = "accept" => ap[a] = "accept",
           mp = "in" => \A a \in AP : Finished(a)' => Finished(a)
    PROVE  DoneInv'
<1>1. range' = range /\ todo' = todo /\ cur' = cur /\ errors' = errors
      /\ status' = status /\ mp' = mp /\ accepted' = accepted
  BY DEF workVars
<1>2. BspDoneInv'
  BY <1>1 DEF DoneInv, BspDoneInv
<1>3. ApDoneInv'
  BY <1>1 DEF DoneInv, ApDoneInv
<1>4. AcceptedOnSuccess'
  BY <1>1 DEF DoneInv, AcceptedOnSuccess
<1>5. QED
  BY <1>2, <1>3, <1>4 DEF DoneInv

LEMMA BspProtocolDone ==
    ASSUME MpInv, DoneInv, BspProtocol
    PROVE  DoneInv'
<1>1. /\ UNCHANGED workVars
      /\ ap' = ap
      /\ bsp' = "idle" => bsp = "dec"
      /\ bsp' \in {"work", "end", "noop", "zero", "dec"} =>
            bsp \in {"release", "send", "work", "end", "noop", "zero"}
  BY BspProtocolFacts
<1>2. ASSUME NEW a \in AP, Finished(a)' PROVE Finished(a)
  <2>1. CASE bsp' = "idle"
    <3>1. ap[a] = "exit"
      BY <1>1, <2>1 DEF MpInv, Inv, PhaseInv, Restarting, ApsIn
    <3>2. QED
      BY <1>1, <2>1, <3>1 DEF Finished
  <2>2. CASE ap[a] \in {"finish", "exit"} /\ bsp' \in {"work", "end", "noop", "zero", "dec"}
    <3>1. bsp \notin {"release", "send"}
      BY <2>2 DEF MpInv, Inv, PhaseInv, Releasing, Sending, ApsIn
    <3>2. QED
      BY <1>1, <2>2, <3>1 DEF Finished
  <2>3. QED
    BY <1>1, <1>2, <2>1, <2>2 DEF Finished
<1>3. QED
  BY <1>1, <1>2, IdleDone

LEMMA ApProtocolDone ==
    ASSUME MpInv, DoneInv, NEW b \in AP, ApProtocol(b)
    PROVE  DoneInv'
<1>1. ap \in [AP -> ApPc]
  BY DEF MpInv, Inv, TypeOK
<1>2. /\ UNCHANGED workVars
      /\ bsp' = bsp
      /\ \A a \in AP : ap'[a] = "accept" => ap[a] = "accept"
      /\ \A a \in AP : ap'[a] \in {"finish", "exit"} => ap[a] \in {"finish", "exit"}
  BY <1>1, ApProtocolFacts
<1>3. \A a \in AP : Finished(a)' => Finished(a)
  BY <1>2 DEF Finished
<1>4. QED
  BY <1>2, <1>3, IdleDone

LEMMA ApAcceptEndsDone ==
    ASSUME MpInv, DoneInv, NEW b \in AP, ApAcceptEnds(b)
    PROVE  DoneInv'
<1> DEFINE part == Part2(range.start, range.end)
<1>1. ap \in [AP -> ApPc]
  BY DEF MpInv, Inv, TypeOK
<1>2. /\ UNCHANGED workVars
      /\ bsp' = bsp
      /\ ap[b] = "accept"
      /\ errors[b] > 0 \/ cur[b].base >= args.end
      /\ \A a \in AP \ {b} : ap'[a] = ap[a]
      /\ ap'[b] = "finish"
  BY <1>1, ApAcceptEndsFacts
<1>3. range' = range /\ todo' = todo /\ cur' = cur /\ errors' = errors
      /\ status' = status /\ mp' = mp /\ accepted' = accepted
  BY <1>2 DEF workVars
<1>4. range \in Ranges /\ args = ArgsOf(range)
  BY <1>2, AtWork DEF MpInv
<1>5. args.end = part.end /\ PartOK(part)
  BY <1>4, ArgsArePart2, TheirPartsOK DEF TheParts
<1>6. CursorOK(cur[b], b, part) /\ b \in CPU /\ errors[b] \in Nat
  BY <1>2, Cpus DEF MpInv, ApCursorInv, WorkTypes
<1>7. ASSUME mp = "in" PROVE errors[b] > 0 \/ DoneBelow(accepted, part.end, b, part)
  <2>1. SUFFICES ASSUME errors[b] = 0 PROVE DoneBelow(accepted, part.end, b, part)
    BY <1>6
  <2>2. DoneBelow(accepted, cur[b].addr, b, part)
    BY <1>2, <1>7, <2>1 DEF DoneInv, ApDoneInv
  <2>3. cur[b].base >= part.end
    BY <1>2, <1>5, <2>1
  <2> HIDE DEF part
  <2>4. QED
    BY <1>5, <1>6, <2>2, <2>3, DoneAtEnd
<1>8. BspDoneInv'
  BY <1>3 DEF DoneInv, BspDoneInv
<1>9. ApDoneInv'
  <2> SUFFICES ASSUME mp = "in", NEW a \in AP
               PROVE  /\ ap'[a] = "accept" /\ errors[a] = 0 =>
                            DoneBelow(accepted, cur[a].addr, a, part)
                      /\ Finished(a)' => errors[a] > 0 \/ DoneBelow(accepted, part.end, a, part)
    BY <1>3 DEF ApDoneInv
  <2>1. CASE a = b
    BY <1>2, <1>7, <2>1
  <2>2. CASE a # b
    <3>1. ap'[a] = ap[a] /\ (Finished(a)' => Finished(a))
      BY <1>2, <2>2 DEF Finished
    <3>2. QED
      BY <3>1 DEF DoneInv, ApDoneInv
  <2>3. QED
    BY <2>1, <2>2
<1>10. AcceptedOnSuccess'
  BY <1>3 DEF DoneInv, AcceptedOnSuccess
<1>11. QED
  BY <1>8, <1>9, <1>10 DEF DoneInv

LEMMA CallDone ==
    ASSUME MpInv, NEW r \in Ranges, MpAcceptCall(r)
    PROVE  DoneInv'
<1>1. /\ bsp = "idle" /\ bsp' = "start" /\ ap' = ap
      /\ mp' = "in" /\ range' = r /\ todo' = BspParts(r)
      /\ cur' = [cur EXCEPT ![0] = FirstCursor(BspParts(r))]
      /\ status' = "Success"
  BY DEF MpAcceptCall, MpSerializeStart, BspGoto
<1> DEFINE parts == BspParts(r)
<1>2. /\ parts \in Seq(Part)
      /\ \A i \in 1 .. Len(parts) : parts[i] \in TheParts(r)
      /\ \A part \in TheParts(r) : part.end > part.start =>
            \E i \in 1 .. Len(parts) : parts[i] = part
  BY BspPartsOK
<1>3. cur'[0] = FirstCursor(parts)
  BY <1>1, Cpus DEF MpInv, WorkTypes
<1> HIDE DEF parts
<1>4. ASSUME parts # <<>> PROVE DoneBelow(accepted', cur'[0].addr, 0, parts[1])
  <2>1. 1 \in 1 .. Len(parts)
    BY <1>2, <1>4
  <2>2. PartOK(parts[1])
    BY <1>2, <2>1, TheirPartsOK
  <2>3. cur'[0].addr = parts[1].start
    BY <1>3, <1>4 DEF FirstCursor, ChunkAt
  <2>4. parts[1].start \in Int
    BY <2>2 DEF PartOK, Part
  <2>5. QED
    BY <2>2, <2>3, <2>4, DoneNothing
<1>5. ASSUME NEW part \in TheParts(r)
      PROVE  \/ \E i \in 1 .. Len(parts) : parts[i] = part
             \/ DoneBelow(accepted', part.end, 0, part)
  <2>1. PartOK(part)
    BY TheirPartsOK
  <2>2. part.start \in Nat /\ part.end \in Nat
    BY <2>1 DEF PartOK, Part
  <2>3. CASE part.end > part.start
    BY <1>2, <2>3
  <2>4. CASE part.end <= part.start
    BY <2>1, <2>2, <2>4, DoneNothing
  <2>5. QED
    BY <2>2, <2>3, <2>4
<1>6. BspDoneInv'
  BY <1>1, <1>4, <1>5 DEF BspDoneInv, parts
<1>7. ApDoneInv'
  <2>1. \A a \in AP : ap'[a] \notin {"accept"} /\ ~ Finished(a)'
    <3>1. \A a \in AP : ap[a] # "accept"
      BY <1>1 DEF MpInv, Inv, PhaseInv, BetweenCalls, ApsIn
    <3>2. QED
      BY <1>1, <3>1 DEF Finished
  <2>2. QED
    BY <2>1 DEF ApDoneInv
<1>8. AcceptedOnSuccess'
  BY <1>1 DEF AcceptedOnSuccess
<1>9. QED
  BY <1>6, <1>7, <1>8 DEF DoneInv

(* MpAcceptMemoryResourceRange returns: every page was somebody's.         *)
LEMMA ReturnDone ==
    ASSUME MpInv, DoneInv, MpAcceptReturn
    PROVE  DoneInv'
<1>1. /\ mp = "in" /\ bsp = "idle" /\ mp' = "out"
      /\ status' = IF \E c \in CPU : errors[c] > 0 THEN "DeviceError" ELSE status
      /\ accepted' = accepted /\ range' = range
  BY DEF MpAcceptReturn
<1>2. ASSUME status' = "Success" PROVE PagesOf(range) \subseteq accepted
  <2> SUFFICES ASSUME NEW p \in PagesOf(range) PROVE p \in accepted
    OBVIOUS
  <2> DEFINE p1 == Part1(range.start, range.end)
             p2 == Part2(range.start, range.end)
             p3 == Part3(range.start, range.end)
  <2>1. \A a \in AP : ~ (errors[a] > 0)
    BY <1>1, <1>2, Cpus
  <2>2. range \in Ranges /\ todo = <<>>
    BY <1>1 DEF MpInv, CallInv
  <2>3. /\ PartOK(p1) /\ PartOK(p2) /\ PartOK(p3)
        /\ range.start \in Nat /\ range.end \in Nat
        /\ p1.start = range.start /\ p1.end = p2.start
        /\ p2.end = p3.start /\ p3.end = range.end
        /\ p1.end - p1.start < ChunkSize
        /\ p3.end - p3.start < ChunkSize
    BY <2>2, PartsOK
  <2>4. \A part \in {p1, p2, p3} : DoneBelow(accepted, part.end, 0, part)
    BY <1>1, <2>2 DEF DoneInv, BspDoneInv, TheParts
  <2>5. \A a \in AP : DoneBelow(accepted, p2.end, a, p2)
    BY <1>1, <2>1 DEF DoneInv, ApDoneInv, Finished
  <2> HIDE DEF p1, p2, p3
  <2>6. p1.end \in Nat /\ p2.end \in Nat /\ p1 \in Part /\ p2 \in Part /\ p3 \in Part
    BY <2>3 DEF PartOK, Part
  <2>7. \/ p \in p1.start .. p1.end - 1
        \/ p \in p2.start .. p2.end - 1
        \/ p \in p3.start .. p3.end - 1
    BY <2>3, <2>6 DEF PagesOf
  <2>8. CASE p \in p1.start .. p1.end - 1
    BY <2>3, <2>4, <2>6, <2>8, ShortPart DEF DoneBelow, Part
  <2>9. CASE p \in p3.start .. p3.end - 1
    BY <2>3, <2>4, <2>6, <2>9, ShortPart DEF DoneBelow, Part
  <2>10. CASE p \in p2.start .. p2.end - 1
    <3>1. Owner(p, p2) \in CPU /\ p < p2.end
      BY <2>3, <2>6, <2>10, OwnerIsCpu DEF Part
    <3>2. CASE Owner(p, p2) = 0
      BY <2>4, <2>10, <3>1, <3>2 DEF DoneBelow
    <3>3. CASE Owner(p, p2) # 0
      BY <2>5, <2>10, <3>1, <3>3, Cpus DEF DoneBelow
    <3>4. QED
      BY <3>2, <3>3
  <2>11. QED
    BY <2>7, <2>8, <2>9, <2>10
<1>3. QED
  BY <1>1, <1>2 DEF DoneInv, BspDoneInv, ApDoneInv, AcceptedOnSuccess

LEMMA StartupDone ==
    ASSUME DoneInv, StartupWakeup \/ StartupFails
    PROVE  DoneInv'
<1>1. CASE StartupWakeup
  <2>1. UNCHANGED workVars /\ mp = "out" /\ ap' = ap
    BY <1>1 DEF StartupWakeup, MpSerializeStart
  <2>2. QED
    BY <2>1, IdleDone
<1>2. CASE StartupFails
  <2>1. mp' = "dead"
    BY <1>2 DEF StartupFails
  <2>2. QED
    BY <2>1 DEF DoneInv, BspDoneInv, ApDoneInv, AcceptedOnSuccess
<1>3. QED
  BY <1>1, <1>2

LEMMA BspAcceptOneDone ==
    ASSUME MpInv, DoneInv, BspAcceptOne
    PROVE  DoneInv'
<1>1. /\ mp = "in" /\ todo # <<>> /\ cur[0].base < todo[1].end
      /\ FailsNow(0, todo[1].size) = 0 /\ AcceptOne(0, todo[1], ChunkSize)
      /\ bsp' = bsp /\ ap' = ap
      /\ range' = range /\ todo' = todo /\ errors' = errors
      /\ status' = status /\ mp' = mp
  BY DEF BspAcceptOne, vars
<1>2. PartOK(todo[1]) /\ CursorOK(cur[0], 0, todo[1]) /\ cur \in [CPU -> Cursor]
  BY <1>1, BspPart DEF MpInv, WorkTypes
<1>3. /\ \A b \in CPU \ {0} : cur'[b] = cur[b]
      /\ accepted \subseteq accepted'
      /\ DoneBelow(accepted, cur[0].addr, 0, todo[1])
            => DoneBelow(accepted', cur'[0].addr, 0, todo[1])
  BY <1>1, <1>2, AcceptOneOK, Cpus
<1>4. BspDoneInv'
  <2>1. /\ status = "Success"
        /\ DoneBelow(accepted, cur[0].addr, 0, todo[1])
        /\ \A part \in TheParts(range) :
              \/ \E i \in 1 .. Len(todo) : todo[i] = part
              \/ DoneBelow(accepted, part.end, 0, part)
    BY <1>1 DEF DoneInv, BspDoneInv
  <2>2. \A part \in TheParts(range) :
              \/ \E i \in 1 .. Len(todo) : todo[i] = part
              \/ DoneBelow(accepted', part.end, 0, part)
    BY <1>3, <2>1, DoneGrows
  <2>3. QED
    BY <1>1, <1>3, <2>1, <2>2 DEF BspDoneInv
<1>5. ApDoneInv'
  <2> DEFINE part == Part2(range.start, range.end)
  <2> SUFFICES ASSUME NEW a \in AP
               PROVE  /\ ap[a] = "accept" /\ errors[a] = 0 =>
                            DoneBelow(accepted', cur'[a].addr, a, part)
                      /\ Finished(a)' => errors[a] > 0 \/ DoneBelow(accepted', part.end, a, part)
    BY <1>1 DEF ApDoneInv
  <2>1. cur'[a] = cur[a] /\ (Finished(a)' => Finished(a))
    BY <1>1, <1>3, Cpus DEF Finished
  <2>2. /\ ap[a] = "accept" /\ errors[a] = 0 => DoneBelow(accepted, cur[a].addr, a, part)
        /\ Finished(a) => errors[a] > 0 \/ DoneBelow(accepted, part.end, a, part)
    BY <1>1 DEF DoneInv, ApDoneInv
  <2> HIDE DEF part
  <2>3. QED
    BY <1>3, <2>1, <2>2, DoneGrows
<1>6. AcceptedOnSuccess'
  BY <1>1 DEF AcceptedOnSuccess
<1>7. QED
  BY <1>4, <1>5, <1>6 DEF DoneInv

LEMMA BspPartDoneDone ==
    ASSUME MpInv, DoneInv, BspPartDone
    PROVE  DoneInv'
<1>1. /\ mp = "in" /\ bsp' = bsp /\ ap' = ap
      /\ range' = range /\ errors' = errors /\ accepted' = accepted
      /\ todo # <<>> /\ cur[0].base >= todo[1].end
      /\ status' = "Success" /\ todo' = Tail(todo)
      /\ cur' = [cur EXCEPT ![0] = FirstCursor(Tail(todo))]
      /\ mp' = mp
  BY DEF BspPartDone, PartReturns, vars
<1>2. /\ range \in Ranges /\ PartOK(todo[1]) /\ CursorOK(cur[0], 0, todo[1])
      /\ cur \in [CPU -> Cursor] /\ 0 \in CPU /\ todo \in Seq(Part)
      /\ \A i \in 1 .. Len(todo) : todo[i] \in TheParts(range)
  BY <1>1, BspPart, Cpus DEF MpInv, WorkTypes, BspCursorInv
<1>3. /\ DoneBelow(accepted, cur[0].addr, 0, todo[1])
      /\ \A part \in TheParts(range) :
            \/ \E i \in 1 .. Len(todo) : todo[i] = part
            \/ DoneBelow(accepted, part.end, 0, part)
  BY <1>1 DEF DoneInv, BspDoneInv
<1>4. DoneBelow(accepted, todo[1].end, 0, todo[1])
  BY <1>1, <1>2, <1>3, DoneAtEnd
<1> DEFINE rest == Tail(todo)
<1>5. /\ rest \in Seq(Part)
      /\ Len(rest) = Len(todo) - 1 /\ Len(todo) \in Nat
      /\ \A i \in 1 .. Len(rest) : i + 1 \in 1 .. Len(todo) /\ rest[i] = todo[i + 1]
  BY <1>1, <1>2, TailElements
<1>6. cur'[0] = FirstCursor(rest) /\ \A a \in AP : cur'[a] = cur[a]
  BY <1>1, <1>2, Cpus
<1> HIDE DEF rest
<1>7. ASSUME rest # <<>> PROVE DoneBelow(accepted, cur'[0].addr, 0, rest[1])
  <2>1. 1 \in 1 .. Len(rest)
    BY <1>5, <1>7
  <2>2. PartOK(rest[1])
    BY <1>2, <1>5, <2>1, TheirPartsOK
  <2>3. cur'[0].addr = rest[1].start
    BY <1>6, <1>7 DEF FirstCursor, ChunkAt
  <2>4. rest[1].start \in Int
    BY <2>2 DEF PartOK, Part
  <2>5. QED
    BY <2>2, <2>3, <2>4, DoneNothing
<1>8. ASSUME NEW part \in TheParts(range)
      PROVE  \/ \E i \in 1 .. Len(rest) : rest[i] = part
             \/ DoneBelow(accepted, part.end, 0, part)
  <2>1. SUFFICES ASSUME NEW i \in 1 .. Len(todo), todo[i] = part
                 PROVE  \/ \E j \in 1 .. Len(rest) : rest[j] = part
                        \/ DoneBelow(accepted, part.end, 0, part)
    BY <1>3
  <2>2. CASE i = 1
    BY <1>4, <2>1, <2>2
  <2>3. CASE i # 1
    <3>1. i - 1 \in 1 .. Len(rest) /\ (i - 1) + 1 = i
      BY <1>5, <2>3
    <3>2. rest[i - 1] = part
      BY <1>5, <2>1, <3>1
    <3>3. QED
      BY <3>1, <3>2
  <2>4. QED
    BY <2>2, <2>3
<1>9. BspDoneInv'
  BY <1>1, <1>7, <1>8 DEF BspDoneInv, rest
<1>10. ApDoneInv'
  <2>1. \A a \in AP : Finished(a)' => Finished(a)
    BY <1>1 DEF Finished
  <2>2. QED
    BY <1>1, <1>6, <2>1 DEF DoneInv, ApDoneInv
<1>11. AcceptedOnSuccess'
  BY <1>1 DEF AcceptedOnSuccess
<1>12. QED
  BY <1>9, <1>10, <1>11 DEF DoneInv

(* A step of an AP moves its own cursor only.                              *)
LEMMA ApStepDone ==
    ASSUME DoneInv, MpInv, NEW b \in AP, range' = range, todo' = todo, bsp' = bsp,
           status' = status, mp' = mp, accepted \subseteq accepted', cur'[0] = cur[0],
           ap'[b] = "accept", bsp # "idle",
           mp = "out" => accepted' = accepted,
           \A a \in AP \ {b} : ap'[a] = ap[a] /\ cur'[a] = cur[a] /\ errors'[a] = errors[a],
           mp = "in" /\ errors'[b] = 0 =>
              DoneBelow(accepted', cur'[b].addr, b, Part2(range.start, range.end))
    PROVE  DoneInv'
<1> DEFINE part == Part2(range.start, range.end)
<1>1. BspDoneInv'
  <2> SUFFICES ASSUME mp = "in"
               PROVE  /\ status = "Success"
                      /\ todo # <<>> => DoneBelow(accepted', cur[0].addr, 0, todo[1])
                      /\ \A p \in TheParts(range) :
                            \/ \E i \in 1 .. Len(todo) : todo[i] = p
                            \/ DoneBelow(accepted', p.end, 0, p)
    BY DEF BspDoneInv
  <2>1. /\ status = "Success"
        /\ todo # <<>> => DoneBelow(accepted, cur[0].addr, 0, todo[1])
        /\ \A p \in TheParts(range) :
              \/ \E i \in 1 .. Len(todo) : todo[i] = p
              \/ DoneBelow(accepted, p.end, 0, p)
    BY DEF DoneInv, BspDoneInv
  <2>2. QED
    BY <2>1, DoneGrows
<1>2. ApDoneInv'
  <2> SUFFICES ASSUME mp = "in", NEW a \in AP
               PROVE  /\ ap'[a] = "accept" /\ errors'[a] = 0 =>
                            DoneBelow(accepted', cur'[a].addr, a, part)
                      /\ Finished(a)' => errors'[a] > 0 \/ DoneBelow(accepted', part.end, a, part)
    BY DEF ApDoneInv
  <2>1. CASE a = b
    BY <2>1 DEF Finished
  <2>2. CASE a # b
    <3>1. /\ ap'[a] = ap[a] /\ cur'[a] = cur[a] /\ errors'[a] = errors[a]
          /\ Finished(a)' => Finished(a)
      BY <2>2 DEF Finished
    <3>2. /\ ap[a] = "accept" /\ errors[a] = 0 => DoneBelow(accepted, cur[a].addr, a, part)
          /\ Finished(a) => errors[a] > 0 \/ DoneBelow(accepted, part.end, a, part)
      BY DEF DoneInv, ApDoneInv
    <3> HIDE DEF part
    <3>3. QED
      BY <3>1, <3>2, DoneGrows
  <2>3. QED
    BY <2>1, <2>2
<1>3. AcceptedOnSuccess'
  BY DEF DoneInv, AcceptedOnSuccess
<1>4. QED
  BY <1>1, <1>2, <1>3 DEF DoneInv

LEMMA ApTakeDone ==
    ASSUME MpInv, DoneInv, NEW b \in AP, ApAcceptPage(b)
    PROVE  DoneInv'
<1>1. /\ ap[b] = "command" /\ command = AcceptPages /\ bsp' = bsp
      /\ ap' = [ap EXCEPT ![b] = "accept"]
      /\ range' = range /\ todo' = todo /\ status' = status /\ mp' = mp
      /\ accepted' = accepted
      /\ errors' = [errors EXCEPT ![b] = IF args.size \in {1, Big} THEN 0 ELSE 1]
      /\ cur' = [cur EXCEPT ![b] =
                   ChunkAt(args.start + b * args.chunk, args.end, args.chunk)]
  BY DEF ApAcceptPage, ApTakeAccept, ApGoto, mailbox
<1>2. /\ ap \in [AP -> ApPc] /\ cur \in [CPU -> Cursor] /\ errors \in [CPU -> 0 .. 3]
      /\ b \in CPU \ {0}
  BY Cpus DEF MpInv, Inv, TypeOK, WorkTypes
<1>3. range \in Ranges /\ args = ArgsOf(range) /\ bsp \in {"work", "end"}
  BY <1>1, AboutToWork DEF MpInv
<1> DEFINE part == Part2(range.start, range.end)
<1>4. /\ args.start = part.start /\ args.chunk = ChunkSize /\ PartOK(part)
  BY <1>3, ArgsArePart2, TheirPartsOK DEF TheParts
<1> HIDE DEF part
<1>5. cur'[b].addr = part.start + b * ChunkSize
  BY <1>1, <1>2, <1>4 DEF ChunkAt
<1>6. DoneBelow(accepted', cur'[b].addr, b, part)
  BY <1>2, <1>4, <1>5, DoneAtStart
<1>7. /\ ap'[b] = "accept" /\ cur'[0] = cur[0]
      /\ \A a \in AP \ {b} : ap'[a] = ap[a] /\ cur'[a] = cur[a] /\ errors'[a] = errors[a]
  BY <1>1, <1>2, Cpus
<1>8. QED
  BY <1>1, <1>3, <1>6, <1>7, ApStepDone DEF part

LEMMA ApAcceptOneDone ==
    ASSUME MpInv, DoneInv, NEW b \in AP, ApAcceptOne(b)
    PROVE  DoneInv'
<1> DEFINE part == Part2(range.start, range.end)
<1>1. /\ bsp' = bsp /\ ap' = ap
      /\ range' = range /\ todo' = todo /\ errors' = errors
      /\ status' = status /\ mp' = mp
  BY DEF ApAcceptOne, vars
<1>2. /\ PartOK(part) /\ b \in CPU
      /\ ap[b] = "accept" /\ errors[b] = 0
      /\ CursorOK(cur[b], b, part)
      /\ cur[b].base < part.end
      /\ FailsNow(b, part.size) = 0
      /\ AcceptOne(b, part, ChunkSize)
      /\ cur \in [CPU -> Cursor]
  BY ApWorks DEF MpInv, WorkTypes
<1>3. bsp \in {"work", "end"}
  BY <1>2, AtWork DEF MpInv
<1>4. mp = "in" => DoneBelow(accepted, cur[b].addr, b, part)
  BY <1>2 DEF DoneInv, ApDoneInv
<1>5. mp # "out"
  <2>1. req.command = AcceptPages
    BY <1>2 DEF MpInv, Inv, TypeOK, BspPc, PhaseInv, BetweenCalls, Releasing, Sending,
            Working, Restarting, HandingOver, ApsIn
  <2>2. QED
    BY <1>3, <2>1 DEF MpInv, CallInv, AcceptPages, Wakeup
<1> HIDE DEF part
<1>6. /\ \A a \in CPU \ {b} : cur'[a] = cur[a]
      /\ accepted \subseteq accepted'
      /\ DoneBelow(accepted, cur[b].addr, b, part)
            => DoneBelow(accepted', cur'[b].addr, b, part)
  BY <1>2, AcceptOneOK
<1>7. cur'[0] = cur[0] /\ \A a \in AP \ {b} : cur'[a] = cur[a]
  BY <1>6, Cpus
<1>8. QED
  BY <1>1, <1>2, <1>3, <1>4, <1>5, <1>6, <1>7, ApStepDone DEF part

LEMMA ApAcceptFailsDone ==
    ASSUME MpInv, DoneInv, NEW b \in AP, ApAcceptFails(b)
    PROVE  DoneInv'
<1>1. /\ ap[b] = "accept" /\ bsp' = bsp /\ ap' = ap /\ cur' = cur
      /\ range' = range /\ todo' = todo /\ accepted' = accepted
      /\ FailsNow(b, args.size) # 0
      /\ errors' = [errors EXCEPT ![b] = FailsNow(b, args.size)]
      /\ status' = status /\ mp' = mp
  BY DEF ApAcceptFails, vars
<1>2. bsp \in {"work", "end"}
  BY <1>1, AtWork DEF MpInv
<1>3. errors \in [CPU -> 0 .. 3] /\ b \in CPU \ {0}
  BY Cpus DEF MpInv, WorkTypes
<1>4. errors'[b] # 0 /\ \A a \in AP \ {b} : errors'[a] = errors[a]
  BY <1>1, <1>3, Cpus
<1>5. QED
  BY <1>1, <1>2, <1>4, ApStepDone

LEMMA MpNextDone ==
    ASSUME AssertsEnabled, MpInv, DoneInv, [MpNext]_mpvars
    PROVE  DoneInv'
<1>1. ASSUME NEW r \in Ranges, MpAcceptCall(r) PROVE DoneInv'
  BY <1>1, CallDone
<1>2. CASE StartupWakeup \/ StartupFails
  BY <1>2, StartupDone
<1>3. CASE BspProtocol
  BY <1>3, BspProtocolDone
<1>4. CASE BspAcceptOne
  BY <1>4, BspAcceptOneDone
<1>5. CASE BspAcceptFails
  <2>1. mp' = "dead"
    BY <1>5 DEF BspAcceptFails, PartReturns
  <2>2. QED
    BY <2>1 DEF DoneInv, BspDoneInv, ApDoneInv, AcceptedOnSuccess
<1>6. CASE BspPartDone
  BY <1>6, BspPartDoneDone
<1>7. CASE MpAcceptReturn
  BY <1>7, ReturnDone
<1>8. ASSUME NEW b \in AP, MpApNext(b) PROVE DoneInv'
  BY <1>8, ApProtocolDone, ApAcceptEndsDone, ApTakeDone, ApAcceptOneDone, ApAcceptFailsDone
     DEF MpApNext
<1>9. CASE Booted \/ Halted \/ UNCHANGED mpvars
  <2>1. UNCHANGED workVars /\ UNCHANGED vars
    BY <1>9 DEF Booted, Halted, HandedOver, mpvars
  <2>2. bsp' = bsp /\ ap' = ap
    BY <2>1 DEF vars
  <2>3. \A a \in AP : Finished(a)' => Finished(a)
    BY <2>2 DEF Finished
  <2>4. QED
    BY <2>1, <2>2, <2>3, IdleDone
<1>10. QED
  BY <1>1, <1>2, <1>3, <1>4, <1>5, <1>6, <1>7, <1>8, <1>9 DEF MpNext, MpBspNext

\* With ASSERTs compiled in, MpAcceptMemoryResourceRange returns EFI_SUCCESS
\* only if every page of the range is accepted, for every range, every
\* mapping of the VMM, every chunk size and number of CPUs, whatever the
\* CPUs' order.  (Without them it is not so: run mp_release.)
THEOREM SuccessIsAccepted ==
    ASSUME AssertsEnabled
    PROVE  MpSpec => []AcceptedOnSuccess
<1>1. MpInit => MpInv /\ DoneInv
  BY MpInitInv, MpInitDone
<1>2. MpInv /\ DoneInv /\ [MpNext]_mpvars => MpInv' /\ DoneInv'
  BY MpNextInv, MpNextDone
<1>3. DoneInv => AcceptedOnSuccess
  BY DEF DoneInv
<1>4. QED
  BY <1>1, <1>2, <1>3, PTL DEF MpSpec

-----------------------------------------------------------------------------
(* Which calls never return, and that the others do not stay at a page.    *)

\* A deadlock of the CPUs in MpAcceptMemoryResourceRange: as for the mailbox
\* (DeadlockFree) there is none but a call that sends no command.
THEOREM MpDeadlockFree == MpSpec => []NoDeadlock
BY UsesMailbox, DeadlockFree, PTL

\* The calls that send no command (Mp.c:185), and so never return from
\* MpSerializeEnd (SilentCallNeverReturns), are exactly those for an empty range
\* and for a range that is longer than 2MB and has no 2MB page inside.
THEOREM OnlyShortRangesHang ==
    MpSpec => [](bsp \in {"work", "end"} /\ req.command # Wakeup =>
                    (Silent <=> \/ range.start = range.end
                                \/ NoLargePage(range.start, range.end)))
<1>1. ASSUME MpInv, bsp \in {"work", "end"}, req.command # Wakeup
      PROVE  Silent <=> range.start = range.end \/ NoLargePage(range.start, range.end)
  <2>1. range \in Ranges /\ req = RequestOf(range)
    BY <1>1 DEF MpInv, CallInv
  <2>2. range.start \in Nat /\ range.end \in Nat /\ range.start <= range.end
    BY <2>1, RangesAssumption
  <2>3. Length2(range.start, range.end) \in Nat
    BY <2>2, PartsOfRange DEF PartFacts
  <2>4. req.command = NoCommand <=> Length2(range.start, range.end) = 0
    <3>1. CASE Length2(range.start, range.end) > 0
      BY <2>1, <2>3, <3>1 DEF RequestOf, AcceptRequest, AcceptPages, NoCommand
    <3>2. CASE Length2(range.start, range.end) = 0
      BY <2>1, <3>2 DEF RequestOf, SilentRequest
    <3>3. QED
      BY <2>3, <3>1, <3>2
  <2>5. Silent <=> Length2(range.start, range.end) = 0
    BY <1>1, <2>4 DEF Silent
  <2>6. QED
    BY <2>2, <2>5, SilentRanges
<1>2. QED
  BY <1>1, WorkInvariance, PTL

(* What is left of a part for a cursor, and whether the 2MB page it is at  *)
(* can still fall back.                                                    *)
WorkLeft(c, end) ==
    IF c.base >= end THEN 0
    ELSE 2 * (end - c.addr) + (IF c.fallback = 0 THEN 1 ELSE 0)

(* The next page of a cursor that is not at the end is in the part.        *)
LEMMA AddrInPart ==
    ASSUME NEW part, PartOK(part), NEW a \in CPU, NEW c, CursorOK(c, a, part),
           c.base < part.end
    PROVE  c.addr < part.end
<1>1. /\ c.base \in Nat /\ c.addr \in Nat /\ part.end \in Nat /\ Big \in Nat \ {0, 1}
      /\ ChunkSize \in Nat
  BY Sizes, ChunkNat DEF CursorOK, Cursor, PartOK, Part
<1>2. /\ c.addr + Level(c, part.size) <= ChunkEnd(c.base, part)
      /\ Level(c, part.size) \in {1, Big}
      /\ ChunkEnd(c.base, part) <= part.end
  BY PageFits
<1>3. ChunkEnd(c.base, part) \in Int
  BY <1>1 DEF ChunkEnd
<1>4. QED
  BY <1>1, <1>2, <1>3

LEMMA OneStride ==
    ASSUME NEW n \in Nat \ {0}, NEW k \in Nat \ {0}
    PROVE  n * k >= k /\ n * k \in Nat
OBVIOUS

LEMMA StepFurther ==
    ASSUME NEW part, PartOK(part), NEW a \in CPU, NEW c, CursorOK(c, a, part),
           c.base < part.end
    PROVE  /\ Step(c, part).addr > c.addr
           /\ Step(c, part).base < part.end => Step(c, part).addr < part.end
<1>1. part.start \in Nat /\ part.end \in Nat /\ part.size \in {1, Big} /\ Big \in Nat \ {0, 1}
  BY Sizes DEF PartOK, Part
<1>2. /\ c.base \in Nat /\ c.addr \in Nat
      /\ c.addr + Level(c, part.size) <= ChunkEnd(c.base, part)
      /\ Level(c, part.size) \in {1, Big}
  BY PageFits DEF CursorOK, Cursor
<1>3. CursorOK(Step(c, part), a, part)
  BY StepOK
<1>4. Step(c, part).addr > c.addr
  <2>1. CASE c.left = Taken(c, part)
    <3>1. Step(c, part).addr = c.base + NumOfCpus * ChunkSize
      BY <2>1, Zenon DEF Step, Advance, Taken, ChunkAt
    <3>2. NumOfCpus * ChunkSize >= ChunkSize /\ NumOfCpus * ChunkSize \in Nat
      BY ChunkNat, OneStride
    <3>3. c.addr < c.base + ChunkSize
      BY <1>1, <1>2, ChunkNat DEF ChunkEnd
    <3> DEFINE stride == NumOfCpus * ChunkSize
    <3>4. stride \in Nat /\ stride >= ChunkSize /\ Step(c, part).addr = c.base + stride
      BY <3>1, <3>2
    <3> HIDE DEF stride
    <3>5. QED
      BY <1>2, <3>3, <3>4, ChunkNat
  <2>2. CASE c.left # Taken(c, part)
    <3>1. Step(c, part).addr = c.addr + Level(c, part.size)
      BY <2>2, Zenon DEF Step, Advance, Taken
    <3>2. QED
      BY <1>1, <1>2, <3>1
  <2>3. QED
    BY <2>1, <2>2
<1>5. ASSUME Step(c, part).base < part.end PROVE Step(c, part).addr < part.end
  BY <1>1, <1>3, <1>5, AddrInPart
<1>6. QED
  BY <1>4, <1>5

(* A TDACCEPTPAGE that does not fail leaves less work.                     *)
LEMMA AcceptOneLess ==
    ASSUME NEW part, PartOK(part), NEW a \in CPU, cur \in [CPU -> Cursor],
           CursorOK(cur[a], a, part), cur[a].base < part.end,
           FailsNow(a, part.size) = 0, AcceptOne(a, part, ChunkSize)
    PROVE  /\ WorkLeft(cur[a], part.end) \in Nat
           /\ WorkLeft(cur'[a], part.end) \in Nat
           /\ WorkLeft(cur'[a], part.end) < WorkLeft(cur[a], part.end)
<1> DEFINE c == cur[a]
           level == Level(c, part.size)
           result == TdAccept(c.addr, level)
           d == IF result = "SizeMismatch" THEN FallBack(c) ELSE Step(c, part)
<1>1. cur' = [cur EXCEPT ![a] = d]
  BY Zenon DEF AcceptOne, Step
<1>2. cur'[a] = d
  BY <1>1
<1>3. ErrorOf(result, level) = 0
  BY Zenon DEF FailsNow
<1>4. result = "SizeMismatch" => level # 1
  BY <1>3 DEF ErrorOf
<1>5. /\ c.addr \in Nat /\ c.base \in Nat /\ c.fallback \in Nat
      /\ part.end \in Nat /\ part.size \in {1, Big} /\ Big \in Nat \ {0, 1}
  BY Sizes DEF CursorOK, Cursor, PartOK, Part
<1>6. c.addr < part.end
  BY <1>5, AddrInPart
<1>7. /\ WorkLeft(c, part.end) \in Nat
      /\ WorkLeft(c, part.end) = 2 * (part.end - c.addr) + (IF c.fallback = 0 THEN 1 ELSE 0)
  BY <1>5, <1>6 DEF WorkLeft
<1> HIDE DEF result
<1>8. CASE result = "SizeMismatch"
  <2>1. c.fallback = 0 /\ part.size = Big
    BY <1>4, <1>5, <1>8 DEF Level
  <2>2. d.addr = c.addr /\ d.base = c.base /\ d.fallback = Big
    BY <1>8 DEF FallBack, CursorOK, Cursor
  <2> HIDE DEF d
  <2>3. WorkLeft(d, part.end) = 2 * (part.end - c.addr)
    BY <1>5, <2>2 DEF WorkLeft
  <2>4. QED
    BY <1>2, <1>5, <1>6, <1>7, <2>1, <2>3
<1>9. CASE result # "SizeMismatch"
  <2>1. d = Step(c, part)
    BY <1>9
  <2>2. d.addr > c.addr /\ (d.base < part.end => d.addr < part.end)
    BY <2>1, StepFurther
  <2>3. d.addr \in Nat /\ d.base \in Nat
    BY <2>1, StepOK DEF CursorOK, Cursor
  <2> HIDE DEF d
  <2>4. WorkLeft(d, part.end) \in Nat /\ WorkLeft(d, part.end) < WorkLeft(c, part.end)
    <3>1. CASE d.base >= part.end
      BY <1>5, <1>6, <1>7, <3>1 DEF WorkLeft
    <3>2. CASE d.base < part.end
      BY <1>5, <1>7, <2>2, <2>3, <3>2 DEF WorkLeft
    <3>3. QED
      BY <1>5, <2>3, <3>1, <3>2
  <2>5. QED
    BY <1>2, <1>7, <2>4
<1>10. QED
  BY <1>8, <1>9

\* No CPU stays at a page: every TDACCEPTPAGE that does not fail, of the BSP
\* (TdAcceptPages) or of an AP (.do_accept_loop), a fall back to 4KB pages
\* included, brings the CPU's place strictly nearer to the end of its part.
\* WorkLeft is a natural number, so each loop ends after finitely many of them.
THEOREM WorkGoesOn ==
    MpSpec => [][/\ BspAcceptOne =>
                       /\ WorkLeft(cur[0], todo[1].end) \in Nat
                       /\ WorkLeft(cur'[0], todo[1].end) < WorkLeft(cur[0], todo[1].end)
                 /\ \A a \in AP : ApAcceptOne(a) =>
                       /\ WorkLeft(cur[a], args.end) \in Nat
                       /\ WorkLeft(cur'[a], args.end) < WorkLeft(cur[a], args.end)]_mpvars
<1>1. ASSUME MpInv, BspAcceptOne
      PROVE  /\ WorkLeft(cur[0], todo[1].end) \in Nat
             /\ WorkLeft(cur'[0], todo[1].end) < WorkLeft(cur[0], todo[1].end)
  <2>1. /\ todo # <<>> /\ cur[0].base < todo[1].end
        /\ FailsNow(0, todo[1].size) = 0 /\ AcceptOne(0, todo[1], ChunkSize)
    BY <1>1 DEF BspAcceptOne
  <2>2. /\ PartOK(todo[1]) /\ CursorOK(cur[0], 0, todo[1])
        /\ cur \in [CPU -> Cursor] /\ 0 \in CPU
    BY <1>1, <2>1, BspPart, Cpus DEF MpInv, WorkTypes
  <2>3. QED
    BY <2>1, <2>2, AcceptOneLess
<1>2. ASSUME MpInv, NEW a \in AP, ApAcceptOne(a)
      PROVE  /\ WorkLeft(cur[a], args.end) \in Nat
             /\ WorkLeft(cur'[a], args.end) < WorkLeft(cur[a], args.end)
  <2> DEFINE part == Part2(range.start, range.end)
  <2>1. /\ range \in Ranges /\ PartOK(part) /\ a \in CPU
        /\ ap[a] = "accept"
        /\ CursorOK(cur[a], a, part)
        /\ cur[a].base < part.end
        /\ FailsNow(a, part.size) = 0
        /\ AcceptOne(a, part, ChunkSize)
        /\ cur \in [CPU -> Cursor]
    BY <1>2, ApWorks DEF MpInv, WorkTypes
  <2>2. args = ArgsOf(range)
    BY <1>2, <2>1, AtWork DEF MpInv
  <2>3. args.end = part.end
    BY <2>1, <2>2, ArgsArePart2
  <2> HIDE DEF part
  <2>4. QED
    BY <2>1, <2>3, AcceptOneLess
<1>3. MpInv /\ [MpNext]_mpvars =>
         [/\ BspAcceptOne =>
                /\ WorkLeft(cur[0], todo[1].end) \in Nat
                /\ WorkLeft(cur'[0], todo[1].end) < WorkLeft(cur[0], todo[1].end)
          /\ \A a \in AP : ApAcceptOne(a) =>
                /\ WorkLeft(cur[a], args.end) \in Nat
                /\ WorkLeft(cur'[a], args.end) < WorkLeft(cur[a], args.end)]_mpvars
  BY <1>1, <1>2, Zenon
<1>4. QED
  BY <1>3, WorkInvariance, PTL DEF MpSpec
=============================================================================
