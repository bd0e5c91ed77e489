-------------------------- MODULE TdxPartitionProofs --------------------------
(***************************************************************************)
(* The arithmetic of MpAcceptMemoryResourceRange, for every range, every   *)
(* size of the large page and of the chunk, and every number of CPUs.      *)
(***************************************************************************)
EXTENDS TdxPartition, TLAPS

LEMMA ModType ==
    ASSUME NEW n \in Int, NEW b \in Nat \ {0}
    PROVE  /\ n % b \in 0 .. b - 1
           /\ n >= 0 => n % b <= n
OBVIOUS

LEMMA ModDown ==
    ASSUME NEW n \in Int, NEW b \in Nat \ {0}
    PROVE  (n - (n % b)) % b = 0
OBVIOUS

LEMMA ModUp ==
    ASSUME NEW n \in Int, NEW b \in Nat \ {0}
    PROVE  (n + (b - (n % b))) % b = 0
BY SMTT(40)

LEMMA DivMod ==
    ASSUME NEW n \in Int, NEW b \in Nat \ {0}
    PROVE  /\ n \div b \in Int
           /\ n = b * (n \div b) + (n % b)
OBVIOUS

LEMMA DivOfSum ==
    ASSUME NEW k \in Int, NEW r \in Int, NEW b \in Nat \ {0}, 0 <= r, r < b
    PROVE  (b * k + r) \div b = k
OBVIOUS

(* TotalLength & ~ALIGNED_2MB_MASK is the largest multiple below.          *)
LEMMA RoundDownFacts ==
    ASSUME NEW n \in Nat
    PROVE  /\ RoundDown(n) \in 0 .. n
           /\ n - RoundDown(n) \in 0 .. Big - 1
           /\ RoundDown(n) % Big = 0
<1>1. Big \in Nat \ {0}
  BY PartitionAssumption
<1>2. n % Big \in 0 .. Big - 1 /\ n % Big <= n
  BY <1>1, ModType
<1>3. (n - (n % Big)) % Big = 0
  BY <1>1, ModDown
<1>4. QED
  BY <1>1, <1>2, <1>3 DEF RoundDown

-----------------------------------------------------------------------------
(* What the callers of the parts rely on.                                  *)
PartFacts(start, end) ==
    LET l1 == Length1(start, end)
        l2 == Length2(start, end)
        l3 == Length3(start, end)
    IN  /\ l1 \in Nat
        /\ l2 \in Nat
        /\ l3 \in Nat
        /\ l1 + l2 + l3 = end - start
        /\ l1 < 2 * Big
        /\ l3 < Big
        /\ PageSize2(start, end) = Big /\ l2 > 0 =>
              /\ (start + l1) % Big = 0
              /\ l2 % Big = 0

\* The parts of a range for every range: the lengths are never negative,
\* together they are the range, ASSERT (Length3 < SIZE_2MB) of Mp.c never
\* fails, a part the BSP accepts alone is shorter than two 2MB pages (so that
\* its stride never skips anything), and what is accepted in 2MB pages starts
\* at a 2MB boundary and is a number of them.
THEOREM PartsOfRange ==
    ASSUME NEW start \in Nat, NEW end \in Nat, start <= end
    PROVE  PartFacts(start, end)
<1> DEFINE total == end - start
<1>1. total \in Nat /\ Big \in Nat \ {0}
  BY PartitionAssumption
<1>2. CASE AllSmall(start, end)
  <2>1. Length1(start, end) = 0 /\ Length2(start, end) = total
        /\ Length3(start, end) = 0 /\ PageSize2(start, end) = 1
    BY <1>1, <1>2 DEF Length1, Length2, Length3, PageSize2
  <2>2. QED
    BY <1>1, <2>1, PartitionAssumption DEF PartFacts
<1>3. CASE ~ AllSmall(start, end) /\ start % Big = 0
  <2>1. Length1(start, end) = 0 /\ Length2(start, end) = RoundDown(total)
        /\ Length3(start, end) = total - RoundDown(total)
    BY <1>1, <1>3 DEF Length1, Length2, Length3
  <2>2. /\ RoundDown(total) \in 0 .. total
        /\ total - RoundDown(total) \in 0 .. Big - 1
        /\ RoundDown(total) % Big = 0
    BY <1>1, RoundDownFacts
  <2>3. QED
    BY <1>1, <1>3, <2>1, <2>2 DEF PartFacts
<1>4. CASE ~ AllSmall(start, end) /\ start % Big # 0
  <2> DEFINE head == Big - (start % Big)
             rest == total - head
  <2>1. head \in 1 .. Big /\ (start + head) % Big = 0
    BY <1>1, ModType, ModUp
  <2>2. total > Big
    BY <1>1, <1>4, PartitionAssumption DEF AllSmall
  <2>3. CASE rest < Big
    <3>1. Length1(start, end) = total
      BY <1>1, <1>4, <2>3 DEF Length1
    <3>2. Length2(start, end) = RoundDown(0)
      BY <1>1, <1>4, <3>1 DEF Length2
    <3>3. RoundDown(0) = 0
      BY <1>1 DEF RoundDown
    <3>4. Length3(start, end) = 0
      BY <1>1, <3>1, <3>2, <3>3 DEF Length3
    <3>5. QED
      BY <1>1, <2>1, <2>3, <3>1, <3>2, <3>3, <3>4 DEF PartFacts
  <2>4. CASE rest >= Big
    <3>1. Length1(start, end) = head
      BY <1>1, <1>4, <2>1, <2>4 DEF Length1
    <3>2. Length2(start, end) = RoundDown(rest)
          /\ Length3(start, end) = rest - RoundDown(rest)
      BY <1>1, <1>4, <2>1, <3>1 DEF Length2, Length3
    <3>3. rest \in Nat
      BY <1>1, <2>1, <2>4
    <3>4. /\ RoundDown(rest) \in 0 .. rest
          /\ rest - RoundDown(rest) \in 0 .. Big - 1
          /\ RoundDown(rest) % Big = 0
      BY <3>3, RoundDownFacts
    <3>5. QED
      BY <1>1, <2>1, <2>4, <3>1, <3>2, <3>3, <3>4 DEF PartFacts
  <2>5. QED
    BY <1>1, <2>1, <2>3, <2>4
<1>5. QED
  BY <1>2, <1>3, <1>4

(* Longer than 2MB, not on a 2MB boundary, and with no 2MB page inside.    *)
NoLargePage(start, end) ==
    /\ ~AllSmall(start, end)
    /\ start % Big # 0
    /\ end - start < 2 * Big - (start % Big)

\* Which ranges leave nothing for the APs, so that Mp.c:185 sends them no
\* command although MpSerializeStart has released them: exactly the empty
\* ones and those without a 2MB page inside.  All of them are shorter than
\* 4MB; every other range has a part 2.
THEOREM SilentRanges ==
    ASSUME NEW start \in Nat, NEW end \in Nat, start <= end
    PROVE  /\ Length2(start, end) = 0 <=> start = end \/ NoLargePage(start, end)
           /\ Length2(start, end) = 0 => end - start < 2 * Big - 1
<1> DEFINE total == end - start
           head == Big - (start % Big)
<1>1. total \in Nat /\ Big \in Nat \ {0, 1}
  BY PartitionAssumption
<1>2. start % Big \in 0 .. Big - 1
  BY <1>1, ModType
<1>3. CASE AllSmall(start, end)
  BY <1>1, <1>3 DEF Length2, NoLargePage
<1>4. CASE ~AllSmall(start, end)
  <2>1. total > Big
    BY <1>1, <1>4, PartitionAssumption DEF AllSmall
  <2>2. ASSUME NEW n \in Nat, n >= Big PROVE RoundDown(n) # 0
    <3>1. n % Big \in 0 .. Big - 1
      BY <1>1, ModType
    <3>2. QED
      BY <1>1, <2>2, <3>1 DEF RoundDown
  <2>3. CASE start % Big = 0
    <3>1. Length2(start, end) = RoundDown(total)
      BY <1>1, <1>4, <2>3 DEF Length1, Length2
    <3>2. QED
      BY <1>1, <2>1, <2>2, <2>3, <3>1 DEF NoLargePage
  <2>4. CASE start % Big # 0 /\ total - head < Big
    <3>1. Length1(start, end) = total
      BY <1>1, <1>4, <2>4 DEF Length1
    <3>2. Length2(start, end) = RoundDown(0) /\ RoundDown(0) = 0
      BY <1>1, <1>4, <3>1 DEF Length2, RoundDown
    <3>3. total < 2 * Big - (start % Big)
      BY <1>1, <1>2, <2>4
    <3>4. QED
      BY <1>1, <1>2, <1>4, <2>4, <3>2, <3>3 DEF NoLargePage
  <2>5. CASE start % Big # 0 /\ total - head >= Big
    <3>1. Length1(start, end) = head /\ total - head \in Nat
      BY <1>1, <1>2, <1>4, <2>5 DEF Length1
    <3>2. Length2(start, end) = RoundDown(total - head)
      BY <1>1, <1>2, <1>4, <3>1 DEF Length2
    <3>3. Length2(start, end) # 0
      BY <2>2, <2>5, <3>1, <3>2
    <3>4. ~(total < 2 * Big - (start % Big))
      BY <1>1, <1>2, <2>5
    <3>5. QED
      BY <1>1, <2>1, <3>3, <3>4 DEF NoLargePage
  <2>6. QED
    BY <1>1, <1>2, <2>3, <2>4, <2>5
<1>5. QED
  BY <1>3, <1>4

-----------------------------------------------------------------------------
(* What CPU a has ahead of it when it starts with a part.                  *)
FirstWork(a, start, end, chunk, cpus) ==
    Remaining(ChunkAt(start + a * chunk, end, chunk), end, chunk, cpus)

LEMMA ModOfSum ==
    ASSUME NEW k \in Int, NEW r \in Int, NEW b \in Nat \ {0}, 0 <= r, r < b
    PROVE  (b * k + r) % b = r
OBVIOUS

LEMMA DivOfSmall ==
    ASSUME NEW n \in Int, NEW b \in Nat \ {0}, 0 <= n, n < b
    PROVE  n \div b = 0
OBVIOUS

LEMMA TimesNat ==
    ASSUME NEW c \in Nat, NEW i \in Nat
    PROVE  c * i \in Nat
OBVIOUS

(* The pages of a part go to the CPUs round robin, chunk by chunk.         *)
LEMMA WorkIsStripe ==
    ASSUME NEW start \in Nat, NEW end \in Nat, NEW chunk \in Nat \ {0},
           NEW cpus \in Nat \ {0}, NEW a \in 0 .. cpus - 1, NEW p \in Int
    PROVE  p \in FirstWork(a, start, end, chunk, cpus) <=>
              /\ p \in start .. end - 1
              /\ ((p - start) \div chunk) % cpus = a
<1> DEFINE base == start + a * chunk
           q == (p - start) \div chunk
           r == (p - start) % chunk
           d == (p - base) \div chunk
<1>1. base \in Nat /\ base >= start
  BY TimesNat
<1>2. q \in Int /\ r \in 0 .. chunk - 1 /\ p - start = chunk * q + r
  BY DivMod, ModType
<1>3. p - base = chunk * (q - a) + r
  BY <1>2
<1>4. d = q - a
  <2>1. q - a \in Int /\ r \in Int /\ 0 <= r /\ r < chunk
    BY <1>2
  <2>2. (chunk * (q - a) + r) \div chunk = q - a
    BY <2>1, DivOfSum
  <2>3. QED
    BY <1>3, <2>2
<1>5. p \in FirstWork(a, start, end, chunk, cpus) <=>
         p \in base .. end - 1 /\ (p < base + chunk \/ d % cpus = 0)
  BY <1>1 DEF FirstWork, Remaining, ChunkAt
<1>6. ASSUME p \in base .. end - 1, p < base + chunk \/ d % cpus = 0
      PROVE  p \in start .. end - 1 /\ q % cpus = a
  <2>1. CASE p < base + chunk
    <3>1. d = 0
      BY <1>1, <1>6, <2>1, DivOfSmall
    <3>2. q = cpus * 0 + a
      BY <1>2, <1>4, <3>1
    <3>3. QED
      BY <1>1, <1>6, <3>2, ModOfSum
  <2>2. CASE d % cpus = 0
    <3>1. d = cpus * (d \div cpus) /\ d \div cpus \in Int
      BY <1>2, <1>4, <2>2, DivMod
    <3>2. q = cpus * (d \div cpus) + a
      BY <1>2, <1>4, <3>1
    <3>3. q % cpus = a
      BY <3>1, <3>2, ModOfSum
    <3>4. QED
      BY <1>1, <1>6, <3>3
  <2>3. QED
    BY <1>6, <2>1, <2>2
<1>7. ASSUME p \in start .. end - 1, q % cpus = a
      PROVE  p \in base .. end - 1 /\ d % cpus = 0
  <2>1. q = cpus * (q \div cpus) + a /\ q \div cpus \in Int
    BY <1>2, <1>7, DivMod
  <2>2. q >= 0
    BY <1>2, <1>7
  <2>3. q >= a
    BY <1>2, <1>7, <2>2, ModType
  <2>4. chunk * (q - a) \in Nat
    BY <1>2, <2>3, TimesNat
  <2>5. p >= base
    BY <1>1, <1>2, <1>3, <2>4
  <2>6. d = cpus * (q \div cpus) + 0
    BY <1>2, <1>4, <2>1
  <2>7. d % cpus = 0
    <3> HIDE DEF d, q
    <3>1. 0 \in Int /\ 0 <= 0 /\ 0 < cpus
      OBVIOUS
    <3>2. (cpus * (q \div cpus) + 0) % cpus = 0
      BY <2>1, <3>1, ModOfSum
    <3>3. QED
      BY <2>6, <3>2
  <2>8. QED
    BY <1>1, <1>7, <2>5, <2>7
<1>8. QED
  BY <1>5, <1>6, <1>7

\* The chunks of part 2 for every number of CPUs and every chunk size: no
\* page belongs to two CPUs, every page belongs to one, and no CPU has work
\* outside the part (.ap_accept_page and BspAcceptMemoryResourceRange agree).
THEOREM StripesShareRange ==
    ASSUME NEW start \in Nat, NEW end \in Nat, NEW chunk \in Nat \ {0},
           NEW cpus \in Nat \ {0}
    PROVE  /\ \A a, b \in 0 .. cpus - 1 : a # b =>
                 FirstWork(a, start, end, chunk, cpus)
                   \cap FirstWork(b, start, end, chunk, cpus) = {}
           /\ UNION {FirstWork(a, start, end, chunk, cpus) : a \in 0 .. cpus - 1}
                 = start .. end - 1
<1> DEFINE Work(a) == FirstWork(a, start, end, chunk, cpus)
           Owner(p) == ((p - start) \div chunk) % cpus
<1>1. ASSUME NEW a \in 0 .. cpus - 1, NEW p \in Work(a)
      PROVE  p \in start .. end - 1 /\ Owner(p) = a
  <2>1. start + a * chunk \in Nat
    BY TimesNat
  <2>2. p \in Int
    BY <1>1, <2>1 DEF FirstWork, Remaining, ChunkAt
  <2>3. QED
    BY <1>1, <2>2, WorkIsStripe
<1>2. ASSUME NEW p \in start .. end - 1
      PROVE  Owner(p) \in 0 .. cpus - 1 /\ p \in Work(Owner(p))
  <2>1. (p - start) \div chunk \in Int
    BY <1>2, DivMod
  <2>2. Owner(p) \in 0 .. cpus - 1
    BY <2>1, ModType
  <2>3. QED
    BY <1>2, <2>2, WorkIsStripe
<1>3. \A a, b \in 0 .. cpus - 1 : a # b => Work(a) \cap Work(b) = {}
  BY <1>1
<1>4. UNION {Work(a) : a \in 0 .. cpus - 1} = start .. end - 1
  <2> HIDE DEF Work, Owner
  <2>1. QED
    BY <1>1, <1>2
<1>5. QED
  BY <1>3, <1>4
=============================================================================
