----------------------------- MODULE TdxHobProofs -----------------------------
(***************************************************************************)
(* What ProcessHobList and TransferHobList do, for every HOB list that     *)
(* HobAssumption admits, every size of a page, and every limit on the      *)
(* memory to accept.                                                       *)
(*                                                                         *)
(* ProcessHobList counts what it accepts; TransferHobList counts again,    *)
(* later.  That both count the same is stated with a witness: a function   *)
(* from positions in the list to the bytes accepted before them.  Steps of *)
(* the first loop make it longer, steps of the second follow it.           *)
(***************************************************************************)
EXTENDS TdxHob, TLAPS, FiniteSetTheorems, SequenceTheorems

(* The bytes of the memory HOBs before position n.                         *)
MemoryBelow(l, n) ==
    UNION {Bytes(l[i].start, l[i].length) :
              i \in {j \in DOMAIN l : j < n /\ IsMemory(l[j])}}

(* What is accepted of HOB i when acc bytes have been accepted before it.  *)
Take(l, size, i, acc) ==
    IF ~ IsSystemMemory(l[i]) \/ acc >= size THEN 0
    ELSE IF acc + l[i].length > size THEN size - acc
    ELSE l[i].length

(* A[i] bytes are accepted before position i, for i up to n.               *)
Counts(l, size, A, n) ==
    /\ A[1] = 0
    /\ \A i \in 1 .. n - 1 : A[i + 1] = A[i] + Take(l, size, i, A[i])

(* The bytes accepted before position n.                                   *)
Taken(l, size, A, n) ==
    UNION {Bytes(l[i].start, Take(l, size, i, A[i])) : i \in 1 .. n - 1}

Entries == [resource : {"SystemMemory", "Unaccepted", "Io"}, start : Nat, length : Nat]

(* Reported, for any sequence of resource HOBs.                            *)
ReportedIn(f, type) ==
    UNION {Bytes(f[i].start, f[i].length) : i \in {j \in DOMAIN f : f[j].resource = type}}

-----------------------------------------------------------------------------
(* The inductive invariant: types, ...                                     *)
SizeInv ==
    /\ list \in HobLists
    /\ config \in [partial : PartialSizes, loader : LoaderSizes]
    /\ acceptSize % EfiPageSize = 0 \/ acceptSize = Unlimited

(* ... what the first loop has accepted and counted, ...                   *)
CountInv ==
    pc \in {"validate", "process"} =>
        /\ accumulated % EfiPageSize = 0
        /\ IsFiniteSet(accepted)
        /\ accepted \subseteq MemoryBelow(list, pos)
        /\ accumulated <= Cardinality(accepted)

(* ... the region for the HOB list, ...                                    *)
LowInv ==
    pc \in {"validate", "process"} =>
        /\ low.length > 0 =>
              /\ low.start % EfiPageSize = 0
              /\ low.length % EfiPageSize = 0
              /\ low.start + low.length <= Base4GB
        /\ ~ failed => Bytes(low.start, low.length) \subseteq accepted
        /\ \A r \in ranges : r.start + r.length <= Base4GB => low.length >= r.length

(* ... the ranges of the calls, ...                                        *)
RangeInv ==
    /\ ranges \subseteq [start : Nat, length : Nat]
    /\ \A r \in ranges : r.length > 0 /\ r.length % EfiPageSize = 0

(* ... the bytes that both loops count, ...                                *)
PassInv ==
    ~ failed =>
        /\ pc \in {"validate", "process"} =>
              \E A : /\ Counts(list, acceptSize, A, pos)
                     /\ accumulated = A[pos]
                     /\ accepted = Taken(list, acceptSize, A, pos)
        /\ pc \in {"transfer", "done"} =>
              \E A : /\ Counts(list, acceptSize, A, Len(list) + 1)
                     /\ accumulated = A[pos]
                     /\ accepted = Taken(list, acceptSize, A, Len(list) + 1)
                     /\ ReportedIn(final, "SystemMemory") = Taken(list, acceptSize, A, pos)

(* ... and what the second loop has handed on.                             *)
FinalInv ==
    /\ pc \in {"validate", "process", "dead", "lost"} => final = <<>>
    /\ pc = "validate" => pos = 1
    /\ pc = "done" => pos = Len(list) + 1
    /\ pc \in {"transfer", "done"} =>
          /\ ReportedIn(final, "SystemMemory") \cap ReportedIn(final, "Unaccepted") = {}
          /\ ReportedIn(final, "SystemMemory") \cup ReportedIn(final, "Unaccepted")
                = MemoryBelow(list, pos)

HobInv ==
    /\ TypeOK
    /\ SizeInv
    /\ CountInv
    /\ LowInv
    /\ RangeInv
    /\ PassInv
    /\ FinalInv
    /\ CallsAreWholePages
    /\ HobListInAcceptedMemory

-----------------------------------------------------------------------------
(* Arithmetic and sets of bytes.                                           *)

LEMMA PageNat == EfiPageSize \in Nat \ {0} /\ Unlimited \in Nat /\ Base4GB \in Nat
BY HobAssumption

LEMMA WholePages ==
    ASSUME NEW x \in Int, NEW y \in Int, NEW b \in Nat \ {0}, x % b = 0, y % b = 0
    PROVE  (x + y) % b = 0 /\ (x - y) % b = 0
<1>1. x = b * (x \div b) /\ y = b * (y \div b) /\ x \div b \in Int /\ y \div b \in Int
  OBVIOUS
<1> DEFINE i == x \div b
           j == y \div b
<1> HIDE DEF i, j
<1>2. i \in Int /\ j \in Int /\ x = b * i /\ y = b * j
  BY <1>1 DEF i, j
<1>3. b * i + b * j = b * (i + j) /\ b * i - b * j = b * (i - j)
  BY <1>2
<1>4. ASSUME NEW k \in Int PROVE (b * k) % b = 0
  OBVIOUS
<1>5. i + j \in Int /\ i - j \in Int
  BY <1>2
<1>6. QED
  BY <1>2, <1>3, <1>4, <1>5

LEMMA AtLeastOnePage ==
    ASSUME NEW x \in Nat, NEW b \in Nat \ {0}, x % b = 0, x > 0
    PROVE  x >= b
<1>1. CASE x < b
  <2>1. x % b = x
    BY <1>1
  <2>2. QED
    BY <2>1
<1>2. QED
  BY <1>1

LEMMA RoundedDown ==
    ASSUME NEW n \in Int, NEW b \in Nat \ {0}
    PROVE  (n - (n % b)) % b = 0
OBVIOUS

LEMMA RoundedUp ==
    ASSUME NEW s \in Nat, NEW b \in Nat \ {0}
    PROVE  s - (s % b) \in Nat /\ (s - (s % b)) % b = 0
<1>1. s % b \in Nat /\ s % b <= s
  OBVIOUS
<1>2. (s - (s % b)) % b = 0
  BY RoundedDown
<1>3. QED
  BY <1>1, <1>2

LEMMA BytesCount ==
    ASSUME NEW s \in Nat, NEW n \in Nat
    PROVE  IsFiniteSet(Bytes(s, n)) /\ Cardinality(Bytes(s, n)) = n
<1>1. s \in Int /\ s + n - 1 \in Int
  OBVIOUS
<1>2. /\ IsFiniteSet(s .. s + n - 1)
      /\ Cardinality(s .. s + n - 1) = IF s > s + n - 1 THEN 0 ELSE (s + n - 1) - s + 1
  BY <1>1, FS_Interval
<1>3. QED
  BY <1>2 DEF Bytes

LEMMA DisjointCount ==
    ASSUME NEW S, NEW T, IsFiniteSet(S), IsFiniteSet(T), S \cap T = {}
    PROVE  /\ IsFiniteSet(S \cup T)
           /\ Cardinality(S \cup T) = Cardinality(S) + Cardinality(T)
           /\ Cardinality(S) \in Nat /\ Cardinality(T) \in Nat
<1>1. /\ IsFiniteSet(S \cup T)
      /\ IsFiniteSet(S \cap T)
      /\ Cardinality(S \cup T) = Cardinality(S) + Cardinality(T) - Cardinality(S \cap T)
  BY FS_Union, FS_Intersection
<1>2. Cardinality(S \cap T) = 0
  BY FS_EmptySet, Zenon
<1>3. Cardinality(S) \in Nat /\ Cardinality(T) \in Nat
  BY FS_CardinalityType
<1>4. QED
  BY <1>1, <1>2, <1>3

LEMMA SmallerBytes ==
    ASSUME NEW s \in Nat, NEW m \in Nat, NEW n \in Nat, m <= n
    PROVE  Bytes(s, m) \subseteq Bytes(s, n)
BY DEF Bytes

(* A HOB of the list.                                                      *)
LEMMA HobFacts ==
    ASSUME NEW l \in HobLists, NEW i \in 1 .. Len(l)
    PROVE  /\ l \in Seq(Hob) /\ i \in DOMAIN l
           /\ l[i] \in Hob
           /\ l[i].start \in Nat /\ l[i].length \in Nat
           /\ l[i].type = "Resource" =>
                 /\ l[i].resource \in {"SystemMemory", "Unaccepted", "Io"}
                 /\ l[i].start + l[i].length <= Unlimited
<1>1. l \in Seq(Hob)
  BY HobAssumption
<1>2. i \in DOMAIN l /\ l[i] \in Hob
  BY <1>1
<1>3. QED
  BY <1>1, <1>2, HobAssumption DEF Hob

LEMMA ListLen ==
    ASSUME NEW l \in HobLists
    PROVE  Len(l) \in Nat /\ DOMAIN l = 1 .. Len(l)
<1>1. l \in Seq(Hob)
  BY HobAssumption
<1>2. QED
  BY <1>1

(* No byte of a memory HOB is in an earlier one.                           *)
LEMMA NewMemory ==
    ASSUME NEW l \in HobLists, NEW n \in 1 .. Len(l), IsMemory(l[n])
    PROVE  /\ Bytes(l[n].start, l[n].length) \cap MemoryBelow(l, n) = {}
           /\ MemoryBelow(l, n + 1) = MemoryBelow(l, n) \cup Bytes(l[n].start, l[n].length)
           /\ Bytes(l[n].start, l[n].length) \subseteq 0 .. Unlimited - 1
           /\ MemoryBelow(l, n) \subseteq 0 .. Unlimited - 1
<1> DEFINE B(i) == Bytes(l[i].start, l[i].length)
<1>1. DOMAIN l = 1 .. Len(l) /\ Len(l) \in Nat
  BY ListLen
<1>2. ASSUME NEW i \in 1 .. Len(l), IsMemory(l[i])
      PROVE  B(i) \subseteq 0 .. Unlimited - 1
  BY <1>2, HobFacts, PageNat, SMTT(40) DEF Bytes, IsMemory
<1>3. ASSUME NEW i \in 1 .. Len(l), IsMemory(l[i]), i < n
      PROVE  B(n) \cap B(i) = {}
  <2>1. \/ l[i].start + l[i].length <= l[n].start
        \/ l[n].start + l[n].length <= l[i].start
    BY <1>1, <1>3, HobAssumption
  <2>2. /\ l[i].start \in Nat /\ l[i].length \in Nat
        /\ l[n].start \in Nat /\ l[n].length \in Nat
    BY HobFacts
  <2>3. ASSUME NEW s \in Nat, NEW m \in Nat, NEW t \in Nat, NEW k \in Nat,
               s + m <= t \/ t + k <= s
        PROVE  (t .. t + k - 1) \cap (s .. s + m - 1) = {}
    BY <2>3
  <2>4. QED
    BY <2>1, <2>2, <2>3 DEF Bytes
<1>4. MemoryBelow(l, n) = UNION {B(i) : i \in {j \in 1 .. Len(l) : j < n /\ IsMemory(l[j])}}
  BY <1>1 DEF MemoryBelow
<1>5. MemoryBelow(l, n + 1)
         = UNION {B(i) : i \in {j \in 1 .. Len(l) : j < n + 1 /\ IsMemory(l[j])}}
  BY <1>1 DEF MemoryBelow
<1> HIDE DEF B
<1>6. {j \in 1 .. Len(l) : j < n + 1 /\ IsMemory(l[j])}
         = {j \in 1 .. Len(l) : j < n /\ IsMemory(l[j])} \cup {n}
  BY <1>1
<1>7. MemoryBelow(l, n + 1) = MemoryBelow(l, n) \cup B(n)
  BY <1>4, <1>5, <1>6
<1>8. B(n) \cap MemoryBelow(l, n) = {}
  BY <1>3, <1>4
<1>9. MemoryBelow(l, n) \subseteq 0 .. Unlimited - 1
  BY <1>2, <1>4
<1>10. QED
  BY <1>2, <1>7, <1>8, <1>9 DEF B

LEMMA IsSystemIsMemory ==
    ASSUME NEW h, IsSystemMemory(h)
    PROVE  IsMemory(h)
BY DEF IsSystemMemory, IsMemory

LEMMA OtherHob ==
    ASSUME NEW l \in HobLists, NEW n \in 1 .. Len(l), ~ IsMemory(l[n])
    PROVE  MemoryBelow(l, n + 1) = MemoryBelow(l, n)
<1>1. DOMAIN l = 1 .. Len(l) /\ Len(l) \in Nat
  BY ListLen
<1>2. {j \in DOMAIN l : j < n + 1 /\ IsMemory(l[j])}
         = {j \in DOMAIN l : j < n /\ IsMemory(l[j])}
  BY <1>1
<1>3. QED
  BY <1>2, Zenon DEF MemoryBelow

LEMMA NoMemoryBelow ==
    ASSUME NEW l \in HobLists
    PROVE  MemoryBelow(l, 1) = {}
<1>1. {j \in DOMAIN l : j < 1 /\ IsMemory(l[j])} = {}
  BY ListLen
<1>2. QED
  BY <1>1 DEF MemoryBelow

LEMMA AllMemoryBelow ==
    ASSUME NEW l \in HobLists
    PROVE  MemoryBelow(l, Len(l) + 1)
             = UNION {Bytes(l[i].start, l[i].length) :
                      i \in {j \in DOMAIN l : IsMemory(l[j])}}
<1>1. {j \in DOMAIN l : j < Len(l) + 1 /\ IsMemory(l[j])}
         = {j \in DOMAIN l : IsMemory(l[j])}
  BY ListLen
<1>2. QED
  BY <1>1, Zenon DEF MemoryBelow

(* Taken, one HOB more.                                                    *)
LEMMA TakenStep ==
    ASSUME NEW l, NEW size, NEW A, NEW n \in Nat \ {0}
    PROVE  Taken(l, size, A, n + 1)
             = Taken(l, size, A, n) \cup Bytes(l[n].start, Take(l, size, n, A[n]))
<1> DEFINE T(i) == Bytes(l[i].start, Take(l, size, i, A[i]))
<1>1. /\ Taken(l, size, A, n + 1) = UNION {T(i) : i \in 1 .. (n + 1) - 1}
      /\ Taken(l, size, A, n) = UNION {T(i) : i \in 1 .. n - 1}
  BY Zenon DEF Taken
<1> HIDE DEF T
<1>2. 1 .. (n + 1) - 1 = (1 .. n - 1) \cup {n}
  OBVIOUS
<1>3. Taken(l, size, A, n + 1) = Taken(l, size, A, n) \cup T(n)
  BY <1>1, <1>2
<1>4. QED
  BY <1>3, Zenon DEF T

LEMMA TakenSame ==
    ASSUME NEW l, NEW size, NEW A, NEW B, NEW n \in Nat,
           \A i \in 1 .. n - 1 : B[i] = A[i]
    PROVE  Taken(l, size, B, n) = Taken(l, size, A, n)
<1> DEFINE T(i, a) == Bytes(l[i].start, Take(l, size, i, a))
<1>1. /\ Taken(l, size, A, n) = UNION {T(i, A[i]) : i \in 1 .. n - 1}
      /\ Taken(l, size, B, n) = UNION {T(i, B[i]) : i \in 1 .. n - 1}
  BY Zenon DEF Taken
<1> HIDE DEF T
<1>2. QED
  BY <1>1

LEMMA NoneTaken ==
    ASSUME NEW l, NEW size, NEW A
    PROVE  Taken(l, size, A, 1) = {}
<1>1. 1 .. 1 - 1 = {}
  OBVIOUS
<1>2. QED
  BY <1>1 DEF Taken

LEMMA NoBytes ==
    ASSUME NEW s \in Nat
    PROVE  Bytes(s, 0) = {}
BY DEF Bytes

(* A resource, cut in two.                                                 *)
LEMMA SplitBytes ==
    ASSUME NEW s \in Nat, NEW m \in Nat, NEW n \in Nat, m <= n
    PROVE  /\ Bytes(s, m) \cup Bytes(s + m, n - m) = Bytes(s, n)
           /\ Bytes(s, m) \cap Bytes(s + m, n - m) = {}
BY DEF Bytes

(* What a longer list of HOBs reports.                                     *)
LEMMA ConcatElements ==
    ASSUME NEW S, NEW f \in Seq(S), NEW g \in Seq(S)
    PROVE  /\ f \o g \in Seq(S)
           /\ \A i \in DOMAIN f : i \in DOMAIN (f \o g) /\ (f \o g)[i] = f[i]
           /\ \A i \in DOMAIN g : /\ Len(f) + i \in DOMAIN (f \o g)
                                  /\ (f \o g)[Len(f) + i] = g[i]
           /\ \A i \in DOMAIN (f \o g) :
                 \/ i \in DOMAIN f /\ (f \o g)[i] = f[i]
                 \/ i - Len(f) \in DOMAIN g /\ (f \o g)[i] = g[i - Len(f)]
OBVIOUS

LEMMA ReportedElement ==
    ASSUME NEW f, NEW type, NEW b
    PROVE  b \in ReportedIn(f, type)
             <=> \E i \in DOMAIN f : f[i].resource = type /\ b \in Bytes(f[i].start, f[i].length)
BY Zenon DEF ReportedIn

LEMMA ReportedConcat ==
    ASSUME NEW f \in Seq(Entries), NEW g \in Seq(Entries), NEW type
    PROVE  ReportedIn(f \o g, type) = ReportedIn(f, type) \cup ReportedIn(g, type)
<1>1. ASSUME NEW b, b \in ReportedIn(f \o g, type)
      PROVE  b \in ReportedIn(f, type) \cup ReportedIn(g, type)
  <2>1. PICK i \in DOMAIN (f \o g) :
           /\ (f \o g)[i].resource = type
           /\ b \in Bytes((f \o g)[i].start, (f \o g)[i].length)
    BY <1>1, ReportedElement, ZenonT(60)
  <2>2. CASE i \in DOMAIN f /\ (f \o g)[i] = f[i]
    BY <2>1, <2>2, ReportedElement
  <2>3. CASE i - Len(f) \in DOMAIN g /\ (f \o g)[i] = g[i - Len(f)]
    BY <2>1, <2>3, ReportedElement
  <2>4. QED
    BY <2>2, <2>3, ConcatElements
<1>2. ASSUME NEW b, b \in ReportedIn(f, type)
      PROVE  b \in ReportedIn(f \o g, type)
  <2>1. PICK i \in DOMAIN f : f[i].resource = type /\ b \in Bytes(f[i].start, f[i].length)
    BY <1>2, ReportedElement
  <2>2. i \in DOMAIN (f \o g) /\ (f \o g)[i] = f[i]
    BY ConcatElements
  <2>3. QED
    BY <2>1, <2>2, ReportedElement
<1>3. ASSUME NEW b, b \in ReportedIn(g, type)
      PROVE  b \in ReportedIn(f \o g, type)
  <2>1. PICK i \in DOMAIN g : g[i].resource = type /\ b \in Bytes(g[i].start, g[i].length)
    BY <1>3, ReportedElement
  <2>2. Len(f) + i \in DOMAIN (f \o g) /\ (f \o g)[Len(f) + i] = g[i]
    BY ConcatElements
  <2>3. QED
    BY <2>1, <2>2, ReportedElement
<1>4. QED
  BY <1>1, <1>2, <1>3, Zenon

LEMMA ReportedOne ==
    ASSUME NEW e \in Entries, NEW type
    PROVE  /\ <<e>> \in Seq(Entries)
           /\ e.resource = type => ReportedIn(<<e>>, type) = Bytes(e.start, e.length)
           /\ e.resource # type => ReportedIn(<<e>>, type) = {}
<1>1. /\ <<e>> \in Seq(Entries)
      /\ DOMAIN <<e>> = {1}
      /\ <<e>>[1] = e
  OBVIOUS
<1> DEFINE s == <<e>>
<1>2. DOMAIN s = {1} /\ s[1] = e
  BY <1>1
<1> HIDE DEF s
<1>3. ASSUME NEW b
      PROVE  b \in ReportedIn(s, type) <=> e.resource = type /\ b \in Bytes(e.start, e.length)
  BY <1>2, ReportedElement
<1>4. QED
  BY <1>1, <1>3 DEF s

LEMMA ReportedNothing ==
    ASSUME NEW type
    PROVE  ReportedIn(<<>>, type) = {}
<1>1. DOMAIN <<>> = {}
  OBVIOUS
<1>2. QED
  BY <1>1, ReportedElement, Zenon

-----------------------------------------------------------------------------
(* The length that is accepted of a HOB.  Without a limit the sum never    *)
(* reaches it: the memory accepted so far and the HOB are different bytes  *)
(* of one address space.                                                   *)
LEMMA BelowUnlimited ==
    ASSUME HobInv, ProcessHob, IsSystemMemory(list[pos])
    PROVE  accumulated + list[pos].length <= Unlimited
<1> DEFINE B == Bytes(list[pos].start, list[pos].length)
<1>1. /\ pos \in 1 .. Len(list) /\ list \in HobLists /\ accumulated \in Nat
      /\ IsFiniteSet(accepted) /\ accepted \subseteq MemoryBelow(list, pos)
      /\ accumulated <= Cardinality(accepted)
  <2>1. pos \in 1 .. Len(list) + 1 /\ pos <= Len(list) /\ Len(list) \in Nat
    BY ListLen DEF HobInv, TypeOK, SizeInv, ProcessHob
  <2>2. QED
    BY <2>1 DEF HobInv, TypeOK, SizeInv, CountInv, ProcessHob
<1>2. /\ B \cap MemoryBelow(list, pos) = {}
      /\ B \subseteq 0 .. Unlimited - 1
      /\ MemoryBelow(list, pos) \subseteq 0 .. Unlimited - 1
  BY <1>1, NewMemory, IsSystemIsMemory
<1>3. list[pos].length \in Nat /\ IsFiniteSet(B) /\ Cardinality(B) = list[pos].length
  BY <1>1, HobFacts, BytesCount
<1> HIDE DEF B
<1>4. accepted \cap B = {} /\ accepted \cup B \subseteq 0 .. Unlimited - 1
  BY <1>1, <1>2
<1>5. /\ Cardinality(accepted \cup B) = Cardinality(accepted) + Cardinality(B)
      /\ Cardinality(accepted) \in Nat
  BY <1>1, <1>3, <1>4, DisjointCount
<1>6. IsFiniteSet(0 .. Unlimited - 1) /\ Cardinality(0 .. Unlimited - 1) = Unlimited
  <2>1. Bytes(0, Unlimited) = 0 .. Unlimited - 1
    BY PageNat DEF Bytes
  <2>2. QED
    BY <2>1, BytesCount, PageNat
<1>7. Cardinality(accepted \cup B) <= Unlimited
  BY <1>4, <1>6, FS_Subset
<1>8. QED
  BY <1>1, <1>3, <1>5, <1>7, PageNat

LEMMA AcceptFacts ==
    ASSUME HobInv, ProcessHob, IsSystemMemory(list[pos])
    PROVE  /\ pos \in 1 .. Len(list) /\ list \in HobLists
           /\ list[pos].start \in Nat /\ list[pos].length \in Nat
           /\ AcceptLength(list[pos]) \in Nat
           /\ AcceptLength(list[pos]) <= list[pos].length
           /\ AcceptLength(list[pos]) = Take(list, acceptSize, pos, accumulated)
<1>1. pos \in 1 .. Len(list) /\ list \in HobLists /\ accumulated \in Nat /\ acceptSize \in Nat
      /\ accumulated < acceptSize
  <2>1. pos \in 1 .. Len(list) + 1 /\ pos <= Len(list) /\ Len(list) \in Nat
    BY ListLen DEF HobInv, TypeOK, SizeInv, ProcessHob
  <2>2. QED
    BY <2>1 DEF HobInv, TypeOK, SizeInv, ProcessHob
<1>2. list[pos].start \in Nat /\ list[pos].length \in Nat
  BY <1>1, HobFacts
<1>3. QED
  BY <1>1, <1>2 DEF AcceptLength, Take

LEMMA AcceptPages ==
    ASSUME HobInv, ProcessHob, IsSystemMemory(list[pos]), CallMpAccept(list[pos])
    PROVE  /\ list[pos].start % EfiPageSize = 0
           /\ AcceptLength(list[pos]) % EfiPageSize = 0
           /\ AcceptLength(list[pos]) > 0
           /\ accumulated % EfiPageSize = 0
           /\ (accumulated + AcceptLength(list[pos])) % EfiPageSize = 0
           /\ AcceptLength(list[pos]) >= EfiPageSize
<1> DEFINE h == list[pos]
           n == AcceptLength(h)
<1>1. h.start % EfiPageSize = 0 /\ n % EfiPageSize = 0 /\ n > 0
  BY Zenon DEF CallMpAccept, IsWholePages
<1>2. accumulated % EfiPageSize = 0 /\ accumulated \in Nat
  BY DEF HobInv, CountInv, TypeOK, ProcessHob
<1>3. n \in Nat
  BY AcceptFacts
<1> HIDE DEF n
<1>4. (accumulated + n) % EfiPageSize = 0
  <2>1. accumulated \in Int /\ n \in Int
    BY <1>2, <1>3
  <2>2. QED
    BY <1>1, <1>2, <2>1, PageNat, WholePages, Zenon
<1>5. n >= EfiPageSize
  BY <1>1, <1>3, PageNat, AtLeastOnePage
<1>6. QED
  BY <1>1, <1>2, <1>4, <1>5, Zenon DEF n

(* The cut leaves whole pages: a limit is rounded up to a page, all that   *)
(* was counted is whole pages, and without a limit nothing is cut.         *)
LEMMA CutIsWholePages ==
    ASSUME HobInv, ProcessHob, IsSystemMemory(list[pos]),
           IsWholePages(list[pos].start, list[pos].length)
    PROVE  IsWholePages(list[pos].start, AcceptLength(list[pos]))
<1> DEFINE h == list[pos]
           n == AcceptLength(h)
<1>1. h.start % EfiPageSize = 0 /\ h.length % EfiPageSize = 0 /\ h.length > 0
  BY Zenon DEF IsWholePages
<1>2. accumulated % EfiPageSize = 0 /\ accumulated \in Nat /\ acceptSize \in Nat
      /\ accumulated < acceptSize
  BY DEF HobInv, CountInv, TypeOK, ProcessHob
<1>3. n % EfiPageSize = 0
  <2>1. CASE n = h.length
    BY <1>1, <2>1, Zenon
  <2>2. CASE n = acceptSize - accumulated /\ acceptSize % EfiPageSize = 0
    <3>1. acceptSize \in Int /\ accumulated \in Int
      BY <1>2
    <3>2. (acceptSize - accumulated) % EfiPageSize = 0
      BY <1>2, <2>2, <3>1, PageNat, WholePages, Zenon
    <3>3. QED
      BY <2>2, <3>2, Zenon
  <2>3. n = h.length \/ (n = acceptSize - accumulated /\ accumulated + h.length > acceptSize)
    BY Zenon DEF AcceptLength
  <2>4. ~ (acceptSize = Unlimited /\ accumulated + h.length > acceptSize)
    <3>1. accumulated + h.length <= Unlimited
      BY BelowUnlimited
    <3>2. accumulated + h.length \in Nat
      BY <1>2, AcceptFacts
    <3>3. QED
      BY <3>1, <3>2, PageNat
  <2>5. acceptSize % EfiPageSize = 0 \/ acceptSize = Unlimited
    BY Zenon DEF HobInv, SizeInv
  <2>6. QED
    BY <2>1, <2>2, <2>3, <2>4, <2>5, Zenon
<1>4. n > 0
  <2>1. h.length \in Nat
    BY AcceptFacts
  <2> DEFINE k == h.length
  <2>2. n = IF accumulated + k > acceptSize THEN acceptSize - accumulated ELSE k
    BY Zenon DEF AcceptLength
  <2> HIDE DEF n, k
  <2>3. k \in Nat /\ k > 0
    BY <1>1, <2>1, Zenon DEF k
  <2>4. QED
    BY <1>2, <2>2, <2>3
<1>5. QED
  BY <1>1, <1>3, <1>4, Zenon DEF IsWholePages

-----------------------------------------------------------------------------
LEMMA InitHobInv ==
    Init => HobInv
<1> SUFFICES ASSUME Init PROVE HobInv
  OBVIOUS
<1>1. /\ list \in HobLists /\ pc = "validate" /\ pos = 1 /\ acceptSize = 0 /\ accumulated = 0
      /\ low = [start |-> 0, length |-> 0] /\ accepted = {} /\ failed = FALSE
      /\ ranges = {} /\ final = <<>> /\ status = "Success"
      /\ config \in [partial : PartialSizes, loader : LoaderSizes]
  BY Zenon DEF Init
<1>2. Len(list) \in Nat
  BY <1>1, ListLen
<1>3. 0 % EfiPageSize = 0
  BY PageNat
<1>4. TypeOK
  <2>1. pos \in 1 .. Len(list) + 1 /\ acceptSize \in Nat /\ accumulated \in Nat
    BY <1>1, <1>2
  <2>2. low \in [start : Nat, length : Nat]
    BY <1>1
  <2>3. final \in Seq(Entries)
    BY <1>1
  <2>4. QED
    BY <1>1, <2>1, <2>2, <2>3, Zenon DEF TypeOK, Entries
<1>5. SizeInv
  BY <1>1, <1>3, Zenon DEF SizeInv
<1>6. CountInv
  <2>1. IsFiniteSet({}) /\ Cardinality({}) = 0
    BY FS_EmptySet
  <2>2. accumulated <= Cardinality(accepted)
    BY <1>1, <2>1
  <2>3. QED
    BY <1>1, <1>3, <2>1, <2>2, Zenon DEF CountInv
<1>7. LowInv
  BY <1>1 DEF LowInv, Bytes
<1>8. PassInv
  <2> DEFINE A == [i \in 1 .. 1 |-> 0]
  <2>1. A[1] = 0 /\ 1 .. 1 - 1 = {}
    OBVIOUS
  <2> HIDE DEF A
  <2>2. Counts(list, acceptSize, A, 1)
    BY <2>1 DEF Counts
  <2>3. Counts(list, acceptSize, A, pos) /\ accumulated = A[pos]
    BY <1>1, <2>1, <2>2, Zenon
  <2>4. accepted = Taken(list, acceptSize, A, pos)
    BY <1>1, NoneTaken, Zenon
  <2>5. QED
    BY <1>1, <2>3, <2>4 DEF PassInv
<1>9. FinalInv
  BY <1>1 DEF FinalInv
<1>10. CallsAreWholePages /\ HobListInAcceptedMemory /\ RangeInv
  BY <1>1 DEF CallsAreWholePages, HobListInAcceptedMemory, RangeInv
<1>11. QED
  BY <1>4, <1>5, <1>6, <1>7, <1>8, <1>9, <1>10, Zenon DEF HobInv

LEMMA AcceptSizeFacts ==
    ASSUME SizeInv
    PROVE  /\ GetAcceptSize \in Nat
           /\ GetAcceptSize % EfiPageSize = 0 \/ GetAcceptSize = Unlimited
<1>1. CASE config.partial = 0
  BY <1>1, PageNat, Zenon DEF GetAcceptSize
<1>2. CASE config.partial # 0
  <2> DEFINE s == config.partial * Megabyte + config.loader + EfiPageSize - 1
  <2>1. s \in Nat
    <3>1. config.partial \in Nat /\ config.loader \in Nat /\ Megabyte \in Nat
      BY HobAssumption DEF SizeInv
    <3>2. config.partial * Megabyte \in Nat
      BY <3>1
    <3>3. QED
      BY <3>1, <3>2, PageNat
  <2>2. GetAcceptSize = s - (s % EfiPageSize)
    BY <1>2, Zenon DEF GetAcceptSize
  <2> HIDE DEF s
  <2>3. s - (s % EfiPageSize) \in Nat /\ (s - (s % EfiPageSize)) % EfiPageSize = 0
    BY <2>1, PageNat, RoundedUp
  <2>4. QED
    BY <2>2, <2>3, Zenon
<1>3. QED
  BY <1>1, <1>2, Zenon

(* ValidateHobList and GetAcceptSize: nothing is accepted or counted yet.  *)
LEMMA ValidateStep ==
    HobInv /\ Validate => HobInv'
<1> SUFFICES ASSUME HobInv, Validate PROVE HobInv'
  OBVIOUS
<1>1. /\ pc = "validate" /\ pc' \in {"process", "dead"}
      /\ acceptSize' = GetAcceptSize \/ acceptSize' = acceptSize
      /\ list' = list /\ config' = config /\ pos' = pos /\ accumulated' = accumulated
      /\ low' = low /\ status' = status /\ accepted' = accepted /\ failed' = failed
      /\ ranges' = ranges /\ final' = final
  BY Zenon DEF Validate
<1>2. pos = 1 /\ final = <<>>
  BY <1>1, Zenon DEF HobInv, FinalInv
<1>3. SizeInv' /\ acceptSize' \in Nat
  <2>1. SizeInv /\ acceptSize \in Nat
    BY Zenon DEF HobInv, TypeOK
  <2>2. CASE acceptSize' = acceptSize
    BY <1>1, <2>1, <2>2, Zenon DEF SizeInv
  <2>3. CASE acceptSize' = GetAcceptSize
    <3>1. /\ GetAcceptSize \in Nat
          /\ GetAcceptSize % EfiPageSize = 0 \/ GetAcceptSize = Unlimited
      BY <2>1, AcceptSizeFacts
    <3>2. QED
      BY <1>1, <2>1, <2>3, <3>1, Zenon DEF SizeInv
  <2>4. QED
    BY <1>1, <2>2, <2>3, Zenon
<1>4. TypeOK'
  BY <1>1, <1>3 DEF HobInv, TypeOK
<1>5. CountInv'
  BY <1>1, Zenon DEF HobInv, CountInv
<1>6. LowInv'
  BY <1>1, Zenon DEF HobInv, LowInv
<1>7. PassInv'
  <2> SUFFICES ASSUME ~ failed, pc' = "process" PROVE PassInv'
    BY <1>1 DEF PassInv
  <2>1. PICK A : /\ Counts(list, acceptSize, A, pos)
                 /\ accumulated = A[pos]
                 /\ accepted = Taken(list, acceptSize, A, pos)
    BY <1>1, Zenon DEF HobInv, PassInv
  <2>2. Counts(list, acceptSize', A, pos)
    <3>1. 1 .. 1 - 1 = {}
      OBVIOUS
    <3>2. Counts(list, acceptSize, A, 1)
      BY <1>2, <2>1, Zenon
    <3>3. Counts(list, acceptSize', A, 1)
      BY <3>1, <3>2, Zenon DEF Counts
    <3>4. QED
      BY <1>2, <3>3, Zenon
  <2>3. accepted = Taken(list, acceptSize', A, pos)
    BY <1>2, <2>1, NoneTaken, Zenon
  <2>4. QED
    BY <1>1, <2>1, <2>2, <2>3, Zenon DEF PassInv
<1>8. FinalInv'
  BY <1>1, <1>2, Zenon DEF FinalInv
<1>9. CallsAreWholePages' /\ HobListInAcceptedMemory' /\ RangeInv'
  <2>1. CallsAreWholePages'
    BY <1>1, Zenon DEF CallsAreWholePages
  <2>2. HobListInAcceptedMemory'
    BY <1>1, Zenon DEF HobListInAcceptedMemory
  <2>3. RangeInv'
    BY <1>1, Zenon DEF HobInv, RangeInv
  <2>4. QED
    BY <2>1, <2>2, <2>3
<1>10. QED
  BY <1>3, <1>4, <1>5, <1>6, <1>7, <1>8, <1>9, Zenon DEF HobInv

(* B is the witness A, one HOB longer.                                     *)
Longer(l, size, A, B, n) ==
    /\ Counts(l, size, B, n + 1)
    /\ B[n + 1] = A[n] + Take(l, size, n, A[n])
    /\ Taken(l, size, B, n + 1)
         = Taken(l, size, A, n) \cup Bytes(l[n].start, Take(l, size, n, A[n]))

LEMMA CountsStep ==
    ASSUME NEW l, NEW size, NEW A, NEW n \in Nat \ {0},
           Counts(l, size, A, n)
    PROVE  \E B : Longer(l, size, A, B, n)
<1> DEFINE B == [i \in 1 .. n + 1 |-> IF i = n + 1 THEN A[n] + Take(l, size, n, A[n]) ELSE A[i]]
           T(i, x) == Take(l, size, i, x)
<1>1. /\ A[1] = 0
      /\ \A i \in 1 .. n - 1 : A[i + 1] = A[i] + T(i, A[i])
  BY Zenon DEF Counts
<1>2. B[n + 1] = A[n] + T(n, A[n]) /\ \A i \in 1 .. n : B[i] = A[i]
  OBVIOUS
<1> HIDE DEF B, T
<1>3. B[1] = 0 /\ \A i \in 1 .. (n + 1) - 1 : B[i + 1] = B[i] + T(i, B[i])
  BY <1>1, <1>2
<1>4. Counts(l, size, B, n + 1)
  BY <1>2, <1>3, Zenon DEF Counts, T
<1>5. Taken(l, size, B, n) = Taken(l, size, A, n)
  BY <1>2, TakenSame
<1>6. B[n] = A[n]
  BY <1>2
<1>7. Taken(l, size, B, n + 1)
         = Taken(l, size, B, n) \cup Bytes(l[n].start, Take(l, size, n, B[n]))
  BY TakenStep
<1>8. QED
  BY <1>2, <1>4, <1>5, <1>6, <1>7, Zenon DEF T, Longer

(* A HOB that is not memory is passed over.                                *)
LEMMA ProcessOtherStep ==
    HobInv /\ ProcessOther => HobInv'
<1> SUFFICES ASSUME HobInv, ProcessOther PROVE HobInv'
  OBVIOUS
<1>1. /\ ProcessHob /\ pc = "process" /\ ~ IsSystemMemory(list[pos]) /\ pos' = pos + 1
      /\ list' = list /\ config' = config /\ pc' = pc /\ acceptSize' = acceptSize
      /\ accumulated' = accumulated /\ low' = low /\ status' = status
      /\ accepted' = accepted /\ failed' = failed /\ ranges' = ranges /\ final' = final
  BY Zenon DEF ProcessOther, ProcessHob
<1>2. /\ list \in HobLists /\ pos \in 1 .. Len(list) /\ pos \in Nat \ {0}
      /\ pos + 1 \in 1 .. Len(list) + 1 /\ accumulated \in Nat
  <2>1. pos \in 1 .. Len(list) + 1 /\ pos <= Len(list) /\ Len(list) \in Nat
    BY <1>1, ListLen DEF HobInv, TypeOK, SizeInv, ProcessHob
  <2>2. QED
    BY <2>1 DEF HobInv, TypeOK, SizeInv
<1>3. TypeOK'
  BY <1>1, <1>2, Zenon DEF HobInv, TypeOK
<1>4. SizeInv'
  BY <1>1, Zenon DEF HobInv, SizeInv
<1>5. CountInv'
  <2>1. MemoryBelow(list, pos) \subseteq MemoryBelow(list, pos + 1)
    <3>1. CASE IsMemory(list[pos])
      BY <1>2, <3>1, NewMemory
    <3>2. CASE ~ IsMemory(list[pos])
      BY <1>2, <3>2, OtherHob
    <3>3. QED
      BY <3>1, <3>2
  <2>2. /\ accumulated % EfiPageSize = 0 /\ IsFiniteSet(accepted)
        /\ accepted \subseteq MemoryBelow(list, pos) /\ accumulated <= Cardinality(accepted)
    BY <1>1, Zenon DEF HobInv, CountInv
  <2>3. accepted \subseteq MemoryBelow(list, pos + 1)
    BY <2>1, <2>2, Zenon
  <2>4. QED
    BY <1>1, <2>2, <2>3, Zenon DEF CountInv
<1>6. LowInv'
  BY <1>1, Zenon DEF HobInv, LowInv
<1>7. PassInv'
  <2> SUFFICES ASSUME ~ failed PROVE PassInv'
    BY <1>1, Zenon DEF PassInv
  <2>1. PICK A : /\ Counts(list, acceptSize, A, pos)
                 /\ accumulated = A[pos]
                 /\ accepted = Taken(list, acceptSize, A, pos)
    BY <1>1, Zenon DEF HobInv, PassInv
  <2>2. Take(list, acceptSize, pos, A[pos]) = 0
    BY <1>1, Zenon DEF Take
  <2>3. accumulated = A[pos] + Take(list, acceptSize, pos, A[pos])
    BY <1>2, <2>1, <2>2
  <2>4. Bytes(list[pos].start, Take(list, acceptSize, pos, A[pos])) = {}
    BY <1>2, <2>2, HobFacts, NoBytes
  <2>5. PICK B : Longer(list, acceptSize, A, B, pos)
    <3>1. pos \in Nat \ {0} /\ Counts(list, acceptSize, A, pos)
      BY <1>2, <2>1, Zenon
    <3>2. QED
      BY <3>1, CountsStep, Zenon
  <2>6. accepted = Taken(list, acceptSize, B, pos + 1)
    BY <2>1, <2>4, <2>5 DEF Longer
  <2>7. QED
    BY <1>1, <2>3, <2>5, <2>6 DEF PassInv, Longer
<1>8. FinalInv'
  BY <1>1 DEF HobInv, FinalInv
<1>9. CallsAreWholePages' /\ RangeInv'
  BY <1>1, Zenon DEF HobInv, CallsAreWholePages, RangeInv
<1>10. HobListInAcceptedMemory'
  BY <1>1 DEF HobListInAcceptedMemory
<1>11. QED
  BY <1>3, <1>4, <1>5, <1>6, <1>7, <1>8, <1>9, <1>10, Zenon DEF HobInv

(* What a call of MpAcceptMemoryResourceRange changes, whether or not it   *)
(* fails.                                                                  *)
LEMMA CallStep ==
    ASSUME HobInv, ProcessHob, IsSystemMemory(list[pos]), CallMpAccept(list[pos])
    PROVE  /\ RangeInv'
           /\ pos' \in 1 .. Len(list) + 1
           /\ low' \in [start : Nat, length : Nat]
           /\ low'.length > 0 =>
                 /\ low'.start % EfiPageSize = 0
                 /\ low'.length % EfiPageSize = 0
                 /\ low'.start + low'.length <= Base4GB
           /\ \A r \in ranges' : r.start + r.length <= Base4GB => low'.length >= r.length
           /\ \/ low' = low
              \/ low'.start = list[pos].start /\ low'.length = AcceptLength(list[pos])
<1> DEFINE h == list[pos]
           n == AcceptLength(h)
           s == h.start
           c == [start |-> s, length |-> n]
<1>1. pos \in 1 .. Len(list) /\ list \in HobLists /\ s \in Nat /\ n \in Nat
  BY AcceptFacts
<1>2. s % EfiPageSize = 0 /\ n % EfiPageSize = 0 /\ n > 0
  BY AcceptPages
<1>3. /\ ranges' = ranges \cup {c} /\ pos' = pos + 1
      /\ low' = IF s + n <= Base4GB /\ n > low.length THEN c ELSE low
  BY Zenon DEF CallMpAccept, LowMemory
<1>4. /\ low \in [start : Nat, length : Nat]
      /\ low.length > 0 =>
            /\ low.start % EfiPageSize = 0
            /\ low.length % EfiPageSize = 0
            /\ low.start + low.length <= Base4GB
      /\ \A r \in ranges : r.start + r.length <= Base4GB => low.length >= r.length
      /\ ranges \subseteq [start : Nat, length : Nat]
      /\ \A r \in ranges : r.length > 0 /\ r.length % EfiPageSize = 0
  BY DEF HobInv, TypeOK, LowInv, RangeInv, ProcessHob
<1> HIDE DEF n, s
<1>5. c.start = s /\ c.length = n /\ c \in [start : Nat, length : Nat]
  BY <1>1
<1> HIDE DEF c
<1>6. RangeInv'
  BY <1>2, <1>3, <1>4, <1>5, Zenon DEF RangeInv
<1>7. pos' \in 1 .. Len(list) + 1
  BY <1>1, <1>3, ListLen
<1>8. CASE s + n <= Base4GB /\ n > low.length
  <2>1. low' = c
    BY <1>3, <1>8, Zenon
  <2>2. \A r \in ranges' : r.start + r.length <= Base4GB => low'.length >= r.length
    <3> SUFFICES ASSUME NEW r \in ranges', r.start + r.length <= Base4GB
                 PROVE  n >= r.length
      BY <1>5, <2>1, Zenon
    <3>1. CASE r = c
      BY <1>1, <1>5, <3>1
    <3>2. CASE r \in ranges
      <4>1. low.length >= r.length /\ r.length \in Nat /\ low.length \in Nat
        BY <1>4, <3>2
      <4>2. QED
        BY <1>1, <1>8, <4>1
    <3>3. QED
      BY <1>3, <3>1, <3>2, Zenon
  <2>3. QED
    BY <1>2, <1>5, <1>6, <1>7, <1>8, <2>1, <2>2, Zenon DEF n, s
<1>9. CASE ~ (s + n <= Base4GB /\ n > low.length)
  <2>1. low' = low
    BY <1>3, <1>9, Zenon
  <2>2. \A r \in ranges' : r.start + r.length <= Base4GB => low'.length >= r.length
    <3> SUFFICES ASSUME NEW r \in ranges', r.start + r.length <= Base4GB
                 PROVE  low.length >= r.length
      BY <2>1, Zenon
    <3>1. CASE r = c
      <4>1. r.start = s /\ r.length = n /\ low.length \in Nat
        BY <1>4, <1>5, <3>1
      <4>2. QED
        BY <1>1, <1>9, <4>1
    <3>2. CASE r \in ranges
      BY <1>4, <3>2, Zenon
    <3>3. QED
      BY <1>3, <3>1, <3>2, Zenon
  <2>3. QED
    BY <1>4, <1>6, <1>7, <2>1, <2>2, Zenon
<1>10. QED
  BY <1>8, <1>9, Zenon

(* Some of the bytes of the current HOB become accepted.                   *)
LEMMA AcceptedGrows ==
    ASSUME HobInv, ProcessHob, IsSystemMemory(list[pos]),
           NEW n \in Nat, n <= AcceptLength(list[pos])
    PROVE  /\ IsFiniteSet(accepted \cup Bytes(list[pos].start, n))
           /\ accepted \cup Bytes(list[pos].start, n) \subseteq MemoryBelow(list, pos + 1)
           /\ accumulated + n <= Cardinality(accepted \cup Bytes(list[pos].start, n))
<1> DEFINE B == Bytes(list[pos].start, n)
           C == Bytes(list[pos].start, list[pos].length)
<1>1. /\ pos \in 1 .. Len(list) /\ list \in HobLists /\ n <= list[pos].length
      /\ list[pos].start \in Nat /\ list[pos].length \in Nat
  BY AcceptFacts
<1>2. /\ IsFiniteSet(accepted) /\ accepted \subseteq MemoryBelow(list, pos)
      /\ accumulated <= Cardinality(accepted) /\ accumulated \in Nat
  BY DEF HobInv, CountInv, TypeOK, ProcessHob
<1>3. B \subseteq C
  BY <1>1, SmallerBytes
<1>4. /\ C \cap MemoryBelow(list, pos) = {}
      /\ MemoryBelow(list, pos + 1) = MemoryBelow(list, pos) \cup C
  BY <1>1, NewMemory, IsSystemIsMemory
<1>5. IsFiniteSet(B) /\ Cardinality(B) = n
  BY <1>1, BytesCount
<1> HIDE DEF B, C
<1>6. accepted \cap B = {} /\ accepted \cup B \subseteq MemoryBelow(list, pos + 1)
  BY <1>2, <1>3, <1>4
<1>7. /\ IsFiniteSet(accepted \cup B)
      /\ Cardinality(accepted \cup B) = Cardinality(accepted) + Cardinality(B)
      /\ Cardinality(accepted) \in Nat
  BY <1>2, <1>5, <1>6, DisjointCount
<1>8. accumulated + n <= Cardinality(accepted \cup B)
  BY <1>2, <1>5, <1>7
<1>9. QED
  BY <1>6, <1>7, <1>8, Zenon DEF B

LEMMA AcceptMemoryStep ==
    HobInv /\ AcceptMemory => HobInv'
<1> SUFFICES ASSUME HobInv, AcceptMemory PROVE HobInv'
  OBVIOUS
<1> DEFINE h == list[pos]
           n == AcceptLength(h)
<1>1. /\ ProcessHob /\ pc = "process" /\ IsSystemMemory(h) /\ CallMpAccept(h)
      /\ pos' = pos + 1 /\ status' = "Success"
      /\ accepted' = accepted \cup Bytes(h.start, n) /\ accumulated' = accumulated + n
      /\ list' = list /\ config' = config /\ pc' = pc /\ acceptSize' = acceptSize
      /\ failed' = failed /\ final' = final
  BY Zenon DEF AcceptMemory, ProcessHob, CallMpAccept
<1>2. /\ list \in HobLists /\ pos \in 1 .. Len(list) /\ h.start \in Nat
      /\ n \in Nat /\ n = Take(list, acceptSize, pos, accumulated)
      /\ n <= n /\ accumulated \in Nat /\ accumulated + n \in Nat /\ pos \in Nat \ {0}
  <2>1. /\ list \in HobLists /\ pos \in 1 .. Len(list) /\ h.start \in Nat
        /\ n \in Nat /\ n = Take(list, acceptSize, pos, accumulated)
    BY <1>1, AcceptFacts
  <2>2. accumulated \in Nat
    BY DEF HobInv, TypeOK
  <2>3. QED
    BY <2>1, <2>2
<1>3. /\ RangeInv'
      /\ pos' \in 1 .. Len(list) + 1
      /\ low' \in [start : Nat, length : Nat]
      /\ low'.length > 0 =>
            /\ low'.start % EfiPageSize = 0
            /\ low'.length % EfiPageSize = 0
            /\ low'.start + low'.length <= Base4GB
      /\ \A r \in ranges' : r.start + r.length <= Base4GB => low'.length >= r.length
      /\ low' = low \/ (low'.start = h.start /\ low'.length = n)
  BY <1>1, CallStep, Zenon
<1>4. TypeOK'
  BY <1>1, <1>2, <1>3, Zenon DEF HobInv, TypeOK
<1>5. SizeInv'
  BY <1>1, Zenon DEF HobInv, SizeInv
<1>6. CountInv'
  <2>1. /\ IsFiniteSet(accepted \cup Bytes(h.start, n))
        /\ accepted \cup Bytes(h.start, n) \subseteq MemoryBelow(list, pos + 1)
        /\ accumulated + n <= Cardinality(accepted \cup Bytes(h.start, n))
    BY <1>1, <1>2, AcceptedGrows, Zenon
  <2>2. (accumulated + n) % EfiPageSize = 0
    BY <1>1, AcceptPages, Zenon
  <2>3. QED
    BY <1>1, <2>1, <2>2, Zenon DEF CountInv
<1>7. LowInv'
  <2>1. ASSUME ~ failed PROVE Bytes(low'.start, low'.length) \subseteq accepted'
    <3>1. Bytes(low.start, low.length) \subseteq accepted
      BY <1>1, <2>1, Zenon DEF HobInv, LowInv
    <3>2. CASE low' = low
      BY <1>1, <3>1, <3>2, Zenon
    <3>3. CASE low'.start = h.start /\ low'.length = n
      BY <1>1, <3>3, Zenon
    <3>4. QED
      BY <1>3, <3>2, <3>3, Zenon
  <2>2. QED
    BY <1>1, <1>3, <2>1, Zenon DEF LowInv
<1>8. PassInv'
  <2> SUFFICES ASSUME ~ failed PROVE PassInv'
    BY <1>1, Zenon DEF PassInv
  <2>1. PICK A : /\ Counts(list, acceptSize, A, pos)
                 /\ accumulated = A[pos]
                 /\ accepted = Taken(list, acceptSize, A, pos)
    BY <1>1, Zenon DEF HobInv, PassInv
  <2>2. n = Take(list, acceptSize, pos, A[pos])
    BY <1>2, <2>1, Zenon
  <2>3. accumulated + n = A[pos] + Take(list, acceptSize, pos, A[pos])
    BY <2>1, <2>2, Zenon
  <2>4. PICK B : Longer(list, acceptSize, A, B, pos)
    <3>1. pos \in Nat \ {0} /\ Counts(list, acceptSize, A, pos)
      BY <1>2, <2>1, Zenon
    <3>2. QED
      BY <3>1, CountsStep, Zenon
  <2>5. accepted' = Taken(list, acceptSize, B, pos + 1)
    BY <1>1, <2>1, <2>2, <2>4, Zenon DEF Longer
  <2> HIDE DEF n
  <2>6. QED
    BY <1>1, <2>3, <2>4, <2>5 DEF PassInv, Longer
<1>9. FinalInv'
  <2> HIDE DEF n
  <2>1. QED
    BY <1>1 DEF HobInv, FinalInv
<1>10. HobListInAcceptedMemory' /\ CallsAreWholePages'
  <2> HIDE DEF n
  <2>1. QED
    BY <1>1 DEF HobListInAcceptedMemory, CallsAreWholePages
<1>11. QED
  BY <1>3, <1>4, <1>5, <1>6, <1>7, <1>8, <1>9, <1>10, Zenon DEF HobInv

(* After a failure only what the second loop needs to be well defined is   *)
(* left: it still covers the memory and the HOB list has room.             *)
LEMMA AcceptMemoryFailsStep ==
    HobInv /\ AcceptMemoryFails => HobInv'
<1> SUFFICES ASSUME HobInv, AcceptMemoryFails PROVE HobInv'
  OBVIOUS
<1> DEFINE h == list[pos]
           n == AcceptLength(h)
<1>1. /\ ProcessHob /\ pc = "process" /\ IsSystemMemory(h) /\ CallMpAccept(h)
      /\ pos' = pos + 1 /\ status' = "DeviceError" /\ failed' = TRUE
      /\ list' = list /\ config' = config /\ pc' = pc /\ acceptSize' = acceptSize
      /\ accumulated' = accumulated /\ final' = final
  BY Zenon DEF AcceptMemoryFails, ProcessHob, CallMpAccept
<1>2. PICK k \in {0, n - EfiPageSize} : accepted' = accepted \cup Bytes(h.start, k)
  BY Zenon DEF AcceptMemoryFails
<1>3. /\ list \in HobLists /\ pos \in 1 .. Len(list) /\ n \in Nat /\ n >= EfiPageSize
      /\ accumulated \in Nat /\ accumulated % EfiPageSize = 0
  <2>1. list \in HobLists /\ pos \in 1 .. Len(list) /\ n \in Nat
    BY <1>1, AcceptFacts, Zenon
  <2>2. n >= EfiPageSize /\ accumulated % EfiPageSize = 0
    BY <1>1, AcceptPages, Zenon
  <2>3. accumulated \in Nat
    BY DEF HobInv, TypeOK
  <2>4. QED
    BY <2>1, <2>2, <2>3, Zenon
<1>4. k \in Nat /\ k <= n
  <2> HIDE DEF n
  <2>1. n \in Nat /\ n >= EfiPageSize
    BY <1>3, Zenon
  <2>2. QED
    BY <1>2, <2>1, PageNat
<1>5. /\ RangeInv'
      /\ pos' \in 1 .. Len(list) + 1
      /\ low' \in [start : Nat, length : Nat]
      /\ low'.length > 0 =>
            /\ low'.start % EfiPageSize = 0
            /\ low'.length % EfiPageSize = 0
            /\ low'.start + low'.length <= Base4GB
      /\ \A r \in ranges' : r.start + r.length <= Base4GB => low'.length >= r.length
  BY <1>1, CallStep, Zenon
<1>6. TypeOK'
  BY <1>1, <1>5, Zenon DEF HobInv, TypeOK
<1>7. SizeInv'
  BY <1>1, Zenon DEF HobInv, SizeInv
<1>8. CountInv'
  <2> DEFINE acc == accepted \cup Bytes(h.start, k)
  <2>1. /\ IsFiniteSet(acc)
        /\ acc \subseteq MemoryBelow(list, pos + 1)
        /\ accumulated + k <= Cardinality(acc)
    BY <1>1, <1>4, AcceptedGrows, Zenon
  <2> HIDE DEF acc
  <2>2. accumulated <= Cardinality(acc)
    <3>1. Cardinality(acc) \in Nat /\ accumulated \in Nat /\ k \in Nat
      BY <1>3, <1>4, <2>1, FS_CardinalityType, Zenon
    <3>2. QED
      BY <2>1, <3>1
  <2>3. accepted' = acc
    BY <1>2, Zenon DEF acc
  <2>4. QED
    BY <1>1, <1>3, <2>1, <2>2, <2>3, Zenon DEF CountInv
<1>9. LowInv'
  BY <1>1, <1>5, Zenon DEF LowInv
<1>10. PassInv'
  BY <1>1, Zenon DEF PassInv
<1>11. FinalInv'
  <2> HIDE DEF n
  <2>1. QED
    BY <1>1 DEF HobInv, FinalInv
<1>12. HobListInAcceptedMemory' /\ CallsAreWholePages'
  <2> HIDE DEF n
  <2>1. QED
    BY <1>1 DEF HobListInAcceptedMemory, CallsAreWholePages
<1>13. QED
  BY <1>5, <1>6, <1>7, <1>8, <1>9, <1>10, <1>11, <1>12, Zenon DEF HobInv

(* A range that is not whole pages comes from such a HOB.                  *)
LEMMA AcceptMemoryDerailsStep ==
    HobInv /\ AcceptMemoryDerails => HobInv'
<1> SUFFICES ASSUME HobInv, AcceptMemoryDerails PROVE HobInv'
  OBVIOUS
<1>1. /\ ProcessHob /\ pc = "process" /\ IsSystemMemory(list[pos]) /\ pc' = "lost"
      /\ ~ IsWholePages(list[pos].start, AcceptLength(list[pos]))
      /\ list' = list /\ config' = config /\ pos' = pos /\ acceptSize' = acceptSize
      /\ accumulated' = accumulated /\ low' = low /\ status' = status
      /\ accepted' = accepted /\ failed' = failed /\ ranges' = ranges /\ final' = final
  BY Zenon DEF AcceptMemoryDerails, ProcessHob
<1>2. /\ pc' \notin {"validate", "process"} /\ pc' \notin {"transfer", "done"}
      /\ pc' # "validate" /\ pc' # "done"
      /\ pc' \in {"validate", "process", "transfer", "done", "dead", "lost"}
  BY <1>1
<1>3. TypeOK' /\ SizeInv' /\ CountInv' /\ LowInv' /\ RangeInv'
  BY <1>1, <1>2, Zenon DEF HobInv, TypeOK, SizeInv, CountInv, LowInv, RangeInv
<1>4. PassInv' /\ HobListInAcceptedMemory'
  BY <1>2, Zenon DEF PassInv, HobListInAcceptedMemory
<1>5. FinalInv'
  BY <1>1, <1>2 DEF HobInv, FinalInv
<1>6. CallsAreWholePages'
  <2>1. pos \in DOMAIN list
    BY <1>1, AcceptFacts, ListLen
  <2>2. pos \in MemoryHobs
    BY <1>1, <2>1, IsSystemIsMemory, Zenon DEF MemoryHobs
  <2>3. ~ IsWholePages(list[pos].start, list[pos].length)
    BY <1>1, CutIsWholePages, Zenon
  <2>4. MemoryHobs' = MemoryHobs
    BY <1>1, Zenon DEF MemoryHobs
  <2>5. QED
    BY <1>1, <2>2, <2>3, <2>4, Zenon DEF CallsAreWholePages
<1>7. QED
  BY <1>3, <1>4, <1>5, <1>6, Zenon DEF HobInv

(* B is the witness A to the end of the list, from a position at which the *)
(* limit has been reached.                                                 *)
Completed(l, size, A, B, n) ==
    /\ Counts(l, size, B, Len(l) + 1)
    /\ Taken(l, size, B, Len(l) + 1) = Taken(l, size, A, n)

LEMMA CountsEnd ==
    ASSUME NEW l \in HobLists, NEW size \in Nat, NEW A, NEW n \in 1 .. Len(l) + 1,
           Counts(l, size, A, n), A[n] \in Nat,
           n <= Len(l) => A[n] >= size
    PROVE  \E B : Completed(l, size, A, B, n)
<1> DEFINE B == [i \in 1 .. Len(l) + 1 |-> IF i <= n THEN A[i] ELSE A[n]]
           T(i, x) == Take(l, size, i, x)
           Y(i, x) == Bytes(l[i].start, Take(l, size, i, x))
<1>1. A[1] = 0 /\ \A i \in 1 .. n - 1 : A[i + 1] = A[i] + T(i, A[i])
  BY Zenon DEF Counts
<1>2. Len(l) \in Nat /\ n \in Nat /\ n <= Len(l) + 1 /\ n >= 1
  BY ListLen
<1>3. /\ \A i \in 1 .. n : B[i] = A[i]
      /\ \A i \in 1 .. Len(l) + 1 : i >= n => B[i] = A[n]
  BY <1>2
<1>4. ASSUME NEW i \in 1 .. Len(l), i >= n
      PROVE  T(i, A[n]) = 0 /\ Y(i, A[n]) = {}
  <2>1. A[n] >= size
    BY <1>2, <1>4
  <2>2. T(i, A[n]) = 0
    BY <2>1, Zenon DEF Take
  <2>3. l[i].start \in Nat
    BY HobFacts
  <2>4. Y(i, A[n]) = {}
    BY <2>2, <2>3, NoBytes, Zenon
  <2>5. QED
    BY <2>2, <2>4, Zenon
<1>5. Taken(l, size, B, Len(l) + 1) = UNION {Y(i, B[i]) : i \in 1 .. (Len(l) + 1) - 1}
  BY Zenon DEF Taken
<1>6. Taken(l, size, A, n) = UNION {Y(i, A[i]) : i \in 1 .. n - 1}
  BY Zenon DEF Taken
<1> HIDE DEF B, T, Y
<1>7. \A i \in 1 .. (Len(l) + 1) - 1 : B[i + 1] = B[i] + T(i, B[i])
  <2> SUFFICES ASSUME NEW i \in 1 .. (Len(l) + 1) - 1
               PROVE  B[i + 1] = B[i] + T(i, B[i])
    OBVIOUS
  <2>1. i \in 1 .. Len(l) /\ i \in 1 .. Len(l) + 1 /\ i + 1 \in 1 .. Len(l) + 1
    BY <1>2
  <2>2. CASE i < n
    BY <1>1, <1>2, <1>3, <2>1, <2>2
  <2>3. CASE i >= n
    <3>1. B[i] = A[n] /\ B[i + 1] = A[n]
      BY <1>2, <1>3, <2>1, <2>3
    <3>2. T(i, A[n]) = 0
      BY <1>4, <2>1, <2>3
    <3>3. QED
      BY <3>1, <3>2
  <2>4. QED
    BY <1>2, <2>1, <2>2, <2>3
<1>8. B[1] = 0
  BY <1>1, <1>2, <1>3
<1>9. Counts(l, size, B, Len(l) + 1)
  BY <1>7, <1>8, Zenon DEF Counts, T
<1>10. Taken(l, size, B, Len(l) + 1) = Taken(l, size, A, n)
  <2>1. ASSUME NEW b, NEW i \in 1 .. (Len(l) + 1) - 1, b \in Y(i, B[i])
        PROVE  i \in 1 .. n - 1 /\ b \in Y(i, A[i])
    <3>1. i \in 1 .. Len(l) /\ i \in 1 .. Len(l) + 1
      BY <1>2
    <3>2. CASE i >= n
      BY <1>3, <1>4, <2>1, <3>1, <3>2
    <3>3. CASE i < n
      BY <1>2, <1>3, <2>1, <3>1, <3>3
    <3>4. QED
      BY <1>2, <3>1, <3>2, <3>3
  <2>2. ASSUME NEW b, NEW i \in 1 .. n - 1, b \in Y(i, A[i])
        PROVE  i \in 1 .. (Len(l) + 1) - 1 /\ b \in Y(i, B[i])
    BY <1>2, <1>3, <2>2
  <2>3. ASSUME NEW b
        PROVE  b \in Taken(l, size, B, Len(l) + 1) <=> b \in Taken(l, size, A, n)
    <3>1. ASSUME b \in Taken(l, size, B, Len(l) + 1) PROVE b \in Taken(l, size, A, n)
      <4>1. PICK i \in 1 .. (Len(l) + 1) - 1 : b \in Y(i, B[i])
        BY <1>5, <3>1, Zenon
      <4>2. i \in 1 .. n - 1 /\ b \in Y(i, A[i])
        BY <2>1, <4>1, Zenon
      <4>3. QED
        BY <1>6, <4>2, Zenon
    <3>2. ASSUME b \in Taken(l, size, A, n) PROVE b \in Taken(l, size, B, Len(l) + 1)
      <4>1. PICK i \in 1 .. n - 1 : b \in Y(i, A[i])
        BY <1>6, <3>2, Zenon
      <4>2. i \in 1 .. (Len(l) + 1) - 1 /\ b \in Y(i, B[i])
        BY <2>2, <4>1, Zenon
      <4>3. QED
        BY <1>5, <4>2, Zenon
    <3>3. QED
      BY <3>1, <3>2
  <2>4. QED
    BY <2>3, Zenon
<1>11. QED
  BY <1>9, <1>10, Zenon DEF Completed

(* ProcessHobList returns: the HOB list for DXE starts in the low region.  *)
LEMMA ProcessReturnStep ==
    HobInv /\ ProcessReturn => HobInv'
<1> SUFFICES ASSUME HobInv, ProcessReturn PROVE HobInv'
  OBVIOUS
<1> DEFINE ok == status = "Success" /\ low.length > 0
<1>1. /\ pc = "process" /\ ~ ProcessHob
      /\ pc' = IF ok THEN "transfer" ELSE "dead"
      /\ status' = IF low.length = 0 THEN "NotFound" ELSE status
      /\ low' = IF ok /\ low.start = 0
                THEN [start |-> EfiPageSize, length |-> low.length - EfiPageSize]
                ELSE low
      /\ pos' = 1 /\ accumulated' = 0
      /\ list' = list /\ config' = config /\ acceptSize' = acceptSize
      /\ accepted' = accepted /\ failed' = failed /\ ranges' = ranges /\ final' = final
  BY Zenon DEF ProcessReturn
<1>2. /\ list \in HobLists /\ Len(list) \in Nat /\ final = <<>>
      /\ low \in [start : Nat, length : Nat] /\ low.start \in Nat /\ low.length \in Nat
      /\ low.length > 0 =>
            /\ low.start % EfiPageSize = 0
            /\ low.length % EfiPageSize = 0
            /\ low.start + low.length <= Base4GB
      /\ ~ failed => Bytes(low.start, low.length) \subseteq accepted
      /\ \A r \in ranges : r.start + r.length <= Base4GB => low.length >= r.length
  <2>1. list \in HobLists /\ final = <<>> /\ low \in [start : Nat, length : Nat] /\ LowInv
    BY <1>1 DEF HobInv, TypeOK, SizeInv, FinalInv
  <2>2. Len(list) \in Nat
    BY <2>1, ListLen
  <2>3. QED
    BY <1>1, <2>1, <2>2 DEF LowInv
<1>3. /\ low' \in [start : Nat, length : Nat]
      /\ ok => /\ low'.start > 0
               /\ low'.start + low'.length <= Base4GB
               /\ Bytes(low'.start, low'.length) \subseteq Bytes(low.start, low.length)
               /\ low'.length + EfiPageSize >= low.length
               /\ low'.length % EfiPageSize = 0
  <2>1. CASE ~ (ok /\ low.start = 0)
    <3>1. low' = low
      BY <1>1, <2>1, Zenon
    <3>2. ok => low.start > 0
      BY <1>2, <2>1
    <3>3. low.length + EfiPageSize >= low.length
      BY <1>2, PageNat
    <3>4. QED
      BY <1>2, <3>1, <3>2, <3>3, Zenon
  <2>2. CASE ok /\ low.start = 0
    <3>1. low' = [start |-> EfiPageSize, length |-> low.length - EfiPageSize]
      BY <1>1, <2>2, Zenon
    <3>2. low.length >= EfiPageSize
      BY <1>2, <2>2, PageNat, AtLeastOnePage
    <3>3. low'.start = EfiPageSize /\ low'.length = low.length - EfiPageSize
      BY <3>1
    <3>4. low' \in [start : Nat, length : Nat]
      BY <1>2, <3>1, <3>2, PageNat
    <3>5. low'.start > 0 /\ low'.start + low'.length <= Base4GB
      <4>1. low.start + low.length <= Base4GB
        BY <1>2, <2>2, Zenon
      <4>2. low.start \in Nat /\ low.length \in Nat
        BY <1>2, Zenon
      <4>3. QED
        BY <2>2, <3>2, <3>3, <4>1, <4>2, PageNat
    <3>6. Bytes(low'.start, low'.length) \subseteq Bytes(low.start, low.length)
      <4>1. low.length \in Nat
        BY <1>2, Zenon
      <4>2. QED
        BY <2>2, <3>2, <3>3, <4>1, PageNat DEF Bytes
    <3>7. low'.length + EfiPageSize >= low.length
      BY <1>2, <3>3, PageNat
    <3>8. low'.length % EfiPageSize = 0
      <4> DEFINE k == low.length
                 b == EfiPageSize
      <4>1. k % b = 0 /\ k \in Int /\ b \in Int /\ b \in Nat \ {0}
        BY <1>2, <2>2, PageNat
      <4> HIDE DEF k, b
      <4>2. b % b = 0
        BY <4>1
      <4>3. (k - b) % b = 0
        BY <4>1, <4>2, WholePages, Zenon
      <4>4. QED
        BY <3>3, <4>3, Zenon DEF k, b
    <3>9. QED
      BY <3>4, <3>5, <3>6, <3>7, <3>8, Zenon
  <2>3. QED
    BY <2>1, <2>2, Zenon
<1>4. TypeOK'
  <2>1. pos' \in 1 .. Len(list) + 1 /\ accumulated' \in Nat
    BY <1>1, <1>2
  <2>2. status' \in {"Success", "DeviceError", "NotFound"}
    BY <1>1, Zenon DEF HobInv, TypeOK
  <2>3. pc' \in {"validate", "process", "transfer", "done", "dead", "lost"}
    BY <1>1, Zenon
  <2>4. QED
    BY <1>1, <1>3, <2>1, <2>2, <2>3, Zenon DEF HobInv, TypeOK
<1>5. SizeInv'
  BY <1>1, Zenon DEF HobInv, SizeInv
<1>6. CountInv' /\ LowInv'
  <2>1. pc' \notin {"validate", "process"}
    BY <1>1
  <2>2. QED
    BY <2>1, Zenon DEF CountInv, LowInv
<1>7. PassInv'
  <2> SUFFICES ASSUME ~ failed, pc' = "transfer" PROVE PassInv'
    BY <1>1 DEF PassInv
  <2>1. PICK A : /\ Counts(list, acceptSize, A, pos)
                 /\ accumulated = A[pos]
                 /\ accepted = Taken(list, acceptSize, A, pos)
    BY <1>1, Zenon DEF HobInv, PassInv
  <2>2. pos \in 1 .. Len(list) + 1 /\ acceptSize \in Nat /\ accumulated \in Nat
    BY Zenon DEF HobInv, TypeOK
  <2>3. pos <= Len(list) => A[pos] >= acceptSize
    BY <1>1, <2>1, <2>2 DEF ProcessHob
  <2>4. PICK B : Completed(list, acceptSize, A, B, pos)
    BY <1>2, <2>1, <2>2, <2>3, CountsEnd, Zenon
  <2>5. /\ Counts(list, acceptSize, B, Len(list) + 1)
        /\ accepted = Taken(list, acceptSize, B, Len(list) + 1)
    BY <2>1, <2>4, Zenon DEF Completed
  <2>6. B[1] = 0
    BY <2>5, Zenon DEF Counts
  <2>7. ReportedIn(final, "SystemMemory") = Taken(list, acceptSize, B, 1)
    BY <1>2, NoneTaken, ReportedNothing, Zenon
  <2>8. /\ Counts(list, acceptSize, B, Len(list) + 1)'
        /\ accumulated' = B[pos']
        /\ accepted' = Taken(list', acceptSize', B, Len(list') + 1)
        /\ ReportedIn(final', "SystemMemory") = Taken(list', acceptSize', B, pos')
    BY <1>1, <2>5, <2>6, <2>7, Zenon
  <2>9. pc' \notin {"validate", "process"}
    OBVIOUS
  <2>10. QED
    BY <2>8, <2>9, Zenon DEF PassInv
<1>8. FinalInv'
  <2>1. /\ ReportedIn(final, "SystemMemory") = {} /\ ReportedIn(final, "Unaccepted") = {}
        /\ MemoryBelow(list, 1) = {}
    BY <1>2, ReportedNothing, NoMemoryBelow, Zenon
  <2>2. pc' \in {"transfer", "dead"}
    BY <1>1, Zenon
  <2>3. QED
    BY <1>1, <1>2, <2>1, <2>2 DEF FinalInv
<1>9. CallsAreWholePages' /\ RangeInv'
  <2>1. pc' # "lost"
    BY <1>1
  <2>2. QED
    BY <1>1, <2>1, Zenon DEF HobInv, CallsAreWholePages, RangeInv
<1>10. HobListInAcceptedMemory'
  <2> SUFFICES ASSUME pc' \in {"transfer", "done"}, ~ failed'
               PROVE  /\ low'.start > 0
                      /\ low'.start + low'.length <= Base4GB
                      /\ Bytes(low'.start, low'.length) \subseteq accepted'
                      /\ \A r \in Below4GB' : low'.length + EfiPageSize >= r.length
                      /\ \/ HandoffTable' \subseteq accepted'
                         \/ \A r \in Below4GB' : r.length = EfiPageSize
    BY Zenon DEF HobListInAcceptedMemory
  <2>1. ok
    BY <1>1
  <2>2. /\ low'.start > 0 /\ low'.start + low'.length <= Base4GB
        /\ Bytes(low'.start, low'.length) \subseteq accepted'
        /\ low'.length + EfiPageSize >= low.length /\ low'.length % EfiPageSize = 0
        /\ low'.start \in Nat /\ low'.length \in Nat /\ low.length \in Nat
    BY <1>1, <1>2, <1>3, <2>1
  <2>3. /\ Below4GB' \subseteq ranges
        /\ \A r \in Below4GB' : r.start + r.length <= Base4GB
    BY <1>1, Zenon DEF Below4GB
  <2>4. \A r \in Below4GB' : /\ r.length \in Nat /\ r.length > 0
                              /\ r.length % EfiPageSize = 0
                              /\ low.length >= r.length
    <3>1. \A r \in ranges : r.length \in Nat /\ r.length > 0 /\ r.length % EfiPageSize = 0
      BY DEF HobInv, RangeInv
    <3>2. QED
      BY <1>2, <2>3, <3>1, Zenon
  <2>5. \A r \in Below4GB' : low'.length + EfiPageSize >= r.length
    <3> SUFFICES ASSUME NEW r \in Below4GB' PROVE low'.length + EfiPageSize >= r.length
      OBVIOUS
    <3>1. r.length \in Nat /\ low.length >= r.length
      BY <2>4, Zenon
    <3>2. QED
      BY <2>2, <3>1, PageNat
  <2>6. CASE low'.length = 0
    <3> SUFFICES ASSUME NEW r \in Below4GB' PROVE r.length = EfiPageSize
      BY <2>2, <2>5, Zenon
    <3>1. r.length <= EfiPageSize /\ r.length \in Nat
      BY <2>4, <2>5, <2>6, PageNat
    <3>2. r.length >= EfiPageSize
      BY <2>4, PageNat, AtLeastOnePage
    <3>3. QED
      BY <3>1, <3>2, PageNat
  <2>7. CASE low'.length # 0
    <3>1. low'.length >= EfiPageSize
      BY <2>2, <2>7, PageNat, AtLeastOnePage
    <3>2. Bytes(low'.start, EfiPageSize) \subseteq Bytes(low'.start, low'.length)
      BY <2>2, <3>1, PageNat, SmallerBytes
    <3>3. HandoffTable' \subseteq accepted'
      BY <2>2, <3>2, Zenon DEF HandoffTable
    <3>4. QED
      BY <2>2, <2>5, <3>3, Zenon
  <2>8. QED
    BY <2>6, <2>7, Zenon
<1>11. QED
  BY <1>4, <1>5, <1>6, <1>7, <1>8, <1>9, <1>10, Zenon DEF HobInv

(* What a single HOB reports.                                              *)
LEMMA OneEntry ==
    ASSUME NEW type \in {"SystemMemory", "Unaccepted", "Io"}, NEW s \in Nat, NEW n \in Nat
    PROVE  /\ Entry(type, s, n) \in Entries
           /\ <<Entry(type, s, n)>> \in Seq(Entries)
           /\ ReportedIn(<<Entry(type, s, n)>>, type) = Bytes(s, n)
           /\ \A t : t # type => ReportedIn(<<Entry(type, s, n)>>, t) = {}
<1>1. /\ Entry(type, s, n) \in Entries
      /\ Entry(type, s, n).resource = type
      /\ Entry(type, s, n).start = s
      /\ Entry(type, s, n).length = n
  BY DEF Entry, Entries
<1>2. <<Entry(type, s, n)>> \in Seq(Entries)
  BY <1>1, ReportedOne
<1>3. ReportedIn(<<Entry(type, s, n)>>, type) = Bytes(s, n)
  BY <1>1, ReportedOne
<1>4. ASSUME NEW t, t # type PROVE ReportedIn(<<Entry(type, s, n)>>, t) = {}
  BY <1>1, <1>4, ReportedOne
<1>5. QED
  BY <1>1, <1>2, <1>3, <1>4

LEMMA TransferFacts ==
    ASSUME HobInv, pc = "transfer", pos <= Len(list)
    PROVE  /\ list \in HobLists /\ Len(list) \in Nat
           /\ pos \in 1 .. Len(list) /\ pos \in Nat \ {0} /\ pos + 1 \in 1 .. Len(list) + 1
           /\ list[pos].start \in Nat /\ list[pos].length \in Nat
           /\ accumulated \in Nat /\ acceptSize \in Nat /\ final \in Seq(Entries)
<1>1. /\ list \in HobLists /\ pos \in 1 .. Len(list) + 1 /\ accumulated \in Nat
      /\ acceptSize \in Nat /\ final \in Seq(Entries)
  BY Zenon DEF HobInv, TypeOK, SizeInv, Entries
<1>2. Len(list) \in Nat
  BY <1>1, ListLen
<1>3. pos \in 1 .. Len(list) /\ pos \in Nat \ {0} /\ pos + 1 \in 1 .. Len(list) + 1
  BY <1>1, <1>2
<1>4. QED
  BY <1>1, <1>2, <1>3, HobFacts

(* The HOBs that TransferHobList makes of a memory HOB: what Take says has *)
(* been accepted of it, and the rest.                                      *)
LEMMA TransferMemoryFacts ==
    ASSUME HobInv, pc = "transfer", pos <= Len(list), IsSystemMemory(list[pos])
    PROVE  /\ Take(list, acceptSize, pos, accumulated) \in Nat
           /\ Take(list, acceptSize, pos, accumulated) <= list[pos].length
           /\ TransferMemory(list[pos]) \in Seq(Entries)
           /\ ReportedIn(TransferMemory(list[pos]), "SystemMemory")
                = Bytes(list[pos].start, Take(list, acceptSize, pos, accumulated))
           /\ ReportedIn(TransferMemory(list[pos]), "Unaccepted")
                = Bytes(list[pos].start + Take(list, acceptSize, pos, accumulated),
                        list[pos].length - Take(list, acceptSize, pos, accumulated))
<1> DEFINE h == list[pos]
           s == h.start
           n == h.length
           m == Take(list, acceptSize, pos, accumulated)
           g == TransferMemory(h)
           Goal == /\ m \in Nat /\ m <= n /\ g \in Seq(Entries)
                   /\ ReportedIn(g, "SystemMemory") = Bytes(s, m)
                   /\ ReportedIn(g, "Unaccepted") = Bytes(s + m, n - m)
<1>1. s \in Nat /\ n \in Nat /\ accumulated \in Nat /\ acceptSize \in Nat
  BY TransferFacts
<1>2. CASE accumulated >= acceptSize
  <2>1. m = 0 /\ g = <<Entry("Unaccepted", s, n)>>
    BY <1>2, Zenon DEF Take, TransferMemory
  <2> HIDE DEF m, g, s, n
  <2>2. /\ g \in Seq(Entries) /\ ReportedIn(g, "Unaccepted") = Bytes(s, n)
        /\ ReportedIn(g, "SystemMemory") = {}
    BY <1>1, <2>1, OneEntry
  <2>3. Bytes(s, 0) = {} /\ s + 0 = s /\ n - 0 = n
    BY <1>1, NoBytes
  <2>4. m \in Nat /\ m <= n
    BY <1>1, <2>1
  <2>5. Goal
    BY <2>1, <2>2, <2>3, <2>4
  <2>6. QED
    BY <2>5, Zenon DEF m, g, s, n
<1>3. CASE accumulated < acceptSize /\ accumulated + n <= acceptSize
  <2>1. ~ (accumulated >= acceptSize) /\ ~ (accumulated + n > acceptSize)
    BY <1>1, <1>3
  <2>2. m = n /\ g = <<Entry("SystemMemory", s, n)>>
    BY <1>3, <2>1, Zenon DEF Take, TransferMemory
  <2> HIDE DEF m, g, s, n
  <2>3. /\ g \in Seq(Entries) /\ ReportedIn(g, "SystemMemory") = Bytes(s, n)
        /\ ReportedIn(g, "Unaccepted") = {}
    BY <1>1, <2>2, OneEntry
  <2>4. Bytes(s + n, 0) = {} /\ n - n = 0
    BY <1>1, NoBytes
  <2>5. m \in Nat /\ m <= n
    BY <1>1, <2>2
  <2>6. Goal
    BY <2>2, <2>3, <2>4, <2>5
  <2>7. QED
    BY <2>6, Zenon DEF m, g, s, n
<1>4. CASE accumulated < acceptSize /\ accumulated + n > acceptSize
  <2>1. ~ (accumulated >= acceptSize) /\ ~ (accumulated + n <= acceptSize)
    BY <1>1, <1>4
  <2>2. /\ m = acceptSize - accumulated
        /\ g = <<Entry("SystemMemory", s, m), Entry("Unaccepted", s + m, n - m)>>
    BY <1>4, <2>1, Zenon DEF Take, TransferMemory
  <2> HIDE DEF m, g, s, n
  <2>3. m \in Nat /\ m <= n /\ s + m \in Nat /\ n - m \in Nat
    BY <1>1, <1>4, <2>2
  <2> DEFINE g1 == <<Entry("SystemMemory", s, m)>>
             g2 == <<Entry("Unaccepted", s + m, n - m)>>
  <2>4. /\ g1 \in Seq(Entries) /\ g2 \in Seq(Entries)
        /\ ReportedIn(g1, "SystemMemory") = Bytes(s, m)
        /\ ReportedIn(g1, "Unaccepted") = {}
        /\ ReportedIn(g2, "SystemMemory") = {}
        /\ ReportedIn(g2, "Unaccepted") = Bytes(s + m, n - m)
    BY <1>1, <2>3, OneEntry
  <2>5. g = g1 \o g2
    BY <2>2
  <2> HIDE DEF g1, g2
  <2>6. g \in Seq(Entries)
    BY <2>4, <2>5, ConcatElements
  <2>7. /\ ReportedIn(g, "SystemMemory") = Bytes(s, m)
        /\ ReportedIn(g, "Unaccepted") = Bytes(s + m, n - m)
    <3>1. ASSUME NEW t
          PROVE  ReportedIn(g1 \o g2, t) = ReportedIn(g1, t) \cup ReportedIn(g2, t)
      BY <2>4, ReportedConcat, ZenonT(60)
    <3>2. QED
      BY <2>4, <2>5, <3>1
  <2>8. Goal
    BY <2>3, <2>6, <2>7
  <2>9. QED
    BY <2>8, Zenon DEF m, g, s, n
<1>5. QED
  <2>1. \/ accumulated >= acceptSize
        \/ accumulated < acceptSize /\ accumulated + n <= acceptSize
        \/ accumulated < acceptSize /\ accumulated + n > acceptSize
    <3> HIDE DEF n
    <3>1. QED
      BY <1>1
  <2>2. QED
    BY <1>2, <1>3, <1>4, <2>1, Zenon

(* A step of TransferHobList reports what was accepted of the HOB as       *)
(* system memory and the bytes U as unaccepted, and counts as              *)
(* ProcessHobList did.                                                     *)
LEMMA TransferEffect ==
    ASSUME HobInv, TransferHob
    PROVE  /\ final' \in Seq(Entries)
           /\ accumulated' = accumulated + Take(list, acceptSize, pos, accumulated)
           /\ accumulated' \in Nat
           /\ ReportedIn(final', "SystemMemory")
                = ReportedIn(final, "SystemMemory")
                    \cup Bytes(list[pos].start, Take(list, acceptSize, pos, accumulated))
           /\ \E U : /\ ReportedIn(final', "Unaccepted") = ReportedIn(final, "Unaccepted") \cup U
                     /\ Bytes(list[pos].start, Take(list, acceptSize, pos, accumulated)) \cap U = {}
                     /\ MemoryBelow(list, pos + 1)
                          = MemoryBelow(list, pos) \cup U
                              \cup Bytes(list[pos].start, Take(list, acceptSize, pos, accumulated))
                     /\ (U \cup Bytes(list[pos].start, Take(list, acceptSize, pos, accumulated)))
                          \cap MemoryBelow(list, pos) = {}
<1> DEFINE h == list[pos]
           m == Take(list, acceptSize, pos, accumulated)
           S == Bytes(h.start, m)
           U == Bytes(h.start + m, h.length - m)
           M == MemoryBelow(list, pos)
           MN == MemoryBelow(list, pos + 1)
           RS(f) == ReportedIn(f, "SystemMemory")
           RU(f) == ReportedIn(f, "Unaccepted")
<1>1. pc = "transfer" /\ pos <= Len(list)
  BY Zenon DEF TransferHob
<1>2. /\ list \in HobLists /\ pos \in 1 .. Len(list)
      /\ h.start \in Nat /\ h.length \in Nat
      /\ accumulated \in Nat /\ acceptSize \in Nat /\ final \in Seq(Entries)
  BY <1>1, TransferFacts
<1>3. CASE IsSystemMemory(h)
  <2> DEFINE g == TransferMemory(h)
  <2>1. /\ m \in Nat /\ m <= h.length /\ g \in Seq(Entries)
        /\ RS(g) = S /\ RU(g) = U
    BY <1>1, <1>3, TransferMemoryFacts
  <2>2. final' = final \o g
    BY <1>3, Zenon DEF TransferHob
  <2>3. accumulated' = accumulated + m
    <3>1. accumulated' = IF accumulated >= acceptSize THEN accumulated
                         ELSE accumulated + AcceptLength(h)
      BY <1>3, Zenon DEF TransferHob
    <3>2. CASE accumulated >= acceptSize
      <4>1. m = 0
        BY <3>2, Zenon DEF Take
      <4>2. QED
        BY <1>2, <3>1, <3>2, <4>1
    <3>3. CASE ~ (accumulated >= acceptSize)
      <4>1. m = AcceptLength(h)
        BY <1>3, <3>3, Zenon DEF Take, AcceptLength
      <4>2. QED
        BY <3>1, <3>3, <4>1, Zenon
    <3>4. QED
      BY <3>2, <3>3, Zenon
  <2>4. accumulated + m \in Nat
    <3> HIDE DEF m
    <3>1. QED
      BY <1>2, <2>1
  <2>5. /\ Bytes(h.start, h.length) \cap M = {}
        /\ MN = M \cup Bytes(h.start, h.length)
    BY <1>2, <1>3, NewMemory, IsSystemIsMemory
  <2>6. S \cup U = Bytes(h.start, h.length) /\ S \cap U = {}
    BY <1>2, <2>1, SplitBytes
  <2> HIDE DEF g, S, U, M, MN
  <2>7. final \o g \in Seq(Entries)
    BY <1>2, <2>1, ConcatElements, Zenon
  <2>8. RS(final \o g) = RS(final) \cup S /\ RU(final \o g) = RU(final) \cup U
    BY <1>2, <2>1, ReportedConcat, ZenonT(60)
  <2>9. MN = M \cup U \cup S /\ (U \cup S) \cap M = {}
    BY <2>5, <2>6, Zenon
  <2>10. /\ final' \in Seq(Entries) /\ accumulated' = accumulated + m /\ accumulated' \in Nat
         /\ RS(final') = RS(final) \cup S /\ RU(final') = RU(final) \cup U
         /\ S \cap U = {} /\ MN = M \cup U \cup S /\ (U \cup S) \cap M = {}
    BY <2>2, <2>3, <2>4, <2>6, <2>7, <2>8, <2>9, Zenon
  <2>11. QED
    BY <2>10, Zenon DEF S, M, MN
<1>4. CASE ~ IsSystemMemory(h)
  <2> DEFINE V == IF IsMemory(h) THEN Bytes(h.start, h.length) ELSE {}
  <2>1. m = 0
    BY <1>4, Zenon DEF Take
  <2>2. S = {}
    BY <1>2, <2>1, NoBytes, Zenon
  <2>3. MN = M \cup V /\ V \cap M = {}
    <3>1. CASE IsMemory(h)
      BY <1>2, <3>1, NewMemory
    <3>2. CASE ~ IsMemory(h)
      BY <1>2, <3>2, OtherHob
    <3>3. QED
      BY <3>1, <3>2, Zenon
  <2>4. accumulated' = accumulated + m
    <3>1. accumulated' = accumulated
      BY <1>4, Zenon DEF TransferHob
    <3>2. QED
      BY <1>2, <2>1, <3>1
  <2>5. /\ final' \in Seq(Entries) /\ RS(final') = RS(final) /\ RU(final') = RU(final) \cup V
    <3>1. CASE h.type = "Resource"
      <4> DEFINE e == Entry(h.resource, h.start, h.length)
      <4>1. /\ h.resource \in {"Unaccepted", "Io"}
            /\ h.resource = "Unaccepted" <=> IsMemory(h)
        BY <1>2, <1>4, <3>1, HobFacts DEF IsSystemMemory, IsMemory
      <4>2. final' = Append(final, e)
        BY <1>4, <3>1, Zenon DEF TransferHob
      <4>3. e \in Entries /\ <<e>> \in Seq(Entries) /\ RS(<<e>>) = {} /\ RU(<<e>>) = V
        <5>1. CASE h.resource = "Unaccepted"
          BY <1>2, <4>1, <5>1, OneEntry, SMTT(40)
        <5>2. CASE h.resource = "Io"
          BY <1>2, <4>1, <5>2, OneEntry, SMTT(40)
        <5>3. QED
          BY <4>1, <5>1, <5>2, Zenon
      <4> HIDE DEF e, V
      <4>4. Append(final, e) = final \o <<e>>
        BY <1>2, <4>3
      <4>5. final \o <<e>> \in Seq(Entries)
        BY <1>2, <4>3, ConcatElements, Zenon
      <4>6. RS(final \o <<e>>) = RS(final) /\ RU(final \o <<e>>) = RU(final) \cup V
        <5>1. ASSUME NEW t
              PROVE  ReportedIn(final \o <<e>>, t)
                       = ReportedIn(final, t) \cup ReportedIn(<<e>>, t)
          BY <1>2, <4>3, ReportedConcat, ZenonT(60)
        <5>2. QED
          BY <4>3, <5>1
      <4>7. QED
        BY <4>2, <4>4, <4>5, <4>6, Zenon DEF e
    <3>2. CASE h.type # "Resource"
      <4>1. final' = final
        BY <1>4, <3>2, Zenon DEF TransferHob
      <4>2. V = {}
        BY <3>2, Zenon DEF IsMemory
      <4> HIDE DEF V
      <4>3. QED
        BY <1>2, <4>1, <4>2, Zenon
    <3>3. QED
      BY <3>1, <3>2, Zenon
  <2>6. accumulated' \in Nat
    BY <1>2, <2>1, <2>4
  <2> HIDE DEF S, U, M, MN, V
  <2>7. /\ RS(final') = RS(final) \cup S /\ RU(final') = RU(final) \cup V
        /\ S \cap V = {} /\ MN = M \cup V \cup S /\ (V \cup S) \cap M = {}
    BY <2>2, <2>3, <2>5, Zenon
  <2>8. QED
    BY <2>4, <2>5, <2>6, <2>7, Zenon DEF S, M, MN
<1>5. QED
  BY <1>3, <1>4, Zenon

LEMMA TransferHobStep ==
    HobInv /\ TransferHob => HobInv'
<1> SUFFICES ASSUME HobInv, TransferHob PROVE HobInv'
  OBVIOUS
<1> DEFINE m == Take(list, acceptSize, pos, accumulated)
           S == Bytes(list[pos].start, m)
           RS(f) == ReportedIn(f, "SystemMemory")
           RU(f) == ReportedIn(f, "Unaccepted")
<1>1. /\ pc = "transfer" /\ pos <= Len(list) /\ pos' = pos + 1
      /\ list' = list /\ config' = config /\ pc' = pc /\ acceptSize' = acceptSize
      /\ low' = low /\ status' = status /\ accepted' = accepted /\ failed' = failed
      /\ ranges' = ranges
  BY Zenon DEF TransferHob
<1>2. /\ list \in HobLists /\ Len(list) \in Nat /\ pos \in 1 .. Len(list)
      /\ pos \in Nat \ {0} /\ pos + 1 \in 1 .. Len(list) + 1
  BY <1>1, TransferFacts
<1>3. /\ final' \in Seq(Entries) /\ accumulated' = accumulated + m /\ accumulated' \in Nat
      /\ RS(final') = RS(final) \cup S
  BY TransferEffect, Zenon
<1>4. PICK U : /\ RU(final') = RU(final) \cup U
               /\ S \cap U = {}
               /\ MemoryBelow(list, pos + 1) = MemoryBelow(list, pos) \cup U \cup S
               /\ (U \cup S) \cap MemoryBelow(list, pos) = {}
  BY TransferEffect, Zenon
<1>5. TypeOK'
  BY <1>1, <1>2, <1>3, Zenon DEF HobInv, TypeOK, Entries
<1>6. SizeInv'
  BY <1>1, Zenon DEF HobInv, SizeInv
<1>7. CountInv' /\ LowInv'
  <2>1. pc' \notin {"validate", "process"}
    BY <1>1
  <2>2. QED
    BY <2>1, Zenon DEF CountInv, LowInv
<1>8. PassInv'
  <2> SUFFICES ASSUME ~ failed PROVE PassInv'
    BY <1>1, Zenon DEF PassInv
  <2>1. PICK A : /\ Counts(list, acceptSize, A, Len(list) + 1)
                 /\ accumulated = A[pos]
                 /\ accepted = Taken(list, acceptSize, A, Len(list) + 1)
                 /\ RS(final) = Taken(list, acceptSize, A, pos)
    BY <1>1, Zenon DEF HobInv, PassInv
  <2>2. A[pos + 1] = A[pos] + Take(list, acceptSize, pos, A[pos])
    <3>1. pos \in 1 .. (Len(list) + 1) - 1
      BY <1>2
    <3>2. QED
      BY <2>1, <3>1, Zenon DEF Counts
  <2>3. accumulated' = A[pos + 1]
    BY <1>3, <2>1, <2>2, Zenon
  <2>4. RS(final') = Taken(list, acceptSize, A, pos + 1)
    <3>1. Taken(list, acceptSize, A, pos + 1)
            = Taken(list, acceptSize, A, pos)
                \cup Bytes(list[pos].start, Take(list, acceptSize, pos, A[pos]))
      BY <1>2, TakenStep, ZenonT(60)
    <3>2. QED
      BY <1>3, <2>1, <3>1, Zenon
  <2>5. /\ Counts(list', acceptSize', A, Len(list') + 1)
        /\ accumulated' = A[pos']
        /\ accepted' = Taken(list', acceptSize', A, Len(list') + 1)
        /\ ReportedIn(final', "SystemMemory") = Taken(list', acceptSize', A, pos')
    BY <1>1, <2>1, <2>3, <2>4, Zenon
  <2>6. pc' \notin {"validate", "process"}
    BY <1>1
  <2>7. QED
    BY <2>5, <2>6, Zenon DEF PassInv
<1>9. FinalInv'
  <2>1. /\ RS(final) \cap RU(final) = {}
        /\ RS(final) \cup RU(final) = MemoryBelow(list, pos)
    BY <1>1, Zenon DEF HobInv, FinalInv
  <2> HIDE DEF S, RS, RU
  <2>2. /\ RS(final') \cap RU(final') = {}
        /\ RS(final') \cup RU(final') = MemoryBelow(list, pos + 1)
    BY <1>3, <1>4, <2>1
  <2>3. pc' = "transfer"
    BY <1>1, Zenon
  <2>4. /\ pc' \notin {"validate", "process", "dead", "lost"}
        /\ pc' # "validate" /\ pc' # "done"
    BY <2>3
  <2>5. QED
    BY <1>1, <2>2, <2>4, Zenon DEF FinalInv, RS, RU
<1>10. CallsAreWholePages' /\ RangeInv'
  BY <1>1, Zenon DEF HobInv, CallsAreWholePages, RangeInv
<1>11. HobListInAcceptedMemory'
  BY <1>1, Zenon DEF HobInv, HobListInAcceptedMemory, HandoffTable, Below4GB
<1>12. QED
  BY <1>5, <1>6, <1>7, <1>8, <1>9, <1>10, <1>11, Zenon DEF HobInv

LEMMA TransferReturnStep ==
    HobInv /\ TransferReturn => HobInv'
<1> SUFFICES ASSUME HobInv, TransferReturn PROVE HobInv'
  OBVIOUS
<1>1. /\ pc = "transfer" /\ pos > Len(list) /\ pc' = "done"
      /\ list' = list /\ config' = config /\ pos' = pos /\ acceptSize' = acceptSize
      /\ accumulated' = accumulated /\ low' = low /\ status' = status
      /\ accepted' = accepted /\ failed' = failed /\ ranges' = ranges /\ final' = final
  BY Zenon DEF TransferReturn
<1>2. pos = Len(list) + 1
  <2>1. list \in HobLists /\ pos \in 1 .. Len(list) + 1
    BY Zenon DEF HobInv, TypeOK, SizeInv
  <2>2. Len(list) \in Nat
    BY <2>1, ListLen
  <2>3. QED
    BY <1>1, <2>1, <2>2
<1>3. /\ pc' \notin {"validate", "process", "dead", "lost"} /\ pc' # "validate"
      /\ pc' \notin {"validate", "process"} /\ pc' # "lost"
      /\ pc' \in {"validate", "process", "transfer", "done", "dead", "lost"}
  BY <1>1
<1>4. TypeOK' /\ SizeInv' /\ CountInv' /\ LowInv' /\ RangeInv'
  BY <1>1, <1>3, Zenon DEF HobInv, TypeOK, SizeInv, CountInv, LowInv, RangeInv
<1>5. PassInv'
  BY <1>1, <1>3, Zenon DEF HobInv, PassInv
<1>6. FinalInv'
  BY <1>1, <1>2, <1>3, Zenon DEF HobInv, FinalInv
<1>7. CallsAreWholePages' /\ HobListInAcceptedMemory'
  BY <1>1, <1>3, Zenon DEF HobInv, CallsAreWholePages, HobListInAcceptedMemory,
     HandoffTable, Below4GB
<1>8. QED
  BY <1>4, <1>5, <1>6, <1>7, Zenon DEF HobInv

LEMMA StutterStep ==
    HobInv /\ UNCHANGED vars => HobInv'
<1> SUFFICES ASSUME HobInv, UNCHANGED vars PROVE HobInv'
  OBVIOUS
<1>1. /\ list' = list /\ config' = config /\ pc' = pc /\ pos' = pos
      /\ acceptSize' = acceptSize /\ accumulated' = accumulated /\ low' = low
      /\ status' = status /\ accepted' = accepted /\ failed' = failed /\ ranges' = ranges
      /\ final' = final
  BY Zenon DEF vars
<1>2. TypeOK' /\ SizeInv' /\ CountInv' /\ LowInv' /\ RangeInv'
  BY <1>1, Zenon DEF HobInv, TypeOK, SizeInv, CountInv, LowInv, RangeInv
<1>3. PassInv' /\ FinalInv'
  BY <1>1, Zenon DEF HobInv, PassInv, FinalInv
<1>4. CallsAreWholePages' /\ HobListInAcceptedMemory'
  BY <1>1, Zenon DEF HobInv, CallsAreWholePages, MemoryHobs, HobListInAcceptedMemory,
     HandoffTable, Below4GB
<1>5. QED
  BY <1>2, <1>3, <1>4, Zenon DEF HobInv

-----------------------------------------------------------------------------
\* Every reachable state satisfies HobInv: both passes over the list of the
\* VMM count the same bytes, each HOB is entirely reported, and the region for
\* the HOB list is inside what was accepted.
THEOREM HobInvariance ==
    Spec => []HobInv
<1>1. HobInv /\ [Next]_vars => HobInv'
  BY ValidateStep, ProcessOtherStep, AcceptMemoryStep, AcceptMemoryFailsStep,
     AcceptMemoryDerailsStep, ProcessReturnStep, TransferHobStep, TransferReturnStep, StutterStep,
     Zenon
  DEF Next, Ended
<1>2. QED
  BY InitHobInv, <1>1, PTL DEF Spec

\* The loop variables keep their types; in particular the length of the region
\* for the HOB list does not wrap when its first page is left out.
THEOREM HobTypeCorrect ==
    Spec => []TypeOK
<1>1. HobInv => TypeOK
  BY Zenon DEF HobInv
<1>2. QED
  BY HobInvariance, <1>1, PTL

\* For every HOB list, page size and limit: if no call of
\* MpAcceptMemoryResourceRange failed, TransferHobList reports as system memory
\* exactly the bytes that ProcessHobList had accepted.
THEOREM ReportIsExact ==
    Spec => []ReportedIsAccepted
<1>1. HobInv => ReportedIsAccepted
  <2> SUFFICES ASSUME HobInv, pc = "done", ~ failed
               PROVE  Reported("SystemMemory") = accepted
    BY Zenon DEF ReportedIsAccepted
  <2>1. PICK A : /\ accepted = Taken(list, acceptSize, A, Len(list) + 1)
                 /\ ReportedIn(final, "SystemMemory") = Taken(list, acceptSize, A, pos)
    BY Zenon DEF HobInv, PassInv
  <2>2. pos = Len(list) + 1
    BY Zenon DEF HobInv, FinalInv
  <2>3. Reported("SystemMemory") = ReportedIn(final, "SystemMemory")
    BY Zenon DEF Reported, ReportedIn
  <2>4. QED
    BY <2>1, <2>2, <2>3, Zenon
<1>2. QED
  BY HobInvariance, <1>1, PTL

\* For every HOB list, whether or not a call failed: the system memory and the
\* unaccepted memory that DXE is told about are disjoint and together are the
\* memory of the VMM's list.
THEOREM NoMemoryIsLost ==
    Spec => []MemoryIsPreserved
<1>1. HobInv => MemoryIsPreserved
  <2> SUFFICES ASSUME HobInv, pc = "done" PROVE MemoryIsPreserved
    BY Zenon DEF MemoryIsPreserved
  <2>1. /\ pos = Len(list) + 1
        /\ ReportedIn(final, "SystemMemory") \cap ReportedIn(final, "Unaccepted") = {}
        /\ ReportedIn(final, "SystemMemory") \cup ReportedIn(final, "Unaccepted")
              = MemoryBelow(list, pos)
    BY Zenon DEF HobInv, FinalInv
  <2>2. /\ Reported("SystemMemory") = ReportedIn(final, "SystemMemory")
        /\ Reported("Unaccepted") = ReportedIn(final, "Unaccepted")
    BY Zenon DEF Reported, ReportedIn
  <2>3. MemoryBelow(list, Len(list) + 1)
          = UNION {Bytes(list[i].start, list[i].length) : i \in MemoryHobs}
    <3>1. list \in HobLists
      BY Zenon DEF HobInv, SizeInv
    <3>2. QED
      BY <3>1, AllMemoryBelow, Zenon DEF MemoryHobs
  <2>4. QED
    BY <2>1, <2>2, <2>3, Zenon DEF MemoryIsPreserved
<1>2. QED
  BY HobInvariance, <1>1, PTL

\* For every limit and page size: MpAcceptMemoryResourceRange gets a range that
\* is not a positive number of whole pages only if the VMM's list has a memory
\* HOB that is not.  A limit is rounded up to a page, what was counted before
\* is whole pages, and without a limit no range is cut because the memory fits
\* into the address space.
THEOREM CallsAreAligned ==
    Spec => []CallsAreWholePages
<1>1. HobInv => CallsAreWholePages
  BY Zenon DEF HobInv
<1>2. QED
  BY HobInvariance, <1>1, PTL

\* For every HOB list, if no call failed: the region HobConstructor gets is
\* accepted memory below 4GB that leaves out the page at address 0, at most a
\* page shorter than any range accepted there, and the handoff table is written
\* to accepted memory unless all these ranges are single pages.
THEOREM HobListIsUsable ==
    Spec => []HobListInAcceptedMemory
<1>1. HobInv => HobListInAcceptedMemory
  BY Zenon DEF HobInv
<1>2. QED
  BY HobInvariance, <1>1, PTL
=============================================================================
