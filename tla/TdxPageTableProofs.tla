-------------------------- MODULE TdxPageTableProofs --------------------------
(***************************************************************************)
(* SetMemorySharedOrPrivate for every size of memory and of the pages, any *)
(* mapping to start with, any regions and any pools.                       *)
(***************************************************************************)
EXTENDS TdxPageTable, TLAPS

(* Which page is in which entry.                                           *)
LEMMA DivFacts ==
    ASSUME NEW n \in Nat, NEW b \in Nat \ {0}
    PROVE  /\ n \div b \in Nat
           /\ n % b \in 0 .. b - 1
           /\ n = b * (n \div b) + (n % b)
OBVIOUS

LEMMA DivOfSum ==
    ASSUME NEW k \in Nat, NEW r \in Nat, NEW b \in Nat \ {0}, r < b
    PROVE  (b * k + r) \div b = k
OBVIOUS

LEMMA Product ==
    ASSUME NEW a \in Nat, NEW m \in Nat, NEW n \in Nat, m <= n
    PROVE  a * m \in Nat /\ a * n \in Nat /\ a * m <= a * n
<1>1. PICK d \in Nat : n = m + d
  <2>1. n - m \in Nat /\ n = m + (n - m)
    OBVIOUS
  <2>2. QED
    BY <2>1
<1>2. a * n = a * m + a * d /\ a * d \in Nat /\ a * m \in Nat
  BY <1>1
<1>3. QED
  BY <1>2

(* The pages of the entry that begins at p.                                *)
LEMMA EntryOfStart ==
    ASSUME NEW p \in Nat, NEW q \in Nat, NEW s \in Nat \ {0}, p % s = 0
    PROVE  SameEntry(p, q, s) <=> p <= q /\ q < p + s
<1>1. p = s * (p \div s) /\ p \div s \in Nat
  BY DivFacts
<1>2. q = s * (q \div s) + (q % s) /\ q \div s \in Nat /\ q % s \in 0 .. s - 1
  BY DivFacts
<1>3. ASSUME p \div s = q \div s PROVE p <= q /\ q < p + s
  BY <1>1, <1>2, <1>3
<1>4. ASSUME p <= q, q < p + s PROVE p \div s = q \div s
  <2>1. q - p \in Nat /\ q - p < s /\ q = s * (p \div s) + (q - p)
    BY <1>1, <1>4
  <2>2. (s * (p \div s) + (q - p)) \div s = p \div s
    BY <1>1, <2>1, DivOfSum
  <2>3. QED
    BY <2>1, <2>2
<1>5. QED
  BY <1>3, <1>4 DEF SameEntry

(* An entry lies within one entry of the next level.                       *)
LEMMA DivOfDiv ==
    ASSUME NEW p \in Nat, NEW a \in Nat \ {0}, NEW b \in Nat \ {0}
    PROVE  p \div (b * a) = (p \div a) \div b
<1> DEFINE k == p \div a
           m == k \div b
           r == k % b
           t == p % a
<1>1. p = a * k + t /\ k \in Nat /\ t \in 0 .. a - 1
  BY DivFacts
<1>2. k = b * m + r /\ m \in Nat /\ r \in 0 .. b - 1
  BY <1>1, DivFacts
<1> HIDE DEF k, m, r, t
<1>3. b * a \in Nat \ {0}
  OBVIOUS
<1>4. a * r \in Nat /\ a * r <= a * (b - 1)
  BY <1>2, Product
<1>5. a * (b - 1) = b * a - a
  OBVIOUS
<1>6. a * r + t \in Nat /\ a * r + t < b * a
  BY <1>1, <1>3, <1>4, <1>5
<1>7. a * k = a * (b * m) + a * r
  BY <1>1, <1>2
<1>8. a * (b * m) = (b * a) * m
  BY <1>2
<1>9. p = (b * a) * m + (a * r + t)
  BY <1>1, <1>2, <1>3, <1>4, <1>7, <1>8
<1>10. ((b * a) * m + (a * r + t)) \div (b * a) = m
  BY <1>2, <1>3, <1>6, DivOfSum
<1>11. QED
  BY <1>9, <1>10 DEF m, k

LEMMA Sizes ==
    /\ Size2M \in Nat \ {0, 1}
    /\ Size1G \in Nat \ {0, 1}
    /\ Size1G # Size2M
    /\ Size1G = Per1G * Size2M
<1>1. Size2M \in Nat /\ Size2M >= 2 /\ Per1G \in Nat /\ Per1G >= 2
  BY PageTableAssumption
<1>2. Size2M * 2 <= Size2M * Per1G /\ Size2M * Per1G \in Nat
  BY <1>1, Product
<1>3. Per1G * Size2M = Size2M * Per1G
  BY <1>1
<1>4. QED
  BY <1>1, <1>2, <1>3 DEF Size1G

LEMMA Nested ==
    ASSUME NEW p \in Nat, NEW q \in Nat, SameEntry(p, q, Size2M)
    PROVE  SameEntry(p, q, Size1G)
<1>1. Size2M \in Nat \ {0} /\ Per1G \in Nat \ {0}
  BY PageTableAssumption
<1>2. /\ p \div (Per1G * Size2M) = (p \div Size2M) \div Per1G
      /\ q \div (Per1G * Size2M) = (q \div Size2M) \div Per1G
  BY <1>1, DivOfDiv
<1>3. QED
  BY <1>2 DEF SameEntry, Size1G

LEMMA PageIsNat == \A p \in Page : p \in Nat
  BY PageTableAssumption DEF Page

-----------------------------------------------------------------------------
(* What a call keeps of its own, running or interrupted, with n pools: the *)
(* place in the ring of the pools, and that it splits the entry it is at.  *)
FrameOK(n, l, c, w, s) ==
    /\ w.at <= n
    /\ l \in {"protect", "protectSplit"} => w.at > 0 /\ w.head > 0 /\ w.head <= n
    /\ l \in {"split", "fill"} => c.addr \in s.pages
    /\ l \in {"fill", "protectSplit"} => s.size = Size2M
    /\ l = "protectSplit" => PoolBase[w.at] \in s.pages

Running == FrameOK(pools, pc, call, pool, split)
Interrupted == FrameOK(pools, outer.pc, outer.call, outer.pool, outer.split)

TypeInv == TypeOK /\ Running /\ Interrupted

LEMMA FrameGrows ==
    ASSUME NEW n \in Nat, NEW m \in Nat, n <= m, NEW l, NEW c, NEW w \in Pool, NEW s,
           FrameOK(n, l, c, w, s)
    PROVE  FrameOK(m, l, c, w, s)
<1>1. w.at \in Int /\ w.head \in Int
  BY PageTableAssumption DEF Pool
<1>2. QED
  BY <1>1 DEF FrameOK

LEMMA Constants ==
    /\ Len(PoolBase) \in Nat /\ WpEnabled \in BOOLEAN
    /\ \A n \in 1 .. Len(PoolBase) : PoolBase[n] \in Page
    /\ NoCall \in Call /\ NoPool \in Pool /\ NoSplit \in SplitRecord
    /\ \A r \in Regions : r.start \in Page /\ r.start \in Nat /\ r.end \in Nat /\ r.start < r.end
<1>1. Len(PoolBase) \in Nat /\ WpEnabled \in BOOLEAN
  BY PageTableAssumption
<1>2. \A n \in 1 .. Len(PoolBase) : PoolBase[n] \in Page
  BY PageTableAssumption
<1>3. NoCall \in Call /\ NoSplit \in SplitRecord
  BY DEF NoCall, NoSplit, Call, SplitRecord, Mode
<1>4. NoPool \in Pool
  BY <1>1 DEF NoPool, Pool
<1>5. \A r \in Regions : r.start \in Page /\ r.start \in Nat /\ r.end \in Nat /\ r.start < r.end
  BY PageTableAssumption, PageIsNat
<1>6. QED
  BY <1>1, <1>2, <1>3, <1>4, <1>5

LEMMA InitType == Init => TypeInv
<1> SUFFICES ASSUME Init PROVE TypeInv
  OBVIOUS
<1>1. size \in [Page -> {0, 1, Size2M, Size1G}]
  BY PageTableAssumption DEF Init
<1>2. NoFrame \in [pc : Label, call : Call, pool : Pool, split : SplitRecord]
  BY Constants DEF NoFrame, Label
<1>3. TypeOK
  <2>1. bit \in [Page -> BOOLEAN] /\ gpa \in [Page -> {"private", "shared", "pending"}]
    BY DEF Init
  <2>2. pools \in 0 .. Len(PoolBase) /\ tables \in 0 .. Size2M
    BY Constants, Sizes DEF Init
  <2>3. /\ wp \in BOOLEAN /\ call \in Call /\ pool \in Pool /\ split \in SplitRecord
        /\ pc \in Label /\ raced \in BOOLEAN /\ status \in {"Success", "NoMapping"}
    BY Constants DEF Init, Label
  <2>4. outer \in [pc : Label, call : Call, pool : Pool, split : SplitRecord]
    BY <1>2 DEF Init
  <2>5. ro \subseteq Page /\ refused \subseteq Page /\ stale \subseteq Page
    BY DEF Init
  <2>6. QED
    BY <1>1, <2>1, <2>2, <2>3, <2>4, <2>5 DEF TypeOK
<1>4. FrameOK(0, "idle", NoCall, NoPool, NoSplit)
  BY DEF FrameOK, NoPool
<1>5. Running /\ Interrupted
  BY <1>4 DEF Init, Running, Interrupted, NoFrame
<1>6. QED
  BY <1>3, <1>5 DEF TypeInv

(* AllocatePageTableMemory(1) takes the last pool's last page at most.     *)
LEMMA AllocateType ==
    ASSUME TypeInv, AllocatePageTableMemory
    PROVE  /\ pools' \in 0 .. Len(PoolBase) /\ tables' \in 0 .. Size2M
           /\ pools <= pools' /\ pools \in Nat /\ pools' \in Nat
<1>1. Len(PoolBase) \in Nat
  BY PageTableAssumption
<1>2. CASE tables > 0
  BY <1>1, <1>2, Sizes DEF AllocatePageTableMemory, TypeInv, TypeOK
<1>3. CASE ~(tables > 0)
  <2>1. pools # Len(PoolBase)
    BY <1>3, Sizes DEF AllocatePageTableMemory, NoTable, OutOfPages, TypeInv, TypeOK
  <2>2. QED
    BY <1>1, <1>3, <2>1, Sizes DEF AllocatePageTableMemory, TypeInv, TypeOK
<1>4. QED
  BY <1>2, <1>3

LEMMA EntryIsPages == \A p \in Page : Entry(p) \subseteq Page
  BY DEF Entry

LEMMA SplitType ==
    ASSUME TypeInv, NEW small \in {0, 1, Size2M, Size1G}, Split(small)
    PROVE  /\ size' \in [Page -> {0, 1, Size2M, Size1G}]
           /\ bit' \in [Page -> BOOLEAN]
           /\ ro' \subseteq Page
<1>1. size' \in [Page -> {0, 1, Size2M, Size1G}]
  BY DEF TypeInv, TypeOK, Split
<1>2. bit' \in [Page -> BOOLEAN]
  BY DEF TypeInv, TypeOK, Split, SplitRecord
<1>3. ro' \subseteq Page
  BY DEF TypeInv, TypeOK, Split
<1>4. QED
  BY <1>1, <1>2, <1>3

LEMMA ConvertType ==
    ASSUME TypeInv, NEW E \in SUBSET Page, NEW mode \in Mode, Convert(E, mode)
    PROVE  gpa' \in [Page -> {"private", "shared", "pending"}] /\ refused' \subseteq Page
<1>1. refused' \subseteq Page
  BY DEF TypeInv, TypeOK, Convert
<1>2. gpa' \in [Page -> {"private", "shared", "pending"}]
  BY DEF TypeInv, TypeOK, Convert
<1>3. QED
  BY <1>1, <1>2

LEMMA MappedSize ==
    ASSUME TypeInv, Mapped
    PROVE  /\ call.addr \in Page
           /\ size[call.addr] \in {1, Size2M, Size1G}
           /\ size[call.addr] \in Nat \ {0}
<1>1. size[call.addr] \in {0, 1, Size2M, Size1G} /\ size[call.addr] # 0 /\ call.addr \in Page
  BY DEF TypeInv, TypeOK, Mapped
<1>2. QED
  BY <1>1, Sizes

(* The pool the walk is at.                                                *)
LEMMA PoolType ==
    ASSUME TypeInv
    PROVE  /\ pools \in Nat /\ pool.at \in Nat /\ pool.head \in Nat
           /\ pool.at <= pools /\ pools <= Len(PoolBase)
           /\ pc \in {"protect", "protectSplit"} =>
                 /\ pool.at > 0 /\ pool.head > 0 /\ pool.head <= pools
                 /\ PoolBase[pool.at] \in Page
<1>1. /\ pools \in Nat /\ pool.at \in Nat /\ pool.head \in Nat
      /\ pool.at <= pools /\ pools <= Len(PoolBase)
  BY Constants DEF TypeInv, TypeOK, Running, FrameOK, Pool
<1>2. pc \in {"protect", "protectSplit"} => pool.at > 0 /\ pool.head > 0 /\ pool.head <= pools
  BY DEF TypeInv, Running, FrameOK
<1>3. pool.at > 0 => pool.at \in 1 .. Len(PoolBase)
  BY <1>1, Constants
<1>4. QED
  BY <1>1, <1>2, <1>3, Constants

(* A step that leaves the frames alone and takes no pool away.             *)
LEMMA OuterStays ==
    ASSUME TypeInv, outer' = outer, pools' \in Nat, pools <= pools'
    PROVE  Interrupted'
<1>1. pools \in Nat /\ outer.pool \in Pool
  BY Constants DEF TypeInv, TypeOK
<1>2. FrameOK(pools', outer.pc, outer.call, outer.pool, outer.split)
  BY <1>1, FrameGrows DEF TypeInv, Interrupted
<1>3. QED
  BY <1>2 DEF Interrupted

(* Enter, of a caller and of a notification.                               *)
LEMMA EnterType ==
    ASSUME TypeInv, NEW r \in Regions, NEW m \in Mode, Enter(r, m)
    PROVE  /\ size' = size /\ bit' = bit /\ ro' = ro /\ gpa' = gpa /\ refused' = refused
           /\ pools' = pools /\ tables' = tables /\ stale' = stale /\ pool' = pool
           /\ wp' = FALSE /\ pc' = "loop" /\ split' = NoSplit /\ status' = "Success"
           /\ call' = [start |-> r.start, end |-> r.end, addr |-> r.start, mode |-> m, wp |-> wp]
           /\ call' \in Call
           /\ Running'
<1>1. /\ size' = size /\ bit' = bit /\ ro' = ro /\ gpa' = gpa /\ refused' = refused
      /\ pools' = pools /\ tables' = tables /\ stale' = stale /\ pool' = pool
      /\ wp' = FALSE /\ pc' = "loop" /\ split' = NoSplit /\ status' = "Success"
      /\ call' = [start |-> r.start, end |-> r.end, addr |-> r.start, mode |-> m, wp |-> wp]
  BY DEF Enter, tableVars, tdxVars, poolVars
<1>2. call' \in Call
  BY <1>1, Constants DEF Call, TypeInv, TypeOK
<1>3. FrameOK(pools, "loop", call', pool, NoSplit)
  BY PoolType DEF FrameOK
<1>4. Running'
  BY <1>1, <1>3 DEF Running
<1>5. QED
  BY <1>1, <1>2, <1>4

LEMMA TypeStep == TypeInv /\ [Next]_vars => TypeInv'
<1> SUFFICES ASSUME TypeInv, [Next]_vars PROVE TypeInv'
  OBVIOUS
<1> USE DEF tableVars, tdxVars, poolVars
<1>0. /\ pools \in Nat /\ pool.at \in Nat /\ pool.head \in Nat
      /\ pool.at <= pools /\ pools <= Len(PoolBase)
  BY PoolType
<1>1. ASSUME NEW r \in Regions, NEW m \in Mode, SetMemorySharedOrPrivate(r, m)
      PROVE  TypeInv'
  <2>1. Enter(r, m) /\ outer' = outer /\ raced' = raced
    BY <1>1 DEF SetMemorySharedOrPrivate
  <2>2. TypeOK'
    BY <2>1, EnterType, Constants DEF TypeInv, TypeOK, Label
  <2>3. Running' /\ pools' = pools
    BY <2>1, EnterType
  <2>4. Interrupted'
    BY <1>0, <2>1, <2>3, OuterStays
  <2>5. QED
    BY <2>2, <2>3, <2>4 DEF TypeInv
<1>2. ASSUME NEW r \in Regions, NEW m \in Mode, Notify(r, m)
      PROVE  TypeInv'
  <2>1. /\ Enter(r, m)
        /\ outer' = [pc |-> pc, call |-> call, pool |-> pool, split |-> split]
        /\ raced' \in BOOLEAN
    BY <1>2 DEF Notify, TypeInv, TypeOK
  <2>2. outer' \in [pc : Label, call : Call, pool : Pool, split : SplitRecord]
    BY <2>1 DEF TypeInv, TypeOK
  <2>3. TypeOK'
    BY <2>1, <2>2, EnterType, Constants DEF TypeInv, TypeOK, Label
  <2>4. Running' /\ pools' = pools
    BY <2>1, EnterType
  <2>5. Interrupted'
    BY <2>1, <2>4 DEF TypeInv, Running, Interrupted
  <2>6. QED
    BY <2>3, <2>4, <2>5 DEF TypeInv
<1>3. CASE Resume
  <2>1. /\ pc' = outer.pc /\ call' = outer.call /\ pool' = outer.pool /\ split' = outer.split
        /\ outer' = NoFrame /\ status' = "Success" /\ pools' = pools
    BY <1>3 DEF Resume
  <2>2. NoFrame \in [pc : Label, call : Call, pool : Pool, split : SplitRecord]
    BY Constants DEF NoFrame, Label
  <2>3. TypeOK'
    BY <1>3, <2>1, <2>2 DEF Resume, TypeInv, TypeOK
  <2>4. Running'
    BY <2>1 DEF TypeInv, Running, Interrupted
  <2>5. FrameOK(pools, "idle", NoCall, NoPool, NoSplit)
    BY <1>0 DEF FrameOK, NoPool
  <2>6. Interrupted'
    BY <2>1, <2>5 DEF Interrupted, NoFrame
  <2>7. QED
    BY <2>3, <2>4, <2>6 DEF TypeInv
<1>4. CASE NoMapping
  <2>1. TypeOK'
    BY <1>4 DEF NoMapping, TypeInv, TypeOK, Label, Call
  <2>2. Running' /\ Interrupted'
    BY <1>4 DEF NoMapping, TypeInv, Running, Interrupted, FrameOK
  <2>3. QED
    BY <2>1, <2>2 DEF TypeInv
<1>5. CASE SetOrClearSharedBit
  <2>1. call.addr \in Page /\ size[call.addr] \in Nat
    BY <1>5, MappedSize DEF SetOrClearSharedBit
  <2>2. call' \in Call
    BY <1>5, <2>1, SMTT(40) DEF SetOrClearSharedBit, TypeInv, TypeOK, Call
  <2>3. Entry(call.addr) \in SUBSET Page /\ call.mode \in Mode
    BY <2>1, EntryIsPages DEF TypeInv, TypeOK, Call
  <2>4. gpa' \in [Page -> {"private", "shared", "pending"}] /\ refused' \subseteq Page
    BY <1>5, <2>3, ConvertType DEF SetOrClearSharedBit
  <2>5. bit' \in [Page -> BOOLEAN] /\ stale' \subseteq Page
    BY <1>5, <2>3 DEF SetOrClearSharedBit, TypeInv, TypeOK
  <2>6. TypeOK'
    BY <1>5, <2>2, <2>4, <2>5 DEF SetOrClearSharedBit, TypeInv, TypeOK
  <2>7. /\ pc = "loop" /\ pc' = pc /\ pool' = pool /\ split' = split
        /\ outer' = outer /\ pools' = pools
    BY <1>5 DEF SetOrClearSharedBit, Mapped, InLoop
  <2>8. Running' /\ Interrupted'
    BY <2>7 DEF TypeInv, Running, Interrupted, FrameOK
  <2>9. QED
    BY <2>6, <2>8 DEF TypeInv
<1>6. CASE SplitAllocate
  <2>1. /\ call.addr \in Page /\ Smaller(size[call.addr]) \in {0, 1, Size2M}
        /\ Entry(call.addr) \subseteq Page /\ call.addr \in Entry(call.addr)
        /\ bit[call.addr] \in BOOLEAN
    BY <1>6, MappedSize, EntryIsPages
       DEF SplitAllocate, Smaller, Entry, SameEntry, TypeInv, TypeOK
  <2>2. /\ pools' \in 0 .. Len(PoolBase) /\ tables' \in 0 .. Size2M
        /\ pools <= pools' /\ pools' \in Nat
    BY <1>6, AllocateType DEF SplitAllocate
  <2>3. split' \in SplitRecord /\ call.addr \in split'.pages
    BY <1>6, <2>1 DEF SplitAllocate, Divide, SplitRecord
  <2>4. TypeOK'
    BY <1>6, <2>2, <2>3 DEF SplitAllocate, TypeInv, TypeOK, Label
  <2>5. Running'
    BY <1>0, <1>6, <2>2, <2>3 DEF SplitAllocate, Running, FrameOK
  <2>6. Interrupted'
    BY <1>6, <2>2, OuterStays DEF SplitAllocate
  <2>7. QED
    BY <2>4, <2>5, <2>6 DEF TypeInv
<1>7. CASE Split2MPageTo4K
  <2>1. /\ size' \in [Page -> {0, 1, Size2M, Size1G}]
        /\ bit' \in [Page -> BOOLEAN]
        /\ ro' \subseteq Page
    BY <1>7, SplitType DEF Split2MPageTo4K
  <2>2. stale' \subseteq Page
    BY <1>7 DEF Split2MPageTo4K, TypeInv, TypeOK, SplitRecord
  <2>3. TypeOK'
    BY <1>7, <2>1, <2>2, Constants DEF Split2MPageTo4K, TypeInv, TypeOK, Label
  <2>4. Running' /\ Interrupted'
    BY <1>7 DEF Split2MPageTo4K, TypeInv, Running, Interrupted, FrameOK
  <2>5. QED
    BY <2>3, <2>4 DEF TypeInv
<1>8. CASE Split1GPageTo2M
  <2>1. size' \in [Page -> {0, 1, Size2M, Size1G}]
    BY <1>8 DEF Split1GPageTo2M, TypeInv, TypeOK
  <2>2. stale' \subseteq Page
    BY <1>8 DEF Split1GPageTo2M, TypeInv, TypeOK, SplitRecord
  <2>3. TypeOK'
    BY <1>8, <2>1, <2>2 DEF Split1GPageTo2M, TypeInv, TypeOK, Label
  <2>4. Running' /\ Interrupted'
    BY <1>8 DEF Split1GPageTo2M, TypeInv, Running, Interrupted, FrameOK
  <2>5. QED
    BY <2>3, <2>4 DEF TypeInv
<1>9. CASE FillDirectory \/ ProtectSplit
  <2>1. /\ size' \in [Page -> {0, 1, Size2M, Size1G}]
        /\ bit' \in [Page -> BOOLEAN]
        /\ ro' \subseteq Page
    BY <1>9, SplitType DEF FillDirectory, ProtectSplit
  <2>2. TypeOK'
    BY <1>9, <2>1, Constants DEF FillDirectory, ProtectSplit, TypeInv, TypeOK, Label
  <2>3. Running' /\ Interrupted'
    BY <1>9 DEF FillDirectory, ProtectSplit, TypeInv, Running, Interrupted, FrameOK
  <2>4. QED
    BY <2>2, <2>3 DEF TypeInv
<1>10. CASE SplitAsserts \/ ProtectAsserts
  <2>1. TypeOK'
    BY <1>10 DEF SplitAsserts, ProtectAsserts, TypeInv, TypeOK, Label
  <2>2. Running' /\ Interrupted'
    BY <1>10 DEF SplitAsserts, ProtectAsserts, TypeInv, Running, Interrupted, FrameOK
  <2>3. QED
    BY <2>1, <2>2 DEF TypeInv
<1>11. CASE LoopDone
  <2>1. pool' \in Pool /\ pc' \in {"protect", "flush"} /\ pools' = pools /\ pool'.at <= pools
        /\ (pc' = "protect" => pool'.at > 0 /\ pool'.head > 0 /\ pool'.head <= pools)
    BY <1>0, <1>11, Constants DEF LoopDone, Pool, TypeInv, TypeOK
  <2>2. TypeOK'
    BY <1>11, <2>1 DEF LoopDone, TypeInv, TypeOK, Label
  <2>3. Running'
    BY <2>1 DEF Running, FrameOK
  <2>4. Interrupted'
    BY <1>0, <1>11, OuterStays DEF LoopDone
  <2>5. QED
    BY <2>2, <2>3, <2>4 DEF TypeInv
<1>12. CASE SetPageTablePoolReadOnly
  <2>1. PoolPages(pool.at) \subseteq Page
    BY DEF PoolPages
  <2>2. ro' \subseteq Page
    BY <1>12, <2>1 DEF SetPageTablePoolReadOnly, TypeInv, TypeOK
  <2>3. /\ pc = "protect" /\ NextPool /\ pools' = pools /\ outer' = outer
        /\ pool.at > 0 /\ pool.head > 0 /\ pool.head <= pools
    BY <1>12, PoolType DEF SetPageTablePoolReadOnly
  <2> DEFINE next == IF pool.at = pools THEN 1 ELSE pool.at + 1
  <2>4. next \in Nat /\ next > 0 /\ next <= pools
    BY <1>0, <2>3
  <2>5. \/ pc' = "flush" /\ pool' = pool
        \/ pc' = "protect" /\ pool' = [pool EXCEPT !.at = next]
    BY <2>3 DEF NextPool
  <2> HIDE DEF next
  <2>6. /\ pool' \in Pool /\ pc' \in {"protect", "flush"} /\ pool'.at <= pools
        /\ (pc' = "protect" => pool'.at > 0 /\ pool'.head > 0 /\ pool'.head <= pools)
    BY <1>0, <2>3, <2>4, <2>5, Constants, SMTT(40) DEF TypeInv, TypeOK, Pool
  <2>7. TypeOK'
    BY <1>12, <2>2, <2>6 DEF SetPageTablePoolReadOnly, TypeInv, TypeOK, Label
  <2>8. Running'
    BY <2>3, <2>6 DEF Running, FrameOK
  <2>9. Interrupted'
    BY <1>0, <2>3, OuterStays
  <2>10. QED
    BY <2>7, <2>8, <2>9 DEF TypeInv
<1>13. CASE ProtectAllocate
  <2> DEFINE base == PoolBase[pool.at]
  <2>1. /\ base \in Page /\ Entry(base) \subseteq Page /\ base \in Entry(base)
        /\ bit[base] \in BOOLEAN
        /\ pool.at > 0 /\ pool.head > 0 /\ pool.head <= pools
    BY <1>13, PoolType, EntryIsPages DEF ProtectAllocate, Entry, SameEntry, TypeInv, TypeOK
  <2>2. /\ pools' \in 0 .. Len(PoolBase) /\ tables' \in 0 .. Size2M
        /\ pools <= pools' /\ pools' \in Nat
    BY <1>13, AllocateType DEF ProtectAllocate
  <2>3. split' = [pages |-> Entry(base), bit |-> bit[base], size |-> Size2M]
    BY <1>13 DEF ProtectAllocate, Divide
  <2> HIDE DEF base
  <2>4. split' \in SplitRecord /\ base \in split'.pages /\ split'.size = Size2M
    BY <2>1, <2>3 DEF SplitRecord
  <2>5. TypeOK'
    BY <1>13, <2>2, <2>4 DEF ProtectAllocate, TypeInv, TypeOK, Label
  <2>6. Running'
    BY <1>0, <1>13, <2>1, <2>2, <2>4 DEF ProtectAllocate, Running, FrameOK, base
  <2>7. Interrupted'
    BY <1>13, <2>2, OuterStays DEF ProtectAllocate
  <2>8. QED
    BY <2>5, <2>6, <2>7 DEF TypeInv
<1>14. CASE Return
  <2>1. TypeOK'
    BY <1>14 DEF Return, TypeInv, TypeOK, Label, Call
  <2>2. Running' /\ Interrupted'
    BY <1>14 DEF Return, TypeInv, Running, Interrupted, FrameOK
  <2>3. QED
    BY <2>1, <2>2 DEF TypeInv
<1>15. CASE UNCHANGED vars
  BY <1>15 DEF vars, callVars, TypeInv, TypeOK, Running, Interrupted
<1>16. QED
  BY <1>1, <1>2, <1>3, <1>4, <1>5, <1>6, <1>7, <1>8, <1>9, <1>10, <1>11, <1>12, <1>13, <1>14,
     <1>15 DEF Next, Work

\* SetMemorySharedOrPrivate keeps the types of the page table, of the pools
\* and of its cursors, for every memory, mapping and region, and however
\* notifications interrupt it.
THEOREM TypeCorrect == Spec => []TypeOK
<1>1. TypeInv => TypeOK
  BY DEF TypeInv
<1>2. QED
  BY InitType, TypeStep, <1>1, PTL DEF Spec

-----------------------------------------------------------------------------
(* Entries.  The facts below are those of a state; s stands for the size   *)
(* of an entry.                                                            *)

LEMMA SameEntryFacts ==
    ASSUME NEW p, NEW q, NEW r, NEW s
    PROVE  /\ SameEntry(p, p, s)
           /\ SameEntry(p, q, s) => SameEntry(q, p, s)
           /\ SameEntry(p, q, s) /\ SameEntry(q, r, s) => SameEntry(p, r, s)
  BY DEF SameEntry

(* An entry of one page maps that page only.                               *)
LEMMA SmallEntry ==
    ASSUME NEW p \in Nat, NEW q \in Nat, SameEntry(p, q, 1)
    PROVE  p = q
  BY DEF SameEntry

(* Entries do not overlap: two pages of one large entry are in the entry   *)
(* of p both, or neither is.                                               *)
LEMMA Disjoint ==
    ASSUME TypeOK, Coherent, ~raced, NEW p \in Page, size[p] # 0,
           NEW q \in Page, NEW r \in Page, size[q] > 1, SameEntry(q, r, size[q])
    PROVE  q \in Entry(p) <=> r \in Entry(p)
<1>1. size[r] = size[q]
  BY DEF Coherent
<1>2. SameEntry(r, q, size[q])
  BY SameEntryFacts
<1>3. size[p] \in {1, Size2M, Size1G}
  BY DEF TypeOK
<1>4. CASE size[p] = 1
  <2>1. \A x \in Page : x \in Entry(p) => x = p
    BY <1>4, PageIsNat, SmallEntry DEF Entry
  <2>2. q \notin Entry(p) /\ r \notin Entry(p)
    BY <1>1, <1>4, <2>1
  <2>3. QED
    BY <2>2
<1>5. CASE size[p] > 1
  <2>1. ASSUME NEW x \in Page, NEW y \in Page, size[y] = size[x], SameEntry(x, y, size[x]),
               x \in Entry(p)
        PROVE  y \in Entry(p)
    <3>1. SameEntry(p, x, size[p])
      BY <2>1 DEF Entry
    <3>2. size[x] = size[p]
      BY <1>5, <3>1 DEF Coherent
    <3>3. SameEntry(p, y, size[p])
      BY <2>1, <3>1, <3>2, SameEntryFacts
    <3>4. QED
      BY <3>3 DEF Entry
  <2>2. q \in Entry(p) => r \in Entry(p)
    BY <1>1, <2>1
  <2>3. r \in Entry(p) => q \in Entry(p)
    BY <1>1, <1>2, <2>1
  <2>4. QED
    BY <2>2, <2>3
<1>6. QED
  BY <1>3, <1>4, <1>5, Sizes

(* What a split leaves of a large entry: all of it in smaller entries, or, *)
(* before the directory is filled, in none.                                *)
LEMMA SplitCoherent ==
    ASSUME TypeOK, Coherent, ~raced, NEW P, NEW big, NEW now, NEW small,
           \E p \in Page : P = {q \in Page : SameEntry(p, q, big)},
           now \in {0, big}, big \in {Size2M, Size1G},
           small \in {0, 1} \/ (small = Size2M /\ big = Size1G),
           \A q \in P : size[q] = now,
           \A q \in P, r \in P : bit[q] = bit[r],
           size' = [q \in Page |-> IF q \in P THEN small ELSE size[q]],
           bit' = bit
    PROVE  Coherent'
<1> SUFFICES ASSUME NEW q \in Page, NEW r \in Page, size'[q] > 1, SameEntry(q, r, size'[q])
             PROVE  size'[r] = size'[q] /\ bit'[r] = bit'[q]
  BY DEF Coherent
<1>1. PICK p \in Page : P = {x \in Page : SameEntry(p, x, big)}
  OBVIOUS
<1>2. CASE q \in P
  <2>1. size'[q] = small /\ small = Size2M /\ big = Size1G
    BY <1>2
  <2>2. SameEntry(q, r, Size1G)
    BY <2>1, Nested, PageIsNat
  <2>3. r \in P
    BY <1>1, <1>2, <2>1, <2>2, SameEntryFacts
  <2>4. QED
    BY <1>2, <2>1, <2>3
<1>3. CASE q \notin P
  <2>1. size'[q] = size[q]
    BY <1>3
  <2>2. size[r] = size[q] /\ bit[r] = bit[q]
    BY <2>1 DEF Coherent
  <2>3. r \notin P
    <3>1. SUFFICES ASSUME r \in P PROVE FALSE
      OBVIOUS
    <3>2. size[r] = big
      BY <2>1, <2>2, <3>1
    <3>3. SameEntry(p, r, big) /\ SameEntry(r, q, big)
      BY <1>1, <2>1, <2>2, <3>1, <3>2, SameEntryFacts
    <3>4. QED
      BY <1>1, <1>3, <3>3, SameEntryFacts
  <2>4. QED
    BY <2>1, <2>2, <2>3
<1>4. QED
  BY <1>2, <1>3

(* A step of the loop splits only what has a table: 1GB and 2MB entries.   *)
LEMMA SplitsLarge ==
    ASSUME TypeOK, Mapped, ~Covered
    PROVE  /\ call.addr \in Page
           /\ size[call.addr] \in {Size2M, Size1G}
           /\ size[call.addr] > 1
<1>1. call.addr \in Page /\ size[call.addr] \in {1, Size2M, Size1G}
  BY DEF TypeOK, Mapped
<1>2. size[call.addr] # 1
  <2>1. call.addr \in Nat /\ call.end \in Nat /\ call.addr < call.end
    BY DEF TypeOK, Mapped, InLoop, Call
  <2>2. call.addr % 1 = 0 /\ call.end - call.addr >= 1
    BY <2>1
  <2>3. QED
    BY <2>2 DEF Covered
<1>3. QED
  BY <1>1, <1>2, Sizes

-----------------------------------------------------------------------------
(* The invariant.  It says of the running and of the interrupted call:     *)
(* the cursor stays in the region, and behind the loop it is at its end;   *)
Cursor(l, c) ==
    /\ c.start <= c.addr /\ c.addr <= c.end
    /\ l \in {"protect", "protectSplit", "flush"} => c.addr = c.end

(* it has left behind it only pages that have the bit;                     *)
Done(b, l, c) ==
    l \notin {"idle", "dead"} =>
        \A p \in Page \cap (c.start .. c.addr - 1) : b[p] = (c.mode = "SetSharedBit")

(* and what a split has read is what the table still says.                 *)
IsBlock(pages, big) == \E p \in Page : pages = {q \in Page : SameEntry(p, q, big)}

Fresh(sz, b, s, now) == \A q \in s.pages : sz[q] = now /\ b[q] = s.bit

SplitOK(sz, b, l, s) ==
    /\ l \in {"split", "protectSplit"} =>
          \/ s.size = 1 /\ IsBlock(s.pages, Size2M) /\ Fresh(sz, b, s, Size2M)
          \/ s.size = Size2M /\ IsBlock(s.pages, Size1G) /\ Fresh(sz, b, s, Size1G)
    /\ l = "fill" => s.size = Size2M /\ IsBlock(s.pages, Size1G) /\ Fresh(sz, b, s, 0)
    /\ l \notin {"split", "protectSplit", "fill"} => s = NoSplit

(* The last two need that the two calls do not meet.                       *)
Unraced ==
    /\ Done(bit, pc, call) /\ Done(bit, outer.pc, outer.call)
    /\ SplitOK(size, bit, pc, split) /\ SplitOK(size, bit, outer.pc, outer.split)
    /\ split = NoSplit \/ outer.split = NoSplit
    /\ Region(call) \cap outer.split.pages = {}

CursorInv == Cursor(pc, call) /\ Cursor(outer.pc, outer.call)

(* Who turns the write protection on again, and whose region is whose.     *)
FramesInv ==
    /\ pc \notin {"idle", "dead"} => ~wp /\ status = "Success"
    /\ outer = NoFrame =>
          /\ pc = "idle" => wp = WpEnabled
          /\ pc \notin {"idle", "dead"} => call.wp = WpEnabled
    /\ outer # NoFrame =>
          /\ ~wp /\ ~call.wp
          /\ outer.call.wp = WpEnabled /\ outer.pc \notin {"idle", "dead"}
          /\ Region(call) \cap Region(outer.call) = {}

TableInv ==
    /\ TypeInv /\ CursorInv /\ FramesInv
    /\ ~raced => Unraced
    /\ Coherent /\ GpaAgrees /\ SuccessMeansDone

LEMMA NoRegion ==
    ASSUME NEW i \in Nat, NEW j \in Nat, j <= i
    PROVE  i .. j - 1 = {}
OBVIOUS

LEMMA InitTable == Init => TableInv
<1> SUFFICES ASSUME Init PROVE TableInv
  OBVIOUS
<1>1. TypeInv
  BY InitType
<1>2. Coherent
  <2>1. size \in Layouts /\ \A p \in Page : bit[p] = FALSE
    BY DEF Init
  <2>2. QED
    BY <2>1, PageTableAssumption DEF Coherent
<1>3. GpaAgrees
  BY DEF Init, GpaAgrees
<1>4. /\ pc = "idle" /\ call = NoCall /\ split = NoSplit /\ outer = NoFrame /\ wp = WpEnabled
      /\ stale = {}
  BY DEF Init
<1>5. Region(NoCall) = {} /\ NoSplit.pages = {}
  BY NoRegion DEF Region, NoCall, NoSplit
<1>6. CursorInv
  BY <1>4 DEF CursorInv, Cursor, NoCall, NoFrame
<1>7. FramesInv
  BY <1>4 DEF FramesInv
<1>8. Unraced
  BY <1>4, <1>5 DEF Unraced, Done, SplitOK, NoFrame
<1>9. SuccessMeansDone
  BY <1>4, <1>5, Constants DEF SuccessMeansDone
<1>10. QED
  BY <1>1, <1>2, <1>3, <1>6, <1>7, <1>8, <1>9 DEF TableInv

LEMMA CallType ==
    ASSUME TypeInv
    PROVE  /\ call.start \in Nat /\ call.addr \in Nat /\ call.end \in Nat
           /\ outer.call.start \in Nat /\ outer.call.addr \in Nat /\ outer.call.end \in Nat
           /\ wp \in BOOLEAN /\ call.wp \in BOOLEAN
  BY DEF TypeInv, TypeOK, Call

(* Once a notification has come into a split this is not forgotten.        *)
LEMMA RacedStays == TypeInv /\ [Next]_vars /\ raced => raced'
<1> SUFFICES ASSUME TypeInv, [Next]_vars, raced PROVE raced'
  OBVIOUS
<1>1. CASE UNCHANGED vars
  BY <1>1 DEF vars
<1>2. ASSUME NEW r \in Regions, NEW m \in Mode, SetMemorySharedOrPrivate(r, m) \/ Notify(r, m)
      PROVE  raced'
  BY <1>2 DEF SetMemorySharedOrPrivate, Notify
<1>3. CASE Work
  BY <1>3 DEF Work, NoMapping, SetOrClearSharedBit, SplitAllocate, Split2MPageTo4K,
              Split1GPageTo2M, FillDirectory, SplitAsserts, LoopDone,
              SetPageTablePoolReadOnly, ProtectAllocate, ProtectSplit, ProtectAsserts, Return,
              Resume
<1>4. QED
  BY <1>1, <1>2, <1>3 DEF Next

(* The pages whose bit SetOrClearSharedBit changes are the ones from the   *)
(* cursor to the next cursor, and they are in the region.                  *)
LEMMA EntryInRegion ==
    ASSUME TypeInv, SetOrClearSharedBit
    PROVE  /\ call.addr \in Page
           /\ \A p \in Page : p \in Entry(call.addr) <=>
                                 call.addr <= p /\ p < call.addr + size[call.addr]
           /\ call.addr + size[call.addr] <= call.end
           /\ size[call.addr] \in Nat \ {0}
<1>1. call.addr \in Page /\ size[call.addr] \in Nat \ {0}
  BY MappedSize DEF SetOrClearSharedBit
<1>2. call.addr \in Nat /\ call.addr % size[call.addr] = 0
  BY <1>1, PageIsNat DEF SetOrClearSharedBit, Covered
<1>3. \A p \in Page : SameEntry(call.addr, p, size[call.addr]) <=>
                         call.addr <= p /\ p < call.addr + size[call.addr]
  BY <1>1, <1>2, PageIsNat, EntryOfStart
<1>4. call.end - call.addr >= size[call.addr] /\ call.end \in Nat
  BY CallType DEF SetOrClearSharedBit, Covered
<1>5. call.addr + size[call.addr] <= call.end
  BY <1>1, <1>2, <1>4
<1>6. QED
  BY <1>1, <1>3, <1>5 DEF Entry

LEMMA BitInRegion ==
    ASSUME TypeInv, CursorInv, SetOrClearSharedBit, NEW p \in Page, p \in Entry(call.addr)
    PROVE  p \in Region(call)
<1>1. /\ call.addr <= p
      /\ p < call.addr + size[call.addr]
      /\ call.addr + size[call.addr] <= call.end
      /\ size[call.addr] \in Nat
  BY EntryInRegion
<1>2. /\ call.start \in Nat /\ call.addr \in Nat /\ call.end \in Nat
      /\ call.start <= call.addr /\ p \in Nat
  BY CallType, PageIsNat DEF CursorInv, Cursor
<1>3. QED
  BY <1>1, <1>2 DEF Region

(* The four stores of the splits.  Unless a notification came between, no  *)
(* shared bit changes, and the entries still agree.                        *)
LEMMA SplitStores ==
    ASSUME TableInv, ~raced,
           Split2MPageTo4K \/ Split1GPageTo2M \/ FillDirectory \/ ProtectSplit
    PROVE  /\ bit' = bit /\ Coherent' /\ outer.split = NoSplit
           /\ pc = "split" /\ pc' = "fill" =>
                 split.size = Size2M /\ IsBlock(split.pages, Size1G) /\ Fresh(size', bit, split, 0)
<1> DEFINE P == split.pages
<1>1. /\ SplitOK(size, bit, pc, split)
      /\ split = NoSplit \/ outer.split = NoSplit
      /\ TypeOK /\ Coherent
      /\ bit \in [Page -> BOOLEAN] /\ P \subseteq Page
      /\ size \in [Page -> {0, 1, Size2M, Size1G}]
  BY DEF TableInv, Unraced, TypeInv, TypeOK, SplitRecord
<1>2. pc \in {"split", "fill", "protectSplit"}
  BY DEF Split2MPageTo4K, Split1GPageTo2M, FillDirectory, ProtectSplit
<1>3. PICK big \in {Size2M, Size1G}, now \in {0, Size2M, Size1G} :
         /\ IsBlock(P, big) /\ Fresh(size, bit, split, now) /\ now \in {0, big}
         /\ split.size = 1 => big = Size2M
         /\ split.size # 1 => big = Size1G
         /\ pc \in {"fill", "protectSplit"} => big = Size1G
  <2>1. pc \in {"fill", "protectSplit"} => split.size = Size2M
    BY DEF TableInv, TypeInv, Running, FrameOK
  <2>2. CASE split.size = 1
    <3>1. pc = "split" /\ IsBlock(P, Size2M) /\ Fresh(size, bit, split, Size2M)
      BY <1>1, <1>2, <2>1, <2>2, Sizes DEF SplitOK
    <3>2. QED
      BY <2>2, <3>1
  <2>3. CASE split.size # 1
    <3>1. IsBlock(P, Size1G)
      BY <1>1, <1>2, <2>3 DEF SplitOK
    <3>2. Fresh(size, bit, split, Size1G) \/ Fresh(size, bit, split, 0)
      BY <1>1, <1>2, <2>3 DEF SplitOK
    <3>3. QED
      BY <2>3, <3>1, <3>2
  <2>4. QED
    BY <2>2, <2>3
<1>4. PICK small \in {0, 1, Size2M} :
         /\ size' = [q \in Page |-> IF q \in P THEN small ELSE size[q]]
         /\ small = Size2M => big = Size1G
         /\ pc = "split" /\ pc' = "fill" => small = 0
  <2>1. CASE Split2MPageTo4K
    <3>1. size' = [q \in Page |-> IF q \in P THEN 1 ELSE size[q]] /\ pc' = "loop"
      BY <2>1 DEF Split2MPageTo4K, Split
    <3>2. QED
      BY <3>1, Sizes
  <2>2. CASE Split1GPageTo2M
    <3>1. size' = [q \in Page |-> IF q \in P THEN 0 ELSE size[q]]
      BY <2>2 DEF Split1GPageTo2M
    <3>2. QED
      BY <3>1, Sizes
  <2>3. CASE FillDirectory \/ ProtectSplit
    <3>1. /\ size' = [q \in Page |-> IF q \in P THEN Size2M ELSE size[q]]
          /\ pc \in {"fill", "protectSplit"}
      BY <2>3 DEF FillDirectory, ProtectSplit, Split
    <3>2. QED
      BY <1>3, <3>1
  <2>4. QED
    BY <2>1, <2>2, <2>3
<1>5. bit' = bit
  <2>1. CASE bit' = [q \in Page |-> IF q \in P THEN split.bit ELSE bit[q]]
    <3>1. \A q \in Page : (IF q \in P THEN split.bit ELSE bit[q]) = bit[q]
      BY <1>3 DEF Fresh
    <3>2. QED
      BY <1>1, <2>1, <3>1
  <2>2. QED
    BY <2>1 DEF Split2MPageTo4K, Split1GPageTo2M, FillDirectory, ProtectSplit, Split
<1>6. Coherent'
  <2>1. /\ \A q \in P : size[q] = now
        /\ \A q \in P, r \in P : bit[q] = bit[r]
        /\ \E p \in Page : P = {q \in Page : SameEntry(p, q, big)}
    BY <1>3 DEF Fresh, IsBlock
  <2>2. small \in {0, 1} \/ (small = Size2M /\ big = Size1G)
    BY <1>4
  <2> HIDE DEF P
  <2>3. /\ TypeOK /\ Coherent /\ ~raced
        /\ now \in {0, big} /\ big \in {Size2M, Size1G}
        /\ size' = [q \in Page |-> IF q \in P THEN small ELSE size[q]]
        /\ bit' = bit
    BY <1>1, <1>3, <1>4, <1>5
  <2>4. QED
    BY <2>1, <2>2, <2>3, SplitCoherent, ZenonT(60)
<1>7. outer.split = NoSplit
  <2>1. split.size \in {1, Size2M}
    BY <1>1, <1>2 DEF SplitOK
  <2>2. split # NoSplit
    BY <2>1, Sizes DEF NoSplit
  <2>3. QED
    BY <1>1, <2>2
<1>8. ASSUME pc = "split", pc' = "fill"
      PROVE  split.size = Size2M /\ IsBlock(P, Size1G) /\ Fresh(size', bit, split, 0)
  <2>1. split.size = Size2M /\ small = 0
    BY <1>4, <1>8 DEF Split2MPageTo4K, Split1GPageTo2M, FillDirectory, ProtectSplit
  <2>2. IsBlock(P, Size1G)
    BY <1>3, <2>1, Sizes
  <2>3. Fresh(size', bit, split, 0)
    BY <1>1, <1>3, <1>4, <2>1 DEF Fresh
  <2>4. QED
    BY <2>1, <2>2, <2>3
<1>9. QED
  BY <1>5, <1>6, <1>7, <1>8

(* The steps that end in the function they began in.                       *)
LEMMA SameCall ==
    ASSUME \/ SetOrClearSharedBit \/ SplitAllocate \/ Split2MPageTo4K \/ Split1GPageTo2M
           \/ FillDirectory \/ LoopDone \/ SetPageTablePoolReadOnly \/ ProtectAllocate
           \/ ProtectSplit
    PROVE  /\ pc \notin {"idle", "dead"} /\ pc' \notin {"idle", "dead"}
           /\ outer' = outer /\ wp' = wp /\ status' = status
           /\ ~SetOrClearSharedBit => call' = call
           /\ SetOrClearSharedBit => call' = [call EXCEPT !.addr = @ + size[call.addr]]
<1>1. CASE SetOrClearSharedBit
  BY <1>1 DEF SetOrClearSharedBit, Mapped, InLoop
<1>2. CASE SplitAllocate \/ Split2MPageTo4K \/ Split1GPageTo2M \/ FillDirectory
  BY <1>1, <1>2 DEF SplitAllocate, Split2MPageTo4K, Split1GPageTo2M, FillDirectory, Mapped, InLoop
<1>3. CASE LoopDone \/ SetPageTablePoolReadOnly \/ ProtectAllocate \/ ProtectSplit
  BY <1>1, <1>3 DEF LoopDone, SetPageTablePoolReadOnly, NextPool, ProtectAllocate, ProtectSplit
<1>4. QED
  BY <1>1, <1>2, <1>3

LEMMA FramesStep == TypeInv /\ FramesInv /\ [Next]_vars => FramesInv'
<1> SUFFICES ASSUME TypeInv, FramesInv, [Next]_vars PROVE FramesInv'
  OBVIOUS
<1>0. WpEnabled \in BOOLEAN /\ wp \in BOOLEAN /\ call.wp \in BOOLEAN
  BY Constants, CallType
<1>1. ASSUME NEW r \in Regions, NEW m \in Mode, SetMemorySharedOrPrivate(r, m)
      PROVE  FramesInv'
  <2>1. outer = NoFrame /\ pc = "idle" /\ outer' = outer /\ Enter(r, m)
    BY <1>1 DEF SetMemorySharedOrPrivate
  <2>2. /\ wp' = FALSE /\ pc' = "loop" /\ status' = "Success"
        /\ call' = [start |-> r.start, end |-> r.end, addr |-> r.start, mode |-> m, wp |-> wp]
    BY <2>1, EnterType
  <2>3. QED
    BY <2>1, <2>2 DEF FramesInv
<1>2. ASSUME NEW r \in Regions, NEW m \in Mode, Notify(r, m)
      PROVE  FramesInv'
  <2>1. /\ pc \notin {"idle", "dead"} /\ outer = NoFrame /\ Enter(r, m)
        /\ outer' = [pc |-> pc, call |-> call, pool |-> pool, split |-> split]
        /\ Region(r) \cap Region(call) = {}
    BY <1>2 DEF Notify
  <2>2. /\ wp' = FALSE /\ pc' = "loop" /\ status' = "Success"
        /\ call' = [start |-> r.start, end |-> r.end, addr |-> r.start, mode |-> m, wp |-> wp]
    BY <2>1, EnterType
  <2>3. ~wp /\ call.wp = WpEnabled
    BY <2>1 DEF FramesInv
  <2>4. Region(call') = Region(r) /\ outer'.call = call /\ outer'.pc = pc /\ call'.wp = wp
    BY <2>1, <2>2 DEF Region
  <2>5. outer' # NoFrame
    BY <2>1 DEF NoFrame
  <2>6. QED
    BY <2>1, <2>2, <2>3, <2>4, <2>5 DEF FramesInv
<1>3. CASE Resume
  <2>1. /\ outer # NoFrame /\ pc' = outer.pc /\ call' = outer.call /\ outer' = NoFrame
        /\ status' = "Success" /\ wp' = wp
    BY <1>3 DEF Resume
  <2>2. QED
    BY <2>1 DEF FramesInv
<1>4. CASE NoMapping \/ Return
  <2>1. /\ pc \notin {"idle", "dead"} /\ pc' = "idle" /\ wp' = (wp \/ call.wp)
        /\ call' = call /\ outer' = outer
    BY <1>4 DEF NoMapping, Return, InLoop
  <2>2. QED
    BY <1>0, <2>1 DEF FramesInv
<1>5. CASE SplitAsserts \/ ProtectAsserts
  <2>1. pc' = "dead" /\ wp' = wp /\ call' = call /\ outer' = outer
    BY <1>5 DEF SplitAsserts, ProtectAsserts
  <2>2. QED
    BY <2>1 DEF FramesInv
<1>6. CASE \/ SetOrClearSharedBit \/ SplitAllocate \/ Split2MPageTo4K \/ Split1GPageTo2M
           \/ FillDirectory \/ LoopDone \/ SetPageTablePoolReadOnly \/ ProtectAllocate
           \/ ProtectSplit
  <2>1. /\ pc \notin {"idle", "dead"} /\ pc' \notin {"idle", "dead"}
        /\ outer' = outer /\ wp' = wp /\ status' = status
        /\ call' = call \/ call' = [call EXCEPT !.addr = @ + size[call.addr]]
    BY <1>6, SameCall
  <2>2. call'.wp = call.wp /\ Region(call') = Region(call)
    BY <2>1 DEF Region, TypeInv, TypeOK, Call
  <2>3. QED
    BY <2>1, <2>2 DEF FramesInv
<1>7. CASE UNCHANGED vars
  BY <1>7 DEF vars, callVars, FramesInv
<1>8. QED
  BY <1>1, <1>2, <1>3, <1>4, <1>5, <1>6, <1>7 DEF Next, Work

LEMMA CursorStep == TypeInv /\ CursorInv /\ [Next]_vars => CursorInv'
<1> SUFFICES ASSUME TypeInv, CursorInv, [Next]_vars PROVE CursorInv'
  OBVIOUS
<1>0. call.start \in Nat /\ call.addr \in Nat /\ call.end \in Nat
  BY CallType
<1>1. ASSUME NEW r \in Regions, NEW m \in Mode,
             SetMemorySharedOrPrivate(r, m) \/ Notify(r, m)
      PROVE  CursorInv'
  <2>1. Enter(r, m) /\ (outer' = outer \/ (outer'.pc = pc /\ outer'.call = call))
    BY <1>1 DEF SetMemorySharedOrPrivate, Notify
  <2>2. /\ pc' = "loop"
        /\ call' = [start |-> r.start, end |-> r.end, addr |-> r.start, mode |-> m, wp |-> wp]
    BY <2>1, EnterType
  <2>3. r.start <= r.start /\ r.start <= r.end
    BY Constants
  <2>4. QED
    BY <2>1, <2>2, <2>3 DEF CursorInv, Cursor
<1>2. CASE Resume
  <2>1. pc' = outer.pc /\ call' = outer.call /\ outer' = NoFrame
    BY <1>2 DEF Resume
  <2>2. QED
    BY <2>1 DEF CursorInv, Cursor, NoFrame, NoCall
<1>3. CASE NoMapping \/ Return \/ SplitAsserts \/ ProtectAsserts
  <2>1. pc' \in {"idle", "dead"} /\ call' = call /\ outer' = outer
    BY <1>3 DEF NoMapping, Return, SplitAsserts, ProtectAsserts
  <2>2. QED
    BY <2>1 DEF CursorInv, Cursor
<1>4. CASE SetOrClearSharedBit
  <2>1. /\ call'.start = call.start /\ call'.end = call.end
        /\ call'.addr = call.addr + size[call.addr]
        /\ pc = "loop" /\ pc' = pc /\ outer' = outer
    BY <1>4 DEF SetOrClearSharedBit, Mapped, InLoop, TypeInv, TypeOK, Call
  <2>2. call.addr + size[call.addr] <= call.end /\ size[call.addr] \in Nat
    BY <1>4, EntryInRegion
  <2>3. QED
    BY <1>0, <2>1, <2>2 DEF CursorInv, Cursor
<1>5. CASE SplitAllocate \/ Split2MPageTo4K \/ Split1GPageTo2M \/ FillDirectory
  <2>1. pc' \in {"loop", "split", "fill"} /\ call' = call /\ outer' = outer
    BY <1>5 DEF SplitAllocate, Split2MPageTo4K, Split1GPageTo2M, FillDirectory
  <2>2. QED
    BY <2>1 DEF CursorInv, Cursor
<1>6. CASE LoopDone
  <2>1. call.addr >= call.end /\ call' = call /\ outer' = outer
    BY <1>6 DEF LoopDone
  <2>2. QED
    BY <1>0, <2>1 DEF CursorInv, Cursor
<1>7. CASE SetPageTablePoolReadOnly \/ ProtectAllocate \/ ProtectSplit
  <2>1. pc \in {"protect", "protectSplit"} /\ call' = call /\ outer' = outer
    BY <1>7 DEF SetPageTablePoolReadOnly, ProtectAllocate, ProtectSplit
  <2>2. QED
    BY <2>1 DEF CursorInv, Cursor
<1>8. CASE UNCHANGED vars
  BY <1>8 DEF vars, callVars, CursorInv
<1>9. QED
  BY <1>1, <1>2, <1>3, <1>4, <1>5, <1>6, <1>7, <1>8 DEF Next, Work

(* An entry that is looked at for a split.                                 *)
LEMMA DivideOK ==
    ASSUME TypeOK, Coherent, ~raced, NEW p \in Page, NEW small, Divide(p, small),
           NEW l \in {"split", "protectSplit"},
           \/ size[p] = Size2M /\ small = 1
           \/ size[p] = Size1G /\ small = Size2M
    PROVE  SplitOK(size, bit, l, split')
<1>1. split' = [pages |-> Entry(p), bit |-> bit[p], size |-> small]
  BY DEF Divide
<1>2. IsBlock(split'.pages, size[p])
  BY <1>1 DEF IsBlock, Entry
<1>3. \A q \in Entry(p) : size[q] = size[p] /\ bit[q] = bit[p]
  BY Sizes DEF Coherent, Entry
<1>4. Fresh(size, bit, split', size[p])
  BY <1>1, <1>3 DEF Fresh
<1>5. QED
  BY <1>1, <1>2, <1>4 DEF SplitOK

LEMMA UnracedStep == TableInv /\ [Next]_vars /\ ~raced' => Unraced'
<1> SUFFICES ASSUME TableInv, [Next]_vars, ~raced' PROVE Unraced'
  OBVIOUS
<1>0. /\ ~raced /\ Unraced /\ TypeInv /\ TypeOK /\ CursorInv /\ Coherent
      /\ call.start \in Nat /\ call.addr \in Nat /\ call.end \in Nat
  <2>1. TypeInv /\ CursorInv /\ Coherent /\ (~raced => Unraced)
    BY DEF TableInv
  <2>2. ~raced
    BY <2>1, RacedStays
  <2>3. QED
    BY <2>1, <2>2, CallType DEF TypeInv
<1>1. ASSUME NEW r \in Regions, NEW m \in Mode,
             SetMemorySharedOrPrivate(r, m) \/ Notify(r, m)
      PROVE  Unraced'
  <2>1. Enter(r, m)
    BY <1>1 DEF SetMemorySharedOrPrivate, Notify
  <2>2. /\ size' = size /\ bit' = bit /\ pc' = "loop" /\ split' = NoSplit
        /\ call' = [start |-> r.start, end |-> r.end, addr |-> r.start, mode |-> m, wp |-> wp]
    BY <1>0, <2>1, EnterType
  <2>3. Done(bit', pc', call')
    <3>1. call'.start .. call'.addr - 1 = {}
      BY <2>2, NoRegion, Constants
    <3>2. QED
      BY <3>1 DEF Done
  <2>4. SplitOK(size', bit', pc', split')
    BY <2>2 DEF SplitOK
  <2>5. CASE SetMemorySharedOrPrivate(r, m)
    <3>1. outer = NoFrame /\ outer' = NoFrame
      BY <2>5 DEF SetMemorySharedOrPrivate
    <3>2. QED
      BY <1>0, <2>2, <2>3, <2>4, <3>1 DEF Unraced, NoFrame, NoSplit
  <2>6. CASE Notify(r, m)
    <3>1. /\ outer' = [pc |-> pc, call |-> call, pool |-> pool, split |-> split]
          /\ Region(r) \cap split.pages = {}
      BY <1>0, <2>6 DEF Notify
    <3>2. outer'.pc = pc /\ outer'.call = call /\ outer'.split = split
      BY <3>1
    <3>3. Region(call') = Region(r)
      BY <2>2 DEF Region
    <3>4. QED
      BY <1>0, <2>2, <2>3, <2>4, <3>1, <3>2, <3>3 DEF Unraced
  <2>7. QED
    BY <1>1, <2>5, <2>6
<1>2. CASE Resume
  <2>1. /\ pc' = outer.pc /\ call' = outer.call /\ split' = outer.split /\ outer' = NoFrame
        /\ size' = size /\ bit' = bit
    BY <1>2 DEF Resume, tableVars
  <2>2. Done(bit, "idle", NoCall) /\ SplitOK(size, bit, "idle", NoSplit) /\ NoSplit.pages = {}
    BY DEF Done, SplitOK, NoSplit
  <2>3. NoFrame.pc = "idle" /\ NoFrame.call = NoCall /\ NoFrame.split = NoSplit
    BY DEF NoFrame
  <2>4. QED
    BY <1>0, <2>1, <2>2, <2>3 DEF Unraced
<1>3. CASE NoMapping \/ Return \/ SplitAsserts \/ ProtectAsserts \/ LoopDone
           \/ SetPageTablePoolReadOnly
  <2>1. /\ call' = call /\ split' = split /\ outer' = outer
        /\ size' = size /\ bit' = bit
        /\ pc \in {"loop", "protect", "flush"} /\ pc' \in {"idle", "dead", "protect", "flush"}
    BY <1>3 DEF NoMapping, Return, SplitAsserts, ProtectAsserts, LoopDone, InLoop, Mapped,
                Starved, SetPageTablePoolReadOnly, NextPool, tableVars
  <2>2. Done(bit, pc', call) /\ SplitOK(size, bit, pc', split)
    BY <1>0, <2>1 DEF Unraced, Done, SplitOK
  <2>3. QED
    BY <1>0, <2>1, <2>2 DEF Unraced
<1>4. CASE SetOrClearSharedBit
  <2> DEFINE E == Entry(call.addr)
  <2>1. /\ size' = size /\ pc = "loop" /\ pc' = pc /\ split' = split /\ outer' = outer
        /\ \A p \in Page : bit'[p] = IF p \in E THEN call.mode = "SetSharedBit" ELSE bit[p]
    BY <1>4 DEF SetOrClearSharedBit, Mapped, InLoop
  <2>2. /\ call'.start = call.start /\ call'.mode = call.mode /\ call'.end = call.end
        /\ call'.addr = call.addr + size[call.addr]
    BY <1>0, <1>4 DEF SetOrClearSharedBit, TypeOK, Call
  <2>3. size[call.addr] \in Nat
    BY <1>0, <1>4, EntryInRegion
  <2>4. ASSUME NEW p \in Page \cap (call'.start .. call'.addr - 1)
        PROVE  bit'[p] = (call'.mode = "SetSharedBit")
    <3>1. p \in Page /\ p \in Nat /\ call.start <= p /\ p < call.addr + size[call.addr]
      BY <1>0, <2>2, <2>3, <2>4, PageIsNat
    <3>2. CASE p < call.addr
      <4>1. p \in call.start .. call.addr - 1 /\ p \notin E
        BY <1>0, <1>4, <3>1, <3>2, EntryInRegion
      <4>2. bit[p] = (call.mode = "SetSharedBit")
        BY <1>0, <2>1, <3>1, <4>1 DEF Unraced, Done
      <4>3. QED
        BY <2>1, <2>2, <3>1, <4>1, <4>2
    <3>3. CASE call.addr <= p
      <4>1. p \in E
        BY <1>0, <1>4, <3>1, <3>3, EntryInRegion
      <4>2. QED
        BY <2>1, <2>2, <3>1, <4>1
    <3>4. QED
      BY <1>0, <3>1, <3>2, <3>3
  <2>5. Done(bit', pc', call')
    BY <2>4 DEF Done
  <2>6. \A p \in Page : p \in E => p \in Region(call)
    BY <1>0, <1>4, BitInRegion
  <2>7. Done(bit', outer.pc, outer.call)
    <3>1. CASE outer = NoFrame
      BY <3>1 DEF Done, NoFrame
    <3>2. CASE outer # NoFrame
      <4>1. /\ Region(call) \cap Region(outer.call) = {}
            /\ outer.call.start \in Nat /\ outer.call.addr \in Nat /\ outer.call.end \in Nat
            /\ outer.call.addr <= outer.call.end
        BY <1>0, <3>2, CallType DEF TableInv, FramesInv, CursorInv, Cursor
      <4>2. \A p \in Page \cap (outer.call.start .. outer.call.addr - 1) : p \in Region(outer.call)
        BY <4>1 DEF Region
      <4>3. \A p \in Page \cap (outer.call.start .. outer.call.addr - 1) : bit'[p] = bit[p]
        BY <2>1, <2>6, <4>1, <4>2
      <4>4. QED
        BY <1>0, <4>3 DEF Unraced, Done
    <3>3. QED
      BY <3>1, <3>2
  <2>8. SplitOK(size, bit', outer.pc, outer.split)
    <3>1. outer.split.pages \subseteq Page /\ Region(call) \cap outer.split.pages = {}
      BY <1>0 DEF Unraced, TypeOK, SplitRecord
    <3>2. \A q \in outer.split.pages : bit'[q] = bit[q]
      BY <2>1, <2>6, <3>1
    <3>3. QED
      BY <1>0, <3>2 DEF Unraced, SplitOK, Fresh
  <2>9. SplitOK(size, bit', pc, split)
    BY <1>0, <2>1 DEF Unraced, SplitOK
  <2>10. Region(call') = Region(call)
    BY <2>2 DEF Region
  <2>11. QED
    BY <1>0, <2>1, <2>5, <2>7, <2>8, <2>9, <2>10 DEF Unraced
<1>5. CASE SplitAllocate \/ ProtectAllocate
  <2>1. /\ size' = size /\ bit' = bit /\ call' = call /\ outer' = outer
        /\ outer.split = NoSplit
        /\ pc \in {"loop", "protect"} /\ pc' \in {"split", "protectSplit"}
    BY <1>0, <1>5 DEF SplitAllocate, ProtectAllocate, tableVars, Mapped, InLoop
  <2>2. SplitOK(size, bit, pc', split')
    <3>1. CASE SplitAllocate
      <4>1. call.addr \in Page /\ size[call.addr] \in {Size2M, Size1G}
        BY <1>0, <3>1, SplitsLarge DEF SplitAllocate
      <4>2. Divide(call.addr, Smaller(size[call.addr])) /\ pc' = "split"
        BY <3>1 DEF SplitAllocate
      <4>3. \/ size[call.addr] = Size2M /\ Smaller(size[call.addr]) = 1
            \/ size[call.addr] = Size1G /\ Smaller(size[call.addr]) = Size2M
        BY <4>1, Sizes DEF Smaller
      <4>4. QED
        BY <1>0, <4>1, <4>2, <4>3, DivideOK
    <3>2. CASE ProtectAllocate
      <4>1. PoolBase[pool.at] \in Page /\ size[PoolBase[pool.at]] = Size1G
        BY <1>0, <3>2, PoolType DEF ProtectAllocate
      <4>2. Divide(PoolBase[pool.at], Size2M) /\ pc' = "protectSplit"
        BY <3>2 DEF ProtectAllocate
      <4>3. QED
        BY <1>0, <4>1, <4>2, DivideOK
    <3>3. QED
      BY <1>5, <3>1, <3>2
  <2>3. Done(bit, pc', call)
    BY <1>0, <2>1 DEF Unraced, Done
  <2>4. QED
    BY <1>0, <2>1, <2>2, <2>3 DEF Unraced
<1>6. CASE Split2MPageTo4K \/ Split1GPageTo2M \/ FillDirectory \/ ProtectSplit
  <2>1. /\ bit' = bit /\ outer.split = NoSplit
        /\ pc = "split" /\ pc' = "fill" =>
              split.size = Size2M /\ IsBlock(split.pages, Size1G) /\ Fresh(size', bit, split, 0)
    BY <1>0, <1>6, SplitStores
  <2>2. /\ call' = call /\ outer' = outer /\ pc \notin {"idle", "dead"}
        /\ \/ split' = NoSplit /\ pc' \in {"loop", "protect"}
           \/ split' = split /\ pc' = "fill" /\ pc = "split"
    BY <1>6 DEF Split2MPageTo4K, Split1GPageTo2M, FillDirectory, ProtectSplit
  <2>3. SplitOK(size', bit', pc', split')
    BY <2>1, <2>2 DEF SplitOK
  <2>4. SplitOK(size', bit', outer.pc, outer.split)
    <3>1. outer.pc \notin {"split", "protectSplit", "fill"}
      BY <1>0, <2>1, Sizes DEF Unraced, SplitOK, NoSplit
    <3>2. QED
      BY <2>1, <3>1 DEF SplitOK
  <2>5. Done(bit', pc', call')
    BY <1>0, <2>1, <2>2 DEF Unraced, Done
  <2>6. QED
    BY <1>0, <2>1, <2>2, <2>3, <2>4, <2>5 DEF Unraced
<1>7. CASE UNCHANGED vars
  BY <1>0, <1>7 DEF vars, tableVars, callVars, Unraced
<1>8. QED
  BY <1>1, <1>2, <1>3, <1>4, <1>5, <1>6, <1>7 DEF Next, Work

(* The page table changes in five steps only.                              *)
Stores == Split2MPageTo4K \/ Split1GPageTo2M \/ FillDirectory \/ ProtectSplit

LEMMA Quiet ==
    ASSUME TypeInv, Next, ~SetOrClearSharedBit, ~Stores
    PROVE  size' = size /\ bit' = bit /\ gpa' = gpa /\ refused' = refused
<1>1. ASSUME NEW r \in Regions, NEW m \in Mode,
             SetMemorySharedOrPrivate(r, m) \/ Notify(r, m)
      PROVE  size' = size /\ bit' = bit /\ gpa' = gpa /\ refused' = refused
  <2>1. Enter(r, m)
    BY <1>1 DEF SetMemorySharedOrPrivate, Notify
  <2>2. QED
    BY <2>1, EnterType
<1>2. CASE NoMapping \/ SplitAllocate \/ SplitAsserts \/ LoopDone \/ SetPageTablePoolReadOnly
           \/ ProtectAllocate \/ ProtectAsserts \/ Return \/ Resume
  BY <1>2 DEF NoMapping, SplitAllocate, SplitAsserts, LoopDone, SetPageTablePoolReadOnly,
              ProtectAllocate, ProtectAsserts, Return, Resume, tableVars, tdxVars
<1>3. QED
  BY <1>1, <1>2 DEF Next, Work, Stores

LEMMA StoresKeep ==
    ASSUME TableInv, ~raced, Stores
    PROVE  bit' = bit /\ gpa' = gpa /\ refused' = refused /\ Coherent'
<1>1. bit' = bit /\ Coherent'
  BY SplitStores DEF Stores
<1>2. gpa' = gpa /\ refused' = refused
  BY DEF Stores, Split2MPageTo4K, Split1GPageTo2M, FillDirectory, ProtectSplit, tdxVars
<1>3. QED
  BY <1>1, <1>2

LEMMA CoherentStep == TableInv /\ [Next]_vars => Coherent'
<1> SUFFICES ASSUME TableInv, [Next]_vars, ~raced' PROVE Coherent'
  BY DEF Coherent
<1>0. TypeInv /\ TypeOK /\ Coherent /\ ~raced
  BY RacedStays DEF TableInv, TypeInv
<1>1. CASE SetOrClearSharedBit
  <2>1. call.addr \in Page /\ size[call.addr] # 0
    BY <1>0, <1>1, EntryInRegion
  <2>2. ASSUME NEW q \in Page, NEW r \in Page, size[q] > 1, SameEntry(q, r, size[q])
        PROVE  q \in Entry(call.addr) <=> r \in Entry(call.addr)
    BY <1>0, <2>1, <2>2, Disjoint
  <2>3. /\ size' = size
        /\ \A p \in Page : bit'[p] = IF p \in Entry(call.addr) THEN call.mode = "SetSharedBit"
                                     ELSE bit[p]
    BY <1>1 DEF SetOrClearSharedBit
  <2>4. QED
    BY <1>0, <2>2, <2>3 DEF Coherent
<1>2. CASE Stores
  BY <1>0, <1>2, StoresKeep
<1>3. CASE size' = size /\ bit' = bit
  BY <1>0, <1>3 DEF Coherent
<1>4. CASE UNCHANGED vars
  BY <1>3, <1>4 DEF vars, tableVars
<1>5. QED
  BY <1>0, <1>1, <1>2, <1>3, <1>4, Quiet

LEMMA GpaStep == TableInv /\ [Next]_vars => GpaAgrees'
<1> SUFFICES ASSUME TableInv, [Next]_vars, ~raced' PROVE GpaAgrees'
  BY DEF GpaAgrees
<1>0. TypeInv /\ GpaAgrees /\ ~raced
  BY RacedStays DEF TableInv
<1>1. CASE SetOrClearSharedBit
  <2> DEFINE E == Entry(call.addr)
  <2>1. \A p \in Page : bit'[p] = IF p \in E THEN call.mode = "SetSharedBit" ELSE bit[p]
    BY <1>1 DEF SetOrClearSharedBit
  <2>2. Convert(E, call.mode)
    BY <1>1 DEF SetOrClearSharedBit
  <2> HIDE DEF E
  <2>3. QED
    BY <1>0, <2>1, <2>2 DEF Convert, GpaAgrees
<1>2. CASE bit' = bit /\ gpa' = gpa /\ refused' = refused
  BY <1>0, <1>2 DEF GpaAgrees
<1>3. CASE UNCHANGED vars
  BY <1>2, <1>3 DEF vars, tableVars, tdxVars
<1>4. QED
  BY <1>0, <1>1, <1>2, <1>3, Quiet, StoresKeep

LEMMA SuccessStep == TableInv /\ [Next]_vars => SuccessMeansDone'
<1> SUFFICES ASSUME TableInv, [Next]_vars, ~raced', pc' = "idle", status' = "Success"
             PROVE  SuccessMeansDone'
  BY DEF SuccessMeansDone
<1>0. /\ TypeInv /\ Unraced /\ ~raced /\ CursorInv /\ FramesInv /\ SuccessMeansDone
      /\ call.start \in Nat /\ call.addr \in Nat /\ call.end \in Nat
      /\ wp \in BOOLEAN /\ call.wp \in BOOLEAN /\ WpEnabled \in BOOLEAN
  BY RacedStays, CallType, Constants DEF TableInv
<1>1. CASE Return
  <2>1. /\ pc = "flush" /\ stale' = {} /\ wp' = (wp \/ call.wp)
        /\ bit' = bit /\ call' = call /\ outer' = outer
    BY <1>1 DEF Return, tableVars
  <2>2. call.addr = call.end
    BY <1>0, <2>1 DEF CursorInv, Cursor
  <2>3. \A p \in Page \cap Region(call) : bit[p] = (call.mode = "SetSharedBit")
    BY <1>0, <2>1, <2>2 DEF Unraced, Done, Region
  <2>4. (wp \/ call.wp) = (WpEnabled /\ outer = NoFrame)
    BY <1>0, <2>1 DEF FramesInv
  <2>5. QED
    BY <2>1, <2>3, <2>4 DEF SuccessMeansDone
<1>2. CASE UNCHANGED vars
  <2>1. /\ bit' = bit /\ call' = call /\ outer' = outer /\ stale' = stale /\ wp' = wp
        /\ pc' = pc /\ status' = status /\ raced' = raced
    BY <1>2 DEF vars, tableVars, callVars
  <2>2. QED
    BY <1>0, <2>1 DEF SuccessMeansDone
<1>3. CASE Next /\ ~Return
  <2>1. ASSUME NEW r \in Regions, NEW m \in Mode,
               SetMemorySharedOrPrivate(r, m) \/ Notify(r, m)
        PROVE  FALSE
    <3>1. Enter(r, m)
      BY <2>1 DEF SetMemorySharedOrPrivate, Notify
    <3>2. QED
      BY <1>0, <3>1, EnterType
  <2>2. ~Resume
    BY <1>0 DEF Resume, FramesInv
  <2>3. ~NoMapping /\ ~SplitAsserts /\ ~ProtectAsserts
    BY DEF NoMapping, SplitAsserts, ProtectAsserts
  <2>4. QED
    BY <1>3, <2>1, <2>2, <2>3, SameCall DEF Next, Work
<1>4. QED
  BY <1>1, <1>2, <1>3

LEMMA TableStep == TableInv /\ [Next]_vars => TableInv'
<1>1. TableInv => TypeInv /\ CursorInv /\ FramesInv
  BY DEF TableInv
<1>2. QED
  BY <1>1, TypeStep, CursorStep, FramesStep, UnracedStep, CoherentStep, GpaStep, SuccessStep
     DEF TableInv

LEMMA TableInvariant == Spec => []TableInv
  BY InitTable, TableStep, PTL DEF Spec

\* However a region cuts the 1GB and 2MB entries, whatever was split before and
\* wherever notifications convert memory, as long as none does so within a split
\* of the entry that maps it or splits an entry within a split: the pages of one
\* entry agree on its size and its shared bit, so that Split1GPageTo2M and
\* Split2MPageTo4K lose nothing.
THEOREM EntriesAgree == Spec => []Coherent
<1>1. TableInv => Coherent
  BY DEF TableInv
<1>2. QED
  BY <1>1, TableInvariant, PTL

\* On the same condition the page table and the TDX module agree on which pages
\* are shared, but for pages whose MapGPA or TDACCEPTPAGE failed unnoticed.
THEOREM ModuleAgrees == Spec => []GpaAgrees
<1>1. TableInv => GpaAgrees
  BY DEF TableInv
<1>2. QED
  BY <1>1, TableInvariant, PTL

\* On the same condition RETURN_SUCCESS means that the whole region is converted,
\* the TLB flushed and the write protection restored, by the outermost call.
THEOREM Converted == Spec => []SuccessMeansDone
<1>1. TableInv => SuccessMeansDone
  BY DEF TableInv
<1>2. QED
  BY <1>1, TableInvariant, PTL

\* On the same condition no page outside the region of a call becomes shared or
\* private by it, though it rewrites entries that map such pages, and what it has
\* read of them may be older than a notification.
THEOREM RegionOnly == Spec => OnlyTheRegion
<1>1. TableInv /\ [Next]_vars =>
         [~raced => \A p \in Page : bit'[p] # bit[p] => p \in Region(call)]_vars
  <2> SUFFICES ASSUME TableInv, Next, ~raced, NEW p \in Page, bit'[p] # bit[p]
               PROVE  p \in Region(call)
    OBVIOUS
  <2>0. TypeInv /\ CursorInv
    BY DEF TableInv
  <2>1. SetOrClearSharedBit
    BY <2>0, StoresKeep, Quiet
  <2>2. p \in Entry(call.addr)
    BY <2>1 DEF SetOrClearSharedBit
  <2>3. QED
    BY <2>0, <2>1, <2>2, BitInRegion
<1>2. QED
  BY <1>1, TableInvariant, PTL DEF Spec, OnlyTheRegion

-----------------------------------------------------------------------------
(* Why the loops end, and when they do not.                                *)

LEMMA SmallerIsSmaller ==
    Smaller(Size1G) = Size2M /\ Smaller(Size2M) = 1 /\ Size2M < Size1G /\ 1 < Size2M
<1>1. Size2M \in Nat /\ Size2M >= 2 /\ Per1G \in Nat /\ Per1G >= 2
  BY PageTableAssumption
<1>2. Size2M * 2 <= Size2M * Per1G /\ Size2M * Per1G = Size1G /\ Size1G \in Nat
  BY <1>1, Product, Sizes
<1>3. QED
  BY <1>1, <1>2 DEF Smaller

(* The size the entry at the cursor has, or will have when it is split,    *)
(* and the stores that are left until then.                                *)
EntryLeft == IF pc = "loop" THEN size[call.addr] ELSE split.size
StoresLeft == IF pc = "split" THEN 2 ELSE IF pc = "fill" THEN 1 ELSE 0

\* Each step of the loop of SetMemorySharedOrPrivate that leaves it in the loop
\* brings it nearer to its end: the cursor moves on, and not past the end of
\* the region, or the entry at the cursor is to become smaller, or there are
\* fewer stores left until it is.  The triple decreases lexicographically, in
\* all steps of the call itself, from one interruption to the next.
THEOREM LoopGoesOn ==
    Spec => [][{pc, pc'} \subseteq {"loop", "split", "fill"} /\ outer' = outer =>
                  \/ /\ call.addr < call'.addr
                     /\ call'.addr <= call'.end
                     /\ call'.end = call.end
                  \/ call' = call /\ EntryLeft' < EntryLeft
                  \/ call' = call /\ EntryLeft' = EntryLeft /\ StoresLeft' < StoresLeft]_vars
<1> DEFINE Inside == {pc, pc'} \subseteq {"loop", "split", "fill"} /\ outer' = outer
           Nearer == \/ /\ call.addr < call'.addr
                        /\ call'.addr <= call'.end
                        /\ call'.end = call.end
                     \/ call' = call /\ EntryLeft' < EntryLeft
                     \/ call' = call /\ EntryLeft' = EntryLeft /\ StoresLeft' < StoresLeft
<1>1. ASSUME TypeInv, Next, Inside PROVE Nearer
  <2>1. \/ SetOrClearSharedBit \/ SplitAllocate
        \/ Split2MPageTo4K \/ Split1GPageTo2M \/ FillDirectory
    <3>1. ASSUME NEW r \in Regions, NEW m \in Mode PROVE ~Notify(r, m)
      <4>1. SUFFICES ASSUME Notify(r, m) PROVE FALSE
        OBVIOUS
      <4>2. outer = NoFrame /\ outer'.pc = pc
        BY <4>1 DEF Notify
      <4>3. QED
        BY <1>1, <4>2 DEF NoFrame
    <3>2. QED
      BY <1>1, <3>1 DEF Next, Work, SetMemorySharedOrPrivate, NoMapping, SplitAsserts, LoopDone,
                        SetPageTablePoolReadOnly, ProtectAllocate, ProtectSplit,
                        ProtectAsserts, Return, Resume
  <2>2. CASE SetOrClearSharedBit
    <3>1. call'.addr = call.addr + size[call.addr] /\ call'.end = call.end
      BY <1>1, <2>2 DEF SetOrClearSharedBit, TypeInv, TypeOK, Call
    <3>2. call.addr + size[call.addr] <= call.end /\ size[call.addr] \in Nat \ {0}
      BY <1>1, <2>2, EntryInRegion
    <3>3. call.addr \in Nat /\ call.end \in Nat
      BY <1>1, CallType
    <3>4. QED
      BY <3>1, <3>2, <3>3
  <2>3. CASE SplitAllocate
    <3>1. /\ call.addr \in Page /\ size[call.addr] \in {Size2M, Size1G} /\ call' = call
          /\ pc = "loop" /\ pc' = "split" /\ split'.size = Smaller(size[call.addr])
      BY <1>1, <2>3, SplitsLarge DEF SplitAllocate, Divide, TypeInv, Mapped, InLoop
    <3>2. split'.size < size[call.addr]
      BY <3>1, SmallerIsSmaller
    <3>3. QED
      BY <3>1, <3>2 DEF EntryLeft
  <2>4. CASE Split2MPageTo4K \/ FillDirectory
    <3>1. /\ call' = call /\ pc \in {"split", "fill"} /\ pc' = "loop"
          /\ call.addr \in split.pages /\ call.addr \in Page
          /\ size' = [q \in Page |-> IF q \in split.pages THEN split.size ELSE size[q]]
      BY <1>1, <2>4
         DEF Split2MPageTo4K, FillDirectory, Split, TypeInv, TypeOK, SplitRecord, Running, FrameOK
    <3>2. size'[call.addr] = split.size
      BY <3>1
    <3>3. QED
      BY <3>1, <3>2 DEF EntryLeft, StoresLeft
  <2>5. CASE Split1GPageTo2M
    BY <2>5 DEF Split1GPageTo2M, EntryLeft, StoresLeft
  <2>6. QED
    BY <2>1, <2>2, <2>3, <2>4, <2>5
<1> HIDE DEF Inside, Nearer
<1>2. TypeInv /\ [Next]_vars =>
         [{pc, pc'} \subseteq {"loop", "split", "fill"} /\ outer' = outer =>
             \/ /\ call.addr < call'.addr
                /\ call'.addr <= call'.end
                /\ call'.end = call.end
             \/ call' = call /\ EntryLeft' < EntryLeft
             \/ call' = call /\ EntryLeft' = EntryLeft /\ StoresLeft' < StoresLeft]_vars
  BY <1>1, Zenon DEF Inside, Nearer
<1>3. QED
  BY <1>2, InitType, TypeStep, PTL DEF Spec

(* EnablePageTableProtection is between the pool it started from and that  *)
(* pool, the pools that are allocated on the way included.                 *)
PoolsLeft ==
    IF pool.at >= pool.head THEN Len(PoolBase) - pool.at + pool.head
    ELSE pool.head - pool.at

\* The walk of EnablePageTableProtection around the ring of the pools ends, also
\* when it or a notification puts new pools into the ring while it is on its way:
\* every step of its own that does not end it leaves fewer pools ahead, or splits
\* the 1GB entry of the pool it is at, which then has an entry of 2MB.
THEOREM ProtectGoesOn ==
    Spec => [][{pc, pc'} \subseteq {"protect", "protectSplit"} /\ outer' = outer =>
                  \/ PoolsLeft \in Nat /\ PoolsLeft' \in Nat /\ PoolsLeft' < PoolsLeft
                  \/ /\ pool' = pool /\ size[PoolBase[pool.at]] = Size1G
                     /\ pc = "protect" /\ pc' = "protectSplit"
                  \/ /\ pool' = pool /\ size'[PoolBase[pool.at]] = Size2M
                     /\ pc = "protectSplit" /\ pc' = "protect"]_vars
<1> DEFINE Inside == {pc, pc'} \subseteq {"protect", "protectSplit"} /\ outer' = outer
           Nearer == \/ PoolsLeft \in Nat /\ PoolsLeft' \in Nat /\ PoolsLeft' < PoolsLeft
                     \/ /\ pool' = pool /\ size[PoolBase[pool.at]] = Size1G
                        /\ pc = "protect" /\ pc' = "protectSplit"
                     \/ /\ pool' = pool /\ size'[PoolBase[pool.at]] = Size2M
                        /\ pc = "protectSplit" /\ pc' = "protect"
<1>1. ASSUME TypeInv, Next, Inside PROVE Nearer
  <2>1. SetPageTablePoolReadOnly \/ ProtectAllocate \/ ProtectSplit
    BY <1>1 DEF Next, Work, SetMemorySharedOrPrivate, Notify, Enter, NoMapping,
                SetOrClearSharedBit, SplitAllocate, Split2MPageTo4K, Split1GPageTo2M,
                FillDirectory, SplitAsserts, LoopDone, ProtectAsserts, Return, Resume, Mapped,
                InLoop, Starved
  <2>2. /\ pools \in Nat /\ pool.at \in Nat /\ pool.head \in Nat /\ Len(PoolBase) \in Nat
        /\ pool.at <= pools /\ pools <= Len(PoolBase)
        /\ pool.at > 0 /\ pool.head > 0 /\ pool.head <= pools
        /\ PoolBase[pool.at] \in Page
    BY <1>1, PoolType, Constants
  <2>3. CASE ProtectAllocate
    BY <2>3 DEF ProtectAllocate
  <2>4. CASE ProtectSplit
    <3>1. /\ PoolBase[pool.at] \in split.pages /\ pool' = pool
          /\ pc = "protectSplit" /\ pc' = "protect"
          /\ size' = [q \in Page |-> IF q \in split.pages THEN Size2M ELSE size[q]]
      BY <1>1, <2>4 DEF ProtectSplit, Split, TypeInv, Running, FrameOK
    <3>2. QED
      BY <2>2, <3>1
  <2>5. CASE SetPageTablePoolReadOnly
    <3> DEFINE next == IF pool.at = pools THEN 1 ELSE pool.at + 1
    <3>1. next # pool.head /\ pool' = [pool EXCEPT !.at = next]
      BY <1>1, <2>5 DEF SetPageTablePoolReadOnly, NextPool
    <3>2. pool'.at = next /\ pool'.head = pool.head
      BY <1>1, <3>1 DEF TypeInv, TypeOK, Pool
    <3>3. PoolsLeft \in Nat
      BY <2>2, SMTT(40) DEF PoolsLeft
    <3>4. CASE pool.at = pools
      <4>1. pool'.at = 1 /\ 1 < pool.head
        BY <2>2, <3>1, <3>2, <3>4
      <4>2. PoolsLeft' = pool.head - 1
        BY <2>2, <3>2, <4>1 DEF PoolsLeft
      <4>3. PoolsLeft = Len(PoolBase) - pool.at + pool.head
        BY <2>2, <3>4 DEF PoolsLeft
      <4>4. QED
        BY <2>2, <3>3, <4>2, <4>3, SMTT(40)
    <3>5. CASE pool.at # pools
      <4>1. pool'.at = pool.at + 1 /\ pool.at + 1 # pool.head /\ pool.at + 1 <= Len(PoolBase)
        BY <2>2, <3>1, <3>2, <3>5
      <4>2. CASE pool.at >= pool.head
        <5>1. PoolsLeft = Len(PoolBase) - pool.at + pool.head
          BY <4>2 DEF PoolsLeft
        <5>2. pool'.at >= pool'.head
          BY <2>2, <3>2, <4>1, <4>2
        <5>3. PoolsLeft' = Len(PoolBase) - (pool.at + 1) + pool.head
          BY <3>2, <4>1, <5>2 DEF PoolsLeft
        <5>4. QED
          BY <2>2, <4>1, <5>1, <5>3, SMTT(40)
      <4>3. CASE pool.at < pool.head
        <5>1. PoolsLeft = pool.head - pool.at
          BY <2>2, <4>3 DEF PoolsLeft
        <5>2. ~(pool'.at >= pool'.head) /\ pool.at + 1 < pool.head
          BY <2>2, <3>2, <4>1, <4>3
        <5>3. PoolsLeft' = pool.head - (pool.at + 1)
          BY <3>2, <4>1, <5>2 DEF PoolsLeft
        <5>4. QED
          BY <2>2, <5>1, <5>2, <5>3, SMTT(40)
      <4>4. QED
        BY <2>2, <4>2, <4>3
    <3>6. QED
      BY <3>4, <3>5
  <2>6. QED
    BY <2>1, <2>3, <2>4, <2>5
<1> HIDE DEF Inside, Nearer
<1>2. TypeInv /\ [Next]_vars =>
         [{pc, pc'} \subseteq {"protect", "protectSplit"} /\ outer' = outer =>
             \/ PoolsLeft \in Nat /\ PoolsLeft' \in Nat /\ PoolsLeft' < PoolsLeft
             \/ /\ pool' = pool /\ size[PoolBase[pool.at]] = Size1G
                /\ pc = "protect" /\ pc' = "protectSplit"
             \/ /\ pool' = pool /\ size'[PoolBase[pool.at]] = Size2M
                /\ pc = "protectSplit" /\ pc' = "protect"]_vars
  BY <1>1, Zenon DEF Inside, Nearer
<1>3. QED
  BY <1>2, InitType, TypeStep, PTL DEF Spec

\* The one case in which a call does not return: with no memory for a table the
\* loop stays at its entry, whatever steps the call takes: it frees no table.
\* Only a notification can help it, or the ASSERT of Split2MPageTo4K stops the
\* CPU.
THEOREM StarvedForEver ==
    Spec => [][Starved /\ outer' = outer => Starved' \/ pc' = "dead"]_vars
<1>1. ASSUME TypeInv, Starved, Next, outer' = outer PROVE pc' = "dead"
  <2>1. pc = "loop" /\ call.addr < call.end /\ call.addr \in Page /\ size[call.addr] # 0
    BY <1>1 DEF Starved, Mapped, InLoop
  <2>2. call.addr \in Nat /\ call.end \in Nat
    BY <1>1, CallType
  <2>3. ~SetOrClearSharedBit /\ ~SplitAllocate
    BY <1>1 DEF Starved, SetOrClearSharedBit, SplitAllocate, AllocatePageTableMemory
  <2>4. ~NoMapping
    BY <2>1 DEF NoMapping
  <2>5. ~LoopDone
    <3>1. ~(call.addr >= call.end)
      BY <2>1, <2>2
    <3>2. QED
      BY <3>1 DEF LoopDone
  <2>6. ASSUME NEW r \in Regions, NEW m \in Mode PROVE ~Notify(r, m)
    <3>1. SUFFICES ASSUME Notify(r, m) PROVE FALSE
      OBVIOUS
    <3>2. outer = NoFrame /\ outer'.pc = pc
      BY <3>1 DEF Notify
    <3>3. QED
      BY <1>1, <2>1, <3>2 DEF NoFrame
  <2>7. SplitAsserts
    BY <1>1, <2>1, <2>3, <2>4, <2>5, <2>6
       DEF Next, Work, SetMemorySharedOrPrivate, Split2MPageTo4K, Split1GPageTo2M, FillDirectory,
           SetPageTablePoolReadOnly, ProtectAllocate, ProtectSplit, ProtectAsserts, Return, Resume
  <2>8. QED
    BY <2>7 DEF SplitAsserts
<1>2. TypeInv /\ [Next]_vars => [Starved /\ outer' = outer => Starved' \/ pc' = "dead"]_vars
  BY <1>1
<1>3. QED
  BY <1>2, InitType, TypeStep, PTL DEF Spec
=============================================================================
