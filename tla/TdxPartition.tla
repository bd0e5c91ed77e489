----------------------------- MODULE TdxPartition -----------------------------
(***************************************************************************)
(* How MpAcceptMemoryResourceRange cuts a range of physical memory into    *)
(* three parts, and how the CPUs share the second one in chunks.           *)
(*                                                                         *)
(* Addresses and lengths count 4KB pages.  A range is a record             *)
(* [start, end] with end exclusive.                                        *)
(***************************************************************************)
EXTENDS Integers

CONSTANTS
    Big,            \* 4KB pages in a 2MB page (512 in the code)
    ChunkSize,      \* PcdTdxAcceptChunkSize, in pages
    AcceptPageSize  \* PcdTdxAcceptPageSize, in pages: 1 (4KB) or Big (2MB)

(* The default chunk is 32MB.  BspAcceptMemoryResourceRange strides over   *)
(* the chunks of the other CPUs even in the parts it handles alone, so a   *)
(* chunk has to hold them: part 1 is shorter than two 2MB pages.           *)
ASSUME PartitionAssumption ==
    /\ Big \in Nat \ {0, 1}
    /\ AcceptPageSize \in {1, Big}
    /\ ChunkSize \in Nat
    /\ ChunkSize % Big = 0
    /\ ChunkSize >= 2 * Big

(* Lines 121-131: everything is accepted in 4KB pages by all CPUs.         *)
AllSmall(start, end) == AcceptPageSize = 1 \/ end - start <= Big

(* TotalLength & ~ALIGNED_2MB_MASK                                         *)
RoundDown(n) == n - (n % Big)

(* Length1 .. Length3 of lines 132-175; the three parts are consecutive.   *)
Length1(start, end) ==
    IF AllSmall(start, end) \/ start % Big = 0 THEN 0
    ELSE LET head == Big - (start % Big)
         IN  IF end - start - head < Big THEN end - start ELSE head

Length2(start, end) ==
    IF AllSmall(start, end) THEN end - start
    ELSE RoundDown(end - start - Length1(start, end))

Length3(start, end) ==
    end - start - Length1(start, end) - Length2(start, end)

PageSize2(start, end) == IF AllSmall(start, end) THEN 1 ELSE AcceptPageSize

Part1(start, end) ==
    [start |-> start, end |-> start + Length1(start, end), size |-> 1]

Part2(start, end) ==
    LET s == start + Length1(start, end)
    IN  [start |-> s, end |-> s + Length2(start, end),
         size |-> PageSize2(start, end)]

Part3(start, end) ==
    LET s == start + Length1(start, end) + Length2(start, end)
    IN  [start |-> s, end |-> end, size |-> 1]

-----------------------------------------------------------------------------
(* A CPU's place in the part it accepts: the chunk it is in, the page that *)
(* is next, the pages left of the chunk, and the 4KB pages left of a 2MB   *)
(* page that is being accepted in 4KB pages.                               *)
Cursor == [base : Nat, addr : Nat, left : Nat, fallback : Nat]

\* Mutant: the last chunk is not cut at the end of the range.
ChunkNotCut(base, end, chunk) ==
    [base |-> base, addr |-> base,
     left |-> IF base >= end THEN 0 ELSE chunk, fallback |-> 0]

(* Size = MIN (ChunkSize, PhysicalEnd - PhysicalAddress)                   *)
ChunkAt(base, end, chunk) ==
    [base |-> base,
     addr |-> base,
     left |-> IF base >= end THEN 0
              ELSE IF end - base < chunk THEN end - base ELSE chunk,
     fallback |-> 0]

(* The page size of the next TDACCEPTPAGE of a cursor.                     *)
Level(c, size) == IF c.fallback > 0 THEN 1 ELSE size

\* Mutant: the end of the chunk is not looked for after a fall back.
AdvanceTooFar(c, size, end, chunk, stride) ==
    LET done == IF c.fallback = 0 THEN size
                ELSE IF c.fallback = 1 THEN Big ELSE 0
    IN  IF c.fallback = 0 /\ c.left = done
        THEN ChunkAt(c.base + stride, end, chunk)
        ELSE [base |-> c.base,
              addr |-> c.addr + Level(c, size),
              left |-> c.left - done,
              fallback |-> IF c.fallback = 0 THEN 0 ELSE c.fallback - 1]

(* The cursor after a page has been accepted (or was so already): on to    *)
(* the next page, or over the chunks of the other CPUs to the next chunk.  *)
Advance(c, size, end, chunk, stride) ==
    LET done == IF c.fallback = 0 THEN size
                ELSE IF c.fallback = 1 THEN Big ELSE 0
    IN  IF c.left = done
        THEN ChunkAt(c.base + stride, end, chunk)
        ELSE [base |-> c.base,
              addr |-> c.addr + Level(c, size),
              left |-> c.left - done,
              fallback |-> IF c.fallback = 0 THEN 0 ELSE c.fallback - 1]

\* Mutant: the fall back loop runs one time too few.
FallBackOneShort(c) == [c EXCEPT !.fallback = Big - 1]

(* The cursor after a 2MB page turned out to be mapped in 4KB pages.       *)
FallBack(c) == [c EXCEPT !.fallback = Big]

-----------------------------------------------------------------------------
(* The pages a cursor still has ahead of it.                               *)
Remaining(c, end, chunk, cpus) ==
    {p \in c.addr .. end - 1 : \/ p < c.base + chunk
                               \/ ((p - c.base) \div chunk) % cpus = 0}
=============================================================================
