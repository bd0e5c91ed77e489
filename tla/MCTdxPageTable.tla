---------------------------- MODULE MCTdxPageTable ----------------------------
(* Instance of TdxPageTable: two 1GB entries of two 2MB entries of two     *)
(* pages; callers convert memory of the first, the pools are in the second *)
(* and give one table each.                                                *)
EXTENDS TdxPageTable

(* 1GB pages; 2MB pages, also with a hole; pools in 2MB and in 4KB pages.  *)
Large == [p \in 0 .. 7 |-> 4]
Twos == [p \in 0 .. 7 |-> 2]
Hole == [p \in 0 .. 7 |-> IF p < 2 THEN 2 ELSE IF p < 4 THEN 0 ELSE 4]
Mixed == [p \in 0 .. 7 |-> IF p < 4 THEN 4 ELSE IF p < 6 THEN 2 ELSE 1]

MCLayouts == {Large, Twos, Hole, Mixed}
MCLayoutsTwos == {Twos}
MCRegions == {[start |-> 0, end |-> 4], [start |-> 1, end |-> 3], [start |-> 1, end |-> 2],
              [start |-> 0, end |-> 1]}

(* Also a page of the memory that becomes the second pool.                 *)
MCRegionsPool == {[start |-> 1, end |-> 2], [start |-> 6, end |-> 7]}
MCPoolBase == <<4, 6>>
=============================================================================
