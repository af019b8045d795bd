------------------------------ MODULE MCMerge -------------------------------
(* Instances of Merge for TLC. *)
EXTENDS MergeShape

CONSTANTS a, b

(* The trees of a root method and two levels of callees. *)
Callees(root) == {<<root, k>> : k \in {a, b}}
Deeper(p) == {Append(p, k) : k \in {a, b}}
TreesOf(root) ==
  {{<<root>>} \cup first \cup second :
     first \in SUBSET Callees(root), second \in SUBSET UNION {Deeper(p) : p \in Callees(root)}}
IsTree(paths) == \A p \in paths : Len(p) > 1 => FrontOf(p) \in paths
Trees == {t \in TreesOf(a) \cup TreesOf(b) : IsTree(t)}

(* Every node was called once and has 4^f as self and wait time, so that    *)
(* sums tell which threads they are made of.                                *)
Under(p, paths) == {q \in paths : Len(q) >= Len(p) /\ SubSeq(q, 1, Len(p)) = p}
ResultOf(paths, f) ==
  [p \in paths |->
     [x \in Measurement |->
        CASE x = "called"     -> 1
          [] x = "total_time" -> 2 * 4^f * Cardinality(Under(p, paths))
          [] OTHER            -> 4^f]]

(* Two threads have up to MaxNodes nodes, the first of them has root a, and *)
(* a third thread has a root only.                                          *)
CONSTANT MaxNodes

Small == {t \in Trees : Cardinality(t) <= MaxNodes}
TreesOfThreads ==
  {<<t, u, {<<k>>}>> : t \in Small \cap TreesOf(a), u \in Small, k \in {a, b}}
SmallResults == {[f \in Fibers |-> ResultOf(ts[f], f)] : ts \in TreesOfThreads}
=============================================================================
