----------------------------- MODULE MCMarshal ------------------------------
(* Every tree of up to four call trees over three methods; a larger one in *)
(* which two methods call each other; and one without any recursion.       *)
EXTENDS MarshalGraph

CONSTANTS root, one, two, left, right, deep

Methods == {root, one, two}
T(p, k) == [parent |-> p, method |-> k]

SmallTrees(size) ==
  {t \in [1 .. size -> [parent : 0 .. size - 1, method : Methods]] :
     /\ t[1] = T(0, root)
     /\ \A n \in 2 .. size : t[n].parent \in 1 .. n - 1
     /\ \A m, n \in 1 .. size : m # n => t[m] # t[n]}

(* one, then root calling one calling two, then two calling one and two.   *)
Mutual ==
  <<T(0, root), T(1, one), T(1, root), T(3, one), T(4, two),
    T(1, two), T(6, one), T(6, two)>>

(* one; left calls one, which calls two; right calls two and then deep,    *)
(* which calls one and two.                                                *)
Crossing ==
  <<T(0, root), T(1, one), T(1, left), T(3, one), T(4, two),
    T(1, right), T(6, two), T(6, deep), T(8, one), T(8, two)>>

LargeTrees == {Mutual, Crossing}
AllTrees == SmallTrees(2) \cup SmallTrees(3) \cup SmallTrees(4) \cup LargeTrees
OneTree == {Crossing}
=============================================================================
