---------------------------- MODULE MCOwnership -----------------------------
(* A profile with two threads, one of them of a method that calls itself;  *)
(* a new profile with a thread that the program has made; and a thread     *)
(* that has been moved from a profile to another. Then what is left by a   *)
(* call above the start that replaces the tree recorded before, in its own *)
(* profile and in another, and by merging two threads with a call of m1    *)
(* and m2 by themselves, c4 being the copy of c3, when the second has been *)
(* moved to another profile. Measurements and lists of methods that would  *)
(* only show more of the same are left out.                                *)
EXTENDS Lifetimes

CONSTANTS p, q, t1, m1, l1, r1, c1, k1, n1, t2, m2, l2, r2, t3, m0, m3, l3, r3, c3, x3, y3, c4, a, ka, kb

ThreadOf(tree, methods) ==
  [Structure("Thread") EXCEPT !.call_tree = tree, !.methods = methods]
MethodOf(profile, list) ==
  [Structure("Method") EXCEPT !.profile = profile, !.call_trees = list]
ListOf(trees) == [Structure("CallTrees") EXCEPT !.list = trees]
TreeOf(method, parent, children, k) ==
  [Structure("CallTree") EXCEPT !.method = method, !.parent = parent,
                                !.children = children, !.measurement = k]
HeldProfile(threads) ==
  p :> [Structure("Profile") EXCEPT !.threads = threads, !.object = TRUE]

First(profile, k) ==
  (m1 :> MethodOf(profile, l1)) @@ (l1 :> ListOf({r1, c1}))
    @@ (r1 :> TreeOf(m1, NULL, {c1}, NULL)) @@ (c1 :> TreeOf(m1, r1, {}, k))

Built ==
  HeldProfile({}) @@ First(NULL, k1) @@ (k1 :> Structure("Measurement"))
    @@ (t1 :> [ThreadOf(r1, {m1}) EXCEPT !.object = TRUE, !.owner = "Ruby"])

Second(list, children) ==
  (t2 :> ThreadOf(r2, {m2})) @@ (m2 :> MethodOf(p, list))
    @@ (r2 :> TreeOf(m2, NULL, children, NULL))

Recorded ==
  HeldProfile({t1, t2}) @@ (m1 :> [MethodOf(p, l1) EXCEPT !.allocations = {n1}])
    @@ (n1 :> Structure("Allocation")) @@ First(p, NULL)
    @@ (t1 :> ThreadOf(r1, {m1})) @@ Second(NULL, {})

Moved ==
  HeldProfile({}) @@ Second(l2, {}) @@ (l2 :> ListOf({r2}))
    @@ (q :> [Structure("Profile") EXCEPT !.threads = {t2}, !.object = TRUE])

Climbed(profile, below) ==
  (t3 :> ThreadOf(r3, {m0, m3})) @@ (m0 :> MethodOf(profile, NULL))
    @@ (m3 :> MethodOf(profile, l3)) @@ (l3 :> ListOf({x3, c3} \cup below))
    @@ (r3 :> TreeOf(m0, NULL, {c3}, NULL)) @@ (c3 :> TreeOf(m3, r3, {}, NULL))
    @@ (x3 :> TreeOf(m3, r3, below, NULL))

Replacing ==
  HeldProfile({t3}) @@ Climbed(p, {y3}) @@ (y3 :> TreeOf(m3, x3, {}, NULL))

MovedOn ==
  HeldProfile({}) @@ Climbed(p, {})
    @@ (q :> [Structure("Profile") EXCEPT !.threads = {t3}, !.object = TRUE])

Merging ==
  HeldProfile({t1}) @@ (t1 :> ThreadOf(r1, {m1})) @@ (m1 :> MethodOf(p, l1))
    @@ (l1 :> ListOf({r1, c4})) @@ (r1 :> TreeOf(m1, NULL, {c4}, NULL))
    @@ (c4 :> TreeOf(m1, r2, {}, NULL))
    @@ Second(NULL, {c3}) @@ (c3 :> TreeOf(m2, r2, {}, NULL))
    @@ (q :> [Structure("Profile") EXCEPT !.threads = {t2}, !.object = TRUE])

AllWorlds == {Recorded, Built, Moved, Replacing, MovedOn, Merging}
RecordedWorld == {Recorded}
OneCopy == {[call_tree |-> a, measurement |-> ka]}
OneDuplicate == {kb}
=============================================================================
