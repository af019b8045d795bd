------------------------------ MODULE MergeShape ------------------------------
(* What holds of the results before and after they are merged: the tree of  *)
(* a thread and the methods' own view of it through callers and callees.    *)
EXTENDS Merge

(* The places of the tree below a node: pairs of a path and the node there. *)
RECURSIVE Below(_, _)
Below(n, path) ==
  {<<path, n>>} \cup
  UNION {Below(nodes[n].children[k], Append(path, k)) : k \in DOMAIN nodes[n].children}

Places(f) == Below(threads[f].call_tree, <<Target(f)>>)

MethodOf(f, k) == methods[threads[f].method_table[k]]
ParentKey(n) == methods[nodes[nodes[n].parent].method].key
Measured(n) == nodes[n].measurement

-----------------------------------------------------------------------------
(* RubyProf::CallTrees: the nodes of a method by caller and by callee.      *)

Called(m) == {n \in m.call_trees : nodes[n].parent # NULL}

callers(m) ==
  [k \in {ParentKey(n) : n \in Called(m)} |->
     SumOf({n \in Called(m) : ParentKey(n) = k}, Measured)]

ChildKeys(m) == UNION {DOMAIN nodes[n].children : n \in m.call_trees}

callees(m) ==
  [k \in ChildKeys(m) |->
     SumOf({nodes[n].children[k] : n \in {c \in m.call_trees : k \in DOMAIN nodes[c].children}},
           Measured)]

RECURSIVE figure_depth(_)
figure_depth(n) ==
  IF nodes[n].parent = NULL THEN 0 ELSE 1 + figure_depth(nodes[n].parent)

min_depth(m) == Min({figure_depth(n) : n \in m.call_trees})

-----------------------------------------------------------------------------
(* Type invariant: results, caches and the work of merge! have their types. *)
TypeOK ==
  /\ \A n \in DOMAIN nodes :
       /\ nodes[n].method \in DOMAIN methods
       /\ nodes[n].parent \in DOMAIN nodes \cup {NULL}
       /\ nodes[n].measurement \in [Measurement -> Nat]
  /\ \A m \in DOMAIN methods :
       /\ methods[m].measurement \in [Measurement -> Nat]
       /\ methods[m].recursive \in BOOLEAN
  /\ Listed \subseteq Fibers /\ Cardinality(Listed) = Len(threads_tbl)
  /\ merging \in BOOLEAN /\ (~merging => todo = <<>>)
  /\ calls \in 0..MaxCalls

(* Every node of a thread's tree is of the thread's own entry for its       *)
(* method, and the methods list exactly the nodes of the tree               *)
(* (rp_call_tree.c:383-395).                                                *)
MethodsListTheirCallTrees ==
  \A f \in Fibers :
    /\ \A place \in Places(f) :
         nodes[place[2]].method = threads[f].method_table[LastOf(place[1])]
    /\ \A k \in DOMAIN threads[f].method_table :
         MethodOf(f, k).call_trees =
           {place[2] : place \in {q \in Places(f) : LastOf(q[1]) = k}}

(* The call graph is the same from both sides: what a method reports of a   *)
(* callee is what the callee reports of this caller                         *)
(* (prof_call_trees_callers, prof_call_trees_callees).                      *)
GraphFromBothSides ==
  \A f \in Fibers : \A j, k \in DOMAIN threads[f].method_table :
    LET down == callees(MethodOf(f, j))  up == callers(MethodOf(f, k)) IN
    /\ k \in DOMAIN down <=> j \in DOMAIN up
    /\ k \in DOMAIN down => down[k] = up[j]

(* The calls and the self and wait time of a method are those of its call   *)
(* trees, by caller and in the root (prof_call_trees_callers against        *)
(* prof_method_table_merge).                                                *)
CallersAccountForCalls ==
  \A f \in Fibers : \A k \in DOMAIN threads[f].method_table :
    LET up == callers(MethodOf(f, k))
        root == IF Target(f) = k THEN Measured(threads[f].call_tree) ELSE Nothing
        sum == prof_measurement_merge(root, SumOf(DOMAIN up, LAMBDA c : up[c]))
    IN \A x \in Measurement \ {"total_time"} : MethodOf(f, k).measurement[x] = sum[x]

(* min_depth, by which methods are sorted (lib/ruby-prof/method_info.rb:74) *)
(* is the least depth of the method in the thread's tree, although merged   *)
(* nodes find their depth through another thread's parents.                 *)
MinDepthIsLeastDepth ==
  \A f \in Fibers : \A k \in DOMAIN threads[f].method_table :
    min_depth(MethodOf(f, k)) =
      Min({Len(place[1]) - 1 : place \in {q \in Places(f) : LastOf(q[1]) = k}})

(* A cached array of a thread's methods is the method table's               *)
(* (rp_thread.c:359-368 and :377-378).                                      *)
MethodsCacheIsFresh ==
  \A f \in Fibers :
    threads[f].methods \in
      {NotCached, {threads[f].method_table[k] : k \in DOMAIN threads[f].method_table}}

(* merge! adds up results path by path and method by method, and ends with  *)
(* one thread per root method (lib/ruby-prof/profile.rb:52-81).             *)
NodeAt(f, path) == (CHOOSE place \in Places(f) : place[1] = path)[2]

Sums == INSTANCE CallTreeSums WITH
  Threads <- Fibers,
  listed <- threads_tbl,
  paths <- [f \in Fibers |-> [p \in {place[1] : place \in Places(f)} |-> Measured(NodeAt(f, p))]],
  totals <- [f \in Fibers |-> [k \in DOMAIN threads[f].method_table |-> MethodOf(f, k).measurement]]

ImplementsSums == Sums!Spec
=============================================================================
