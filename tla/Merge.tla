-------------------------------- MODULE Merge --------------------------------
(***************************************************************************)
(* The results of a finished profile and Profile#merge!, which adds up the *)
(* threads that have the same root method (lib/ruby-prof/profile.rb,       *)
(* rp_thread.c, rp_method.c, rp_call_tree.c, rp_call_trees.c).             *)
(*                                                                         *)
(* A call tree node is named by the thread and the path of methods it is   *)
(* created for, a method by its thread and its key; these names stand for  *)
(* the pointers, and every pointer of the code is a field of its own.      *)
(***************************************************************************)
EXTENDS Integers, Sequences, FiniteSetsExt, TLC

CONSTANTS
  NumFibers,      \* how many fibers were profiled: one thread object each
  Results,        \* the possible results: for each fiber, its measurements
                  \* by path; the keys of the methods are the paths' members
  Uses,           \* the optional calls that are made: "methods", "table"
  MaxCalls        \* bound: how often merge!, add_thread and remove_thread
                  \* are called

Fibers == 1..NumFibers   \* in the order of their first events

NULL == <<>>
NotCached == {NULL}      \* a thread whose methods are not cached

Measurement == {"called", "total_time", "self_time", "wait_time"}

VARIABLES
  nodes,          \* the call tree nodes: name -> prof_call_tree_t
  methods,        \* the methods: name -> prof_method_t
  threads,        \* the thread objects: fiber -> thread_data_t
  threads_tbl,    \* profile->threads_tbl: its fibers in their order
  todo,           \* the groups the running merge! has still to merge
  merging,        \* whether merge! is running
  calls           \* how often merge!, add_thread and remove_thread were called

vars == <<nodes, methods, threads, threads_tbl, todo, merging, calls>>

-----------------------------------------------------------------------------
(* Measurements. *)

prof_measurement_merge(self, other) == [x \in Measurement |-> self[x] + other[x]]

Nothing == [x \in Measurement |-> 0]

SumOf(ms, M(_)) ==
  FoldSet(LAMBDA x, sum : prof_measurement_merge(sum, M(x)), Nothing, ms)

-----------------------------------------------------------------------------
(* The results the event hook leaves behind, for measurements by path. *)

LastOf(path) == path[Len(path)]
FrontOf(path) == SubSeq(path, 1, Len(path) - 1)
KeysOf(result) == {LastOf(p) : p \in DOMAIN result}
PathsTo(result, k) == {p \in DOMAIN result : LastOf(p) = k}
Recurs(path, k) == \E i, j \in DOMAIN path : i # j /\ path[i] = k /\ path[j] = k

FinishedNodes(r) ==
  [n \in UNION {{f} \X DOMAIN r[f] : f \in Fibers} |->
     LET result == r[n[1]]  path == n[2] IN
     [method |-> <<n[1], LastOf(path)>>,
      parent |-> IF Len(path) = 1 THEN NULL ELSE <<n[1], FrontOf(path)>>,
      children |-> [k \in {k \in KeysOf(result) : Append(path, k) \in DOMAIN result}
                      |-> <<n[1], Append(path, k)>>],
      measurement |-> result[path]]]

(* A method's total_time counts its outermost calls only. *)
FinishedMethods(r) ==
  [m \in UNION {{f} \X KeysOf(r[f]) : f \in Fibers} |->
     LET to == PathsTo(r[m[1]], m[2])
         outer == {p \in to : ~Recurs(p, m[2])}
         sum == SumOf(to, LAMBDA p : r[m[1]][p])
     IN [key |-> m[2],
         measurement |->
           [sum EXCEPT !["total_time"] = SumOf(outer, LAMBDA p : r[m[1]][p])["total_time"]],
         recursive |-> \E p \in to : Recurs(p, m[2]),
         call_trees |-> {<<m[1], p>> : p \in to}]]

FinishedThreads(r) ==
  [f \in Fibers |->
     [call_tree |-> <<f, CHOOSE p \in DOMAIN r[f] : Len(p) = 1>>,
      method_table |-> [k \in KeysOf(r[f]) |-> <<f, k>>],
      methods |-> NotCached]]

Init ==
  /\ \E r \in Results : /\ nodes = FinishedNodes(r)
                        /\ methods = FinishedMethods(r)
                        /\ threads = FinishedThreads(r)
  /\ threads_tbl = [i \in Fibers |-> i]
  /\ todo = <<>>
  /\ merging = FALSE
  /\ calls = 0

Listed == {threads_tbl[i] : i \in DOMAIN threads_tbl}

-----------------------------------------------------------------------------
(* Merging two threads. h holds the nodes and the methods.                 *)

KeyOf(h, n) == h.methods[h.nodes[n].method].key

(* Where the copy of a node below self goes, see above. *)
NewName(self, k) == <<self[1], Append(self[2], k)>>

prof_method_copy(other) ==
  [key |-> other.key, measurement |-> other.measurement,
   recursive |-> FALSE, call_trees |-> {}]

MergedTable(f, self, other) ==
  [k \in DOMAIN self \cup DOMAIN other |-> IF k \in DOMAIN self THEN self[k] ELSE <<f, k>>]

(* Methods of a key that both tables have are added up, and those that     *)
(* only the other table has are copied.                                    *)
prof_method_table_merge(h, f, self, other) ==
  LET MergeMethod(k, g) ==
        IF k \in DOMAIN self
        THEN [g EXCEPT !.methods[self[k]].measurement =
                prof_measurement_merge(@, g.methods[other[k]].measurement)]
        ELSE [g EXCEPT !.methods = (<<f, k>> :> prof_method_copy(g.methods[other[k]])) @@ @]
  IN FoldSet(MergeMethod, h, DOMAIN other)

(* Mutant: the copy is a root. *)
CopiedAsRoot(node) == [node EXCEPT !.children = <<>>, !.parent = NULL]

(* prof_call_tree_copy: neither children nor a new parent. *)
prof_call_tree_copy(node) == [node EXCEPT !.children = <<>>]

(* A child that self does not have: its copy goes into self's table; its   *)
(* parent stays the other's.                                               *)
WithCopy(h, self, child, method) ==
  LET k == KeyOf(h, child)
      copy == [prof_call_tree_copy(h.nodes[child]) EXCEPT !.method = method]
      linked == [h.nodes EXCEPT ![self].children = (k :> NewName(self, k)) @@ @]
  IN (NewName(self, k) :> copy) @@ linked

(* Mutant: the method is not told of its new call tree. *)
AdoptedUnlisted(h, self, child, table) ==
  [h EXCEPT !.nodes = WithCopy(h, self, child, table[KeyOf(h, child)])]

(* Mutant: the copy keeps the other thread's method. *)
AdoptedKeepsMethod(h, self, child, table) ==
  LET k == KeyOf(h, child) IN
  [nodes |-> WithCopy(h, self, child, h.nodes[child].method),
   methods |-> [h.methods EXCEPT ![table[k]].call_trees = @ \cup {NewName(self, k)}]]

(* The copy gets self's method, which is told of it. *)
AdoptedCopy(h, self, child, table) ==
  LET k == KeyOf(h, child) IN
  [nodes |-> WithCopy(h, self, child, table[k]),
   methods |-> [h.methods EXCEPT ![table[k]].call_trees = @ \cup {NewName(self, k)}]]

(* Mutant: the other's measurement replaces self's. *)
MeasurementReplaced(h, self, other) ==
  [h EXCEPT !.nodes[self].measurement = h.nodes[other].measurement]

AddMeasurement(h, self, other) ==
  [h EXCEPT !.nodes[self].measurement =
     prof_measurement_merge(@, h.nodes[other].measurement)]

RECURSIVE prof_call_tree_merge_children(_, _, _, _)
prof_call_tree_merge_children(h, self, other, table) ==
  LET MergeChild(child, g) ==
        LET k == KeyOf(g, child)
            found == k \in DOMAIN g.nodes[self].children
            g1 == IF found THEN AddMeasurement(g, g.nodes[self].children[k], child)
                  ELSE AdoptedCopy(g, self, child, table)
        IN prof_call_tree_merge_children(g1, g1.nodes[self].children[k], child, table)
      children == {h.nodes[other].children[k] : k \in DOMAIN h.nodes[other].children}
  IN FoldSet(MergeChild, h, children)

(* Mutant: what is below the roots is not merged. *)
MergeRootsOnly(h, self, other, table) ==
  IF KeyOf(h, self) # KeyOf(h, other) THEN h ELSE AddMeasurement(h, self, other)

(* The roots are merged if they are of the same method, called from the    *)
(* same one or both from nowhere.                                          *)
prof_call_tree_merge_internal(h, self, other, table) ==
  LET up == h.nodes[self].parent  otherUp == h.nodes[other].parent IN
  IF \/ KeyOf(h, self) # KeyOf(h, other)
     \/ (up = NULL) # (otherUp = NULL)
     \/ up # NULL /\ KeyOf(h, up) # KeyOf(h, otherUp)
  THEN h
  ELSE prof_call_tree_merge_children(AddMeasurement(h, self, other), self, other, table)

(* The nodes and methods after merging g into f. *)
Merged(f, g, table) ==
  LET self == threads[f]  other == threads[g]
      h == prof_method_table_merge([nodes |-> nodes, methods |-> methods], f,
                                   self.method_table, other.method_table)
  IN prof_call_tree_merge_internal(h, self.call_tree, other.call_tree, table)

(* Mutant: the methods stay cached. *)
MergeKeepsCache(f, g) ==
  LET table == MergedTable(f, threads[f].method_table, threads[g].method_table)
      merged == Merged(f, g, table)
  IN /\ nodes' = merged.nodes
     /\ methods' = merged.methods
     /\ threads' = [threads EXCEPT ![f].method_table = table]

(* Thread#merge!; the methods will be cached anew when next asked for. *)
prof_thread_merge(f, g) ==
  LET table == MergedTable(f, threads[f].method_table, threads[g].method_table)
      merged == Merged(f, g, table)
  IN /\ nodes' = merged.nodes
     /\ methods' = merged.methods
     /\ threads' = [threads EXCEPT ![f].method_table = table, ![f].methods = NotCached]

-----------------------------------------------------------------------------
(* The operations of a profile and its threads.                            *)

prof_add_thread(f) ==
  /\ "table" \in Uses /\ ~merging /\ calls < MaxCalls /\ f \notin Listed
  /\ threads_tbl' = Append(threads_tbl, f)
  /\ calls' = calls + 1
  /\ UNCHANGED <<nodes, methods, threads, todo, merging>>

Removed(f) == SelectSeq(threads_tbl, LAMBDA g : g # f)

prof_remove_thread(f) ==
  /\ "table" \in Uses /\ ~merging /\ calls < MaxCalls /\ f \in Listed
  /\ threads_tbl' = Removed(f)
  /\ calls' = calls + 1
  /\ UNCHANGED <<nodes, methods, threads, todo, merging>>

(* Thread#methods: an array made at the first call. *)
prof_thread_methods(f) ==
  /\ "methods" \in Uses /\ threads[f].methods = NotCached
  /\ threads' = [threads EXCEPT ![f].methods =
                   {threads[f].method_table[k] : k \in DOMAIN threads[f].method_table}]
  /\ UNCHANGED <<nodes, methods, threads_tbl, todo, merging, calls>>

(* The key of thread.call_tree.target, which is what methods compare by. *)
Target(f) == methods[nodes[threads[f].call_tree].method].key

(* The places in the table of the threads whose target equals f's. *)
SameTarget(f) == {i \in DOMAIN threads_tbl : Target(threads_tbl[i]) = Target(f)}
FirstOfGroup(f) == threads_tbl[Min(SameTarget(f))]

(* threads.group_by: one group for each target, in the table's order. *)
Groups ==
  LET firsts == SelectSeq(threads_tbl, LAMBDA f : f = FirstOfGroup(f))
  IN [i \in DOMAIN firsts |->
        SelectSeq(threads_tbl, LAMBDA f : FirstOfGroup(f) = firsts[i])]

BeginMerge ==
  /\ ~merging /\ calls < MaxCalls
  /\ todo' = Groups
  /\ merging' = TRUE
  /\ calls' = calls + 1
  /\ UNCHANGED <<nodes, methods, threads, threads_tbl>>

(* The next thread of the group goes into the group's first. *)
MergeNext ==
  /\ merging /\ todo # <<>> /\ Len(Head(todo)) > 1
  /\ LET group == Head(todo) IN
       /\ prof_thread_merge(group[1], group[2])
       /\ threads_tbl' = Removed(group[2])
       /\ todo' = <<<<group[1]>> \o SubSeq(group, 3, Len(group))>> \o Tail(todo)
  /\ UNCHANGED <<merging, calls>>

NextGroup ==
  /\ merging /\ todo # <<>> /\ Len(Head(todo)) = 1
  /\ todo' = Tail(todo)
  /\ UNCHANGED <<nodes, methods, threads, threads_tbl, merging, calls>>

(* Mutant: only the first group is merged. *)
EndMergeEarly ==
  /\ merging /\ (todo = <<>> \/ Len(Head(todo)) = 1)
  /\ merging' = FALSE
  /\ UNCHANGED <<nodes, methods, threads, threads_tbl, todo, calls>>

EndMerge ==
  /\ merging /\ todo = <<>>
  /\ merging' = FALSE
  /\ UNCHANGED <<nodes, methods, threads, threads_tbl, todo, calls>>

Next ==
  \/ BeginMerge
  \/ MergeNext
  \/ NextGroup
  \/ EndMerge
  \/ \E f \in Fibers : \/ prof_add_thread(f)
                       \/ prof_remove_thread(f)
                       \/ prof_thread_methods(f)

Spec == Init /\ [][Next]_vars
=============================================================================
