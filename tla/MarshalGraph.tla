---------------------------- MODULE MarshalGraph ----------------------------
(***************************************************************************)
(* What loading a dumped profile promises: docs/advanced-usage.md:118      *)
(* offers it to save the results of a profiling run for later analysis.    *)
(***************************************************************************)
EXTENDS Marshal

Types == {"Profile", "Thread", "Method", "CallTrees", "CallTree", "Measurement",
          "Allocation"}

IsA(v, type) == v # 0 => loaded[v].type = type

(* Every variable has its type, both ends see the same objects, and what   *)
(* a loaded structure refers to is there, if not complete, and is of the   *)
(* kind that the C code will take it for.                                  *)
TypeOK ==
  /\ \A v \in DOMAIN objects : objects[v].type \in Types
  /\ Range(written) \subseteq DOMAIN objects
  /\ \A i \in DOMAIN stream : stream[i].token \in {"data", "link", "end"}
  /\ position \in 0 .. Len(stream)
  /\ \A i \in DOMAIN reading : reading[i].object \in DOMAIN loaded
  /\ Len(loaded) <= Len(written)
  /\ \A i \in DOMAIN loaded : LET s == loaded[i] IN
       /\ s.type = objects[written[i]].type
       /\ s.type = "CallTree" =>
            /\ IsA(s.parent, "CallTree") /\ IsA(s.method, "Method")
            /\ IsA(s.measurement, "Measurement")
            /\ \A c \in Range(s.children) : IsA(c, "CallTree")
       /\ s.type = "Method" =>
            IsA(s.call_trees, "CallTrees") /\ IsA(s.measurement, "Measurement")
       /\ s.type = "Thread" =>
            IsA(s.call_tree, "CallTree") /\ \A m \in Range(s.method_table) : IsA(m, "Method")

-----------------------------------------------------------------------------
(* Where a structure of the dumped profile is after loading.               *)
Copy(type, of) ==
  CHOOSE i \in DOMAIN loaded : objects[written[i]] = Struct(type, of)
CopyOf(type, ids) == [i \in DOMAIN ids |-> Copy(type, ids[i])]

CallTree(n) == loaded[Copy("CallTree", n)]
Method(k) == loaded[Copy("Method", k)]

(* Each structure of the profile is dumped and loaded exactly once.        *)
DumpedOnce ==
  /\ Len(loaded) = Len(written) /\ IsInjective(written) /\ IsInjective(objects)
  /\ Range(objects) = {Profile, Thread}
       \cup {Struct(type, n) : type \in {"CallTree", "Measurement"}, n \in DOMAIN tree}
       \cup {Struct(type, k) : type \in {"Method", "CallTrees", "Measurement",
                                          "Allocation"},
                              k \in Range(MethodTable)}

(* Most objects are read before the objects they refer to are complete.    *)
(* All the same every loaded call tree has its parent, its target and its  *)
(* measurement, every method its key, its measurement and its call trees   *)
(* in their order, and the thread its root and all of its methods.         *)
ReferencesSurvive ==
  Loaded =>
    /\ DumpedOnce
    /\ \A n \in DOMAIN tree :
         /\ CallTree(n).parent = (IF n = 1 THEN 0 ELSE Copy("CallTree", tree[n].parent))
         /\ CallTree(n).method = Copy("Method", tree[n].method)
         /\ CallTree(n).measurement = Copy("Measurement", n)
         /\ loaded[Copy("Measurement", n)].times = n
    /\ \A k \in Range(MethodTable) :
         /\ Method(k).key = k
         /\ Method(k).measurement = Copy("Measurement", k)
         /\ Method(k).allocations = k :> Copy("Allocation", k)
         /\ Method(k).call_trees = Copy("CallTrees", k)
         /\ loaded[Copy("CallTrees", k)].call_trees = CopyOf("CallTree", CallTreesOf(k))
    /\ LET thread == loaded[Copy("Thread", 0)] IN
         /\ thread.call_tree = Copy("CallTree", 1)
         /\ thread.method_table = [k \in Range(MethodTable) |-> Copy("Method", k)]
    /\ loaded[Copy("Profile", 0)].threads_tbl = {Copy("Thread", 0)}

(* A call tree files its children while their methods may be still empty,  *)
(* under a key that is then no method's. It keeps its children under one   *)
(* key each, and loses a child only to a sibling with the same such key.   *)
ChildrenLostOnlyToPending ==
  Loaded =>
    \A n \in DOMAIN tree :
      LET table == CallTree(n).children IN
      /\ \A key \in DOMAIN table : \E c \in DOMAIN tree :
           Child(n, c) /\ table[key] = Copy("CallTree", c) /\ key \in {tree[c].method, UnsetKey, PendingKey}
      /\ \A c \in DOMAIN tree :
           Child(n, c) => \/ Copy("CallTree", c) \in Range(table)
                         \/ PendingKey \in DOMAIN table

(* A loaded call tree still has all its children.                          *)
ChildrenSurvive ==
  Loaded =>
    \A n \in DOMAIN tree :
      Range(CallTree(n).children) = Range(CopyOf("CallTree", Children(n)))

-----------------------------------------------------------------------------
(* Whatever the cycles of the results, dumping and loading them ends.      *)
EventuallyLoaded == <>Loaded
=============================================================================
