----------------------------- MODULE Ownership ------------------------------
(***************************************************************************)
(* Ownership: the C structures of finished profiles and the Ruby objects   *)
(* that wrap them. A structure is wrapped when a program first asks for    *)
(* it, and the two know each other: object is the structure's pointer to   *)
(* its Ruby object, whose data is the structure, or NULL once that has     *)
(* been freed (it raises then). The garbage collector first marks, with    *)
(* the prof_*_mark functions, and then sweeps the unmarked objects one by  *)
(* one, with the prof_*_ruby_gc_free functions, in no particular order and *)
(* while the program goes on. An owner tells who frees the structure of a  *)
(* thread, a call tree or a measurement: the C code or the collector.      *)
(*                                                                         *)
(* Structures are values that stand for addresses, never used again as     *)
(* long as an object for them is left.                                     *)
(***************************************************************************)
EXTENDS Structures, TLC

CONSTANTS
  Worlds,     \* the structures to begin with: see Structure
  Copies,     \* room for aggregated call trees: each with its measurement
  Duplicates, \* room for measurements that the program duplicates
  MaxHeld     \* bound: the objects that the program holds

New == Duplicates \cup UNION {{copy.call_tree, copy.measurement} : copy \in Copies}

(* The program begins with a profile that has been run, or with structures *)
(* that it has made or loaded and put into threads, and holds no more than *)
(* it may. What is allocated later is new.                                 *)
ASSUME WorldsAssumption ==
  /\ MaxHeld \in Nat /\ NULL \notin New
  /\ \A copy \in Copies : copy.call_tree # copy.measurement
  /\ \A w \in Worlds :
       /\ Proper(w) /\ DOMAIN w \cap New = {} /\ Unknown(w, New)
       /\ Cardinality({s \in DOMAIN w : w[s].object}) <= MaxHeld
       /\ \A s \in DOMAIN w : /\ w[s].owner = "Ruby" => w[s].kind = "Thread"
                              /\ w[s].profile \in DOMAIN w \cup {NULL}

VARIABLES
  heap,      \* the C structures
  objects,   \* the Ruby objects, by the structures they wrap
  null,      \* those whose data is NULL
  doomed,    \* those not marked, to be swept
  held       \* those that the program refers to

vars == <<heap, objects, null, doomed, held>>

-----------------------------------------------------------------------------
Of(kind) == {s \in DOMAIN heap : heap[s].kind = kind}

(* Calls give f(s) for the structure s, nothing for NULL.                  *)
All(f(_), S) == UNION {f(s) : s \in S \ {NULL}}

(* The nodes at most so many levels below n, and so all of them.           *)
WithChildren(nodes) == nodes \cup UNION {heap[n].children : n \in nodes}

Below(n) ==
  LET levels[i \in Nat] == IF i = 0 THEN {n} ELSE WithChildren(levels[i - 1])
  IN  levels[Cardinality(DOMAIN heap)]

-----------------------------------------------------------------------------
(* Marking. Each function gives the objects that it marks. *)

MarkObject(s) == IF heap[s].object THEN {s} ELSE {}

prof_measurement_mark(m) == MarkObject(m)

prof_allocation_mark(a) == MarkObject(a)

prof_allocations_mark(table) == All(prof_allocation_mark, table)

(* Mutant: a method does not keep its profile alive. *)
MarkWithoutProfile(m) ==
  MarkObject(m) \cup All(prof_measurement_mark, {heap[m].measurement})
    \cup prof_allocations_mark(heap[m].allocations)

prof_method_mark(m) ==
  MarkObject(m) \cup ({heap[m].profile} \ {NULL})
    \cup All(prof_measurement_mark, {heap[m].measurement})
    \cup prof_allocations_mark(heap[m].allocations)

MarkNode(n) ==
  MarkObject(n) \cup prof_method_mark(heap[n].method)
    \cup All(prof_measurement_mark, {heap[n].measurement})

(* Mutant: only the node itself, wherever it is in its tree. *)
MarkNodeOnly(n) == MarkNode(n)

(* Down the whole tree, but only from the top. *)
prof_call_tree_mark(n) ==
  IF heap[n].parent = NULL THEN All(MarkNode, Below(n)) ELSE MarkNode(n)

(* Mutant: the objects of the call trees, but not what these lead to.      *)
MarkListed(l) == All(MarkObject, heap[l].list)

prof_call_trees_mark(l) == All(prof_call_tree_mark, heap[l].list)

prof_thread_mark(t) ==
  MarkObject(t) \cup All(prof_call_tree_mark, {heap[t].call_tree})
    \cup All(prof_method_mark, heap[t].methods)

prof_profile_mark(p) == {p} \cup All(prof_thread_mark, heap[p].threads)

MarkedBy(o) ==
  IF o \in null THEN {}
  ELSE CASE heap[o].kind = "Profile" -> prof_profile_mark(o)
         [] heap[o].kind = "Thread" -> prof_thread_mark(o)
         [] heap[o].kind = "Method" -> prof_method_mark(o)
         [] heap[o].kind = "CallTrees" -> prof_call_trees_mark(o)
         [] heap[o].kind = "CallTree" -> prof_call_tree_mark(o)
         [] heap[o].kind = "Measurement" -> prof_measurement_mark(o)
         [] heap[o].kind = "Allocation" -> prof_allocation_mark(o)

(* What is marked in so many rounds from the roots, and so in the end.     *)
WithMarked(some) == some \cup UNION {MarkedBy(o) : o \in some}

Marked(roots) ==
  LET rounds[i \in Nat] == IF i = 0 THEN roots ELSE WithMarked(rounds[i - 1])
  IN  rounds[Cardinality(objects)]

-----------------------------------------------------------------------------
(* Freeing. Each function gives the structures that it frees. *)

prof_measurement_free(m) == {m}

(* Mutant: a call tree is freed without its measurement. *)
FreeTreeOnly(n) == Below(n)

prof_call_tree_free(n) ==
  Below(n) \cup All(prof_measurement_free, {heap[c].measurement : c \in Below(n)})

prof_call_trees_free(l) == {l}

prof_allocations_free(table) == table

prof_method_free(m) ==
  {m} \cup prof_allocations_free(heap[m].allocations)
    \cup All(prof_call_trees_free, {heap[m].call_trees})
    \cup All(prof_measurement_free, {heap[m].measurement})

prof_thread_free(t) ==
  {t} \cup All(prof_method_free, heap[t].methods)
    \cup All(prof_call_tree_free, {heap[t].call_tree})

prof_profile_free(p) == {p} \cup All(prof_thread_free, heap[p].threads)

(* Mutant: a Ruby object is freed without telling its structure.           *)
NotUnlinked(o) == {}

(* What sweeping an object with a structure unlinks from it, and frees.    *)
Unlinked(o) == {o}

FreedWith(o) ==
  CASE heap[o].kind = "Profile" -> prof_profile_free(o)
    [] heap[o].kind = "Thread" /\ heap[o].owner = "Ruby" -> prof_thread_free(o)
    [] heap[o].kind = "CallTree" /\ heap[o].owner = "Ruby" -> prof_call_tree_free(o)
    [] heap[o].kind = "Measurement" /\ heap[o].owner = "Ruby" -> prof_measurement_free(o)
    [] OTHER -> {}

-----------------------------------------------------------------------------
(* What the readers of a structure give to the program, each all at once,  *)
(* and all that the structure points to.                                   *)
Readers(s) ==
  {{heap[s].method}, {heap[s].parent}, {heap[s].call_tree}, {heap[s].call_trees},
   {heap[s].measurement}, heap[s].threads, heap[s].methods, heap[s].children,
   heap[s].list, heap[s].allocations} \ {{NULL}, {}}

Targets(s) == (UNION Readers(s)) \cup ({heap[s].profile} \ {NULL})

(* The C code follows the pointers of every object that is marked or held. *)
(* If one of them goes to what has been freed, or the program holds what   *)
(* has been swept, anything may happen: there the model stops.             *)
Followed == objects \ (null \cup (doomed \ held))
Sound ==
  /\ held \subseteq objects
  /\ \A o \in Followed : Targets(o) \subseteq DOMAIN heap

-----------------------------------------------------------------------------
(* The collector. *)

Mark ==
  /\ doomed = {}
  /\ doomed' = objects \ Marked(held)
  /\ doomed' # {}
  /\ UNCHANGED <<heap, objects, null, held>>

Sweep(o) ==
  /\ o \in doomed
  /\ objects' = objects \ {o}
  /\ doomed' = doomed \ {o}
  /\ LET freed == IF o \in null THEN {} ELSE FreedWith(o)
         unlinked == IF o \in null THEN {} ELSE Unlinked(o)
     IN  /\ heap' = [s \in DOMAIN heap \ freed |->
                      IF s \in unlinked THEN [heap[s] EXCEPT !.object = FALSE] ELSE heap[s]]
         /\ null' = (null \cup {s \in freed \cap DOMAIN heap : heap[s].object}) \ {o}
  /\ UNCHANGED held

-----------------------------------------------------------------------------
(* The program. *)

(* The program can use an object it holds, unless that raises.             *)
Usable == (held \cap objects) \ null

Hold(o) == Cardinality(held \cup {o}) <= MaxHeld /\ held' = held \cup {o}

(* A reader wraps all it gives; the program keeps one.                     *)
Read(o) ==
  /\ o \in Usable
  /\ \E given \in Readers(o) :
       /\ heap' = [s \in DOMAIN heap |->
                    IF s \in given THEN [heap[s] EXCEPT !.object = TRUE] ELSE heap[s]]
       /\ objects' = objects \cup {s \in given : ~heap[s].object}
       /\ \E s \in given : Hold(s)
  /\ UNCHANGED <<null, doomed>>

Drop(o) ==
  /\ o \in held
  /\ held' = held \ {o}
  /\ UNCHANGED <<heap, objects, null, doomed>>

(* Mutant: the method and the parent go into each other's place.           *)
AggregateSwapped(n, m) ==
  [heap[n] EXCEPT !.owner = "Ruby", !.object = TRUE, !.children = {}, !.measurement = m,
                  !.method = heap[n].parent, !.parent = heap[n].method]

(* prof_call_tree_copy, and its owner when callers or callees aggregate.   *)
Aggregate(n, m) ==
  [heap[n] EXCEPT !.owner = "Ruby", !.object = TRUE, !.children = {}, !.measurement = m]

(* callers and callees give one copy of the call trees or of their         *)
(* children that have the same caller or method.                           *)
Callers(l) == {n \in heap[l].list : heap[n].parent # NULL}
Callees(l) == UNION {heap[n].children : n \in heap[l].list}

AggregateCalls(l) ==
  /\ l \in Usable /\ heap[l].kind = "CallTrees"
  /\ \E n \in Callers(l) \cup Callees(l), copy \in Copies :
       /\ {copy.call_tree, copy.measurement} \cap (DOMAIN heap \cup objects) = {}
       /\ heap' = [s \in DOMAIN heap \cup {copy.call_tree, copy.measurement} |->
                    IF s = copy.call_tree THEN Aggregate(n, copy.measurement)
                    ELSE IF s = copy.measurement THEN Structure("Measurement")
                    ELSE heap[s]]
       /\ objects' = objects \cup {copy.call_tree}
       /\ Hold(copy.call_tree)
  /\ UNCHANGED <<null, doomed>>

(* dup and clone of a measurement make one that Ruby allocates.            *)
prof_measurement_allocate ==
  [Structure("Measurement") EXCEPT !.owner = "Ruby", !.object = TRUE]

Duplicate(o) ==
  /\ o \in Usable /\ heap[o].kind = "Measurement"
  /\ \E m \in Duplicates :
       /\ m \notin DOMAIN heap \cup objects
       /\ heap' = [s \in DOMAIN heap \cup {m} |->
                    IF s = m THEN prof_measurement_allocate ELSE heap[s]]
       /\ objects' = objects \cup {m}
       /\ Hold(m)
  /\ UNCHANGED <<null, doomed>>

InTable(t) == \E p \in Of("Profile") : t \in heap[p].threads

prof_remove_thread(p, t) ==
  /\ {p, t} \subseteq Usable
  /\ heap[p].kind = "Profile" /\ t \in heap[p].threads
  /\ heap' = [heap EXCEPT ![p].threads = @ \ {t}]
  /\ UNCHANGED <<objects, null, doomed, held>>

(* Mutant: the thread is still its object's. *)
AddKeepsOwner(p, t) ==
  /\ {p, t} \subseteq Usable
  /\ heap[p].kind = "Profile" /\ heap[t].kind = "Thread" /\ ~InTable(t)
  /\ heap' = [heap EXCEPT ![p].threads = @ \cup {t}]
  /\ UNCHANGED <<objects, null, doomed, held>>

(* Programs add a thread that is in no profile. *)
prof_add_thread(p, t) ==
  /\ {p, t} \subseteq Usable
  /\ heap[p].kind = "Profile" /\ heap[t].kind = "Thread" /\ ~InTable(t)
  /\ heap' = [heap EXCEPT ![p].threads = @ \cup {t}, ![t].owner = "C"]
  /\ UNCHANGED <<objects, null, doomed, held>>

-----------------------------------------------------------------------------
(* The program begins with the objects that are there. *)
Init ==
  /\ heap \in Worlds
  /\ objects = {s \in DOMAIN heap : heap[s].object}
  /\ null = {}
  /\ doomed = {}
  /\ held = objects

Next ==
  /\ Sound
  /\ \/ Mark
     \/ \E o \in doomed : Sweep(o)
     \/ \E o \in held : Read(o) \/ Drop(o) \/ AggregateCalls(o) \/ Duplicate(o)
     \/ \E p, t \in held : prof_remove_thread(p, t) \/ prof_add_thread(p, t)

Spec == Init /\ [][Next]_vars
=============================================================================
