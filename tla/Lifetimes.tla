----------------------------- MODULE Lifetimes ------------------------------
(***************************************************************************)
(* What the owners and the marks owe to a program that reads results while *)
(* the collector runs.                                                     *)
(***************************************************************************)
EXTENDS Ownership

(* Every variable has its type, and pointers go to the kinds they claim;   *)
(* what is doomed or without data is an object still.                      *)
TypeOK ==
  /\ \A s \in DOMAIN heap :
       /\ DOMAIN heap[s] = DOMAIN Structure("Profile")
       /\ heap[s].kind \in Kinds /\ heap[s].owner \in {"C", "Ruby"}
       /\ heap[s].object \in BOOLEAN /\ Kinded(heap, s)
  /\ null \subseteq objects /\ doomed \subseteq objects
  /\ Cardinality(held) <= MaxHeld

(* In whatever order objects are swept and structures freed, a structure   *)
(* and its object know each other or neither knows the other: no object is *)
(* left with the data of a structure that is gone, and no structure with   *)
(* an object that is gone.                                                 *)
LinksAgree ==
  /\ \A o \in objects \ null : o \in DOMAIN heap /\ heap[o].object
  /\ \A s \in DOMAIN heap : heap[s].object => s \in objects \ null

(* A thread, call tree or measurement that the collector frees is no part  *)
(* of anything that the C code frees.                                      *)
OneOwner ==
  \A s \in DOMAIN heap : heap[s].owner = "Ruby" =>
    /\ s \in objects \ null
    /\ \A r \in DOMAIN heap : s \notin
         heap[r].threads \cup heap[r].children \cup {heap[r].call_tree, heap[r].measurement}

-----------------------------------------------------------------------------
(* The parts of threads whose methods do not know the profile that frees   *)
(* them: threads that the program has made or loaded, whose methods know   *)
(* none, and threads that it has moved to another profile.                 *)
Stranger(t) ==
  \E m \in heap[t].methods :
    \/ heap[m].profile = NULL
    \/ \E p \in Of("Profile") : t \in heap[p].threads /\ heap[m].profile # p

OfStrangers == All(prof_thread_free, {t \in Of("Thread") : Stranger(t)})

(* The call trees that were replaced, and the parents in other threads     *)
(* that merging left to copied call trees, when the program began.         *)
EverReplaced == UNION {{s \in DOMAIN w : Replaced(w, s)} : w \in Worlds}

LeftBehind ==
  LET parents(w) == {s \in DOMAIN w : w[s].parent # NULL /\ ~SameThread(w, s, w[s].parent)}
  IN  UNION {{w[s].parent : s \in parents(w)} : w \in Worlds}

(* Nothing frees the replaced call trees, those below them and their       *)
(* measurements.                                                           *)
Unfreed ==
  All(prof_call_tree_free, {s \in EverReplaced \cap DOMAIN heap : Replaced(heap, s)})

(* An object keeps alive all that its structure points to: the methods,    *)
(* which every mark of a call tree reaches, keep their profile, and so do  *)
(* the copies that callers and callees give away. Only such a copy, or a   *)
(* replaced call tree, may see its method freed, if the method did not     *)
(* know the profile it was in. Nothing keeps a parent in the thread from   *)
(* which a call tree was merged.                                           *)
KeepsPointers ==
  \A o \in Followed' :
    \/ \A r \in Targets(o)' :
         r \in DOMAIN heap' \/ (r \in LeftBehind /\ r = heap'[o].parent)
    \/ (Copy(heap', o) \/ o \in Unfreed) /\ heap[o].method \in OfStrangers

PointersStayValid == [][KeepsPointers]_vars

(* A program that holds an object of a profile that was run keeps its data *)
(* alive, with the whole profile, and need not expect it to raise. That    *)
(* goes for all but measurements and allocations, whose marks lead nowhere *)
(* else.                                                                   *)
KeepsHeldData ==
  \A o \in (held \cap DOMAIN heap) \ OfStrangers :
    o \in DOMAIN heap' \/ heap[o].kind \in {"Measurement", "Allocation"}

HeldKeepTheirData == [][KeepsHeldData]_vars

(* The structures that live and die with a profile, and those that can be  *)
(* read from it: replaced call trees are still in the lists of methods.    *)
PartsOf(p) == prof_profile_free(p)
Readable(p) ==
  PartsOf(p) \cup All(prof_call_tree_free, UNION {heap[l].list : l \in PartsOf(p)})

(* No object of a living profile is swept while the program holds it, even *)
(* if it was not marked when the collector last looked: what a reader will *)
(* give again is marked through the structures. The list of a method's     *)
(* call trees is not, nor are replaced call trees with all below them,     *)
(* which marks do not reach from the top of the tree.                      *)
HeldAreThere ==
  \A p \in Of("Profile") \ doomed :
    \A o \in held \cap Readable(p) :
      o \in objects \/ heap[o].kind = "CallTrees" \/ o \in Unfreed

(* An object that the program holds is never swept. *)
HeldListsAreThere ==
  \A p \in Of("Profile") \ doomed :
    \A o \in held \cap PartsOf(p) : o \in objects

(* When the last object is gone everything has been freed, but for threads *)
(* that were taken out of a profile, which stay with the C code that does  *)
(* not know them any more, and for replaced call trees with all below      *)
(* them: the lists of methods leave freeing to the tables of children, in  *)
(* which these are not. Both are left for good.                            *)
Abandoned ==
  All(prof_thread_free, {t \in Of("Thread") : heap[t].owner = "C" /\ ~InTable(t)})

NothingIsLeft == objects = {} => DOMAIN heap = Abandoned \cup Unfreed
=============================================================================
