----------------------------- MODULE Structures -----------------------------
(***************************************************************************)
(* The C structures of a profile, as records, and the shape of a heap of   *)
(* them: who owns what, and which structures make up a thread. A heap is a *)
(* function from structures (their addresses) to records.                  *)
(***************************************************************************)
EXTENDS Naturals, FiniteSets

CONSTANT NULL

(* A structure points to others by the fields that its kind has.           *)
Structure(kind) ==
  [kind |-> kind, owner |-> "C", object |-> FALSE,
   profile |-> NULL, method |-> NULL, parent |-> NULL, call_tree |-> NULL,
   call_trees |-> NULL, measurement |-> NULL,
   threads |-> {}, methods |-> {}, children |-> {}, list |-> {}, allocations |-> {}]

Kinds == {"Profile", "Thread", "Method", "CallTrees", "CallTree", "Measurement",
          "Allocation"}

(* What the structure s frees with itself, if its memory is C's, and what  *)
(* else it points to.                                                      *)
Owns(h, s) ==
  h[s].threads \cup h[s].methods \cup h[s].children \cup h[s].allocations
    \cup ({h[s].call_tree, h[s].call_trees, h[s].measurement} \ {NULL})
Refers(h, s) == ({h[s].method, h[s].parent} \ {NULL}) \cup h[s].list

Are(h, S, kind) == \A s \in S : s \in DOMAIN h => h[s].kind = kind

(* A record has the fields of its kind, and no other is in use. Threads    *)
(* are shown only with a call tree (collect_threads), call trees have a    *)
(* method, and methods exist because of a call.                            *)
Plain(r) ==
  /\ DOMAIN r = DOMAIN Structure("Profile")
  /\ r.kind \in Kinds /\ r.owner \in {"C", "Ruby"} /\ r.object \in BOOLEAN
  /\ r.threads # {} => r.kind = "Profile"
  /\ r.methods # {} => r.kind = "Thread"
  /\ r.profile # NULL \/ r.call_trees # NULL \/ r.allocations # {} => r.kind = "Method"
  /\ r.list # {} <=> r.kind = "CallTrees"
  /\ r.call_tree # NULL <=> r.kind = "Thread"
  /\ r.method # NULL <=> r.kind = "CallTree"
  /\ r.parent # NULL \/ r.children # {} => r.kind = "CallTree"
  /\ r.measurement # NULL => r.kind \in {"Method", "CallTree"}

(* Pointers go to the kinds they claim. *)
Kinded(h, s) ==
  /\ Are(h, {h[s].profile}, "Profile") /\ Are(h, {h[s].call_trees}, "CallTrees")
  /\ Are(h, {h[s].method} \cup h[s].methods, "Method")
  /\ Are(h, {h[s].parent, h[s].call_tree} \cup h[s].children \cup h[s].list, "CallTree")
  /\ Are(h, {h[s].measurement}, "Measurement") /\ Are(h, h[s].threads, "Thread")
  /\ Are(h, h[s].allocations, "Allocation")

(* A call above the start of the profile does not look for the child that  *)
(* it enters, and takes the place of one in its parent's table; loading    *)
(* can do so too. The replaced call tree stays in its method's list, and   *)
(* knows its parent, but nothing frees it, nor what is below it.           *)
Owned(h, s) == \E r \in DOMAIN h : s \in Owns(h, r)
Replaced(h, s) ==
  h[s].kind = "CallTree" /\ h[s].owner = "C" /\ h[s].parent # NULL /\ ~Owned(h, s)

(* A structure is owned at most once; the collector frees it only if it is *)
(* not owned. But for replaced call trees, only then it need not be.       *)
OwnedOnce(h) ==
  /\ \A r \in DOMAIN h : Owns(h, r) \subseteq DOMAIN h
  /\ \A r, q \in DOMAIN h : Owns(h, r) \cap Owns(h, q) # {} => r = q
  /\ \A s \in DOMAIN h :
       /\ h[s].kind = "Profile" \/ h[s].owner = "Ruby" => h[s].object /\ ~Owned(h, s)
       /\ h[s].owner = "Ruby" => h[s].kind \in {"Thread", "CallTree", "Measurement"}
       /\ \/ h[s].kind \in {"Profile", "Thread"} \/ h[s].owner = "Ruby"
          \/ Owned(h, s) \/ Replaced(h, s)

(* Nothing owns itself by way of others. *)
NoCycle(h) ==
  \A S \in SUBSET DOMAIN h : S # {} => \E s \in S : \A r \in S : s \notin Owns(h, r)

(* The calls of the methods M: in the tree of their thread, or replaced.   *)
CallsOf(h, M) == {n \in DOMAIN h : h[n].owner = "C" /\ h[n].method \in M}

(* S is the thread t with all that its parts own. Its call trees are of    *)
(* its methods, which list their calls, and all of these methods know the  *)
(* same profile, none if the thread is Ruby's.                             *)
IsThread(h, t, S) ==
  /\ t \in S /\ S \subseteq DOMAIN h /\ h[t].kind = "Thread"
  /\ \A s \in S : Owns(h, s) \cup ({h[s].method} \ {NULL}) \subseteq S
  /\ \A s \in S : h[s].list \subseteq CallsOf(h, h[t].methods)
  /\ \A s \in S \ {t} : \E r \in S : s \in Owns(h, r)
  /\ h[h[t].call_tree].parent = NULL
  /\ \A m, n \in S : h[m].kind = "Method" /\ h[n].kind = "Method" =>
       /\ h[m].profile = h[n].profile
       /\ h[t].owner = "Ruby" => h[m].profile = NULL

(* The call tree n is of the same thread as the call tree s, if any.       *)
SameThread(h, s, n) ==
  \A t \in DOMAIN h : h[s].method \in h[t].methods <=> n \in CallsOf(h, h[t].methods)

(* The call trees of Ruby are copies of nodes, without the children.       *)
Copy(h, s) == h[s].kind = "CallTree" /\ h[s].owner = "Ruby"

InThread(h, s) ==
  \E t \in DOMAIN h : \E S \in SUBSET DOMAIN h : IsThread(h, t, S) /\ s \in S

(* The parent of a call tree can be in the tree of another thread, from    *)
(* which it was merged, if the methods of both know the same profile.      *)
Related(h, s) ==
  /\ Copy(h, s) => h[s].children = {}
  /\ \A n \in h[s].children : SameThread(h, s, n)
  /\ LET n == h[s].parent
     IN  n \in DOMAIN h /\ ~SameThread(h, s, n) =>
           /\ InThread(h, n)
           /\ h[s].method \in DOMAIN h => h[h[s].method].profile = h[h[n].method].profile

Proper(h) ==
  /\ IsFiniteSet(DOMAIN h) /\ NULL \notin DOMAIN h
  /\ \A s \in DOMAIN h : Plain(h[s]) /\ Kinded(h, s) /\ (h[s].kind = "CallTree" => Related(h, s))
  /\ OwnedOnce(h) /\ NoCycle(h)
  /\ \A t \in DOMAIN h : h[t].kind = "Thread" =>
       \E S \in SUBSET DOMAIN h : IsThread(h, t, S)

(* No structure points to one of S without owning it. *)
Unknown(h, S) ==
  \A s \in DOMAIN h : (Refers(h, s) \cup {h[s].profile}) \cap S = {}
=============================================================================
