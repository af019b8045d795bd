-------------------------- MODULE OwnershipProofs ---------------------------
(***************************************************************************)
(* The properties of Lifetimes, for every world of threads and profiles to *)
(* begin with, and every number of references that the program holds. The  *)
(* properties of the heap follow from its shape (HeapOK), those of the     *)
(* collector from what its marks reach, thread by thread (Marks).          *)
(***************************************************************************)
EXTENDS Lifetimes, LoopsAndSums

-----------------------------------------------------------------------------
(* Heaps of structures. *)

(* The fields of a structure. *)
Fields ==
  {"kind", "owner", "object", "profile", "method", "parent", "call_tree", "call_trees",
   "measurement", "threads", "methods", "children", "list", "allocations"}

(* Every structure has them. *)
LEMMA StructureFields == DOMAIN Structure("Profile") = Fields
BY DEF Structure, Fields

(* The same structure, whether or not it has an object. *)
Same(r, q) ==
  /\ DOMAIN r = Fields /\ DOMAIN q = Fields /\ q.object \in BOOLEAN
  /\ q.kind = r.kind /\ q.owner = r.owner /\ q.profile = r.profile
  /\ q.method = r.method /\ q.parent = r.parent /\ q.call_tree = r.call_tree
  /\ q.call_trees = r.call_trees /\ q.measurement = r.measurement
  /\ q.threads = r.threads /\ q.methods = r.methods /\ q.children = r.children
  /\ q.list = r.list /\ q.allocations = r.allocations

(* Wrapping and unlinking do not change more than the object. *)
LEMMA SetObject ==
  ASSUME NEW r, DOMAIN r = Fields, NEW b \in BOOLEAN
  PROVE  Same(r, [r EXCEPT !.object = b]) /\ [r EXCEPT !.object = b].object = b
BY DEF Same, Fields

Sorted(h) == \A s \in DOMAIN h : Plain(h[s]) /\ Kinded(h, s)

(* Who owns a structure of each kind. *)
LEMMA OwnerKind ==
  ASSUME NEW h, Sorted(h), NEW r \in DOMAIN h, NEW c \in DOMAIN h, c \in Owns(h, r)
  PROVE  /\ h[c].kind # "Profile"
         /\ h[c].kind = "Thread" => h[r].kind = "Profile" /\ c \in h[r].threads
         /\ h[c].kind = "Method" => h[r].kind = "Thread" /\ c \in h[r].methods
         /\ h[c].kind = "CallTrees" => h[r].kind = "Method" /\ c = h[r].call_trees
         /\ h[c].kind = "CallTree" => \/ h[r].kind = "Thread" /\ c = h[r].call_tree
                                      \/ h[r].kind = "CallTree" /\ c \in h[r].children
         /\ h[c].kind = "Measurement" =>
              h[r].kind \in {"Method", "CallTree"} /\ c = h[r].measurement
         /\ h[c].kind = "Allocation" => h[r].kind = "Method" /\ c \in h[r].allocations
<1>1. Plain(h[r]) /\ Kinded(h, r)
  BY DEF Sorted
<1>2. \/ c \in h[r].threads /\ h[c].kind = "Thread" /\ h[r].kind = "Profile"
      \/ c \in h[r].methods /\ h[c].kind = "Method" /\ h[r].kind = "Thread"
      \/ c \in h[r].children /\ h[c].kind = "CallTree" /\ h[r].kind = "CallTree"
      \/ c \in h[r].allocations /\ h[c].kind = "Allocation" /\ h[r].kind = "Method"
      \/ c = h[r].call_tree /\ c # NULL /\ h[c].kind = "CallTree" /\ h[r].kind = "Thread"
      \/ c = h[r].call_trees /\ c # NULL /\ h[c].kind = "CallTrees" /\ h[r].kind = "Method"
      \/ /\ c = h[r].measurement /\ c # NULL /\ h[c].kind = "Measurement"
         /\ h[r].kind \in {"Method", "CallTree"}
  BY <1>1 DEF Owns, Plain, Kinded, Are
<1> QED BY <1>2

(* What is made by owning, from t on, is in every set that has t and all   *)
(* that its members own.                                                   *)
LEMMA ThreadWithin ==
  ASSUME NEW h, NoCycle(h), NEW t, NEW S, IsThread(h, t, S),
         NEW T, t \in T, \A s \in S \cap T : Owns(h, s) \subseteq T
  PROVE  S \subseteq T
<1>1. SUFFICES ASSUME S \ T # {} PROVE FALSE
  OBVIOUS
<1>2. S \ T \in SUBSET DOMAIN h
  BY DEF IsThread
<1>3. PICK s \in S \ T : \A r \in S \ T : s \notin Owns(h, r)
  BY <1>1, <1>2 DEF NoCycle
<1>4. PICK r \in S : s \in Owns(h, r)
  BY <1>3 DEF IsThread
<1> QED BY <1>3, <1>4

(* The only thread among the parts of a thread is itself. *)
LEMMA OneThread ==
  ASSUME NEW h, Sorted(h), OwnedOnce(h), NEW t, NEW S, IsThread(h, t, S)
  PROVE  /\ \A s \in S : h[s].kind = "Thread" => s = t
         /\ \A s \in S : h[s].kind # "Profile"
<1>1. ASSUME NEW s \in S, s # t
      PROVE  h[s].kind # "Profile" /\ h[s].kind # "Thread"
  <2>1. PICK r \in S : s \in Owns(h, r)
    BY <1>1 DEF IsThread
  <2>2. r \in DOMAIN h /\ s \in DOMAIN h
    BY <1>1, <2>1 DEF IsThread
  <2>3. h[s].kind # "Profile" /\ (h[s].kind = "Thread" => h[r].kind = "Profile")
    BY <2>1, <2>2, OwnerKind
  <2>4. ASSUME h[r].kind = "Profile" PROVE FALSE
    <3>1. r # t
      BY <2>4 DEF IsThread
    <3>2. PICK u \in S : r \in Owns(h, u)
      BY <3>1 DEF IsThread
    <3>3. u \in DOMAIN h
      BY <3>2 DEF IsThread
    <3> QED BY <2>2, <2>4, <3>2, <3>3, OwnerKind
  <2> QED BY <2>3, <2>4
<1> QED BY <1>1 DEF IsThread

(* Threads have no part in common. *)
LEMMA ThreadsApart ==
  ASSUME NEW h, Sorted(h), OwnedOnce(h), NoCycle(h), NEW t, NEW S, IsThread(h, t, S),
         NEW u, NEW T, IsThread(h, u, T), S \cap T # {}
  PROVE  t = u /\ S = T
<1>1. S \cap T \in SUBSET DOMAIN h
  BY DEF IsThread
<1>2. PICK s \in S \cap T : \A r \in S \cap T : s \notin Owns(h, r)
  BY <1>1 DEF NoCycle
<1>3. t = u
  <2>1. CASE s = t \/ s = u
    <3>1. h[s].kind = "Thread"
      BY <2>1 DEF IsThread
    <3> QED BY <1>2, <3>1, OneThread
  <2>2. CASE s # t /\ s # u
    <3>1. PICK r \in S : s \in Owns(h, r)
      BY <1>2, <2>2 DEF IsThread
    <3>2. PICK q \in T : s \in Owns(h, q)
      BY <1>2, <2>2 DEF IsThread
    <3>3. r \in DOMAIN h /\ q \in DOMAIN h
      BY DEF IsThread
    <3>4. r = q
      BY <3>1, <3>2, <3>3 DEF OwnedOnce
    <3> QED BY <1>2, <3>1, <3>2, <3>4
  <2> QED BY <2>1, <2>2
<1>4. S \subseteq T
  <2>1. t \in T /\ \A s2 \in S \cap T : Owns(h, s2) \subseteq T
    BY <1>3 DEF IsThread
  <2> QED BY <2>1, ThreadWithin
<1>5. T \subseteq S
  <2>1. u \in S /\ \A s2 \in T \cap S : Owns(h, s2) \subseteq S
    BY <1>3 DEF IsThread
  <2> QED BY <2>1, ThreadWithin
<1> QED BY <1>3, <1>4, <1>5

-----------------------------------------------------------------------------
(* What a thread is made of stays what it is made of, as long as its parts *)
(* are not changed.                                                        *)

(* The heap g has the structures S of h as they were, but for their object *)
(* and an owner that may have become C.                                    *)
SameParts(h, g, S) ==
  \A s \in S :
    /\ s \in DOMAIN h /\ s \in DOMAIN g
    /\ g[s].kind = h[s].kind /\ g[s].parent = h[s].parent /\ g[s].profile = h[s].profile
    /\ Owns(g, s) = Owns(h, s) /\ g[s].methods = h[s].methods /\ g[s].method = h[s].method
    /\ g[s].list = h[s].list /\ g[s].call_tree = h[s].call_tree
    /\ g[s].owner = "Ruby" => h[s].owner = "Ruby"

(* So the thread is a thread of g. *)
LEMMA ThreadStays ==
  ASSUME NEW h, NEW g, NEW t, NEW S, IsThread(h, t, S), SameParts(h, g, S), Plain(h[t]),
         CallsOf(h, h[t].methods) \subseteq CallsOf(g, h[t].methods)
  PROVE  IsThread(g, t, S)
<1>1. h[t].call_tree \in S
  <2>1. h[t].call_tree # NULL
    BY DEF IsThread, Plain
  <2>2. h[t].call_tree \in Owns(h, t)
    BY <2>1 DEF Owns
  <2> QED BY <2>2 DEF IsThread
<1>2. t \in S /\ h[t].kind = "Thread"
  BY DEF IsThread
<1>3. S \subseteq DOMAIN g /\ g[t].kind = "Thread" /\ g[t].call_tree = h[t].call_tree
  BY <1>2 DEF SameParts
<1>4. g[g[t].call_tree].parent = NULL
  BY <1>1, <1>3 DEF SameParts, IsThread
<1>5. \A s \in S : /\ Owns(g, s) \cup ({g[s].method} \ {NULL}) \subseteq S
                   /\ g[s].list \subseteq CallsOf(g, g[t].methods)
  BY <1>2 DEF SameParts, IsThread
<1>6. \A s \in S \ {t} : \E r \in S : s \in Owns(g, r)
  BY DEF SameParts, IsThread
<1>7. ASSUME NEW m \in S, NEW n \in S, g[m].kind = "Method", g[n].kind = "Method"
      PROVE  g[m].profile = g[n].profile /\ (g[t].owner = "Ruby" => g[m].profile = NULL)
  <2>1. h[m].kind = "Method" /\ h[n].kind = "Method"
    BY <1>7 DEF SameParts
  <2>2. h[m].profile = h[n].profile /\ (h[t].owner = "Ruby" => h[m].profile = NULL)
    BY <2>1 DEF IsThread
  <2> QED BY <1>2, <2>2 DEF SameParts
<1> QED BY <1>2, <1>3, <1>4, <1>5, <1>6, <1>7 DEF IsThread

(* Structures that are the same own and refer to the same. *)
LEMMA SameIsSameParts ==
  ASSUME NEW h, NEW g, NEW S, \A s \in S : s \in DOMAIN h /\ s \in DOMAIN g /\ Same(h[s], g[s])
  PROVE  SameParts(h, g, S)
BY DEF SameParts, Same, Owns

(* A part of the heap without which the rest is whole: it has all that its *)
(* members own, and whoever owns one of them, and no replaced call tree.   *)
Freeable(h, F) ==
  /\ F \subseteq DOMAIN h /\ \A s \in F : ~Replaced(h, s)
  /\ \A s \in F : Owns(h, s) \subseteq F /\ \A r \in DOMAIN h : s \in Owns(h, r) => r \in F

(* It takes a thread with all its parts or leaves it.                      *)
LEMMA FreedWithThread ==
  ASSUME NEW h, NoCycle(h), NEW F, Freeable(h, F), NEW t, NEW S, IsThread(h, t, S)
  PROVE  IF t \in F THEN S \subseteq F ELSE S \cap F = {}
<1>1. CASE t \in F
  <2>1. \A s \in S \cap F : Owns(h, s) \subseteq F
    BY DEF Freeable
  <2>2. S \subseteq F
    BY <1>1, <2>1, ThreadWithin
  <2> QED BY <1>1, <2>2
<1>2. CASE t \notin F
  <2>1. SUFFICES ASSUME S \cap F # {} PROVE FALSE
    BY <1>2
  <2>2. S \cap F \in SUBSET DOMAIN h
    BY DEF IsThread
  <2>3. PICK s \in S \cap F : \A r \in S \cap F : s \notin Owns(h, r)
    BY <2>1, <2>2 DEF NoCycle
  <2>4. PICK r \in S : s \in Owns(h, r)
    BY <1>2, <2>3 DEF IsThread
  <2>5. r \in F
    BY <2>3, <2>4 DEF Freeable, IsThread
  <2> QED BY <2>3, <2>4, <2>5
<1> QED BY <1>1, <1>2

(* Freeing it, and wrapping or unlinking others, keeps the heap as it has  *)
(* to be, and leaves the other threads what they were.                     *)
Freed(h, F, g) ==
  /\ DOMAIN g = DOMAIN h \ F
  /\ \A s \in DOMAIN g :
       /\ Same(h[s], g[s])
       /\ h[s].kind = "Profile" \/ h[s].owner = "Ruby" => g[s].object

(* Freeing such a set leaves a heap of the same shape. *)
LEMMA FreedSorted ==
  ASSUME NEW h, NEW F, NEW g, Sorted(h), OwnedOnce(h), NoCycle(h), Freeable(h, F), Freed(h, F, g)
  PROVE  /\ Sorted(g) /\ OwnedOnce(g) /\ NoCycle(g)
         /\ \A s \in DOMAIN g : Replaced(g, s) => Replaced(h, s)
<1>1. \A s \in DOMAIN g : s \in DOMAIN h /\ s \notin F /\ Same(h[s], g[s])
                          /\ Owns(g, s) = Owns(h, s)
  BY DEF Freed, Same, Owns
<1>2. ASSUME NEW s \in DOMAIN g PROVE Plain(g[s])
  <2>1. Plain(h[s]) /\ Same(h[s], g[s])
    BY <1>1 DEF Sorted
  <2> QED BY <2>1, StructureFields DEF Plain, Same
<1>3. ASSUME NEW s \in DOMAIN g PROVE Kinded(g, s)
  <2>1. ASSUME NEW A, NEW kind, Are(h, A, kind) PROVE Are(g, A, kind)
    BY <1>1, <2>1 DEF Are, Same
  <2>2. Kinded(h, s) /\ Same(h[s], g[s])
    BY <1>1 DEF Sorted
  <2> QED BY <2>1, <2>2 DEF Kinded, Same
<1>6. ASSUME NEW s \in DOMAIN g
      PROVE  (Owned(g, s) <=> Owned(h, s)) /\ (Replaced(g, s) <=> Replaced(h, s))
  <2>1. ASSUME NEW r \in DOMAIN h, s \in Owns(h, r) PROVE r \in DOMAIN g
    <3>1. r \notin F
      BY <1>1, <2>1 DEF Freeable
    <3> QED BY <3>1 DEF Freed
  <2>2. Owned(g, s) <=> Owned(h, s)
    BY <1>1, <2>1 DEF Owned
  <2> QED BY <1>1, <2>2 DEF Replaced, Same
<1>4. OwnedOnce(g)
  <2>1. ASSUME NEW r \in DOMAIN g PROVE Owns(g, r) \subseteq DOMAIN g
    <3>1. ASSUME NEW c \in Owns(g, r), c \in F PROVE FALSE
      BY <1>1, <3>1 DEF Freeable
    <3> QED BY <1>1, <3>1 DEF OwnedOnce, Freed
  <2>2. \A r, q \in DOMAIN g : Owns(g, r) \cap Owns(g, q) # {} => r = q
    BY <1>1 DEF OwnedOnce
  <2>4. ASSUME NEW s \in DOMAIN g
        PROVE  /\ g[s].kind = "Profile" \/ g[s].owner = "Ruby" => g[s].object /\ ~Owned(g, s)
               /\ g[s].owner = "Ruby" => g[s].kind \in {"Thread", "CallTree", "Measurement"}
               /\ \/ g[s].kind \in {"Profile", "Thread"} \/ g[s].owner = "Ruby"
                  \/ Owned(g, s) \/ Replaced(g, s)
    <3>1. g[s].kind = h[s].kind /\ g[s].owner = h[s].owner /\ s \in DOMAIN h
      BY <1>1 DEF Same
    <3> QED BY <1>6, <3>1 DEF OwnedOnce, Freed
  <2> QED BY <2>1, <2>2, <2>4 DEF OwnedOnce
<1>5. NoCycle(g)
  <2>1. ASSUME NEW S \in SUBSET DOMAIN g, S # {}
        PROVE  \E s \in S : \A r \in S : s \notin Owns(g, r)
    <3>1. S \in SUBSET DOMAIN h
      BY <1>1
    <3>2. PICK s \in S : \A r \in S : s \notin Owns(h, r)
      BY <2>1, <3>1 DEF NoCycle
    <3> QED BY <1>1, <3>2
  <2> QED BY <2>1 DEF NoCycle
<1> QED BY <1>2, <1>3, <1>4, <1>5, <1>6 DEF Sorted

(* Every thread of the heap is made of something. *)
Threaded(h) ==
  \A t \in DOMAIN h : h[t].kind = "Thread" => \E S \in SUBSET DOMAIN h : IsThread(h, t, S)

(* The threads of g are threads of h, with the same parts. *)
Match(h, g) ==
  \A t \in DOMAIN g : g[t].kind = "Thread" =>
    /\ t \in DOMAIN h /\ h[t].kind = "Thread"
    /\ \A S : IsThread(h, t, S) => SameParts(h, g, S)
    /\ CallsOf(h, h[t].methods) \subseteq CallsOf(g, h[t].methods)

(* Then they are made of the same in both. *)
LEMMA ThreadsMatch ==
  ASSUME NEW h, NEW g, Sorted(h), Threaded(h), Match(h, g),
         Sorted(g), OwnedOnce(g), NoCycle(g)
  PROVE  /\ Threaded(g)
         /\ \A t, S : IsThread(g, t, S) => IsThread(h, t, S)
         /\ \A t \in DOMAIN g : \A S :
              IsThread(h, t, S) /\ g[t].kind = "Thread" => IsThread(g, t, S)
<1>4. ASSUME NEW t \in DOMAIN g, g[t].kind = "Thread", NEW S, IsThread(h, t, S)
      PROVE  IsThread(g, t, S)
  <2>1. /\ t \in DOMAIN h /\ h[t].kind = "Thread" /\ SameParts(h, g, S)
        /\ CallsOf(h, h[t].methods) \subseteq CallsOf(g, h[t].methods)
    BY <1>4 DEF Match
  <2>2. Plain(h[t])
    BY <2>1 DEF Sorted
  <2> QED BY <1>4, <2>1, <2>2, ThreadStays
<1>1. ASSUME NEW t \in DOMAIN g, g[t].kind = "Thread"
      PROVE  \E S : IsThread(h, t, S) /\ IsThread(g, t, S) /\ S \in SUBSET DOMAIN g
  <2>1. t \in DOMAIN h /\ h[t].kind = "Thread"
    BY <1>1 DEF Match
  <2>2. PICK S \in SUBSET DOMAIN h : IsThread(h, t, S)
    BY <2>1 DEF Threaded
  <2>5. IsThread(g, t, S)
    BY <1>1, <1>4, <2>2
  <2>6. S \in SUBSET DOMAIN g
    BY <2>5 DEF IsThread
  <2> QED BY <2>2, <2>5, <2>6
<1>2. Threaded(g)
  BY <1>1 DEF Threaded
<1>3. ASSUME NEW t, NEW S, IsThread(g, t, S) PROVE IsThread(h, t, S)
  <2>1. t \in DOMAIN g /\ g[t].kind = "Thread" /\ t \in S
    BY <1>3 DEF IsThread
  <2>2. PICK T : IsThread(h, t, T) /\ IsThread(g, t, T)
    BY <1>1, <2>1
  <2>3. t \in T
    BY <2>2 DEF IsThread
  <2>4. S = T
    BY <1>3, <2>1, <2>2, <2>3, ThreadsApart
  <2> QED BY <2>2, <2>4
<1> QED BY <1>2, <1>3, <1>4

(* Call trees are related to their parents and children. *)
Relatives(h) == \A s \in DOMAIN h : h[s].kind = "CallTree" => Related(h, s)

(* The parts of Proper. *)
LEMMA ProperParts ==
  ASSUME NEW h
  PROVE  Proper(h) <=>
           /\ IsFiniteSet(DOMAIN h) /\ NULL \notin DOMAIN h /\ Relatives(h)
           /\ Sorted(h) /\ OwnedOnce(h) /\ NoCycle(h) /\ Threaded(h)
BY DEF Proper, Sorted, Threaded, Relatives

(* The methods of a thread are methods, and parts of it.                   *)
LEMMA ThreadMethods ==
  ASSUME NEW h, Proper(h), NEW t, NEW S, IsThread(h, t, S)
  PROVE  /\ t \in DOMAIN h /\ h[t].methods \subseteq S /\ S \subseteq DOMAIN h
         /\ \A m \in h[t].methods : m \in DOMAIN h /\ m # NULL /\ h[m].kind = "Method"
         /\ \A m \in S : h[m].kind = "Method" => m \in h[t].methods
<1>1. Sorted(h) /\ OwnedOnce(h) /\ S \subseteq DOMAIN h /\ t \in S /\ h[t].kind = "Thread"
      /\ NULL \notin DOMAIN h
  BY ProperParts DEF IsThread
<1>2. h[t].methods \subseteq S
  BY <1>1 DEF IsThread, Owns
<1>3. \A m \in h[t].methods : m \in DOMAIN h /\ m # NULL /\ h[m].kind = "Method"
  BY <1>1, <1>2 DEF Sorted, Kinded, Are
<1>4. ASSUME NEW m \in S, h[m].kind = "Method" PROVE m \in h[t].methods
  <2>1. PICK r \in S : m \in Owns(h, r)
    BY <1>1, <1>4 DEF IsThread
  <2>2. h[r].kind = "Thread" /\ m \in h[r].methods
    BY <1>1, <1>4, <2>1, OwnerKind
  <2> QED BY <1>1, <2>2, OneThread
<1> QED BY <1>1, <1>2, <1>3, <1>4

(* A method is of one thread. *)
LEMMA MethodOfOne ==
  ASSUME NEW h, Proper(h), NEW t, NEW S, IsThread(h, t, S), NEW u \in DOMAIN h,
         NEW m \in h[u].methods, m \in S
  PROVE  u = t
<1>1. Sorted(h) /\ OwnedOnce(h) /\ NoCycle(h) /\ Threaded(h)
  BY ProperParts
<1>2. h[u].kind = "Thread"
  BY <1>1 DEF Sorted, Plain
<1>3. PICK T : IsThread(h, u, T)
  BY <1>1, <1>2 DEF Threaded
<1>4. m \in T
  BY <1>3, ThreadMethods
<1> QED BY <1>1, <1>3, <1>4, ThreadsApart

(* The calls of a thread's methods are not freed without it. *)
LEMMA CallsNotFreed ==
  ASSUME NEW h, Proper(h), NEW F, Freeable(h, F), NEW t \in DOMAIN h \ F
  PROVE  CallsOf(h, h[t].methods) \cap F = {}
<1> DEFINE M == h[t].methods
           Q == CallsOf(h, M) \cap F
<1>1. Sorted(h) /\ OwnedOnce(h) /\ NoCycle(h) /\ Threaded(h) /\ Relatives(h)
  BY ProperParts
<1>2. SUFFICES ASSUME Q # {} PROVE FALSE
  OBVIOUS
<1>3. PICK c \in Q : \A r \in Q : c \notin Owns(h, r)
  <2>1. Q \in SUBSET DOMAIN h
    BY DEF CallsOf
  <2> QED BY <1>1, <1>2, <2>1 DEF NoCycle
<1>4. c \in DOMAIN h /\ c \in F /\ h[c].owner = "C" /\ h[c].method \in M
  BY <1>3 DEF CallsOf
<1>5. h[t].kind = "Thread" /\ \E S : IsThread(h, t, S)
  <2>1. h[t].kind = "Thread"
    BY <1>1, <1>4 DEF Sorted, Plain
  <2> QED BY <1>1, <2>1 DEF Threaded
<1>6. PICK S : IsThread(h, t, S)
  BY <1>5
<1>7. h[c].kind = "CallTree"
  <2>1. h[c].method # NULL
    BY <1>4, <1>6, ThreadMethods
  <2> QED BY <1>1, <1>4, <2>1 DEF Sorted, Plain
<1>8. PICK r \in DOMAIN h : c \in Owns(h, r)
  <2>1. ~Replaced(h, c)
    BY <1>4 DEF Freeable
  <2>2. Owned(h, c)
    BY <1>1, <1>4, <1>7, <2>1 DEF OwnedOnce
  <2> QED BY <2>2 DEF Owned
<1>9. r \in F
  BY <1>4, <1>8 DEF Freeable
<1>10. CASE h[r].kind = "Thread"
  <2>1. PICK T : IsThread(h, r, T)
    BY <1>1, <1>10 DEF Threaded
  <2>2. c \in T
    BY <1>8, <2>1 DEF IsThread
  <2>3. h[c].method \in T
    BY <1>4, <1>6, <2>1, <2>2, ThreadMethods DEF IsThread
  <2>4. t = r
    BY <1>4, <2>1, <2>3, MethodOfOne
  <2> QED BY <1>9, <2>4
<1>11. CASE h[r].kind = "CallTree" /\ c \in h[r].children
  <2>1. Related(h, r)
    BY <1>1, <1>11 DEF Relatives
  <2>2. SameThread(h, r, c)
    BY <1>11, <2>1 DEF Related
  <2>3. c \in CallsOf(h, M)
    BY <1>3
  <2>4. h[r].method \in M
    BY <2>2, <2>3 DEF SameThread
  <2>5. h[r].owner = "C"
    <3>1. ~Copy(h, r)
      BY <1>11, <2>1 DEF Related
    <3> QED BY <1>1, <1>11, <3>1 DEF Copy, Sorted, Plain
  <2>6. r \in Q
    BY <1>9, <2>4, <2>5 DEF CallsOf
  <2> QED BY <1>3, <1>8, <2>6
<1> QED BY <1>1, <1>4, <1>7, <1>8, <1>10, <1>11, OwnerKind

(* What keeps of the heap h when it becomes g: threads are made of what    *)
(* they were made of, with the same calls, and none is replaced.           *)
Keeps(h, g) ==
  /\ \A t, S : IsThread(g, t, S) => IsThread(h, t, S)
  /\ \A t, S : IsThread(h, t, S) => IsThread(g, t, S) \/ S \cap DOMAIN g = {}
  /\ \A s \in DOMAIN g : Replaced(g, s) => s \in DOMAIN h /\ Replaced(h, s)
  /\ \A s \in DOMAIN h \cap DOMAIN g : \A n : n \notin DOMAIN g \ DOMAIN h =>
       (SameThread(h, s, n) => SameThread(g, s, n))

(* Related call trees stay related. *)
LEMMA RelatedStays ==
  ASSUME NEW h, NEW g, NEW s \in DOMAIN h \cap DOMAIN g, Keeps(h, g), Related(h, s),
         \A r \in DOMAIN h \cap DOMAIN g :
           /\ g[r].kind = h[r].kind /\ g[r].method = h[r].method
           /\ g[r].profile = h[r].profile,
         g[s].children = h[s].children, g[s].parent = h[s].parent,
         g[s].owner = h[s].owner,
         (h[s].children \cup {h[s].method, h[s].parent}) \cap (DOMAIN g \ DOMAIN h) = {},
         Sorted(h)
  PROVE  Related(g, s)
<1>1. Copy(g, s) => g[s].children = {}
  BY DEF Related, Copy
<1>2. \A n \in g[s].children : SameThread(g, s, n)
  BY DEF Related, Keeps
<1> DEFINE n == h[s].parent
<1>3. ASSUME n \in DOMAIN g, ~SameThread(g, s, n)
      PROVE  /\ InThread(g, n)
             /\ g[s].method \in DOMAIN g => g[g[s].method].profile = g[g[n].method].profile
  <2>1. n \in DOMAIN h \cap DOMAIN g /\ ~SameThread(h, s, n)
    BY <1>3 DEF Keeps
  <2>2. /\ InThread(h, n)
        /\ h[s].method \in DOMAIN h => h[h[s].method].profile = h[h[n].method].profile
    BY <2>1 DEF Related
  <2>3. PICK t \in DOMAIN h, S \in SUBSET DOMAIN h : IsThread(h, t, S) /\ n \in S
    BY <2>2 DEF InThread
  <2>4. IsThread(g, t, S)
    BY <1>3, <2>3 DEF Keeps
  <2>5. t \in DOMAIN g /\ S \in SUBSET DOMAIN g
    BY <2>4 DEF IsThread
  <2>6. InThread(g, n)
    BY <2>3, <2>4, <2>5 DEF InThread
  <2>7. h[n].kind = "CallTree" /\ h[n].method # NULL
    <3>1. h[n].kind = "CallTree"
      BY <2>1 DEF Sorted, Kinded, Are
    <3> QED BY <2>1, <3>1 DEF Sorted, Plain
  <2>8. h[n].method \in DOMAIN h \cap DOMAIN g /\ g[n].method = h[n].method
    BY <2>1, <2>3, <2>5, <2>7 DEF IsThread
  <2>9. ASSUME g[s].method \in DOMAIN g PROVE g[g[s].method].profile = g[g[n].method].profile
    <3>1. g[s].method = h[s].method /\ h[s].method \in DOMAIN h \cap DOMAIN g
      BY <2>9
    <3>2. g[h[s].method].profile = h[h[s].method].profile
          /\ g[h[n].method].profile = h[h[n].method].profile
      BY <2>8, <3>1
    <3> QED BY <2>2, <2>8, <3>1, <3>2
  <2> QED BY <2>6, <2>9
<1> QED BY <1>1, <1>2, <1>3 DEF Related

(* Freeing and wrapping keep the heap proper. *)
LEMMA FreedProper ==
  ASSUME NEW h, NEW F, NEW g, Proper(h), Freeable(h, F), Freed(h, F, g)
  PROVE  Proper(g) /\ Keeps(h, g) /\ \A A : Unknown(h, A) => Unknown(g, A)
<1>1. Sorted(h) /\ OwnedOnce(h) /\ NoCycle(h) /\ Threaded(h) /\ Relatives(h)
      /\ IsFiniteSet(DOMAIN h) /\ NULL \notin DOMAIN h
  BY ProperParts
<1>2. /\ Sorted(g) /\ OwnedOnce(g) /\ NoCycle(g)
      /\ \A s \in DOMAIN g : Replaced(g, s) => Replaced(h, s)
  BY <1>1, FreedSorted
<1>3. DOMAIN g = DOMAIN h \ F
      /\ \A s \in DOMAIN g : s \in DOMAIN h /\ s \notin F /\ Same(h[s], g[s])
  BY DEF Freed
<1>4. ASSUME NEW t \in DOMAIN g PROVE CallsOf(g, g[t].methods) = CallsOf(h, h[t].methods)
  <2>1. g[t].methods = h[t].methods /\ CallsOf(h, h[t].methods) \cap F = {}
    BY <1>3, CallsNotFreed DEF Same
  <2>2. CallsOf(g, h[t].methods) \subseteq CallsOf(h, h[t].methods)
    BY <1>3 DEF CallsOf, Same
  <2>3. CallsOf(h, h[t].methods) \subseteq CallsOf(g, h[t].methods)
    BY <1>3, <2>1 DEF CallsOf, Same
  <2> QED BY <2>1, <2>2, <2>3
<1>5. Match(h, g)
  <2>1. ASSUME NEW t \in DOMAIN g, g[t].kind = "Thread", NEW S, IsThread(h, t, S)
        PROVE  SameParts(h, g, S)
    <3>1. S \cap F = {} /\ S \subseteq DOMAIN h
      BY <1>1, <1>3, <2>1, FreedWithThread DEF IsThread
    <3>2. S \subseteq DOMAIN g
      BY <1>3, <3>1
    <3> QED BY <1>3, <3>2, SameIsSameParts
  <2>2. ASSUME NEW t \in DOMAIN g, g[t].kind = "Thread"
        PROVE  /\ t \in DOMAIN h /\ h[t].kind = "Thread"
               /\ CallsOf(h, h[t].methods) \subseteq CallsOf(g, h[t].methods)
    BY <1>3, <1>4, <2>2 DEF Same
  <2> QED BY <2>1, <2>2 DEF Match
<1>6. Threaded(g) /\ \A t, S : IsThread(g, t, S) => IsThread(h, t, S)
  BY <1>1, <1>2, <1>5, ThreadsMatch
<1>11. ASSUME NEW t, NEW S, IsThread(h, t, S), S \cap DOMAIN g # {} PROVE IsThread(g, t, S)
  <2>1. t \in DOMAIN h /\ h[t].kind = "Thread"
    BY <1>11 DEF IsThread
  <2>2. t \notin F
    BY <1>1, <1>3, <1>11, FreedWithThread
  <2>3. t \in DOMAIN g /\ g[t].kind = "Thread"
    BY <1>3, <2>1, <2>2 DEF Same
  <2> QED BY <1>1, <1>2, <1>5, <1>11, <2>3, ThreadsMatch
<1>7. IsFiniteSet(DOMAIN g) /\ NULL \notin DOMAIN g
  BY <1>1, <1>3, FS_Subset
<1>8. Keeps(h, g)
  <2>1. ASSUME NEW s \in DOMAIN h \cap DOMAIN g, NEW n, SameThread(h, s, n)
        PROVE  SameThread(g, s, n)
    <3>1. \A t \in DOMAIN g : t \in DOMAIN h /\ g[t].methods = h[t].methods
                              /\ g[s].method = h[s].method
      BY <1>3 DEF Same
    <3> QED BY <1>4, <2>1, <3>1 DEF SameThread
  <2> QED BY <1>2, <1>3, <1>6, <1>11, <2>1 DEF Keeps
<1>9. Relatives(g)
  <2>1. ASSUME NEW s \in DOMAIN g, g[s].kind = "CallTree" PROVE Related(g, s)
    <3>1. Related(h, s) /\ s \in DOMAIN h \cap DOMAIN g /\ Same(h[s], g[s])
      BY <1>1, <1>3, <2>1 DEF Relatives, Same
    <3>2. \A r \in DOMAIN h \cap DOMAIN g :
            g[r].kind = h[r].kind /\ g[r].method = h[r].method /\ g[r].profile = h[r].profile
      BY <1>3 DEF Same
    <3>3. DOMAIN g \ DOMAIN h = {}
      BY <1>3
    <3> QED BY <1>1, <1>8, <3>1, <3>2, <3>3, RelatedStays DEF Same
  <2> QED BY <2>1 DEF Relatives
<1>10. ASSUME NEW A, Unknown(h, A) PROVE Unknown(g, A)
  <2>1. ASSUME NEW s \in DOMAIN g PROVE Refers(g, s) = Refers(h, s) /\ g[s].profile = h[s].profile
    BY <1>3 DEF Same, Refers
  <2> QED BY <1>3, <1>10, <2>1 DEF Unknown
<1> QED BY <1>2, <1>6, <1>7, <1>8, <1>9, <1>10, ProperParts

(* The heap g is h with new structures N, that belong together: copies of  *)
(* nodes and measurements.                                                 *)
Extended(h, N, g) ==
  /\ IsFiniteSet(N) /\ NULL \notin N /\ N \cap DOMAIN h = {} /\ DOMAIN g = DOMAIN h \cup N
  /\ \A s \in DOMAIN h : g[s] = h[s]
  /\ \A r, q \in N : Owns(g, r) \cap Owns(g, q) # {} => r = q
  /\ \A s \in N :
       /\ Plain(g[s]) /\ Kinded(g, s) /\ g[s].kind \in {"CallTree", "Measurement"}
       /\ Owns(g, s) \subseteq N /\ \A c \in Owns(g, s) : Owns(g, c) = {}
       /\ IF g[s].owner = "Ruby" THEN g[s].object /\ \A r \in N : s \notin Owns(g, r)
          ELSE \E r \in N : s \in Owns(g, r)
       /\ g[s].kind = "CallTree" =>
            /\ g[s].owner = "Ruby" /\ g[s].children = {}
            /\ \E n \in DOMAIN h : /\ h[n].kind = "CallTree" /\ h[n].method = g[s].method
                                  /\ h[n].parent = g[s].parent

(* Allocating structures that nothing points to keeps the heap proper.     *)
LEMMA ExtendedProper ==
  ASSUME NEW h, NEW N, NEW g, Proper(h), Unknown(h, N), Extended(h, N, g)
  PROVE  Proper(g) /\ Keeps(h, g)
<1>1. Sorted(h) /\ OwnedOnce(h) /\ NoCycle(h) /\ Threaded(h) /\ Relatives(h)
      /\ IsFiniteSet(DOMAIN h) /\ NULL \notin DOMAIN h
  BY ProperParts
<1>2. /\ DOMAIN g = DOMAIN h \cup N /\ N \cap DOMAIN h = {}
      /\ \A s \in DOMAIN h : /\ g[s] = h[s] /\ Owns(g, s) = Owns(h, s)
                             /\ Refers(g, s) = Refers(h, s) /\ Owns(h, s) \subseteq DOMAIN h
      /\ \A s \in N : /\ Plain(g[s]) /\ Kinded(g, s) /\ Owns(g, s) \subseteq N
                      /\ \A c \in Owns(g, s) : Owns(g, c) = {}
  BY <1>1 DEF Extended, Owns, Refers, OwnedOnce
<1>3. ASSUME NEW s \in DOMAIN h PROVE Kinded(g, s)
  <2>1. ASSUME NEW A, NEW kind, Are(h, A, kind), A \cap N = {} PROVE Are(g, A, kind)
    BY <1>2, <2>1 DEF Are
  <2>2. (Owns(h, s) \cup Refers(h, s) \cup {h[s].profile, NULL}) \cap N = {}
    <3>1. NULL \notin N
      BY DEF Extended
    <3> QED BY <1>2, <3>1 DEF Unknown
  <2>3. Kinded(h, s)
    BY <1>1 DEF Sorted
  <2>4. /\ {h[s].profile} \cap N = {} /\ {h[s].call_trees} \cap N = {}
        /\ ({h[s].method} \cup h[s].methods) \cap N = {}
        /\ ({h[s].parent, h[s].call_tree} \cup h[s].children \cup h[s].list) \cap N = {}
        /\ {h[s].measurement} \cap N = {} /\ h[s].threads \cap N = {}
        /\ h[s].allocations \cap N = {}
    BY <2>2 DEF Owns, Refers
  <2> QED BY <1>2, <2>1, <2>3, <2>4 DEF Kinded
<1>4. Sorted(g)
  BY <1>1, <1>2, <1>3 DEF Sorted
<1>5. ASSUME NEW s \in DOMAIN h
      PROVE  (Owned(g, s) <=> Owned(h, s)) /\ (Replaced(g, s) <=> Replaced(h, s))
  BY <1>2 DEF Owned, Replaced
<1>6. ASSUME NEW s \in N PROVE Owned(g, s) <=> \E r \in N : s \in Owns(g, r)
  BY <1>2 DEF Owned
<1>7. OwnedOnce(g)
  <2>1. \A r \in DOMAIN g : Owns(g, r) \subseteq DOMAIN g
    BY <1>2
  <2>2. \A r, q \in DOMAIN g : Owns(g, r) \cap Owns(g, q) # {} => r = q
    <3>1. SUFFICES ASSUME NEW r \in DOMAIN g, NEW q \in DOMAIN g,
                          Owns(g, r) \cap Owns(g, q) # {}
                   PROVE  r = q
      OBVIOUS
    <3>2. CASE r \in N /\ q \in N
      BY <3>1, <3>2 DEF Extended
    <3>3. CASE r \in DOMAIN h /\ q \in DOMAIN h
      BY <1>1, <1>2, <3>1, <3>3 DEF OwnedOnce
    <3>4. CASE (r \in N /\ q \in DOMAIN h) \/ (r \in DOMAIN h /\ q \in N)
      BY <1>2, <3>1, <3>4
    <3> QED BY <1>2, <3>2, <3>3, <3>4
  <2>3. ASSUME NEW s \in DOMAIN g
        PROVE  /\ g[s].kind = "Profile" \/ g[s].owner = "Ruby" => g[s].object /\ ~Owned(g, s)
               /\ g[s].owner = "Ruby" => g[s].kind \in {"Thread", "CallTree", "Measurement"}
               /\ \/ g[s].kind \in {"Profile", "Thread"} \/ g[s].owner = "Ruby"
                  \/ Owned(g, s) \/ Replaced(g, s)
    <3>1. CASE s \in DOMAIN h
      BY <1>1, <1>2, <1>5, <3>1 DEF OwnedOnce
    <3>2. CASE s \in N
      BY <1>6, <3>2 DEF Extended
    <3> QED BY <1>2, <3>1, <3>2
  <2> QED BY <2>1, <2>2, <2>3 DEF OwnedOnce
<1>8. NoCycle(g)
  <2>1. ASSUME NEW S \in SUBSET DOMAIN g, S # {}
        PROVE  \E s \in S : \A r \in S : s \notin Owns(g, r)
    <3>1. CASE S \cap N = {}
      <4>1. S \in SUBSET DOMAIN h
        BY <1>2, <3>1
      <4>2. PICK s \in S : \A r \in S : s \notin Owns(h, r)
        BY <1>1, <2>1, <4>1 DEF NoCycle
      <4> QED BY <1>2, <4>1, <4>2
    <3>2. CASE S \cap N # {}
      <4>1. PICK s \in S : s \in N
        BY <3>2
      <4>2. \A r \in S : s \in Owns(g, r) => r \in N
        BY <1>2, <4>1
      <4>3. ASSUME NEW r \in S, s \in Owns(g, r), NEW q \in S PROVE r \notin Owns(g, q)
        <5>1. r \in N /\ Owns(g, r) # {}
          BY <4>2, <4>3
        <5> QED BY <1>2, <5>1
      <4> QED BY <4>1, <4>3
    <3> QED BY <3>1, <3>2
  <2> QED BY <2>1 DEF NoCycle
<1>9. Match(h, g)
  <2>1. ASSUME NEW t \in DOMAIN g, g[t].kind = "Thread"
        PROVE  t \in DOMAIN h /\ h[t].kind = "Thread"
    BY <1>2, <2>1 DEF Extended
  <2>2. ASSUME NEW t, NEW S, IsThread(h, t, S) PROVE SameParts(h, g, S)
    BY <1>2, <2>2 DEF SameParts, IsThread
  <2>3. \A M : CallsOf(h, M) \subseteq CallsOf(g, M)
    BY <1>2 DEF CallsOf
  <2> QED BY <2>1, <2>2, <2>3 DEF Match
<1>10. Threaded(g) /\ \A t, S : IsThread(g, t, S) <=> IsThread(h, t, S)
  <2>1. \A t, S : IsThread(h, t, S) => t \in DOMAIN g /\ g[t].kind = "Thread"
    BY <1>2 DEF IsThread
  <2> QED BY <1>1, <1>4, <1>7, <1>8, <1>9, <2>1, ThreadsMatch
<1>11. IsFiniteSet(DOMAIN g) /\ NULL \notin DOMAIN g
  <2>1. IsFiniteSet(N) /\ NULL \notin N
    BY DEF Extended
  <2>2. IsFiniteSet(DOMAIN h \cup N)
    BY <1>1, <2>1, FS_Union
  <2> QED BY <1>1, <1>2, <2>1, <2>2
<1>12. ASSUME NEW s \in DOMAIN h, NEW n, n \notin N, SameThread(h, s, n) PROVE SameThread(g, s, n)
  <2>1. ASSUME NEW t \in DOMAIN g PROVE h[s].method \in g[t].methods <=> n \in CallsOf(g, g[t].methods)
    <3>1. CASE t \in DOMAIN h
      <4>1. n \in CallsOf(g, h[t].methods) <=> n \in CallsOf(h, h[t].methods)
        BY <1>2, <1>12 DEF CallsOf
      <4> QED BY <1>2, <1>12, <3>1, <4>1 DEF SameThread
    <3>2. CASE t \in N
      <4>1. g[t].methods = {}
        BY <1>2, <3>2 DEF Extended, Plain
      <4> QED BY <4>1 DEF CallsOf
    <3> QED BY <1>2, <3>1, <3>2
  <2> QED BY <1>2, <2>1 DEF SameThread
<1>13. ASSUME NEW s \in N PROVE ~Replaced(g, s)
  <2>1. g[s].kind = "CallTree" => g[s].owner = "Ruby"
    BY DEF Extended
  <2> QED BY <2>1 DEF Replaced
<1>14. Keeps(h, g)
  BY <1>2, <1>5, <1>10, <1>12, <1>13 DEF Keeps
<1>15. ASSUME NEW s \in DOMAIN h, h[s].kind = "CallTree" PROVE Related(g, s)
  <2>1. Related(h, s) /\ \A r \in DOMAIN h : Refers(h, r) \cap N = {}
    BY <1>1, <1>15 DEF Relatives, Unknown
  <2>2. \A r \in DOMAIN h : h[r].method \notin N /\ h[r].parent \notin N
    <3>1. NULL \notin N
      BY DEF Extended
    <3> QED BY <2>1, <3>1 DEF Refers
  <2>3. h[s].children \cap N = {}
    BY <1>2 DEF Owns
  <2> QED BY <1>1, <1>2, <1>14, <2>1, <2>2, <2>3, RelatedStays
<1>16. ASSUME NEW s \in N, g[s].kind = "CallTree" PROVE Related(g, s)
  <2>1. /\ g[s].children = {}
        /\ \E n \in DOMAIN h : /\ h[n].kind = "CallTree" /\ h[n].method = g[s].method
                              /\ h[n].parent = g[s].parent
    BY <1>16 DEF Extended
  <2>2. PICK n \in DOMAIN h : /\ h[n].kind = "CallTree" /\ h[n].method = g[s].method
                              /\ h[n].parent = g[s].parent
    BY <2>1
  <2>3. Related(g, n) /\ g[n].method = g[s].method /\ g[n].parent = g[s].parent
    BY <1>2, <1>15, <2>2
  <2>4. \A d : SameThread(g, s, d) <=> SameThread(g, n, d)
    BY <2>3 DEF SameThread
  <2> QED BY <2>1, <2>3, <2>4 DEF Related
<1>17. Relatives(g)
  BY <1>2, <1>15, <1>16 DEF Relatives
<1> QED BY <1>4, <1>7, <1>8, <1>10, <1>11, <1>14, <1>17, ProperParts

(* The heap g is h with other tables of threads: a thread may leave its    *)
(* table, or enter one if it is in none and becomes C's.                   *)
Tabled(h, g) ==
  /\ DOMAIN g = DOMAIN h
  /\ \A s \in DOMAIN h :
       /\ [g[s] EXCEPT !.threads = {}, !.owner = "C"] =
            [h[s] EXCEPT !.threads = {}, !.owner = "C"]
       /\ DOMAIN g[s] = Fields /\ g[s].owner \in {h[s].owner, "C"}
       /\ g[s].owner = h[s].owner \/ h[s].kind = "Thread"
       /\ \A t \in g[s].threads : /\ t \in DOMAIN h /\ h[t].kind = "Thread"
                                 /\ h[s].kind = "Profile"
                                 /\ g[t].owner = "C"
                                 /\ \A p \in DOMAIN h : t \in g[p].threads => p = s

(* Two structures that agree but for tables and owners. *)
LEMMA TabledSame ==
  ASSUME NEW r, NEW q, DOMAIN r = Fields, DOMAIN q = Fields,
         [q EXCEPT !.threads = {}, !.owner = "C"] = [r EXCEPT !.threads = {}, !.owner = "C"]
  PROVE  /\ q.kind = r.kind /\ q.profile = r.profile
         /\ q.method = r.method /\ q.parent = r.parent
         /\ q.call_tree = r.call_tree /\ q.call_trees = r.call_trees
         /\ q.measurement = r.measurement /\ q.methods = r.methods
         /\ q.children = r.children /\ q.list = r.list
         /\ q.allocations = r.allocations /\ q.object = r.object
<1> DEFINE r0 == [r EXCEPT !.threads = {}, !.owner = "C"]
           q0 == [q EXCEPT !.threads = {}, !.owner = "C"]
<1>1. /\ r0.kind = r.kind /\ r0.profile = r.profile /\ r0.method = r.method
      /\ r0.parent = r.parent /\ r0.call_tree = r.call_tree
      /\ r0.call_trees = r.call_trees /\ r0.measurement = r.measurement
      /\ r0.methods = r.methods /\ r0.children = r.children /\ r0.list = r.list
      /\ r0.allocations = r.allocations /\ r0.object = r.object
  BY DEF Fields
<1>2. /\ q0.kind = q.kind /\ q0.profile = q.profile /\ q0.method = q.method
      /\ q0.parent = q.parent /\ q0.call_tree = q.call_tree
      /\ q0.call_trees = q.call_trees /\ q0.measurement = q.measurement
      /\ q0.methods = q.methods /\ q0.children = q.children /\ q0.list = q.list
      /\ q0.allocations = q.allocations /\ q0.object = q.object
  BY DEF Fields
<1>3. q0 = r0
  OBVIOUS
<1> HIDE DEF r0, q0
<1> QED BY <1>1, <1>2, <1>3

(* Moving threads keeps the heap proper. *)
LEMMA TabledProper ==
  ASSUME NEW h, NEW g, Proper(h), Tabled(h, g)
  PROVE  Proper(g) /\ Keeps(h, g) /\ \A A : Unknown(h, A) => Unknown(g, A)
<1>1. Sorted(h) /\ OwnedOnce(h) /\ NoCycle(h) /\ Threaded(h) /\ Relatives(h)
      /\ IsFiniteSet(DOMAIN h) /\ NULL \notin DOMAIN h
  BY ProperParts
<1>2. /\ DOMAIN g = DOMAIN h
      /\ \A s \in DOMAIN h :
           /\ g[s].owner \in {h[s].owner, "C"} /\ (g[s].owner = h[s].owner \/ h[s].kind = "Thread")
           /\ \A u \in g[s].threads : /\ u \in DOMAIN h /\ h[u].kind = "Thread"
                                     /\ h[s].kind = "Profile" /\ g[u].owner = "C"
                                     /\ \A p \in DOMAIN h : u \in g[p].threads => p = s
  BY DEF Tabled
<1>3. ASSUME NEW s \in DOMAIN h
      PROVE  /\ DOMAIN h[s] = Fields /\ DOMAIN g[s] = Fields
             /\ g[s].kind = h[s].kind /\ g[s].profile = h[s].profile
             /\ g[s].method = h[s].method /\ g[s].parent = h[s].parent
             /\ g[s].call_tree = h[s].call_tree /\ g[s].call_trees = h[s].call_trees
             /\ g[s].measurement = h[s].measurement /\ g[s].methods = h[s].methods
             /\ g[s].children = h[s].children /\ g[s].list = h[s].list
             /\ g[s].allocations = h[s].allocations /\ g[s].object = h[s].object
  <2>1. DOMAIN h[s] = Fields
    BY <1>1, StructureFields DEF Sorted, Plain
  <2>2. DOMAIN g[s] = Fields /\ [g[s] EXCEPT !.threads = {}, !.owner = "C"] =
                                 [h[s] EXCEPT !.threads = {}, !.owner = "C"]
    BY DEF Tabled
  <2>3. /\ g[s].kind = h[s].kind /\ g[s].profile = h[s].profile
        /\ g[s].method = h[s].method /\ g[s].parent = h[s].parent
        /\ g[s].call_tree = h[s].call_tree /\ g[s].call_trees = h[s].call_trees
        /\ g[s].measurement = h[s].measurement /\ g[s].methods = h[s].methods
        /\ g[s].children = h[s].children /\ g[s].list = h[s].list
        /\ g[s].allocations = h[s].allocations /\ g[s].object = h[s].object
    BY <2>1, <2>2, TabledSame
  <2> QED BY <2>1, <2>2, <2>3
<1>4. ASSUME NEW s \in DOMAIN h
      PROVE  Plain(g[s]) /\ Kinded(g, s) /\ Refers(g, s) = Refers(h, s)
  <2>1. Plain(h[s]) /\ Kinded(h, s)
    BY <1>1 DEF Sorted
  <2>2. g[s].owner \in {"C", "Ruby"} /\ (g[s].threads # {} => g[s].kind = "Profile")
    BY <1>2, <1>3, <2>1 DEF Plain
  <2>3. Plain(g[s])
    BY <1>3, <2>1, <2>2, StructureFields DEF Plain
  <2>4. ASSUME NEW A, NEW kind, Are(h, A, kind) PROVE Are(g, A, kind)
    BY <1>2, <1>3, <2>4 DEF Are
  <2>5. Are(g, g[s].threads, "Thread")
    BY <1>2, <1>3 DEF Are
  <2>6. Kinded(g, s)
    BY <1>3, <2>1, <2>4, <2>5 DEF Kinded
  <2> QED BY <1>3, <2>3, <2>6 DEF Refers
<1>5. Sorted(g)
  BY <1>2, <1>4 DEF Sorted
<1>6. ASSUME NEW s \in DOMAIN h, NEW c, c \in Owns(g, s)
      PROVE  \/ c \in g[s].threads
             \/ c \in Owns(h, s) /\ c \notin h[s].threads /\ c \notin g[s].threads
  <2>1. c \in g[s].threads \/ c \in Owns(h, s)
    BY <1>3, <1>6 DEF Owns
  <2>2. ASSUME c \in h[s].threads, c \notin g[s].threads PROVE FALSE
    <3>1. h[s].kind = "Profile" /\ Plain(g[s]) /\ g[s].kind = "Profile"
      BY <1>1, <1>3, <1>4, <2>2 DEF Sorted, Plain
    <3> QED BY <1>6, <2>2, <3>1 DEF Owns, Plain
  <2> QED BY <2>1, <2>2
<1>7. ASSUME NEW s \in DOMAIN h, NEW c \in DOMAIN h
      PROVE  c \in Owns(g, s) <=>
               IF h[c].kind = "Thread" THEN c \in g[s].threads ELSE c \in Owns(h, s)
  <2>1. c \in Owns(h, s) /\ c \notin h[s].threads => c \in Owns(g, s) /\ h[c].kind # "Thread"
    <3>1. c \in Owns(h, s) /\ c \notin h[s].threads => h[c].kind # "Thread"
      BY <1>1, OwnerKind
    <3> QED BY <1>3, <3>1 DEF Owns
  <2>2. c \in g[s].threads => c \in Owns(g, s) /\ h[c].kind = "Thread"
    BY <1>2 DEF Owns
  <2>3. c \in h[s].threads => h[c].kind = "Thread"
    BY <1>1 DEF Sorted, Kinded, Are
  <2> QED BY <1>6, <2>1, <2>2, <2>3
<1>8. \A r \in DOMAIN h : Owns(g, r) \subseteq DOMAIN h
  BY <1>1, <1>2, <1>6 DEF OwnedOnce
<1>15. ASSUME NEW s \in DOMAIN h, h[s].kind # "Thread"
       PROVE  (Owned(g, s) <=> Owned(h, s)) /\ (Replaced(g, s) <=> Replaced(h, s))
  <2>1. Owned(g, s) <=> Owned(h, s)
    BY <1>2, <1>7, <1>15 DEF Owned
  <2> QED BY <1>2, <1>3, <1>15, <2>1 DEF Replaced
<1>9. OwnedOnce(g)
  <2>1. ASSUME NEW r \in DOMAIN h, NEW q \in DOMAIN h, NEW c, c \in Owns(g, r), c \in Owns(g, q)
        PROVE  r = q
    <3>1. c \in DOMAIN h
      BY <1>8, <2>1
    <3>2. CASE h[c].kind = "Thread"
      BY <1>2, <1>7, <2>1, <3>1, <3>2
    <3>3. CASE h[c].kind # "Thread"
      BY <1>1, <1>7, <2>1, <3>1, <3>3 DEF OwnedOnce
    <3> QED BY <3>2, <3>3
  <2>3. ASSUME NEW s \in DOMAIN h
        PROVE  /\ g[s].kind = "Profile" \/ g[s].owner = "Ruby" => g[s].object /\ ~Owned(g, s)
               /\ g[s].owner = "Ruby" => g[s].kind \in {"Thread", "CallTree", "Measurement"}
               /\ \/ g[s].kind \in {"Profile", "Thread"} \/ g[s].owner = "Ruby"
                  \/ Owned(g, s) \/ Replaced(g, s)
    <3>1. CASE h[s].kind = "Thread"
      <4>1. g[s].owner = "Ruby" => ~Owned(g, s)
        BY <1>2, <1>7, <3>1 DEF Owned
      <4>2. g[s].owner = "Ruby" => h[s].owner = "Ruby"
        BY <1>2
      <4> QED BY <1>1, <1>3, <3>1, <4>1, <4>2 DEF OwnedOnce
    <3>2. CASE h[s].kind # "Thread"
      <4>1. g[s].owner = h[s].owner
        BY <1>2, <3>2
      <4> QED BY <1>1, <1>3, <1>15, <3>2, <4>1 DEF OwnedOnce
    <3> QED BY <3>1, <3>2
  <2> QED BY <1>2, <1>8, <2>1, <2>3 DEF OwnedOnce
<1>10. NoCycle(g)
  <2>1. ASSUME NEW S \in SUBSET DOMAIN g, S # {}
        PROVE  \E s \in S : \A r \in S : s \notin Owns(g, r)
    <3>1. CASE \E s \in S : h[s].kind = "Profile"
      <4>1. PICK s \in S : h[s].kind = "Profile"
        BY <3>1
      <4>2. \A r \in DOMAIN g : s \notin Owns(g, r)
        BY <1>2, <1>3, <1>5, <4>1, OwnerKind
      <4> QED BY <4>1, <4>2
    <3>2. CASE \A s \in S : h[s].kind # "Profile"
      <4>1. PICK s \in S : \A r \in S : s \notin Owns(h, r)
        BY <1>1, <1>2, <2>1 DEF NoCycle
      <4>2. \A r \in S : g[r].threads = {}
        BY <1>2, <1>3, <1>4, <3>2 DEF Plain
      <4> QED BY <1>2, <1>6, <4>1, <4>2
    <3> QED BY <3>1, <3>2
  <2> QED BY <2>1 DEF NoCycle
<1>11. Match(h, g)
  <2>1. ASSUME NEW t, NEW S, IsThread(h, t, S) PROVE SameParts(h, g, S)
    <3>1. ASSUME NEW s \in S PROVE s \in DOMAIN h /\ h[s].kind # "Profile"
      BY <1>1, <2>1, OneThread DEF IsThread
    <3>2. ASSUME NEW s \in S PROVE Owns(g, s) = Owns(h, s)
      <4>1. g[s].threads = {} /\ h[s].threads = {}
        BY <1>1, <1>3, <1>4, <3>1 DEF Sorted, Plain
      <4> QED BY <1>3, <3>1, <4>1 DEF Owns
    <3> QED BY <1>2, <1>3, <1>4, <3>1, <3>2 DEF SameParts
  <2>2. \A M : CallsOf(h, M) \subseteq CallsOf(g, M)
    BY <1>2, <1>3 DEF CallsOf
  <2> QED BY <1>2, <1>3, <2>1, <2>2 DEF Match
<1>12. Threaded(g) /\ \A t, S : IsThread(g, t, S) <=> IsThread(h, t, S)
  <2>1. \A t, S : IsThread(h, t, S) => t \in DOMAIN g /\ g[t].kind = "Thread"
    BY <1>2, <1>3 DEF IsThread
  <2> QED BY <1>1, <1>5, <1>9, <1>10, <1>11, <2>1, ThreadsMatch
<1>13. ASSUME NEW t \in DOMAIN h PROVE CallsOf(g, g[t].methods) = CallsOf(h, h[t].methods)
  <2>1. NULL \notin h[t].methods
    BY <1>1 DEF OwnedOnce, Owns
  <2>2. \A n \in DOMAIN h : g[n].method # NULL => g[n].owner = h[n].owner
    BY <1>1, <1>2, <1>3 DEF Sorted, Plain
  <2> QED BY <1>2, <1>3, <2>1, <2>2 DEF CallsOf
<1>14. \A A : Unknown(h, A) => Unknown(g, A)
  BY <1>2, <1>3, <1>4 DEF Unknown
<1>16. Keeps(h, g)
  <2>1. ASSUME NEW s \in DOMAIN g, Replaced(g, s) PROVE Replaced(h, s)
    BY <1>2, <1>3, <1>15, <2>1 DEF Replaced
  <2>2. ASSUME NEW s \in DOMAIN h, NEW n, SameThread(h, s, n) PROVE SameThread(g, s, n)
    BY <1>2, <1>3, <1>13, <2>2 DEF SameThread
  <2> QED BY <1>2, <1>12, <2>1, <2>2 DEF Keeps
<1>17. ASSUME NEW s \in DOMAIN g, g[s].kind = "CallTree" PROVE Related(g, s)
  <2>1. h[s].kind = "CallTree" /\ g[s].owner = h[s].owner
    BY <1>2, <1>3, <1>17
  <2>2. Related(h, s) /\ DOMAIN g \ DOMAIN h = {}
    BY <1>1, <1>2, <2>1 DEF Relatives
  <2> QED BY <1>1, <1>2, <1>3, <1>16, <2>1, <2>2, RelatedStays
<1> QED BY <1>1, <1>2, <1>5, <1>9, <1>10, <1>12, <1>14, <1>16, <1>17, ProperParts DEF Relatives

-----------------------------------------------------------------------------
(* What Below, and the functions that free, come to. *)

(* The nodes below n are n, their children, and nothing else.              *)
BelowOf(n, nodes) ==
  /\ n \in nodes /\ nodes \subseteq DOMAIN heap
  /\ \A d \in nodes : heap[d].children \subseteq nodes
  /\ \A c \in nodes \ {n} : \E d \in nodes : c \in heap[d].children

(* Below(n) is that set: what is reached from n by children. *)
LEMMA BelowIs ==
  ASSUME Proper(heap), NEW n \in DOMAIN heap
  PROVE  BelowOf(n, Below(n))
<1> DEFINE H == DOMAIN heap
           grow == [X \in SUBSET H |-> WithChildren(X)]
           P(f) == f = [i \in Nat |-> IF i = 0 THEN {n} ELSE WithChildren(f[i - 1])]
           levels == CHOOSE f : P(f)
<1>1. IsFiniteSet(H) /\ \A d \in H : heap[d].children \subseteq H
  <2>1. OwnedOnce(heap) /\ IsFiniteSet(DOMAIN heap)
    BY ProperParts
  <2> QED BY <2>1 DEF OwnedOnce, Owns
<1>2. grow \in [SUBSET H -> SUBSET H] /\ \A X \in SUBSET H : X \subseteq grow[X]
  <2>1. ASSUME NEW X \in SUBSET H PROVE WithChildren(X) \in SUBSET H /\ X \subseteq WithChildren(X)
    BY <1>1 DEF WithChildren
  <2> QED BY <2>1
<1>3. {n} \in SUBSET H
  OBVIOUS
<1>4. P(levels)
  <2>1. PICK f : Grows(f, {n}, grow) /\ \A i \in Nat : f[i] \in SUBSET H
    <3> HIDE DEF H, grow
    <3> QED BY <1>2, <1>3, GrowthExists
  <2>2. ASSUME NEW i \in Nat
        PROVE  f[i] = IF i = 0 THEN {n} ELSE WithChildren(f[i - 1])
    <3>1. f[i] = IF i = 0 THEN {n} ELSE grow[f[i - 1]]
      BY <2>1 DEF Grows
    <3>2. i # 0 => f[i - 1] \in SUBSET H
      BY <2>1
    <3> QED BY <3>1, <3>2
  <2>3. P(f)
    <3>1. f = [i \in Nat |-> f[i]]
      BY <2>1 DEF Grows
    <3> QED BY <2>2, <3>1
  <2> HIDE DEF P
  <2> QED BY <2>3
<1>5. Below(n) = levels[Cardinality(H)]
  BY DEF Below
<1>6. levels[0] = {n} /\ \A i \in Nat : levels[i + 1] = WithChildren(levels[i])
  <2> HIDE DEF levels
  <2>1. levels[0] = {n}
    BY <1>4
  <2>2. ASSUME NEW i \in Nat PROVE levels[i + 1] = WithChildren(levels[i])
    <3>1. i + 1 \in Nat /\ i + 1 # 0 /\ (i + 1) - 1 = i
      OBVIOUS
    <3> QED BY <1>4, <3>1
  <2> QED BY <2>1, <2>2
<1> HIDE DEF levels
<1> DEFINE A == {i \in Nat : /\ levels[i] \in SUBSET H
                             /\ \A c \in levels[i] \ {n} :
                                  \E d \in levels[i] : c \in heap[d].children}
<1>7. \A i \in Nat : i \in A
  <2>1. 0 \in A
    BY <1>3, <1>6
  <2>2. ASSUME NEW i \in Nat, i \in A PROVE i + 1 \in A
    <3>1. levels[i + 1] = levels[i] \cup UNION {heap[d].children : d \in levels[i]}
      BY <1>6 DEF WithChildren
    <3>2. levels[i + 1] \in SUBSET H
      BY <1>1, <2>2, <3>1
    <3>3. ASSUME NEW c \in levels[i + 1] \ {n}
          PROVE  \E d \in levels[i + 1] : c \in heap[d].children
      <4>1. CASE c \in levels[i]
        BY <2>2, <3>1, <4>1
      <4>2. CASE c \notin levels[i]
        BY <3>1, <3>3, <4>2
      <4> QED BY <4>1, <4>2
    <3> QED BY <3>2, <3>3
  <2> HIDE DEF A
  <2> QED BY <2>1, <2>2, NatInd
<1>8. \A i \in Nat : levels[i + 1] = grow[levels[i]]
  BY <1>6, <1>7
<1>9. /\ \A i \in Nat : levels[i] \in SUBSET H
      /\ levels[0] \subseteq levels[Cardinality(H)]
      /\ grow[levels[Cardinality(H)]] = levels[Cardinality(H)]
  <2>1. levels[0] \in SUBSET H
    BY <1>3, <1>6
  <2> HIDE DEF H, grow
  <2> QED BY <1>1, <1>2, <1>8, <2>1, ClosureReached
<1>10. Cardinality(H) \in Nat
  BY <1>1, FS_CardinalityType
<1>11. Below(n) \in SUBSET H /\ n \in Below(n)
  BY <1>5, <1>6, <1>9, <1>10
<1>12. WithChildren(Below(n)) = Below(n)
  BY <1>5, <1>9, <1>11
<1>13. \A d \in Below(n) : heap[d].children \subseteq Below(n)
  BY <1>12 DEF WithChildren
<1>14. \A c \in Below(n) \ {n} : \E d \in Below(n) : c \in heap[d].children
  BY <1>5, <1>7, <1>10
<1> QED BY <1>11, <1>13, <1>14 DEF BelowOf

(* The children of call trees are call trees, and so are all nodes below   *)
(* one.                                                                    *)
LEMMA BelowAreNodes ==
  ASSUME Proper(heap), NEW n \in DOMAIN heap, heap[n].kind = "CallTree"
  PROVE  \A c \in Below(n) : c \in DOMAIN heap /\ heap[c].kind = "CallTree"
<1>1. BelowOf(n, Below(n)) /\ Sorted(heap)
  BY BelowIs, ProperParts
<1>2. ASSUME NEW c \in Below(n) PROVE c \in DOMAIN heap /\ heap[c].kind = "CallTree"
  <2>1. CASE c = n
    BY <2>1
  <2>2. CASE c # n
    <3>1. PICK d \in Below(n) : c \in heap[d].children
      BY <1>1, <2>2 DEF BelowOf
    <3>2. d \in DOMAIN heap /\ c \in DOMAIN heap
      BY <1>1 DEF BelowOf
    <3> QED BY <1>1, <3>1, <3>2 DEF Sorted, Kinded, Are
  <2> QED BY <2>1, <2>2
<1> QED BY <1>2

(* What a structure owns, by its kind. *)
LEMMA OwnsByKind ==
  ASSUME NEW h, NEW s, Plain(h[s])
  PROVE  /\ h[s].kind = "Profile" => Owns(h, s) = h[s].threads
         /\ h[s].kind = "Thread" => Owns(h, s) = h[s].methods \cup {h[s].call_tree}
         /\ h[s].kind = "Method" => Owns(h, s) = h[s].allocations
                                      \cup ({h[s].call_trees, h[s].measurement} \ {NULL})
         /\ h[s].kind = "CallTree" => Owns(h, s) = h[s].children \cup ({h[s].measurement} \ {NULL})
         /\ h[s].kind \in {"CallTrees", "Measurement", "Allocation"} => Owns(h, s) = {}
BY DEF Owns, Plain

(* F is n with all that it owns, and what that owns, and nothing else.     *)
Frees(n, F) ==
  /\ n \in F /\ F \subseteq DOMAIN heap
  /\ \A s \in F : Owns(heap, s) \subseteq F
  /\ \A s \in F \ {n} : \E r \in F : s \in Owns(heap, r)

(* Measurements, lists and allocations own nothing. *)
LEMMA FreesAlone ==
  ASSUME Proper(heap), NEW s \in DOMAIN heap,
         heap[s].kind \in {"CallTrees", "Measurement", "Allocation"}
  PROVE  Frees(s, {s})
<1>1. Owns(heap, s) = {}
  BY ProperParts, OwnsByKind DEF Sorted
<1> QED BY <1>1 DEF Frees

(* prof_call_tree_free frees a node with all below it and their            *)
(* measurements.                                                           *)
LEMMA FreesNode ==
  ASSUME Proper(heap), NEW n \in DOMAIN heap, heap[n].kind = "CallTree"
  PROVE  Frees(n, prof_call_tree_free(n))
<1> DEFINE F == prof_call_tree_free(n)
<1>1. Sorted(heap) /\ OwnedOnce(heap) /\ NULL \notin DOMAIN heap
  BY ProperParts
<1>2. BelowOf(n, Below(n)) /\ \A c \in Below(n) : c \in DOMAIN heap /\ heap[c].kind = "CallTree"
  BY BelowIs, BelowAreNodes
<1>3. F = Below(n) \cup {heap[c].measurement : c \in {d \in Below(n) : heap[d].measurement # NULL}}
  BY DEF prof_call_tree_free, All, prof_measurement_free
<1>4. ASSUME NEW c \in Below(n)
      PROVE  Owns(heap, c) = heap[c].children \cup ({heap[c].measurement} \ {NULL})
  BY <1>1, <1>2, OwnsByKind DEF Sorted
<1>5. ASSUME NEW c \in Below(n), heap[c].measurement # NULL
      PROVE  /\ heap[c].measurement \in DOMAIN heap
             /\ Owns(heap, heap[c].measurement) = {}
  <2>1. heap[c].measurement \in DOMAIN heap
    BY <1>1, <1>2, <1>4, <1>5 DEF OwnedOnce
  <2>2. heap[heap[c].measurement].kind = "Measurement"
    BY <1>1, <1>2, <2>1 DEF Sorted, Kinded, Are
  <2> QED BY <1>1, <2>1, <2>2, OwnsByKind DEF Sorted
<1>6. n \in F /\ F \subseteq DOMAIN heap
  BY <1>2, <1>3, <1>5 DEF BelowOf
<1>7. \A s \in F : Owns(heap, s) \subseteq F
  BY <1>2, <1>3, <1>4, <1>5 DEF BelowOf
<1>8. ASSUME NEW s \in F \ {n} PROVE \E r \in F : s \in Owns(heap, r)
  <2>1. CASE s \in Below(n)
    BY <1>2, <1>3, <1>4, <1>8, <2>1 DEF BelowOf
  <2>2. CASE s \notin Below(n)
    BY <1>3, <1>4, <1>8, <2>2
  <2> QED BY <2>1, <2>2
<1> QED BY <1>6, <1>7, <1>8 DEF Frees

(* prof_method_free frees a method with its call trees, measurement and    *)
(* allocations.                                                            *)
LEMMA FreesMethod ==
  ASSUME Proper(heap), NEW m \in DOMAIN heap, heap[m].kind = "Method"
  PROVE  Frees(m, prof_method_free(m))
<1>1. Sorted(heap) /\ OwnedOnce(heap)
  BY ProperParts
<1>2. Owns(heap, m) = heap[m].allocations \cup ({heap[m].call_trees, heap[m].measurement} \ {NULL})
  BY <1>1, OwnsByKind DEF Sorted
<1>3. prof_method_free(m) = {m} \cup Owns(heap, m)
  BY <1>2 DEF prof_method_free, prof_allocations_free, All, prof_call_trees_free,
              prof_measurement_free
<1>4. Owns(heap, m) \subseteq DOMAIN heap
  BY <1>1 DEF OwnedOnce
<1>5. ASSUME NEW s \in Owns(heap, m) PROVE Owns(heap, s) = {}
  <2>1. heap[s].kind \in {"CallTrees", "Measurement", "Allocation"}
    <3>1. Kinded(heap, m) /\ s \in DOMAIN heap
      BY <1>1, <1>4 DEF Sorted
    <3> QED BY <1>2, <3>1 DEF Kinded, Are
  <2> QED BY <1>1, <1>4, <2>1, OwnsByKind DEF Sorted
<1> QED BY <1>3, <1>4, <1>5 DEF Frees

(* prof_thread_free frees a thread with its methods and its tree of calls. *)
LEMMA FreesThread ==
  ASSUME Proper(heap), NEW t \in DOMAIN heap, heap[t].kind = "Thread"
  PROVE  Frees(t, prof_thread_free(t))
<1> DEFINE F == prof_thread_free(t)
           tree == heap[t].call_tree
<1>1. Sorted(heap) /\ OwnedOnce(heap) /\ NULL \notin DOMAIN heap
  BY ProperParts
<1>2. Owns(heap, t) = heap[t].methods \cup {tree} /\ Owns(heap, t) \subseteq DOMAIN heap
      /\ tree # NULL
  BY <1>1, OwnsByKind DEF Sorted, OwnedOnce, Plain
<1>3. ASSUME NEW m \in heap[t].methods PROVE Frees(m, prof_method_free(m)) /\ m # NULL
  <2>1. m \in DOMAIN heap /\ heap[m].kind = "Method"
    BY <1>1, <1>2 DEF Sorted, Kinded, Are
  <2> QED BY <1>1, <2>1, FreesMethod
<1>4. Frees(tree, prof_call_tree_free(tree))
  <2>1. tree \in DOMAIN heap /\ heap[tree].kind = "CallTree"
    BY <1>1, <1>2 DEF Sorted, Kinded, Are
  <2> QED BY <2>1, FreesNode
<1>5. F = {t} \cup (UNION {prof_method_free(m) : m \in heap[t].methods}) \cup prof_call_tree_free(tree)
  BY <1>2, <1>3 DEF prof_thread_free, All
<1> HIDE DEF F, tree
<1>6. t \in F /\ F \subseteq DOMAIN heap
  BY <1>3, <1>4, <1>5 DEF Frees
<1>7. ASSUME NEW s \in F PROVE Owns(heap, s) \subseteq F
  <2>1. CASE s = t
    BY <1>2, <1>3, <1>4, <1>5, <2>1 DEF Frees
  <2>2. CASE s # t
    BY <1>3, <1>4, <1>5, <2>2 DEF Frees
  <2> QED BY <2>1, <2>2
<1>8. ASSUME NEW s \in F \ {t} PROVE \E r \in F : s \in Owns(heap, r)
  <2>1. CASE s \in prof_call_tree_free(tree)
    BY <1>2, <1>4, <1>5, <2>1 DEF Frees
  <2>2. ASSUME NEW m \in heap[t].methods, s \in prof_method_free(m)
        PROVE  \E r \in F : s \in Owns(heap, r)
    BY <1>2, <1>3, <1>5, <2>2 DEF Frees
  <2> QED BY <1>5, <1>8, <2>1, <2>2
<1> QED BY <1>6, <1>7, <1>8 DEF Frees, F

(* prof_profile_free frees a profile with all its threads. *)
LEMMA FreesProfile ==
  ASSUME Proper(heap), NEW p \in DOMAIN heap, heap[p].kind = "Profile"
  PROVE  Frees(p, prof_profile_free(p))
<1> DEFINE F == prof_profile_free(p)
<1>1. Sorted(heap) /\ OwnedOnce(heap) /\ NULL \notin DOMAIN heap
  BY ProperParts
<1>2. Owns(heap, p) = heap[p].threads /\ Owns(heap, p) \subseteq DOMAIN heap
  BY <1>1, OwnsByKind DEF Sorted, OwnedOnce
<1>3. ASSUME NEW t \in heap[p].threads PROVE Frees(t, prof_thread_free(t)) /\ t # NULL
  <2>1. t \in DOMAIN heap /\ heap[t].kind = "Thread"
    BY <1>1, <1>2 DEF Sorted, Kinded, Are
  <2> QED BY <1>1, <2>1, FreesThread
<1>4. F = {p} \cup UNION {prof_thread_free(t) : t \in heap[p].threads}
  BY <1>3 DEF prof_profile_free, All
<1>5. p \in F /\ F \subseteq DOMAIN heap
  BY <1>3, <1>4 DEF Frees
<1>6. ASSUME NEW s \in F PROVE Owns(heap, s) \subseteq F
  BY <1>2, <1>3, <1>4 DEF Frees
<1>7. ASSUME NEW s \in F \ {p} PROVE \E r \in F : s \in Owns(heap, r)
  BY <1>2, <1>3, <1>4 DEF Frees
<1> QED BY <1>5, <1>6, <1>7 DEF Frees

(* A thread frees just what it is made of. *)
LEMMA ThreadFrees ==
  ASSUME Proper(heap), NEW t, NEW S, IsThread(heap, t, S)
  PROVE  prof_thread_free(t) = S
<1> DEFINE F == prof_thread_free(t)
<1>1. NoCycle(heap) /\ t \in DOMAIN heap /\ heap[t].kind = "Thread"
  BY ProperParts DEF IsThread
<1>2. Frees(t, F)
  BY <1>1, FreesThread
<1>3. S \subseteq F
  <2> HIDE DEF F
  <2> QED BY <1>1, <1>2, ThreadWithin DEF Frees
<1>4. F \subseteq S
  <2> HIDE DEF F
  <2>1. SUFFICES ASSUME F \ S # {} PROVE FALSE
    OBVIOUS
  <2>2. F \ S \in SUBSET DOMAIN heap
    BY <1>2 DEF Frees
  <2>3. PICK s \in F \ S : \A r \in F \ S : s \notin Owns(heap, r)
    BY <1>1, <2>1, <2>2 DEF NoCycle
  <2>4. PICK r \in F : s \in Owns(heap, r)
    BY <1>2, <2>3 DEF Frees, IsThread
  <2> QED BY <2>3, <2>4 DEF IsThread
<1> QED BY <1>3, <1>4

(* Sweeping an object frees nothing that others own or are left with.      *)
LEMMA SweptFreeable ==
  ASSUME Proper(heap), NEW o \in DOMAIN heap
  PROVE  /\ Freeable(heap, FreedWith(o))
         /\ FreedWith(o) # {} => Frees(o, FreedWith(o))
         /\ heap[o].kind = "Profile" \/ heap[o].owner = "Ruby" => o \in FreedWith(o)
<1> DEFINE F == FreedWith(o)
<1>1. OwnedOnce(heap) /\ Plain(heap[o])
  BY ProperParts DEF Sorted
<1>2. CASE heap[o].kind = "Profile" \/ heap[o].owner = "Ruby"
  <2>1. Frees(o, F)
    <3>1. CASE heap[o].kind = "Profile"
      BY <3>1, FreesProfile DEF FreedWith
    <3>2. CASE heap[o].kind = "Thread" /\ heap[o].owner = "Ruby"
      BY <3>2, FreesThread DEF FreedWith
    <3>3. CASE heap[o].kind = "CallTree" /\ heap[o].owner = "Ruby"
      BY <3>3, FreesNode DEF FreedWith
    <3>4. CASE heap[o].kind = "Measurement" /\ heap[o].owner = "Ruby"
      BY <3>4, FreesAlone DEF FreedWith, prof_measurement_free
    <3> QED BY <1>1, <1>2, <3>1, <3>2, <3>3, <3>4 DEF OwnedOnce
  <2>2. ~Owned(heap, o)
    BY <1>1, <1>2 DEF OwnedOnce
  <2>3. Freeable(heap, F)
    <3> HIDE DEF F
    <3>1. ASSUME NEW s \in F, NEW r \in DOMAIN heap, s \in Owns(heap, r) PROVE r \in F
      <4>1. s # o
        BY <2>2, <3>1 DEF Owned
      <4>2. PICK q \in F : s \in Owns(heap, q)
        BY <2>1, <4>1 DEF Frees
      <4>3. q \in DOMAIN heap
        BY <2>1 DEF Frees
      <4> QED BY <1>1, <3>1, <4>2, <4>3 DEF OwnedOnce
    <3>2. ASSUME NEW s \in F, Replaced(heap, s) PROVE FALSE
      <4>1. s # o
        BY <1>1, <1>2, <3>2 DEF Replaced, Plain
      <4>2. PICK q \in F : s \in Owns(heap, q)
        BY <2>1, <4>1 DEF Frees
      <4> QED BY <2>1, <3>2, <4>2 DEF Replaced, Owned, Frees
    <3> QED BY <2>1, <3>1, <3>2 DEF Freeable, Frees
  <2> QED BY <2>1, <2>3 DEF Frees
<1>3. CASE ~(heap[o].kind = "Profile" \/ heap[o].owner = "Ruby")
  <2>1. F = {}
    BY <1>3 DEF FreedWith
  <2> QED BY <1>3, <2>1 DEF Freeable
<1> QED BY <1>2, <1>3

-----------------------------------------------------------------------------
(* The invariant of the heap and of what links it to the objects. *)

(* What was replaced, or has a parent in another thread, was so from the   *)
(* beginning.                                                              *)
Origins ==
  \A s \in DOMAIN heap :
    /\ Replaced(heap, s) => s \in EverReplaced
    /\ heap[s].kind = "CallTree" /\ heap[s].parent \notin LeftBehind \cup {NULL} =>
         SameThread(heap, s, heap[s].parent)

HeapOK ==
  /\ Proper(heap) /\ Unknown(heap, New) /\ LinksAgree /\ Origins
  /\ IsFiniteSet(objects) /\ null \subseteq objects /\ doomed \subseteq objects
  /\ null \cap DOMAIN heap = {}
  /\ IsFiniteSet(held) /\ Cardinality(held) <= MaxHeld

(* No step makes anything part of a thread that was not. *)
ThreadsKept == \A t, S : IsThread(heap', t, S) => IsThread(heap, t, S)

(* It holds of every world. *)
LEMMA InitHeap == Init => HeapOK
<1>1. SUFFICES ASSUME Init PROVE HeapOK
  OBVIOUS
<1>2. Proper(heap) /\ Unknown(heap, New) /\ Cardinality(objects) <= MaxHeld
  BY <1>1, WorldsAssumption DEF Init
<1>3. IsFiniteSet(DOMAIN heap)
  BY <1>2, ProperParts
<1>4. IsFiniteSet(objects)
  BY <1>1, <1>3, FS_Subset DEF Init
<1>5. LinksAgree
  BY <1>1 DEF Init, LinksAgree
<1>6. ASSUME NEW s \in DOMAIN heap
      PROVE  /\ Replaced(heap, s) => s \in EverReplaced
             /\ heap[s].parent \notin LeftBehind \cup {NULL} => SameThread(heap, s, heap[s].parent)
  <2>1. heap \in Worlds
    BY <1>1 DEF Init
  <2>2. ASSUME Replaced(heap, s) PROVE s \in EverReplaced
    <3>1. s \in {r \in DOMAIN heap : Replaced(heap, r)}
      BY <2>2
    <3> QED BY <2>1, <3>1 DEF EverReplaced
  <2>3. ASSUME heap[s].parent # NULL, ~SameThread(heap, s, heap[s].parent)
        PROVE  heap[s].parent \in LeftBehind
    <3>1. s \in {r \in DOMAIN heap : heap[r].parent # NULL /\ ~SameThread(heap, r, heap[r].parent)}
      BY <2>3
    <3> QED BY <2>1, <3>1 DEF LeftBehind
  <2> QED BY <2>2, <2>3
<1>7. Origins
  BY <1>6 DEF Origins
<1> QED BY <1>1, <1>2, <1>4, <1>5, <1>7 DEF Init, HeapOK

(* Steps that keep what there is add nothing to what was so from the       *)
(* beginning: a new call tree has the method and the parent of another.    *)
LEMMA OriginsKept ==
  ASSUME Origins, Keeps(heap, heap'),
         \A s \in DOMAIN heap \cap DOMAIN heap' :
           /\ heap'[s].kind = heap[s].kind /\ heap'[s].method = heap[s].method
           /\ heap'[s].parent = heap[s].parent,
         \A s \in DOMAIN heap : heap[s].parent \notin DOMAIN heap' \ DOMAIN heap,
         \A s \in DOMAIN heap' \ DOMAIN heap : heap'[s].kind = "CallTree" =>
           \E n \in DOMAIN heap \cap DOMAIN heap' :
             /\ heap[n].kind = "CallTree" /\ heap[n].method = heap'[s].method
             /\ heap[n].parent = heap'[s].parent
  PROVE  Origins'
<1>1. ASSUME NEW s \in DOMAIN heap', Replaced(heap', s) PROVE s \in EverReplaced
  BY <1>1 DEF Keeps, Origins
<1>2. ASSUME NEW n \in DOMAIN heap \cap DOMAIN heap', heap[n].kind = "CallTree",
             heap[n].parent \notin LeftBehind \cup {NULL}
      PROVE  SameThread(heap', n, heap[n].parent)
  BY <1>2 DEF Keeps, Origins
<1>3. ASSUME NEW s \in DOMAIN heap', heap'[s].kind = "CallTree",
             heap'[s].parent \notin LeftBehind \cup {NULL}
      PROVE  SameThread(heap', s, heap'[s].parent)
  <2>1. CASE s \in DOMAIN heap
    BY <1>2, <1>3, <2>1
  <2>2. CASE s \notin DOMAIN heap
    <3>1. PICK n \in DOMAIN heap \cap DOMAIN heap' :
            /\ heap[n].kind = "CallTree" /\ heap[n].method = heap'[s].method
            /\ heap[n].parent = heap'[s].parent
      BY <1>3, <2>2
    <3>2. SameThread(heap', n, heap'[s].parent) /\ heap'[n].method = heap'[s].method
      BY <1>2, <1>3, <3>1
    <3> QED BY <3>2 DEF SameThread
  <2> QED BY <2>1, <2>2
<1> QED BY <1>1, <1>3 DEF Origins

(* A structure that has no object yet is no object.                        *)
LEMMA NoObjectYet ==
  ASSUME HeapOK, NEW s \in DOMAIN heap
  PROVE  heap[s].object \in BOOLEAN /\ (heap[s].object <=> s \in objects) /\ s \notin null
         /\ (~heap[s].object => s \notin doomed)
<1>1. heap[s].object \in BOOLEAN
  BY ProperParts DEF HeapOK, Sorted, Plain
<1> QED BY <1>1 DEF HeapOK, LinksAgree

(* Whatever the program can use, the C code can follow. *)
LEMMA UsableFollowed ==
  ASSUME HeapOK, Sound, NEW o \in Usable
  PROVE  /\ o \in Followed /\ o \in held /\ o \in objects /\ o \notin null
         /\ o \in DOMAIN heap /\ heap[o].object /\ Targets(o) \subseteq DOMAIN heap
<1>1. o \in Followed
  BY DEF Usable, Followed
<1> QED BY <1>1 DEF HeapOK, LinksAgree, Sound, Usable

(* Marking changes only what is doomed. *)
LEMMA MarkHeap == ASSUME HeapOK, Mark PROVE HeapOK' /\ ThreadsKept
<1>1. heap' = heap /\ objects' = objects /\ null' = null /\ held' = held
      /\ doomed' \subseteq objects
  BY DEF Mark
<1> QED BY <1>1 DEF HeapOK, LinksAgree, Origins, ThreadsKept

(* Dropping an object changes only what is held. *)
LEMMA DropHeap == ASSUME HeapOK, NEW o \in held, Drop(o) PROVE HeapOK' /\ ThreadsKept
<1>1. heap' = heap /\ objects' = objects /\ null' = null /\ held' = held \ {o}
      /\ doomed' = doomed
  BY DEF Drop
<1>2. IsFiniteSet(held') /\ Cardinality(held') <= MaxHeld
  <2>1. IsFiniteSet(held) /\ Cardinality(held) \in Nat /\ Cardinality(held) <= MaxHeld
        /\ MaxHeld \in Nat
    BY FS_CardinalityType, WorldsAssumption DEF HeapOK
  <2>2. IsFiniteSet(held') /\ Cardinality(held') = Cardinality(held) - 1
    BY <1>1, <2>1, FS_RemoveElement, FS_Subset
  <2> QED BY <2>1, <2>2
<1> QED BY <1>1, <1>2 DEF HeapOK, LinksAgree, Origins, ThreadsKept

(* A sweep frees a set of structures that owns all it reaches, or lets an  *)
(* object go that stood for a structure.                                   *)
LEMMA SweepHeap ==
  ASSUME HeapOK, NEW o \in doomed, Sweep(o) PROVE HeapOK' /\ ThreadsKept
<1> DEFINE F == IF o \in null THEN {} ELSE FreedWith(o)
           U == IF o \in null THEN {} ELSE {o}
<1>1. /\ objects' = objects \ {o} /\ doomed' = doomed \ {o} /\ held' = held
      /\ heap' = [s \in DOMAIN heap \ F |->
                   IF s \in U THEN [heap[s] EXCEPT !.object = FALSE] ELSE heap[s]]
      /\ null' = (null \cup {s \in F \cap DOMAIN heap : heap[s].object}) \ {o}
  BY DEF Sweep, Unlinked
<1>2. o \notin null => o \in DOMAIN heap /\ heap[o].object
  BY DEF HeapOK, LinksAgree
<1>3. Freeable(heap, F) /\ (o \notin null /\ (heap[o].kind = "Profile" \/ heap[o].owner = "Ruby")
                              => o \in F)
  <2>1. CASE o \in null
    BY <2>1 DEF Freeable
  <2>2. CASE o \notin null
    BY <1>2, <2>2, SweptFreeable DEF HeapOK
  <2> QED BY <2>1, <2>2
<1> HIDE DEF F
<1>4. ASSUME NEW s \in DOMAIN heap'
      PROVE  /\ s \in DOMAIN heap /\ s \notin F /\ Same(heap[s], heap'[s])
             /\ heap'[s].object = (heap[s].object /\ s # o)
             /\ heap[s].kind = "Profile" \/ heap[s].owner = "Ruby" => heap'[s].object
  <2>1. s \in DOMAIN heap /\ s \notin F /\ Plain(heap[s])
    BY <1>1, ProperParts DEF HeapOK, Sorted
  <2>2. heap[s].object \in BOOLEAN /\ DOMAIN heap[s] = Fields
    BY <2>1, StructureFields DEF Plain
  <2>3. heap[s].kind = "Profile" \/ heap[s].owner = "Ruby" => heap[s].object
    BY <2>1, ProperParts DEF HeapOK, OwnedOnce
  <2>4. CASE s \in U
    <3>1. heap'[s] = [heap[s] EXCEPT !.object = FALSE] /\ s = o /\ o \notin null
      BY <1>1, <2>1, <2>4
    <3>2. Same(heap[s], heap'[s]) /\ heap'[s].object = FALSE
      BY <2>2, <3>1, SetObject
    <3> QED BY <1>3, <2>1, <3>1, <3>2
  <2>5. CASE s \notin U
    <3>1. heap'[s] = heap[s] /\ s # o
      BY <1>1, <2>1, <2>5 DEF HeapOK
    <3>2. Same(heap[s], heap'[s])
      BY <2>2, <3>1 DEF Same
    <3> QED BY <2>1, <2>2, <2>3, <3>1, <3>2
  <2> QED BY <2>4, <2>5
<1>5. Freed(heap, F, heap')
  BY <1>1, <1>4 DEF Freed
<1>6. Proper(heap') /\ Unknown(heap', New) /\ Keeps(heap, heap') /\ ThreadsKept
  BY <1>3, <1>5, FreedProper DEF HeapOK, ThreadsKept, Keeps
<1>10. Origins'
  BY <1>1, <1>4, <1>6, OriginsKept DEF HeapOK, Same
<1>7. LinksAgree'
  <2>1. ASSUME NEW x \in objects' \ null' PROVE x \in DOMAIN heap' /\ heap'[x].object
    <3>1. x \in objects /\ x # o /\ x \notin null /\ x \in DOMAIN heap /\ heap[x].object
      BY <1>1, <2>1 DEF HeapOK, LinksAgree
    <3>2. x \notin F
      BY <1>1, <2>1, <3>1
    <3>3. x \in DOMAIN heap'
      BY <1>1, <3>1, <3>2
    <3> QED BY <1>4, <3>1, <3>3
  <2>2. ASSUME NEW s \in DOMAIN heap', heap'[s].object PROVE s \in objects' \ null'
    <3>1. s \in DOMAIN heap /\ s \notin F /\ heap[s].object /\ s # o
      BY <1>4, <2>2
    <3> QED BY <1>1, <3>1 DEF HeapOK, LinksAgree
  <2> QED BY <2>1, <2>2 DEF LinksAgree
<1>8. IsFiniteSet(objects')
  BY <1>1, FS_Subset DEF HeapOK
<1>9. null' \subseteq objects' /\ doomed' \subseteq objects' /\ null' \cap DOMAIN heap' = {}
  <2>1. ASSUME NEW s \in F \cap DOMAIN heap, heap[s].object PROVE s \in objects
    BY <2>1 DEF HeapOK, LinksAgree
  <2>2. DOMAIN heap' = DOMAIN heap \ F
    BY <1>1
  <2> QED BY <1>1, <2>1, <2>2 DEF HeapOK
<1> QED BY <1>1, <1>6, <1>7, <1>8, <1>9, <1>10 DEF HeapOK

(* What reading the structure of o does, that gives the structures given,  *)
(* one of them s.                                                          *)
Gives(o, given, s) ==
  /\ given \subseteq (Owns(heap, o) \cup Refers(heap, o)) \cap DOMAIN heap /\ s \in given
  /\ DOMAIN heap' = DOMAIN heap
  /\ \A x \in DOMAIN heap : /\ Same(heap[x], heap'[x])
                            /\ heap'[x].object = (heap[x].object \/ x \in given)
  /\ objects' = objects \cup given /\ held' = held \cup {s}
  /\ null' = null /\ doomed' = doomed

(* A reader gives objects to structures that were there, and the program   *)
(* holds one of them.                                                      *)
LEMMA ReadGives ==
  ASSUME HeapOK, Sound, NEW o \in held, Read(o)
  PROVE  o \in Usable /\ (\E given, s : Gives(o, given, s)) /\ Cardinality(held') <= MaxHeld
<1>1. o \in Usable
  BY DEF Read
<1>2. o \in DOMAIN heap /\ Targets(o) \subseteq DOMAIN heap
  BY <1>1, UsableFollowed
<1>3. PICK given \in Readers(o) :
        /\ heap' = [s \in DOMAIN heap |->
                     IF s \in given THEN [heap[s] EXCEPT !.object = TRUE] ELSE heap[s]]
        /\ objects' = objects \cup {s \in given : ~heap[s].object}
        /\ \E s \in given : Hold(s)
  BY DEF Read
<1>4. PICK s \in given : Hold(s)
  BY <1>3
<1>5. given \subseteq (Owns(heap, o) \cup Refers(heap, o)) \cap DOMAIN heap
  <2>1. given \subseteq DOMAIN heap
    BY <1>2 DEF Targets
  <2>2. NULL \notin DOMAIN heap
    BY ProperParts DEF HeapOK
  <2>3. given \in {{heap[o].method}, {heap[o].parent}, {heap[o].call_tree}, {heap[o].call_trees},
                   {heap[o].measurement}, heap[o].threads, heap[o].methods, heap[o].children,
                   heap[o].list, heap[o].allocations}
    BY DEF Readers
  <2>4. \A x \in given : x # NULL
    BY <2>1, <2>2
  <2>5. ASSUME NEW x \in given PROVE x \in Owns(heap, o) \cup Refers(heap, o)
    BY <2>3, <2>4 DEF Owns, Refers
  <2> QED BY <2>1, <2>5
<1>6. DOMAIN heap' = DOMAIN heap
  BY <1>3
<1>7. ASSUME NEW x \in DOMAIN heap
      PROVE  Same(heap[x], heap'[x]) /\ heap'[x].object = (heap[x].object \/ x \in given)
  <2>1. DOMAIN heap[x] = Fields /\ heap[x].object \in BOOLEAN
    BY ProperParts, StructureFields DEF HeapOK, Sorted, Plain
  <2>2. CASE x \in given
    <3>1. heap'[x] = [heap[x] EXCEPT !.object = TRUE]
      BY <1>3, <2>2
    <3> QED BY <2>1, <2>2, <3>1, SetObject
  <2>3. CASE x \notin given
    <3>1. heap'[x] = heap[x]
      BY <1>3, <2>3
    <3> QED BY <2>1, <2>3, <3>1 DEF Same
  <2> QED BY <2>2, <2>3
<1>8. objects' = objects \cup given
  BY <1>3, <1>5, NoObjectYet
<1>9. held' = held \cup {s} /\ Cardinality(held') <= MaxHeld
  BY <1>4 DEF Hold
<1>10. null' = null /\ doomed' = doomed
  BY DEF Read
<1>11. Gives(o, given, s)
  BY <1>5, <1>6, <1>7, <1>8, <1>9, <1>10 DEF Gives
<1> QED BY <1>1, <1>9, <1>11

(* So reading keeps the invariant. *)
LEMMA ReadHeap ==
  ASSUME HeapOK, Sound, NEW o \in held, Read(o) PROVE HeapOK' /\ ThreadsKept
<1>1. PICK given, s : Gives(o, given, s)
  BY ReadGives
<1>2. Freeable(heap, {}) /\ Freed(heap, {}, heap')
  <2>1. ASSUME NEW x \in DOMAIN heap, heap[x].kind = "Profile" \/ heap[x].owner = "Ruby"
        PROVE  heap'[x].object
    BY <1>1, <2>1, ProperParts DEF HeapOK, OwnedOnce, Gives
  <2> QED BY <1>1, <2>1 DEF Freeable, Freed, Gives
<1>3. Proper(heap') /\ Unknown(heap', New) /\ Keeps(heap, heap') /\ ThreadsKept
  BY <1>2, FreedProper DEF HeapOK, ThreadsKept, Keeps
<1>8. Origins'
  BY <1>1, <1>3, OriginsKept DEF HeapOK, Gives, Same
<1>4. given \subseteq DOMAIN heap
  BY <1>1 DEF Gives
<1>5. IsFiniteSet(objects')
  <2>1. IsFiniteSet(given)
    BY <1>4, FS_Subset, ProperParts DEF HeapOK
  <2>2. IsFiniteSet(objects \cup given)
    BY <2>1, FS_Union DEF HeapOK
  <2> QED BY <1>1, <2>2 DEF Gives
<1>6. LinksAgree'
  <2>1. ASSUME NEW x \in objects' \ null' PROVE x \in DOMAIN heap' /\ heap'[x].object
    BY <1>1, <1>4, <2>1 DEF Gives, HeapOK, LinksAgree
  <2>2. ASSUME NEW x \in DOMAIN heap', heap'[x].object PROVE x \in objects' \ null'
    BY <1>1, <1>4, <2>2 DEF Gives, HeapOK, LinksAgree
  <2> QED BY <2>1, <2>2 DEF LinksAgree
<1>7. IsFiniteSet(held') /\ Cardinality(held') <= MaxHeld
  <2>1. IsFiniteSet(held \cup {s})
    BY FS_AddElement DEF HeapOK
  <2> QED BY <1>1, <2>1, ReadGives DEF Gives
<1> QED BY <1>1, <1>3, <1>5, <1>6, <1>7, <1>8 DEF HeapOK, Gives

(* What allocating the structures N does, of which c gets an object that   *)
(* the program holds.                                                      *)
Allocates(N, c) ==
  /\ Extended(heap, N, heap') /\ N \subseteq New /\ N \cap objects = {}
  /\ c \in N /\ \A s \in N : heap'[s].object = (s = c)
  /\ objects' = objects \cup {c} /\ held' = held \cup {c} /\ Cardinality(held') <= MaxHeld
  /\ null' = null /\ doomed' = doomed
  /\ \A s \in N : (Refers(heap', s) \cup {heap'[s].profile}) \cap New = {}

(* What is allocated is unknown to the heap, and its object is new. *)
LEMMA AllocatesHeap ==
  ASSUME HeapOK, NEW N, NEW c, Allocates(N, c)
  PROVE  HeapOK' /\ ThreadsKept
<1>1. Unknown(heap, N)
  BY DEF HeapOK, Unknown, Allocates
<1>2. Proper(heap') /\ Keeps(heap, heap') /\ ThreadsKept
  BY <1>1, ExtendedProper DEF HeapOK, ThreadsKept, Allocates, Keeps
<1>3. IsFiniteSet(objects') /\ IsFiniteSet(held') /\ Cardinality(held') <= MaxHeld
  <2>1. IsFiniteSet(objects \cup {c}) /\ IsFiniteSet(held \cup {c})
    BY FS_AddElement DEF HeapOK
  <2> QED BY <2>1 DEF Allocates
<1>4. DOMAIN heap' = DOMAIN heap \cup N /\ N \cap DOMAIN heap = {}
      /\ \A s \in DOMAIN heap : heap'[s] = heap[s]
  BY DEF Allocates, Extended
<1>5. LinksAgree'
  <2>1. ASSUME NEW x \in objects' \ null' PROVE x \in DOMAIN heap' /\ heap'[x].object
    BY <1>4, <2>1 DEF Allocates, HeapOK, LinksAgree
  <2>2. ASSUME NEW x \in DOMAIN heap', heap'[x].object PROVE x \in objects' \ null'
    BY <1>4, <2>2 DEF Allocates, HeapOK, LinksAgree
  <2> QED BY <2>1, <2>2 DEF LinksAgree
<1>6. null' \cap DOMAIN heap' = {}
  BY <1>4 DEF Allocates, HeapOK
<1>7. Unknown(heap', New)
  <2>1. ASSUME NEW s \in DOMAIN heap
        PROVE  (Refers(heap', s) \cup {heap'[s].profile}) \cap New = {}
    <3>1. Refers(heap', s) = Refers(heap, s) /\ heap'[s] = heap[s]
      BY <1>4 DEF Refers
    <3> QED BY <3>1 DEF HeapOK, Unknown
  <2> QED BY <1>4, <2>1 DEF Unknown, Allocates
<1>8. Origins'
  <2>1. \A s \in DOMAIN heap : heap[s].parent \notin N
    <3>1. NULL \notin N
      BY DEF Allocates, Extended
    <3> QED BY <1>1, <3>1 DEF Unknown, Refers
  <2>2. \A s \in N : heap'[s].kind = "CallTree" =>
          \E n \in DOMAIN heap : /\ heap[n].kind = "CallTree"
                                /\ heap[n].method = heap'[s].method
                                /\ heap[n].parent = heap'[s].parent
    BY DEF Allocates, Extended
  <2>3. DOMAIN heap' \ DOMAIN heap = N /\ DOMAIN heap \cap DOMAIN heap' = DOMAIN heap
    BY <1>4
  <2> QED BY <1>2, <1>4, <2>1, <2>2, <2>3, OriginsKept DEF HeapOK
<1> QED BY <1>2, <1>3, <1>5, <1>6, <1>7, <1>8 DEF HeapOK, Allocates

(* The structures that C or Ruby allocates anew, field by field.           *)
LEMMA NewMeasurement ==
  /\ Plain(Structure("Measurement")) /\ Structure("Measurement").object = FALSE
  /\ Structure("Measurement").owner = "C" /\ Structure("Measurement").kind = "Measurement"
  /\ Plain(prof_measurement_allocate) /\ prof_measurement_allocate.object = TRUE
  /\ prof_measurement_allocate.owner = "Ruby" /\ prof_measurement_allocate.kind = "Measurement"
<1> DEFINE r == Structure("Measurement")
           q == prof_measurement_allocate
<1>1. /\ DOMAIN r = Fields /\ r.kind = "Measurement" /\ r.owner = "C" /\ r.object = FALSE
      /\ r.profile = NULL /\ r.method = NULL /\ r.parent = NULL /\ r.call_tree = NULL
      /\ r.call_trees = NULL /\ r.measurement = NULL /\ r.threads = {} /\ r.methods = {}
      /\ r.children = {} /\ r.list = {} /\ r.allocations = {}
  BY DEF Structure, Fields
<1>2. q = [r EXCEPT !.owner = "Ruby", !.object = TRUE]
  BY DEF prof_measurement_allocate
<1> HIDE DEF r, q
<1>3. /\ DOMAIN q = Fields /\ q.kind = "Measurement" /\ q.owner = "Ruby" /\ q.object = TRUE
      /\ q.profile = NULL /\ q.method = NULL /\ q.parent = NULL /\ q.call_tree = NULL
      /\ q.call_trees = NULL /\ q.measurement = NULL /\ q.threads = {} /\ q.methods = {}
      /\ q.children = {} /\ q.list = {} /\ q.allocations = {}
  BY <1>1, <1>2 DEF Fields
<1>4. Plain(r)
  BY <1>1, StructureFields DEF Plain, Kinds
<1>5. Plain(q)
  BY <1>3, StructureFields DEF Plain, Kinds
<1> QED BY <1>1, <1>3, <1>4, <1>5 DEF r, q

(* What is plainly a measurement points nowhere. *)
LEMMA MeasurementPoints ==
  ASSUME NEW h, NEW s, Plain(h[s]), h[s].kind = "Measurement", NULL \notin DOMAIN h
  PROVE  Owns(h, s) = {} /\ Refers(h, s) = {} /\ h[s].profile = NULL /\ Kinded(h, s)
BY DEF Owns, Refers, Plain, Kinded, Are

(* Duplicating a measurement allocates one. *)
LEMMA DuplicateAllocates ==
  ASSUME HeapOK, NEW o \in held, Duplicate(o)
  PROVE  \E m : Allocates({m}, m) /\ heap'[m].kind = "Measurement"
<1>1. PICK m \in Duplicates :
        /\ m \notin DOMAIN heap \cup objects
        /\ heap' = [s \in DOMAIN heap \cup {m} |->
                     IF s = m THEN prof_measurement_allocate ELSE heap[s]]
        /\ objects' = objects \cup {m}
        /\ Hold(m)
  BY DEF Duplicate
<1>2. m \in New /\ m # NULL
  BY WorldsAssumption DEF New
<1>3. /\ DOMAIN heap' = DOMAIN heap \cup {m} /\ heap'[m] = prof_measurement_allocate
      /\ \A s \in DOMAIN heap : heap'[s] = heap[s]
  BY <1>1
<1>4. /\ Plain(heap'[m]) /\ heap'[m].kind = "Measurement" /\ heap'[m].owner = "Ruby"
      /\ heap'[m].object = TRUE
  BY <1>3, NewMeasurement
<1>5. NULL \notin DOMAIN heap'
  BY <1>2, <1>3, ProperParts DEF HeapOK
<1>6. Owns(heap', m) = {} /\ Refers(heap', m) = {} /\ heap'[m].profile = NULL /\ Kinded(heap', m)
  BY <1>4, <1>5, MeasurementPoints
<1>7. IsFiniteSet({m})
  BY FS_Singleton
<1>8. Extended(heap, {m}, heap')
  BY <1>1, <1>2, <1>3, <1>4, <1>6, <1>7 DEF Extended, Copy
<1>9. held' = held \cup {m} /\ Cardinality(held') <= MaxHeld /\ null' = null /\ doomed' = doomed
  BY <1>1 DEF Hold, Duplicate
<1>10. (Refers(heap', m) \cup {heap'[m].profile}) \cap New = {}
  BY <1>6, WorldsAssumption
<1>11. Allocates({m}, m)
  BY <1>1, <1>2, <1>4, <1>8, <1>9, <1>10 DEF Allocates
<1> QED BY <1>4, <1>11

(* A structure of a kind that only methods own is part of a thread.        *)
LEMMA ListInThread ==
  ASSUME NEW h, Proper(h), NEW l \in DOMAIN h, h[l].kind \in {"CallTrees", "Method"}
  PROVE  \E t, S : IsThread(h, t, S) /\ l \in S
<1>1. Sorted(h) /\ OwnedOnce(h) /\ Threaded(h)
  BY ProperParts
<1>2. ASSUME NEW m \in DOMAIN h, h[m].kind = "Method"
      PROVE  \E t, S : IsThread(h, t, S) /\ m \in S
  <2>1. Owned(h, m)
    BY <1>1, <1>2 DEF OwnedOnce, Replaced
  <2>2. PICK t \in DOMAIN h : m \in Owns(h, t)
    BY <2>1 DEF Owned
  <2>3. h[t].kind = "Thread"
    BY <1>1, <1>2, <2>2, OwnerKind
  <2>4. PICK S : IsThread(h, t, S)
    BY <1>1, <2>3 DEF Threaded
  <2> QED BY <2>2, <2>4 DEF IsThread
<1>3. CASE h[l].kind = "CallTrees"
  <2>1. Owned(h, l)
    BY <1>1, <1>3 DEF OwnedOnce, Replaced
  <2>2. PICK m \in DOMAIN h : l \in Owns(h, m)
    BY <2>1 DEF Owned
  <2>3. h[m].kind = "Method"
    BY <1>1, <1>3, <2>2, OwnerKind
  <2>4. PICK t, S : IsThread(h, t, S) /\ m \in S
    BY <1>2, <2>3
  <2> QED BY <2>2, <2>4 DEF IsThread
<1> QED BY <1>2, <1>3

(* The calls of a thread's methods are call trees that lead to it, and so  *)
(* are their children.                                                     *)
LEMMA CallsAre ==
  ASSUME NEW h, Proper(h), NEW t, NEW S, IsThread(h, t, S),
         NEW n \in CallsOf(h, h[t].methods)
  PROVE  /\ n \in DOMAIN h /\ h[n].kind = "CallTree" /\ h[n].owner = "C" /\ h[n].method \in S
         /\ h[n].children \subseteq CallsOf(h, h[t].methods)
<1>1. Sorted(h) /\ Relatives(h) /\ t \in DOMAIN h
  BY ProperParts, ThreadMethods
<1>2. n \in DOMAIN h /\ h[n].owner = "C" /\ h[n].method \in h[t].methods
  BY DEF CallsOf
<1>3. h[n].method \in S /\ h[n].method # NULL
  BY <1>2, ThreadMethods
<1>4. h[n].kind = "CallTree"
  BY <1>1, <1>2, <1>3 DEF Sorted, Plain
<1>5. \A d \in h[n].children : SameThread(h, n, d)
  BY <1>1, <1>2, <1>4 DEF Relatives, Related
<1> QED BY <1>1, <1>2, <1>3, <1>4, <1>5 DEF SameThread

(* The copy of a node that callers and callees give, field by field.       *)
CopyFields(q, r, m) ==
  /\ DOMAIN q = Fields
  /\ q.kind = r.kind /\ q.owner = "Ruby" /\ q.object = TRUE /\ q.profile = r.profile
  /\ q.method = r.method /\ q.parent = r.parent /\ q.call_tree = r.call_tree
  /\ q.call_trees = r.call_trees /\ q.measurement = m
  /\ q.threads = r.threads /\ q.methods = r.methods /\ q.children = {}
  /\ q.list = r.list /\ q.allocations = r.allocations

(* The record that callers and callees give has the fields of the node it  *)
(* copies, no children and its own measurement.                            *)
LEMMA AggregateIs ==
  ASSUME NEW n, DOMAIN heap[n] = Fields, NEW m
  PROVE  CopyFields(Aggregate(n, m), heap[n], m)
<1> DEFINE r == heap[n]
           q == Aggregate(n, m)
<1>1. q = [r EXCEPT !.owner = "Ruby", !.object = TRUE, !.children = {}, !.measurement = m]
  BY DEF Aggregate
<1>2. DOMAIN r = Fields
  OBVIOUS
<1> HIDE DEF r, q
<1>3. CopyFields(q, r, m)
  BY <1>1, <1>2 DEF Fields, CopyFields
<1> QED BY <1>3 DEF r, q

(* Aggregating calls of the list l allocates a copy of a node of the same  *)
(* thread, with a measurement of its own.                                  *)
CopyOf(l, n, c) ==
  /\ l \in Usable /\ heap[l].kind = "CallTrees"
  /\ n \in heap[l].list \cup UNION {heap[d].children : d \in heap[l].list}
  /\ n \in DOMAIN heap /\ heap[n].kind = "CallTree"
  /\ Refers(heap', c) = Refers(heap, n) /\ heap'[c].method = heap[n].method
  /\ heap'[c].kind = "CallTree" /\ heap'[c].owner = "Ruby"

(* Callers and callees allocate a copy of a node and a measurement for it. *)
LEMMA AggregateAllocates ==
  ASSUME HeapOK, Sound, NEW l \in held, AggregateCalls(l)
  PROVE  \E n, c, k : Allocates({c, k}, c) /\ CopyOf(l, n, c) /\ c # k
                      /\ heap'[k].kind = "Measurement" /\ heap'[c].measurement = k
<1>1. PICK n \in Callers(l) \cup Callees(l), copy \in Copies :
        /\ {copy.call_tree, copy.measurement} \cap (DOMAIN heap \cup objects) = {}
        /\ heap' = [s \in DOMAIN heap \cup {copy.call_tree, copy.measurement} |->
                     IF s = copy.call_tree THEN Aggregate(n, copy.measurement)
                     ELSE IF s = copy.measurement THEN Structure("Measurement")
                     ELSE heap[s]]
        /\ objects' = objects \cup {copy.call_tree}
        /\ Hold(copy.call_tree)
  BY DEF AggregateCalls
<1> DEFINE c == copy.call_tree
           k == copy.measurement
<1>2. /\ c \in New /\ k \in New /\ c # NULL /\ k # NULL /\ c # k /\ NULL \notin New
      /\ {c, k} \cap (DOMAIN heap \cup objects) = {}
  BY <1>1, WorldsAssumption DEF New
<1>3. /\ DOMAIN heap' = DOMAIN heap \cup {c, k} /\ heap'[c] = Aggregate(n, k)
      /\ heap'[k] = Structure("Measurement")
      /\ \A s \in DOMAIN heap : heap'[s] = heap[s]
  BY <1>1, <1>2
<1>4. objects' = objects \cup {c} /\ held' = held \cup {c} /\ Cardinality(held') <= MaxHeld
      /\ null' = null /\ doomed' = doomed
  BY <1>1 DEF Hold, AggregateCalls
<1>5. l \in Usable /\ heap[l].kind = "CallTrees"
  BY DEF AggregateCalls
<1> HIDE DEF c, k
<1>6. l \in DOMAIN heap
  BY <1>5, UsableFollowed
<1>7. /\ Sorted(heap) /\ OwnedOnce(heap) /\ NULL \notin DOMAIN heap /\ NoCycle(heap)
  BY ProperParts DEF HeapOK
<1>8. n \in heap[l].list \cup UNION {heap[d].children : d \in heap[l].list}
  BY <1>1 DEF Callers, Callees
<1>9. PICK t, S : IsThread(heap, t, S) /\ l \in S
  BY <1>5, <1>6, ListInThread DEF HeapOK
<1>10. n \in DOMAIN heap /\ heap[n].kind = "CallTree"
  <2>1. heap[l].list \subseteq CallsOf(heap, heap[t].methods)
    BY <1>9 DEF IsThread
  <2>2. Proper(heap)
    BY DEF HeapOK
  <2>3. \A d \in heap[l].list : heap[d].children \subseteq CallsOf(heap, heap[t].methods)
    BY <1>9, <2>1, <2>2, CallsAre
  <2>4. n \in CallsOf(heap, heap[t].methods)
    BY <1>8, <2>1, <2>3
  <2> QED BY <1>9, <2>2, <2>4, CallsAre
<1>11. Plain(heap[n]) /\ Kinded(heap, n) /\ DOMAIN heap[n] = Fields
  BY <1>7, <1>10, StructureFields DEF Sorted, Plain
<1>12. /\ DOMAIN heap'[c] = Fields
       /\ heap'[c].kind = "CallTree" /\ heap'[c].owner = "Ruby" /\ heap'[c].object = TRUE
       /\ heap'[c].profile = NULL /\ heap'[c].method = heap[n].method
       /\ heap'[c].parent = heap[n].parent /\ heap'[c].call_tree = NULL
       /\ heap'[c].call_trees = NULL /\ heap'[c].measurement = k
       /\ heap'[c].threads = {} /\ heap'[c].methods = {} /\ heap'[c].children = {}
       /\ heap'[c].list = {} /\ heap'[c].allocations = {} /\ heap[n].method # NULL
       /\ heap[n].list = {}
  <2>1. /\ heap[n].profile = NULL /\ heap[n].call_tree = NULL /\ heap[n].call_trees = NULL
        /\ heap[n].threads = {} /\ heap[n].methods = {} /\ heap[n].list = {}
        /\ heap[n].allocations = {} /\ heap[n].method # NULL
    BY <1>10, <1>11 DEF Plain
  <2> DEFINE q == Aggregate(n, k)
  <2>2. CopyFields(q, heap[n], k)
    BY <1>11, AggregateIs
  <2>3. heap'[c] = q
    BY <1>3
  <2> HIDE DEF q
  <2> QED BY <1>10, <2>1, <2>2, <2>3 DEF CopyFields
<1>13. Plain(heap'[k]) /\ heap'[k].kind = "Measurement" /\ heap'[k].owner = "C"
       /\ heap'[k].object = FALSE
  BY <1>3, NewMeasurement
<1>14. NULL \notin DOMAIN heap'
  BY <1>2, <1>3, <1>7
<1>15. Owns(heap', k) = {} /\ Refers(heap', k) = {} /\ heap'[k].profile = NULL /\ Kinded(heap', k)
  BY <1>13, <1>14, MeasurementPoints
<1>16. Plain(heap'[c])
  BY <1>12, StructureFields DEF Plain, Kinds
<1>17. Owns(heap', c) = {k} /\ Refers(heap', c) = Refers(heap, n)
  BY <1>2, <1>12 DEF Owns, Refers
<1>18. Refers(heap, n) \cap New = {}
  BY <1>10 DEF HeapOK, Unknown
<1>19. Kinded(heap', c)
  <2>1. ASSUME NEW x, x \in {heap[n].method, heap[n].parent}
        PROVE  x \in DOMAIN heap' => x \in DOMAIN heap /\ heap'[x] = heap[x]
    <3>1. x = NULL \/ x \notin New
      BY <1>18, <2>1 DEF Refers
    <3> QED BY <1>2, <1>3, <1>14, <3>1
  <2>2. Are(heap', {heap'[c].method}, "Method") /\ Are(heap', {heap'[c].parent}, "CallTree")
    BY <1>11, <1>12, <2>1 DEF Kinded, Are
  <2>3. Are(heap', {heap'[c].measurement}, "Measurement")
    BY <1>12, <1>13 DEF Are
  <2> QED BY <1>12, <1>14, <2>2, <2>3 DEF Kinded, Are
<1>21. Extended(heap, {c, k}, heap')
  <2>1. IsFiniteSet({c, k})
    <3>1. IsFiniteSet({c} \cup {k})
      BY FS_Singleton, FS_Union
    <3>2. {c} \cup {k} = {c, k}
      OBVIOUS
    <3> QED BY <3>1, <3>2
  <2>2. NULL \notin {c, k} /\ {c, k} \cap DOMAIN heap = {}
        /\ DOMAIN heap' = DOMAIN heap \cup {c, k}
        /\ \A s \in DOMAIN heap : heap'[s] = heap[s]
    BY <1>2, <1>3
  <2>3. \A r, q \in {c, k} : Owns(heap', r) \cap Owns(heap', q) # {} => r = q
    BY <1>15, <1>17
  <2>4. \A s \in {c, k} : Plain(heap'[s]) /\ Kinded(heap', s)
                          /\ heap'[s].kind \in {"CallTree", "Measurement"}
    BY <1>12, <1>13, <1>15, <1>16, <1>19
  <2>5. \A s \in {c, k} : /\ Owns(heap', s) \subseteq {c, k}
                          /\ \A d \in Owns(heap', s) : Owns(heap', d) = {}
    BY <1>15, <1>17
  <2>6. \A s \in {c, k} :
          /\ IF heap'[s].owner = "Ruby"
             THEN heap'[s].object /\ \A r \in {c, k} : s \notin Owns(heap', r)
             ELSE \E r \in {c, k} : s \in Owns(heap', r)
    BY <1>2, <1>12, <1>13, <1>15, <1>17
  <2>7. \A s \in {c, k} : heap'[s].kind = "CallTree" =>
          /\ heap'[s].owner = "Ruby" /\ heap'[s].children = {}
          /\ \E d \in DOMAIN heap : /\ heap[d].kind = "CallTree"
                                   /\ heap[d].method = heap'[s].method
                                   /\ heap[d].parent = heap'[s].parent
    BY <1>10, <1>12, <1>13
  <2> QED BY <2>1, <2>2, <2>3, <2>4, <2>5, <2>6, <2>7 DEF Extended
<1>22. \A s \in {c, k} : (Refers(heap', s) \cup {heap'[s].profile}) \cap New = {}
  BY <1>2, <1>12, <1>15, <1>17, <1>18
<1>23. Allocates({c, k}, c)
  BY <1>2, <1>4, <1>12, <1>13, <1>21, <1>22 DEF Allocates
<1>24. CopyOf(l, n, c)
  BY <1>5, <1>8, <1>10, <1>12, <1>17 DEF CopyOf
<1> QED BY <1>2, <1>12, <1>13, <1>23, <1>24

(* Tables and owners can be changed field by field. *)
Retabled(q, r) ==
  /\ [q EXCEPT !.threads = {}, !.owner = "C"] = [r EXCEPT !.threads = {}, !.owner = "C"]
  /\ DOMAIN q = Fields /\ q.object = r.object

(* The table of threads of a record is replaced, and nothing else. *)
LEMMA SetThreads ==
  ASSUME NEW r, DOMAIN r = Fields, NEW X, NEW q, q = [r EXCEPT !.threads = X]
  PROVE  Retabled(q, r) /\ q.threads = X /\ q.owner = r.owner
BY DEF Fields, Retabled

(* A record is given to C, and nothing else. *)
LEMMA SetOwner ==
  ASSUME NEW r, DOMAIN r = Fields, NEW q, q = [r EXCEPT !.owner = "C"]
  PROVE  Retabled(q, r) /\ q.threads = r.threads /\ q.owner = "C"
BY DEF Fields, Retabled

(* Moving a thread leaves all but tables and owners as they were.          *)
LEMMA TabledHeap ==
  ASSUME HeapOK, Tabled(heap, heap'), \A s \in DOMAIN heap : heap'[s].object = heap[s].object,
         objects' = objects, null' = null, doomed' = doomed, held' = held
  PROVE  HeapOK' /\ ThreadsKept
<1>1. Proper(heap') /\ Unknown(heap', New) /\ Keeps(heap, heap') /\ ThreadsKept
  BY TabledProper DEF HeapOK, ThreadsKept, Keeps
<1>2. DOMAIN heap' = DOMAIN heap
  BY DEF Tabled
<1>4. ASSUME NEW s \in DOMAIN heap
      PROVE  /\ heap'[s].kind = heap[s].kind /\ heap'[s].method = heap[s].method
             /\ heap'[s].parent = heap[s].parent
  <2>1. /\ [heap'[s] EXCEPT !.threads = {}, !.owner = "C"] =
               [heap[s] EXCEPT !.threads = {}, !.owner = "C"]
        /\ DOMAIN heap'[s] = Fields /\ DOMAIN heap[s] = Fields
    BY ProperParts, StructureFields DEF Tabled, HeapOK, Sorted, Plain
  <2> QED BY <2>1, TabledSame
<1>5. Origins'
  BY <1>1, <1>2, <1>4, OriginsKept DEF HeapOK
<1>3. LinksAgree'
  BY <1>2 DEF LinksAgree, HeapOK
<1> QED BY <1>1, <1>2, <1>3, <1>5 DEF HeapOK

(* What prof_remove_thread and prof_add_thread have in common.             *)
Moves ==
  /\ Tabled(heap, heap') /\ \A s \in DOMAIN heap : heap'[s].object = heap[s].object
  /\ objects' = objects /\ null' = null /\ doomed' = doomed /\ held' = held

(* Taking a thread out of a profile moves nothing into a table. *)
LEMMA RemoveMoves ==
  ASSUME HeapOK, Sound, NEW p \in held, NEW t \in held, prof_remove_thread(p, t)
  PROVE  Moves /\ \A s \in DOMAIN heap : heap'[s].threads \subseteq heap[s].threads
<1>1. /\ p \in DOMAIN heap /\ heap[p].kind = "Profile"
      /\ heap' = [heap EXCEPT ![p].threads = heap[p].threads \ {t}]
      /\ objects' = objects /\ null' = null /\ doomed' = doomed /\ held' = held
  BY UsableFollowed DEF prof_remove_thread
<1>2. Sorted(heap) /\ OwnedOnce(heap)
  BY ProperParts DEF HeapOK
<1>3. \A s \in DOMAIN heap : DOMAIN heap[s] = Fields
  BY <1>2, StructureFields DEF Sorted, Plain
<1>4. DOMAIN heap' = DOMAIN heap
  BY <1>1
<1>5. ASSUME NEW s \in DOMAIN heap
      PROVE  Retabled(heap'[s], heap[s]) /\ heap'[s].owner = heap[s].owner
             /\ heap'[s].threads \subseteq heap[s].threads /\ (s # p => heap'[s] = heap[s])
  <2>1. CASE s = p
    <3>1. heap'[s] = [heap[s] EXCEPT !.threads = heap[s].threads \ {t}]
      BY <1>1, <2>1
    <3>2. Retabled(heap'[s], heap[s]) /\ heap'[s].owner = heap[s].owner
          /\ heap'[s].threads = heap[s].threads \ {t}
      BY <1>3, <3>1, SetThreads
    <3> QED BY <2>1, <3>2
  <2>2. CASE s # p
    <3>1. heap'[s] = heap[s]
      BY <1>1, <2>2
    <3> QED BY <1>3, <3>1 DEF Retabled
  <2> QED BY <2>1, <2>2
<1>6. ASSUME NEW s \in DOMAIN heap, NEW u \in heap'[s].threads
      PROVE  /\ u \in DOMAIN heap /\ heap[u].kind = "Thread" /\ heap[s].kind = "Profile"
             /\ heap'[u].owner = "C"
             /\ \A r \in DOMAIN heap : u \in heap'[r].threads => r = s
  <2>1. u \in heap[s].threads /\ u \in Owns(heap, s)
    BY <1>5 DEF Owns
  <2>2. u \in DOMAIN heap /\ heap[u].kind = "Thread" /\ heap[s].kind = "Profile"
    BY <1>2, <2>1 DEF OwnedOnce, Sorted, Plain, Kinded, Are
  <2>3. Owned(heap, u)
    BY <2>1 DEF Owned
  <2>4. heap[u].owner = "C"
    BY <1>2, <2>2, <2>3 DEF OwnedOnce, Sorted, Plain
  <2>5. ASSUME NEW r \in DOMAIN heap, u \in heap'[r].threads PROVE r = s
    <3>1. u \in heap[r].threads
      BY <1>5, <2>5
    <3>2. u \in Owns(heap, r)
      BY <3>1 DEF Owns
    <3> QED BY <1>2, <2>1, <3>2 DEF OwnedOnce
  <2> QED BY <1>5, <2>2, <2>4, <2>5
<1>7. Tabled(heap, heap')
  BY <1>4, <1>5, <1>6 DEF Tabled, Retabled
<1> QED BY <1>1, <1>5, <1>7 DEF Moves, Retabled

(* Adding a thread moves that one thread, which was in no table. *)
LEMMA AddMoves ==
  ASSUME HeapOK, Sound, NEW p \in held, NEW t \in held, prof_add_thread(p, t)
  PROVE  /\ Moves /\ t \in Usable /\ heap[t].kind = "Thread"
         /\ \A s \in DOMAIN heap : heap'[s].threads \subseteq heap[s].threads \cup {t}
<1>1. /\ p \in DOMAIN heap /\ heap[p].kind = "Profile" /\ t \in DOMAIN heap
      /\ heap[t].kind = "Thread" /\ t \in Usable /\ ~InTable(t)
      /\ heap' = [heap EXCEPT ![p].threads = heap[p].threads \cup {t}, ![t].owner = "C"]
      /\ objects' = objects /\ null' = null /\ doomed' = doomed /\ held' = held
  BY UsableFollowed DEF prof_add_thread
<1>2. Sorted(heap) /\ OwnedOnce(heap)
  BY ProperParts DEF HeapOK
<1>3. \A s \in DOMAIN heap : DOMAIN heap[s] = Fields
  BY <1>2, StructureFields DEF Sorted, Plain
<1>4. DOMAIN heap' = DOMAIN heap /\ p # t
  BY <1>1
<1>5. ASSUME NEW s \in DOMAIN heap
      PROVE  /\ Retabled(heap'[s], heap[s])
             /\ heap'[s].owner = IF s = t THEN "C" ELSE heap[s].owner
             /\ heap'[s].threads = IF s = p THEN heap[s].threads \cup {t} ELSE heap[s].threads
  <2>1. CASE s = p
    <3>1. heap'[s] = [heap[s] EXCEPT !.threads = heap[s].threads \cup {t}]
      BY <1>1, <1>4, <2>1
    <3>2. Retabled(heap'[s], heap[s]) /\ heap'[s].owner = heap[s].owner
          /\ heap'[s].threads = heap[s].threads \cup {t}
      BY <1>3, <3>1, SetThreads
    <3> QED BY <1>4, <2>1, <3>2
  <2>2. CASE s = t
    <3>1. heap'[s] = [heap[s] EXCEPT !.owner = "C"]
      BY <1>1, <1>4, <2>2
    <3>2. Retabled(heap'[s], heap[s]) /\ heap'[s].owner = "C" /\ heap'[s].threads = heap[s].threads
      BY <1>3, <3>1, SetOwner
    <3> QED BY <1>4, <2>2, <3>2
  <2>3. CASE s # p /\ s # t
    <3>1. heap'[s] = heap[s]
      BY <1>1, <2>3
    <3> QED BY <1>3, <2>3, <3>1 DEF Retabled
  <2> QED BY <2>1, <2>2, <2>3
<1>6. \A r \in DOMAIN heap : t \notin heap[r].threads
  <2>1. ASSUME NEW r \in DOMAIN heap, t \in heap[r].threads PROVE FALSE
    <3>1. heap[r].kind = "Profile"
      BY <1>2, <2>1 DEF Sorted, Plain
    <3> QED BY <1>1, <2>1, <3>1 DEF InTable, Of
  <2> QED BY <2>1
<1>7. ASSUME NEW s \in DOMAIN heap, NEW u \in heap'[s].threads
      PROVE  /\ u \in DOMAIN heap /\ heap[u].kind = "Thread" /\ heap[s].kind = "Profile"
             /\ heap'[u].owner = "C"
             /\ \A r \in DOMAIN heap : u \in heap'[r].threads => r = s
  <2>1. CASE u = t
    <3>1. \A r \in DOMAIN heap : t \in heap'[r].threads => r = p
      BY <1>5, <1>6
    <3> QED BY <1>1, <1>5, <2>1, <3>1
  <2>2. CASE u # t
    <3>1. u \in heap[s].threads /\ u \in Owns(heap, s)
      BY <1>5, <2>2 DEF Owns
    <3>2. u \in DOMAIN heap /\ heap[u].kind = "Thread" /\ heap[s].kind = "Profile"
      BY <1>2, <3>1 DEF OwnedOnce, Sorted, Plain, Kinded, Are
    <3>3. Owned(heap, u)
      BY <3>1 DEF Owned
    <3>4. heap[u].owner = "C"
      BY <1>2, <3>2, <3>3 DEF OwnedOnce, Sorted, Plain
    <3>5. ASSUME NEW r \in DOMAIN heap, u \in heap'[r].threads PROVE r = s
      <4>1. u \in heap[r].threads
        BY <1>5, <2>2, <3>5
      <4>2. u \in Owns(heap, r)
        BY <4>1 DEF Owns
      <4> QED BY <1>2, <3>1, <4>2 DEF OwnedOnce
    <3> QED BY <1>5, <2>2, <3>2, <3>4, <3>5
  <2> QED BY <2>1, <2>2
<1>8. Tabled(heap, heap')
  <2>1. ASSUME NEW s \in DOMAIN heap
        PROVE  /\ heap'[s].owner \in {heap[s].owner, "C"}
               /\ heap'[s].owner = heap[s].owner \/ heap[s].kind = "Thread"
    BY <1>1, <1>5
  <2>2. ASSUME NEW s \in DOMAIN heap
        PROVE  /\ [heap'[s] EXCEPT !.threads = {}, !.owner = "C"] =
                     [heap[s] EXCEPT !.threads = {}, !.owner = "C"]
               /\ DOMAIN heap'[s] = Fields
    BY <1>5 DEF Retabled
  <2> QED BY <1>4, <1>7, <2>1, <2>2 DEF Tabled
<1>9. ASSUME NEW s \in DOMAIN heap
      PROVE  heap'[s].object = heap[s].object /\ heap'[s].threads \subseteq heap[s].threads \cup {t}
  BY <1>5 DEF Retabled
<1> QED BY <1>1, <1>8, <1>9 DEF Moves

(* Every step keeps the heap as it has to be. *)
LEMMA NextHeap == ASSUME HeapOK, [Next]_vars PROVE HeapOK'
<1>1. CASE UNCHANGED vars
  BY <1>1 DEF vars, HeapOK, LinksAgree, Origins
<1>2. CASE Next
  <2>1. Sound
    BY <1>2 DEF Next
  <2>2. CASE Mark
    BY <2>2, MarkHeap
  <2>3. CASE \E o \in doomed : Sweep(o)
    BY <2>3, SweepHeap
  <2>4. CASE \E o \in held : Read(o)
    BY <2>1, <2>4, ReadHeap
  <2>5. CASE \E o \in held : Drop(o)
    BY <2>5, DropHeap
  <2>6. CASE \E o \in held : AggregateCalls(o)
    BY <2>1, <2>6, AggregateAllocates, AllocatesHeap
  <2>7. CASE \E o \in held : Duplicate(o)
    BY <2>7, DuplicateAllocates, AllocatesHeap
  <2>8. CASE \E p, t \in held : prof_remove_thread(p, t) \/ prof_add_thread(p, t)
    <3>1. Moves
      BY <2>1, <2>8, RemoveMoves, AddMoves
    <3> QED BY <3>1, TabledHeap DEF Moves
  <2> QED BY <1>2, <2>2, <2>3, <2>4, <2>5, <2>6, <2>7, <2>8 DEF Next
<1> QED BY <1>1, <1>2

-----------------------------------------------------------------------------
(* What the invariant of the heap says of the properties. *)

(* The types. *)
LEMMA HeapTyped == HeapOK => TypeOK
<1>1. SUFFICES ASSUME HeapOK PROVE TypeOK
  OBVIOUS
<1>2. Sorted(heap)
  BY <1>1, ProperParts DEF HeapOK
<1> QED BY <1>1, <1>2 DEF TypeOK, HeapOK, Sorted, Plain

(* What the collector frees is owned by nobody, for it is owned at most    *)
(* once.                                                                   *)
LEMMA HeapOwned == HeapOK => OneOwner
<1>1. SUFFICES ASSUME HeapOK, NEW s \in DOMAIN heap, heap[s].owner = "Ruby"
               PROVE  /\ s \in objects \ null
                      /\ \A r \in DOMAIN heap : s \notin heap[r].threads \cup heap[r].children
                                              \cup {heap[r].call_tree, heap[r].measurement}
  BY DEF OneOwner
<1>2. OwnedOnce(heap) /\ NULL \notin DOMAIN heap
  BY <1>1, ProperParts DEF HeapOK
<1>3. heap[s].object /\ ~Owned(heap, s) /\ s # NULL
  BY <1>1, <1>2 DEF OwnedOnce
<1>4. s \in objects \ null
  BY <1>1, <1>3 DEF HeapOK, LinksAgree
<1>5. \A r \in DOMAIN heap : s \notin heap[r].threads \cup heap[r].children
                                  \cup {heap[r].call_tree, heap[r].measurement}
  BY <1>3 DEF Owned, Owns
<1> QED BY <1>4, <1>5

(* What nothing frees: the replaced call trees, all that these own, and    *)
(* nothing else.                                                           *)
UnfreedParts ==
  /\ Unfreed \subseteq DOMAIN heap
  /\ \A s \in DOMAIN heap : Replaced(heap, s) => s \in Unfreed
  /\ \A s \in Unfreed : Owns(heap, s) \subseteq Unfreed
  /\ \A s \in Unfreed : Replaced(heap, s) \/ \E r \in Unfreed : s \in Owns(heap, r)

(* It is what the definition says. *)
LEMMA UnfreedWhole ==
  ASSUME HeapOK
  PROVE  UnfreedParts
<1> DEFINE R == {s \in EverReplaced \cap DOMAIN heap : Replaced(heap, s)}
<1>1. Proper(heap) /\ NULL \notin DOMAIN heap
  BY ProperParts DEF HeapOK
<1>2. \A s \in R : Frees(s, prof_call_tree_free(s))
  BY <1>1, FreesNode DEF Replaced
<1>3. Unfreed = UNION {prof_call_tree_free(s) : s \in R}
  BY <1>1 DEF Unfreed, All
<1>7. \A s \in DOMAIN heap : Replaced(heap, s) <=> s \in R
  BY DEF HeapOK, Origins
<1> HIDE DEF R
<1>4. R \subseteq Unfreed /\ Unfreed \subseteq DOMAIN heap
  BY <1>2, <1>3 DEF Frees
<1>5. \A s \in Unfreed : Owns(heap, s) \subseteq Unfreed
  BY <1>2, <1>3 DEF Frees
<1>6. ASSUME NEW s \in Unfreed, ~Replaced(heap, s)
      PROVE  \E r \in Unfreed : s \in Owns(heap, r)
  <2>1. PICK n \in R : s \in prof_call_tree_free(n)
    BY <1>3
  <2>2. s # n
    BY <1>4, <1>6, <1>7
  <2> QED BY <1>2, <1>3, <2>1, <2>2 DEF Frees
<1> QED BY <1>4, <1>5, <1>6, <1>7 DEF UnfreedParts

(* Without objects every structure is, up its owners, part of a thread     *)
(* that no table holds, or of a call tree that was replaced.               *)
LEMMA HeapEmpties == HeapOK => NothingIsLeft
<1>1. SUFFICES ASSUME HeapOK, objects = {}
               PROVE  DOMAIN heap = Abandoned \cup Unfreed
  BY DEF NothingIsLeft
<1>2. /\ Sorted(heap) /\ OwnedOnce(heap) /\ NULL \notin DOMAIN heap /\ NoCycle(heap)
      /\ Proper(heap)
  BY <1>1, ProperParts DEF HeapOK
<1>3. ASSUME NEW s \in DOMAIN heap PROVE ~heap[s].object
  BY <1>1 DEF HeapOK, LinksAgree
<1>4. \A s \in DOMAIN heap : heap[s].owner = "C" /\ heap[s].kind # "Profile"
  BY <1>2, <1>3 DEF OwnedOnce, Sorted, Plain
<1>5. Abandoned = UNION {prof_thread_free(t) : t \in Of("Thread")}
  <2>1. {t \in Of("Thread") : heap[t].owner = "C" /\ ~InTable(t)} \ {NULL} = Of("Thread")
    BY <1>2, <1>4 DEF InTable, Of
  <2>2. Abandoned = UNION {prof_thread_free(t) : t \in
          {u \in Of("Thread") : heap[u].owner = "C" /\ ~InTable(u)} \ {NULL}}
    BY DEF Abandoned, All
  <2> QED BY <2>1, <2>2
<1>6. \A t \in Of("Thread") : Frees(t, prof_thread_free(t))
  BY <1>2, FreesThread DEF Of
<1>7. UnfreedParts /\ Abandoned \cup Unfreed \subseteq DOMAIN heap
  BY <1>1, <1>5, <1>6, UnfreedWhole DEF Frees, UnfreedParts
<1>8. ASSUME NEW T, T = DOMAIN heap \ (Abandoned \cup Unfreed), T # {} PROVE FALSE
  <2>1. T \in SUBSET DOMAIN heap
    BY <1>8
  <2>2. PICK s \in T : \A r \in T : s \notin Owns(heap, r)
    BY <1>2, <1>8, <2>1 DEF NoCycle
  <2>3. s \in DOMAIN heap /\ s \notin Abandoned /\ s \notin Unfreed
    BY <1>8
  <2>4. s \notin Of("Thread")
    BY <1>5, <1>6, <2>3 DEF Frees
  <2>5. Owned(heap, s)
    BY <1>1, <1>2, <1>4, <1>7, <2>3, <2>4 DEF OwnedOnce, Of, HeapOK, Origins, UnfreedParts
  <2>6. PICK r \in DOMAIN heap : s \in Owns(heap, r)
    BY <2>5 DEF Owned
  <2>7. r \in Abandoned \/ r \in Unfreed
    BY <1>8, <2>2, <2>6
  <2>8. s \in Abandoned \/ s \in Unfreed
    BY <1>5, <1>6, <1>7, <2>6, <2>7 DEF Frees, UnfreedParts
  <2> QED BY <2>3, <2>8
<1> QED BY <1>7, <1>8

-----------------------------------------------------------------------------
(* Where structures are. *)

(* Threads, methods, their lists and allocations are parts of threads.     *)
LEMMA WhereIs ==
  ASSUME NEW h, Proper(h), NEW s \in DOMAIN h,
         h[s].kind \notin {"Profile", "CallTree", "Measurement"}
  PROVE  \E t, S : IsThread(h, t, S) /\ s \in S
<1>1. Sorted(h) /\ OwnedOnce(h) /\ Threaded(h) /\ Plain(h[s])
  BY ProperParts DEF Sorted
<1>2. CASE h[s].kind = "Thread"
  BY <1>1, <1>2 DEF Threaded, IsThread
<1>3. CASE h[s].kind \in {"CallTrees", "Method"}
  BY <1>3, ListInThread
<1>4. CASE h[s].kind = "Allocation"
  <2>1. Owned(h, s)
    BY <1>1, <1>4 DEF OwnedOnce, Replaced
  <2>2. PICK m \in DOMAIN h : s \in Owns(h, m)
    BY <2>1 DEF Owned
  <2>3. h[m].kind = "Method"
    BY <1>1, <1>4, <2>2, OwnerKind
  <2>4. PICK t, S : IsThread(h, t, S) /\ m \in S
    BY <2>3, ListInThread
  <2> QED BY <2>2, <2>4 DEF IsThread
<1> QED BY <1>1, <1>2, <1>3, <1>4 DEF Plain, Kinds

(* A call tree belongs to the thread of its method. *)
LEMMA NodeAt ==
  ASSUME NEW h, Proper(h), NEW n \in DOMAIN h, h[n].kind = "CallTree", h[n].method \in DOMAIN h
  PROVE  \E t, S : IsThread(h, t, S) /\ h[n].method \in S /\ h[n].method \in h[t].methods
<1>1. h[h[n].method].kind = "Method"
  BY ProperParts DEF Sorted, Kinded, Are
<1>2. PICK t, S : IsThread(h, t, S) /\ h[n].method \in S
  BY <1>1, ListInThread
<1> QED BY <1>1, <1>2, ThreadMethods

(* A copy is part of no thread, and owns no more than its measurement.     *)
LEMMA CopyAlone ==
  ASSUME NEW h, Proper(h), NEW s \in DOMAIN h, Copy(h, s)
  PROVE  /\ \A t, S : IsThread(h, t, S) => s \notin S
         /\ h[s].children = {} /\ Owns(h, s) = {h[s].measurement} \ {NULL}
<1>1. Sorted(h) /\ OwnedOnce(h) /\ Relatives(h) /\ Plain(h[s])
  BY ProperParts DEF Sorted
<1>2. h[s].children = {} /\ Owns(h, s) = {h[s].measurement} \ {NULL}
  BY <1>1, OwnsByKind DEF Relatives, Related, Copy
<1>3. ASSUME NEW t, NEW S, IsThread(h, t, S), s \in S PROVE FALSE
  <2>1. s # t /\ ~Owned(h, s)
    BY <1>1, <1>3 DEF IsThread, OwnedOnce, Copy
  <2>2. PICK r \in S : s \in Owns(h, r)
    BY <1>3, <2>1 DEF IsThread
  <2> QED BY <1>3, <2>1, <2>2 DEF IsThread, Owned
<1> QED BY <1>2, <1>3

(* Every call tree of a thread has its method among the parts, and there   *)
(* is one, at the top.                                                     *)
LEMMA NodeMethods ==
  ASSUME NEW h, Proper(h), NEW t, NEW S, IsThread(h, t, S)
  PROVE  /\ \A n \in S : h[n].kind = "CallTree" =>
              h[n].method \in S /\ h[n].method # NULL /\ h[h[n].method].kind = "Method"
         /\ h[t].call_tree \in S /\ h[h[t].call_tree].kind = "CallTree"
<1>1. Sorted(h) /\ OwnedOnce(h) /\ S \subseteq DOMAIN h /\ t \in S /\ h[t].kind = "Thread"
  BY ProperParts DEF IsThread
<1>2. ASSUME NEW n \in S, h[n].kind = "CallTree"
      PROVE  h[n].method \in S /\ h[n].method # NULL /\ h[h[n].method].kind = "Method"
  <2>1. Plain(h[n]) /\ Kinded(h, n)
    BY <1>1 DEF Sorted
  <2>2. h[n].method # NULL
    BY <1>2, <2>1 DEF Plain
  <2>3. h[n].method \in S
    BY <2>2 DEF IsThread
  <2> QED BY <1>1, <2>1, <2>2, <2>3 DEF Kinded, Are
<1>3. h[t].call_tree \in S /\ h[h[t].call_tree].kind = "CallTree"
  <2>1. Plain(h[t]) /\ Kinded(h, t)
    BY <1>1 DEF Sorted
  <2>2. h[t].call_tree # NULL
    BY <1>1, <2>1 DEF Plain
  <2>3. h[t].call_tree \in S
    BY <1>1, <2>2 DEF IsThread, Owns
  <2> QED BY <1>1, <2>1, <2>3 DEF Kinded, Are
<1> QED BY <1>2, <1>3

(* A call tree that C frees, if it is freed at all, is part of the thread  *)
(* of its method.                                                          *)
LEMMA NodeOfThread ==
  ASSUME HeapOK, NEW t, NEW S, IsThread(heap, t, S),
         NEW n \in CallsOf(heap, heap[t].methods), n \notin Unfreed
  PROVE  n \in S
<1>1. Proper(heap) /\ Sorted(heap) /\ OwnedOnce(heap) /\ NoCycle(heap) /\ Threaded(heap)
      /\ Relatives(heap) /\ t \in DOMAIN heap /\ UnfreedParts
  BY ProperParts, UnfreedWhole DEF HeapOK, IsThread
<1> DEFINE Lost == CallsOf(heap, heap[t].methods) \ (Unfreed \cup S)
<1>2. SUFFICES ASSUME Lost # {} PROVE FALSE
  OBVIOUS
<1>3. PICK c \in Lost : \A r \in Lost : c \notin Owns(heap, r)
  BY <1>1, <1>2 DEF NoCycle, CallsOf
<1>4. /\ c \in DOMAIN heap /\ heap[c].kind = "CallTree" /\ heap[c].owner = "C"
      /\ heap[c].method \in S /\ c \notin Unfreed /\ c \notin S
      /\ c \in CallsOf(heap, heap[t].methods)
  BY <1>1, <1>3, CallsAre
<1>5. Owned(heap, c)
  BY <1>1, <1>4 DEF OwnedOnce, UnfreedParts
<1>6. PICK r \in DOMAIN heap : c \in Owns(heap, r)
  BY <1>5 DEF Owned
<1>7. \/ heap[r].kind = "Thread"
      \/ heap[r].kind = "CallTree" /\ c \in heap[r].children
  BY <1>1, <1>4, <1>6, OwnerKind
<1>8. CASE heap[r].kind = "Thread"
  <2>1. PICK T : IsThread(heap, r, T)
    BY <1>1, <1>8 DEF Threaded
  <2>2. c \in T
    BY <1>6, <2>1 DEF IsThread
  <2>3. heap[c].method \in T
    BY <1>1, <1>4, <2>1, <2>2, NodeMethods
  <2> QED BY <1>1, <1>4, <2>1, <2>2, <2>3, ThreadsApart
<1>9. CASE heap[r].kind = "CallTree" /\ c \in heap[r].children
  <2>1. SameThread(heap, r, c) /\ ~Copy(heap, r) /\ heap[r].owner \in {"C", "Ruby"}
    BY <1>1, <1>9 DEF Relatives, Related, Sorted, Plain
  <2>2. heap[r].method \in heap[t].methods
    BY <1>1, <1>4, <2>1 DEF SameThread
  <2>3. r \in CallsOf(heap, heap[t].methods)
    BY <1>9, <2>1, <2>2 DEF CallsOf, Copy
  <2>4. r \notin Unfreed
    BY <1>1, <1>4, <1>6 DEF UnfreedParts
  <2>5. r \notin S
    BY <1>4, <1>6 DEF IsThread
  <2> QED BY <1>3, <1>6, <2>3, <2>4, <2>5
<1> QED BY <1>7, <1>8, <1>9

(* No sweep frees what nothing frees. *)
LEMMA UnfreedStays ==
  ASSUME HeapOK, NEW F, Freeable(heap, F)
  PROVE  F \cap Unfreed = {}
<1>1. UnfreedParts /\ NoCycle(heap)
  BY UnfreedWhole, ProperParts DEF HeapOK
<1>2. SUFFICES ASSUME F \cap Unfreed # {} PROVE FALSE
  OBVIOUS
<1>3. F \cap Unfreed \in SUBSET DOMAIN heap
  BY DEF Freeable
<1>4. PICK s \in F \cap Unfreed : \A r \in F \cap Unfreed : s \notin Owns(heap, r)
  BY <1>1, <1>2, <1>3 DEF NoCycle
<1>5. ~Replaced(heap, s)
  BY <1>4 DEF Freeable
<1>6. PICK r \in Unfreed : s \in Owns(heap, r)
  BY <1>1, <1>4, <1>5 DEF UnfreedParts
<1>7. r \in F
  BY <1>1, <1>4, <1>6 DEF Freeable, UnfreedParts
<1> QED BY <1>4, <1>6, <1>7

(* What is freed with n is in a set that has n and what its members own.   *)
LEMMA FreesWithin ==
  ASSUME Proper(heap), NEW n, NEW F, Frees(n, F),
         NEW T, n \in T, \A s \in F \cap T : Owns(heap, s) \subseteq T
  PROVE  F \subseteq T
<1>1. NoCycle(heap) /\ F \ T \in SUBSET DOMAIN heap
  BY ProperParts DEF Frees
<1>2. SUFFICES ASSUME F \ T # {} PROVE FALSE
  OBVIOUS
<1>3. PICK c \in F \ T : \A r \in F \ T : c \notin Owns(heap, r)
  BY <1>1, <1>2 DEF NoCycle
<1>4. PICK r \in F : c \in Owns(heap, r)
  BY <1>3 DEF Frees
<1> QED BY <1>3, <1>4

(* All nodes below n are in a set that has n and the children of its       *)
(* members.                                                                *)
LEMMA BelowWithin ==
  ASSUME Proper(heap), NEW n \in DOMAIN heap, heap[n].kind = "CallTree",
         NEW T, n \in T, \A d \in Below(n) \cap T : heap[d].children \subseteq T
  PROVE  Below(n) \subseteq T
<1>1. BelowOf(n, Below(n)) /\ NoCycle(heap)
  BY BelowIs, ProperParts
<1>2. SUFFICES ASSUME Below(n) \ T # {} PROVE FALSE
  OBVIOUS
<1>3. Below(n) \ T \in SUBSET DOMAIN heap
  BY <1>1 DEF BelowOf
<1>4. PICK c \in Below(n) \ T : \A d \in Below(n) \ T : c \notin Owns(heap, d)
  BY <1>1, <1>2, <1>3 DEF NoCycle
<1>5. PICK d \in Below(n) : c \in heap[d].children
  BY <1>1, <1>4 DEF BelowOf
<1>6. c \in Owns(heap, d)
  BY <1>5 DEF Owns
<1> QED BY <1>4, <1>5, <1>6

(* The nodes below a call tree are of its thread. *)
LEMMA BelowCalls ==
  ASSUME Proper(heap), NEW t, NEW S, IsThread(heap, t, S),
         NEW n \in DOMAIN heap, heap[n].kind = "CallTree", heap[n].method \in S
  PROVE  \A c \in Below(n) : c \in DOMAIN heap /\ heap[c].kind = "CallTree" /\ heap[c].method \in S
<1> DEFINE T == {n} \cup CallsOf(heap, heap[t].methods)
<1>1. Sorted(heap) /\ Relatives(heap) /\ S \subseteq DOMAIN heap /\ t \in DOMAIN heap
  BY ProperParts, ThreadMethods DEF IsThread
<1>2. heap[n].method \in heap[t].methods
  <2>1. heap[heap[n].method].kind = "Method"
    BY <1>1 DEF Sorted, Kinded, Are
  <2> QED BY <2>1, ThreadMethods
<1>3. heap[n].children \subseteq T
  BY <1>1, <1>2 DEF Relatives, Related, SameThread
<1>4. \A d \in Below(n) \cap T : heap[d].children \subseteq T
  BY <1>3, CallsAre
<1>5. Below(n) \subseteq T
  <2> HIDE DEF T
  <2> QED BY <1>4, BelowWithin DEF T
<1>6. \A c \in CallsOf(heap, heap[t].methods) : heap[c].method \in S
  BY CallsAre
<1> QED BY <1>5, <1>6, BelowAreNodes

(* The nodes below the call tree of a thread are the call trees among its  *)
(* parts.                                                                  *)
LEMMA WholeTree ==
  ASSUME Proper(heap), NEW t, NEW S, IsThread(heap, t, S)
  PROVE  Below(heap[t].call_tree) = {n \in S : heap[n].kind = "CallTree"}
<1> DEFINE tree == heap[t].call_tree
           T == Below(tree) \cup {s \in S : heap[s].kind # "CallTree"}
<1>1. Sorted(heap) /\ OwnedOnce(heap) /\ NoCycle(heap) /\ S \subseteq DOMAIN heap /\ t \in S
      /\ heap[t].kind = "Thread"
  BY ProperParts DEF IsThread
<1>2. tree \in S /\ heap[tree].kind = "CallTree" /\ tree \in DOMAIN heap
  BY <1>1, NodeMethods
<1>3. BelowOf(tree, Below(tree)) /\ \A n \in Below(tree) : heap[n].kind = "CallTree"
  BY <1>2, BelowIs, BelowAreNodes
<1> HIDE DEF tree
<1>4. Below(tree) \subseteq S
  <2>1. \A d \in Below(tree) \cap S : heap[d].children \subseteq S
    BY DEF IsThread, Owns
  <2> QED BY <1>2, <2>1, BelowWithin
<1>5. S \subseteq T
  <2>1. ASSUME NEW s \in S \cap T, NEW c \in Owns(heap, s) PROVE c \in T
    <3>1. c \in S /\ s \in DOMAIN heap /\ c \in DOMAIN heap
      BY <1>1, <2>1 DEF IsThread
    <3>2. CASE heap[c].kind # "CallTree"
      BY <3>1, <3>2
    <3>3. CASE heap[c].kind = "CallTree"
      <4>1. \/ heap[s].kind = "Thread" /\ c = heap[s].call_tree
            \/ heap[s].kind = "CallTree" /\ c \in heap[s].children
        BY <1>1, <2>1, <3>1, <3>3, OwnerKind
      <4>2. CASE heap[s].kind = "Thread" /\ c = heap[s].call_tree
        <5>1. s = t
          BY <1>1, <2>1, <4>2, OneThread
        <5> QED BY <1>3, <4>2, <5>1 DEF BelowOf, tree
      <4>3. CASE heap[s].kind = "CallTree" /\ c \in heap[s].children
        BY <1>3, <2>1, <4>3 DEF BelowOf
      <4> QED BY <4>1, <4>2, <4>3
    <3> QED BY <3>2, <3>3
  <2>2. t \in T
    BY <1>1
  <2> HIDE DEF T
  <2> QED BY <1>1, <2>1, <2>2, ThreadWithin
<1> QED BY <1>3, <1>4, <1>5 DEF tree

-----------------------------------------------------------------------------
(* What the marks lead to. *)

(* The marks of x lead to the methods of the thread with the parts S.      *)
Leads(x, S) ==
  \/ x \in S /\ heap[x].kind \in {"Thread", "Method", "CallTrees"}
  \/ heap[x].kind = "CallTree" /\ heap[x].method \in S
  \/ heap[x].threads \cap S # {}

(* They lead to all of its parts. *)
Attends(x, S) == (heap[x].kind = "Thread" /\ x \in S) \/ heap[x].threads \cap S # {}

(* The profile of the methods is there, and not about to be swept.         *)
Alive(S) ==
  \A m \in S : heap[m].kind = "Method" /\ heap[m].profile # NULL =>
    heap[m].profile \in DOMAIN heap \ doomed

(* No object of a part is about to be swept, but for lists; and what the   *)
(* program holds has not been.                                             *)
Whole(S) ==
  \A s \in S : heap[s].kind # "CallTrees" => s \notin doomed /\ (s \in held => s \in objects)

(* The invariant of the collector: what it has marked, or the program      *)
(* holds, keeps alive what its marks lead to.                              *)
Marks ==
  /\ \A x \in Followed : \A t, S : IsThread(heap, t, S) =>
       (Leads(x, S) => Alive(S)) /\ (Attends(x, S) => Whole(S))
  /\ \A x \in held \cap doomed \cap DOMAIN heap : heap[x].kind # "Profile" /\ ~Copy(heap, x)

(* A mark of a call tree reaches its node. *)
LEMMA NodeMarked ==
  ASSUME Proper(heap), NEW n \in DOMAIN heap, heap[n].kind = "CallTree"
  PROVE  MarkNode(n) \subseteq prof_call_tree_mark(n)
<1>1. n \in Below(n) /\ n # NULL
  BY BelowIs, ProperParts DEF BelowOf
<1> QED BY <1>1 DEF prof_call_tree_mark, All

(* A mark of a thread reaches all of its parts that have objects, but for  *)
(* lists.                                                                  *)
LEMMA ThreadMarked ==
  ASSUME Proper(heap), NEW t, NEW S, IsThread(heap, t, S),
         NEW s \in S, heap[s].object, heap[s].kind # "CallTrees"
  PROVE  s \in prof_thread_mark(t)
<1> DEFINE tree == heap[t].call_tree
<1>1. Sorted(heap) /\ OwnedOnce(heap) /\ NULL \notin DOMAIN heap /\ S \subseteq DOMAIN heap
      /\ t \in S /\ heap[t].kind = "Thread" /\ heap[tree].parent = NULL
  BY ProperParts DEF IsThread
<1>2. tree \in S /\ tree # NULL
  BY <1>1, NodeMethods
<1>3. ASSUME NEW n \in S, heap[n].kind = "CallTree" PROVE MarkNode(n) \subseteq prof_thread_mark(t)
  <2>1. n \in Below(tree) /\ n # NULL
    BY <1>1, <1>3, WholeTree
  <2>2. MarkNode(n) \subseteq prof_call_tree_mark(tree)
    BY <1>1, <2>1 DEF prof_call_tree_mark, All
  <2>3. prof_call_tree_mark(tree) \subseteq prof_thread_mark(t)
    BY <1>2 DEF prof_thread_mark, All
  <2> QED BY <2>2, <2>3
<1>4. ASSUME NEW m \in S, heap[m].kind = "Method"
      PROVE  prof_method_mark(m) \subseteq prof_thread_mark(t)
  <2>1. m \in heap[t].methods /\ m # NULL
    BY <1>1, <1>4, ThreadMethods
  <2> QED BY <2>1 DEF prof_thread_mark, All
<1>5. s \in MarkObject(s) /\ s # NULL /\ Plain(heap[s])
  BY <1>1 DEF MarkObject, Sorted
<1>6. CASE heap[s].kind = "Thread"
  <2>1. s = t
    BY <1>1, <1>6, OneThread
  <2> QED BY <1>5, <2>1 DEF prof_thread_mark
<1>7. CASE heap[s].kind = "Method"
  BY <1>4, <1>5, <1>7 DEF prof_method_mark
<1>8. CASE heap[s].kind = "CallTree"
  BY <1>3, <1>5, <1>8 DEF MarkNode
<1>9. CASE heap[s].kind \in {"Measurement", "Allocation"}
  <2>1. s # t
    BY <1>1, <1>9
  <2>2. PICK r \in S : s \in Owns(heap, r)
    BY <2>1 DEF IsThread
  <2>3. \/ heap[s].kind = "Measurement" /\ heap[r].kind = "Method" /\ s = heap[r].measurement
        \/ heap[s].kind = "Measurement" /\ heap[r].kind = "CallTree" /\ s = heap[r].measurement
        \/ heap[s].kind = "Allocation" /\ heap[r].kind = "Method" /\ s \in heap[r].allocations
    BY <1>1, <1>9, <2>2, OwnerKind
  <2>4. CASE heap[s].kind = "Measurement" /\ heap[r].kind = "Method" /\ s = heap[r].measurement
    <3>1. s \in prof_method_mark(r)
      BY <1>5, <2>4 DEF prof_method_mark, All, prof_measurement_mark
    <3> QED BY <1>4, <2>4, <3>1
  <2>5. CASE heap[s].kind = "Measurement" /\ heap[r].kind = "CallTree" /\ s = heap[r].measurement
    <3>1. s \in MarkNode(r)
      BY <1>5, <2>5 DEF MarkNode, All, prof_measurement_mark
    <3> QED BY <1>3, <2>5, <3>1
  <2>6. CASE heap[s].kind = "Allocation" /\ heap[r].kind = "Method" /\ s \in heap[r].allocations
    <3>1. s \in prof_method_mark(r)
      BY <1>5, <2>6 DEF prof_method_mark, All, prof_allocations_mark, prof_allocation_mark
    <3> QED BY <1>4, <2>6, <3>1
  <2> QED BY <2>3, <2>4, <2>5, <2>6
<1>10. heap[s].kind # "Profile"
  BY <1>1, OneThread
<1> QED BY <1>5, <1>6, <1>7, <1>8, <1>9, <1>10 DEF Plain, Kinds

(* What leads to a thread marks the profile of its methods.                *)
LEMMA ProfileMarked ==
  ASSUME Proper(heap), NEW o \in DOMAIN heap \ null, NEW t, NEW S, IsThread(heap, t, S),
         Leads(o, S), NEW m \in S, heap[m].kind = "Method", heap[m].profile # NULL
  PROVE  heap[m].profile \in MarkedBy(o)
<1> DEFINE p == heap[m].profile
<1>1. Sorted(heap) /\ OwnedOnce(heap) /\ NULL \notin DOMAIN heap /\ S \subseteq DOMAIN heap
      /\ t \in S /\ heap[t].kind = "Thread"
  BY ProperParts DEF IsThread
<1>2. \A c \in S : heap[c].kind = "Method" => heap[c].profile = p /\ p \in prof_method_mark(c)
  BY DEF IsThread, prof_method_mark
<1>3. ASSUME NEW n \in DOMAIN heap, heap[n].kind = "CallTree", heap[n].method \in S
      PROVE  p \in prof_call_tree_mark(n)
  <2>1. heap[heap[n].method].kind = "Method"
    BY <1>1, <1>3 DEF Sorted, Kinded, Are
  <2>2. p \in MarkNode(n)
    BY <1>2, <1>3, <2>1 DEF MarkNode
  <2> QED BY <1>3, <2>2, NodeMarked
<1>4. p \in prof_thread_mark(t)
  <2>1. m \in heap[t].methods /\ m # NULL
    BY <1>1, ThreadMethods
  <2> QED BY <1>2, <2>1 DEF prof_thread_mark, All
<1>5. CASE heap[o].threads \cap S # {}
  <2>1. Plain(heap[o]) /\ Kinded(heap, o)
    BY <1>1 DEF Sorted
  <2>2. heap[o].kind = "Profile"
    BY <1>5, <2>1 DEF Plain
  <2>3. t \in heap[o].threads
    <3>1. PICK u \in heap[o].threads : u \in S
      BY <1>5
    <3>2. heap[u].kind = "Thread"
      BY <1>1, <2>1, <3>1 DEF Kinded, Are
    <3> QED BY <1>1, <3>1, <3>2, OneThread
  <2>4. p \in prof_profile_mark(o)
    BY <1>1, <1>4, <2>3 DEF prof_profile_mark, All
  <2> QED BY <2>2, <2>4 DEF MarkedBy
<1>6. CASE heap[o].kind = "CallTree" /\ heap[o].method \in S
  BY <1>3, <1>6 DEF MarkedBy
<1>7. CASE o \in S /\ heap[o].kind = "Thread"
  <2>1. o = t
    BY <1>1, <1>7, OneThread
  <2> QED BY <1>4, <1>7, <2>1 DEF MarkedBy
<1>8. CASE o \in S /\ heap[o].kind = "Method"
  BY <1>2, <1>8 DEF MarkedBy
<1>9. CASE o \in S /\ heap[o].kind = "CallTrees"
  <2>1. Plain(heap[o])
    BY <1>1 DEF Sorted
  <2>2. PICK n \in heap[o].list : TRUE
    BY <1>9, <2>1 DEF Plain
  <2>3. n \in CallsOf(heap, heap[t].methods)
    BY <1>9, <2>2 DEF IsThread
  <2>4. n \in DOMAIN heap /\ heap[n].kind = "CallTree" /\ heap[n].method \in S
    BY <2>3, CallsAre
  <2>5. p \in prof_call_tree_mark(n) /\ n # NULL
    BY <1>1, <1>3, <2>4
  <2>6. p \in prof_call_trees_mark(o)
    BY <2>2, <2>5 DEF prof_call_trees_mark, All
  <2> QED BY <1>9, <2>6 DEF MarkedBy
<1> QED BY <1>5, <1>6, <1>7, <1>8, <1>9 DEF Leads

(* The marks of a thread and of its calls reach objects only, as long as the  *)
(* profile of its methods is there.                                        *)
LEMMA ThreadMarksObjects ==
  ASSUME HeapOK, NEW t, NEW S, IsThread(heap, t, S),
         \A m \in S : heap[m].kind = "Method" /\ heap[m].profile # NULL =>
           heap[m].profile \in DOMAIN heap
  PROVE  /\ \A m \in S : heap[m].kind = "Method" => prof_method_mark(m) \subseteq objects
         /\ \A n \in DOMAIN heap : heap[n].kind = "CallTree" /\ heap[n].method \in S =>
              prof_call_tree_mark(n) \subseteq objects
         /\ prof_thread_mark(t) \subseteq objects
<1>1. Proper(heap) /\ Sorted(heap) /\ OwnedOnce(heap) /\ NULL \notin DOMAIN heap
      /\ S \subseteq DOMAIN heap /\ t \in S /\ heap[t].kind = "Thread"
  BY ProperParts DEF HeapOK, IsThread
<1>2. \A s \in DOMAIN heap : MarkObject(s) \subseteq objects
  BY DEF HeapOK, LinksAgree, MarkObject
<1>3. ASSUME NEW s \in DOMAIN heap, NEW c \in Owns(heap, s) PROVE c \in DOMAIN heap
  BY <1>1, <1>3 DEF OwnedOnce
<1>4. ASSUME NEW m \in S, heap[m].kind = "Method" PROVE prof_method_mark(m) \subseteq objects
  <2>1. ASSUME heap[m].profile # NULL PROVE heap[m].profile \in objects
    <3>1. heap[m].profile \in DOMAIN heap /\ Kinded(heap, m)
      BY <1>1, <1>4, <2>1 DEF Sorted
    <3>2. heap[heap[m].profile].kind = "Profile"
      BY <3>1 DEF Kinded, Are
    <3>3. heap[heap[m].profile].object
      BY <1>1, <3>1, <3>2 DEF OwnedOnce
    <3> QED BY <3>1, <3>3 DEF HeapOK, LinksAgree
  <2>2. MarkObject(m) \subseteq objects
    BY <1>1, <1>2
  <2>3. All(prof_measurement_mark, {heap[m].measurement}) \subseteq objects
    <3>1. heap[m].measurement # NULL => heap[m].measurement \in Owns(heap, m)
      BY DEF Owns
    <3> QED BY <1>1, <1>2, <1>3, <3>1 DEF All, prof_measurement_mark
  <2>4. prof_allocations_mark(heap[m].allocations) \subseteq objects
    <3>1. heap[m].allocations \subseteq Owns(heap, m)
      BY DEF Owns
    <3> QED BY <1>1, <1>2, <1>3, <3>1 DEF All, prof_allocations_mark, prof_allocation_mark
  <2> QED BY <2>1, <2>2, <2>3, <2>4 DEF prof_method_mark
<1>5. ASSUME NEW n \in DOMAIN heap, heap[n].kind = "CallTree", heap[n].method \in S
      PROVE  MarkNode(n) \subseteq objects
  <2>1. heap[heap[n].method].kind = "Method"
    BY <1>1, <1>5 DEF Sorted, Kinded, Are
  <2>2. prof_method_mark(heap[n].method) \subseteq objects
    BY <1>4, <1>5, <2>1
  <2>3. MarkObject(n) \subseteq objects
    BY <1>2
  <2>4. All(prof_measurement_mark, {heap[n].measurement}) \subseteq objects
    <3>1. heap[n].measurement # NULL => heap[n].measurement \in Owns(heap, n)
      BY DEF Owns
    <3> QED BY <1>2, <1>3, <3>1 DEF All, prof_measurement_mark
  <2> QED BY <2>2, <2>3, <2>4 DEF MarkNode
<1>6. ASSUME NEW n \in DOMAIN heap, heap[n].kind = "CallTree", heap[n].method \in S
      PROVE  prof_call_tree_mark(n) \subseteq objects
  <2>1. \A d \in Below(n) : d \in DOMAIN heap /\ heap[d].kind = "CallTree" /\ heap[d].method \in S
    BY <1>1, <1>6, BelowCalls
  <2>2. All(MarkNode, Below(n)) \subseteq objects
    BY <1>5, <2>1 DEF All
  <2> QED BY <1>5, <1>6, <2>2 DEF prof_call_tree_mark
<1>7. prof_thread_mark(t) \subseteq objects
  <2>1. /\ heap[t].call_tree \in DOMAIN heap /\ heap[heap[t].call_tree].kind = "CallTree"
        /\ heap[heap[t].call_tree].method \in S
    BY <1>1, NodeMethods
  <2>2. All(prof_call_tree_mark, {heap[t].call_tree}) \subseteq objects
    BY <1>6, <2>1 DEF All
  <2>3. ASSUME NEW m \in heap[t].methods PROVE prof_method_mark(m) \subseteq objects
    <3>1. m \in S
      BY <1>1 DEF IsThread, Owns
    <3>2. heap[m].kind = "Method"
      BY <1>1, <3>1 DEF Sorted, Kinded, Are
    <3> QED BY <1>4, <3>1, <3>2
  <2>4. All(prof_method_mark, heap[t].methods) \subseteq objects
    BY <2>3 DEF All
  <2> QED BY <1>1, <1>2, <2>2, <2>4 DEF prof_thread_mark
<1> QED BY <1>4, <1>6, <1>7

(* All marks reach objects only. *)
LEMMA MarksObjects ==
  ASSUME HeapOK, Marks, Sound, NEW o \in Followed
  PROVE  MarkedBy(o) \subseteq objects
<1>1. Proper(heap) /\ Sorted(heap) /\ OwnedOnce(heap) /\ NULL \notin DOMAIN heap
  BY ProperParts DEF HeapOK
<1>2. o \in objects /\ o \notin null /\ o \in DOMAIN heap
  BY DEF Followed, HeapOK, LinksAgree
<1>3. Plain(heap[o]) /\ Kinded(heap, o)
  BY <1>1, <1>2 DEF Sorted
<1>4. \A s \in DOMAIN heap : MarkObject(s) \subseteq objects
  BY DEF HeapOK, LinksAgree, MarkObject
<1>5. ASSUME NEW t, NEW S, IsThread(heap, t, S), Leads(o, S)
      PROVE  \A m \in S : heap[m].kind = "Method" /\ heap[m].profile # NULL =>
               heap[m].profile \in DOMAIN heap
  BY <1>5 DEF Marks, Alive
<1>6. ASSUME NEW t, NEW S, IsThread(heap, t, S), Leads(o, S)
      PROVE  /\ \A m \in S : heap[m].kind = "Method" => prof_method_mark(m) \subseteq objects
             /\ \A n \in DOMAIN heap : heap[n].kind = "CallTree" /\ heap[n].method \in S =>
                  prof_call_tree_mark(n) \subseteq objects
             /\ prof_thread_mark(t) \subseteq objects
  BY <1>5, <1>6, ThreadMarksObjects
<1>7. CASE heap[o].kind \in {"Measurement", "Allocation"}
  BY <1>2, <1>4, <1>7 DEF MarkedBy, prof_measurement_mark, prof_allocation_mark
<1>8. CASE heap[o].kind = "Profile"
  <2>1. ASSUME NEW t \in heap[o].threads PROVE prof_thread_mark(t) \subseteq objects
    <3>1. t \in DOMAIN heap /\ heap[t].kind = "Thread"
      BY <1>1, <1>2, <1>3 DEF OwnedOnce, Owns, Kinded, Are
    <3>2. PICK S : IsThread(heap, t, S)
      BY <1>1, <3>1, ProperParts DEF Threaded
    <3>3. Leads(o, S)
      BY <3>2 DEF Leads, IsThread
    <3> QED BY <1>6, <3>2, <3>3
  <2>2. prof_profile_mark(o) \subseteq objects
    BY <1>2, <2>1 DEF prof_profile_mark, All
  <2> QED BY <1>2, <1>8, <2>2 DEF MarkedBy
<1>9. CASE heap[o].kind = "CallTree"
  <2>1. heap[o].method \in DOMAIN heap
    <3>1. heap[o].method # NULL
      BY <1>3, <1>9 DEF Plain
    <3>2. heap[o].method \in UNION Readers(o)
      BY <3>1 DEF Readers
    <3> QED BY <3>2 DEF Sound, Targets
  <2>2. PICK t, S : IsThread(heap, t, S) /\ heap[o].method \in S
    BY <1>1, <1>2, <1>9, <2>1, NodeAt
  <2>3. prof_call_tree_mark(o) \subseteq objects
    BY <1>2, <1>6, <1>9, <2>2 DEF Leads
  <2> QED BY <1>2, <1>9, <2>3 DEF MarkedBy
<1>10. CASE heap[o].kind \in {"Thread", "Method", "CallTrees"}
  <2>1. PICK t, S : IsThread(heap, t, S) /\ o \in S
    BY <1>1, <1>2, <1>10, WhereIs
  <2>2. Leads(o, S)
    BY <1>10, <2>1 DEF Leads
  <2>3. CASE heap[o].kind = "Thread"
    <3>1. o = t
      BY <1>1, <2>1, <2>3, OneThread
    <3> QED BY <1>2, <1>6, <2>1, <2>2, <2>3, <3>1 DEF MarkedBy
  <2>4. CASE heap[o].kind = "Method"
    BY <1>2, <1>6, <2>1, <2>2, <2>4 DEF MarkedBy
  <2>5. CASE heap[o].kind = "CallTrees"
    <3>1. \A n \in heap[o].list :
            n \in DOMAIN heap /\ heap[n].kind = "CallTree" /\ heap[n].method \in S
      BY <1>1, <2>1, CallsAre DEF IsThread
    <3>2. \A n \in heap[o].list : prof_call_tree_mark(n) \subseteq objects
      BY <1>6, <2>1, <2>2, <3>1
    <3>3. prof_call_trees_mark(o) \subseteq objects
      BY <3>2 DEF prof_call_trees_mark, All
    <3> QED BY <1>2, <2>5, <3>3 DEF MarkedBy
  <2> QED BY <1>10, <2>3, <2>4, <2>5
<1> QED BY <1>3, <1>7, <1>8, <1>9, <1>10 DEF Plain, Kinds

(* The collector marks what the program holds, and all that this leads to. *)
LEMMA MarkedIs ==
  ASSUME HeapOK, Marks, Sound, doomed = {}
  PROVE  /\ held \subseteq Marked(held) /\ Marked(held) \subseteq objects
         /\ \A o \in Marked(held) : MarkedBy(o) \subseteq Marked(held)
<1> DEFINE H == objects
           grow == [X \in SUBSET H |-> WithMarked(X)]
           P(f) == f = [i \in Nat |-> IF i = 0 THEN held ELSE WithMarked(f[i - 1])]
           rounds == CHOOSE f : P(f)
<1>1. IsFiniteSet(H) /\ \A o \in H : MarkedBy(o) \subseteq H
  <2>1. ASSUME NEW o \in objects PROVE MarkedBy(o) \subseteq objects
    <3>1. CASE o \in null
      BY <3>1 DEF MarkedBy
    <3>2. CASE o \notin null
      <4>1. o \in Followed
        BY <3>2 DEF Followed
      <4> QED BY <4>1, MarksObjects
    <3> QED BY <3>1, <3>2
  <2> QED BY <2>1 DEF HeapOK
<1>2. grow \in [SUBSET H -> SUBSET H] /\ \A X \in SUBSET H : X \subseteq grow[X]
  <2>1. ASSUME NEW X \in SUBSET H PROVE WithMarked(X) \in SUBSET H /\ X \subseteq WithMarked(X)
    <3>1. \A o \in X : MarkedBy(o) \subseteq H
      BY <1>1
    <3> QED BY <3>1 DEF WithMarked
  <2> QED BY <2>1
<1>3. held \in SUBSET H
  BY DEF Sound
<1>4. P(rounds)
  <2>1. PICK f : Grows(f, held, grow) /\ \A i \in Nat : f[i] \in SUBSET H
    <3> HIDE DEF H, grow
    <3> QED BY <1>2, <1>3, GrowthExists
  <2>2. ASSUME NEW i \in Nat
        PROVE  f[i] = IF i = 0 THEN held ELSE WithMarked(f[i - 1])
    <3>1. f[i] = IF i = 0 THEN held ELSE grow[f[i - 1]]
      BY <2>1 DEF Grows
    <3>2. i # 0 => f[i - 1] \in SUBSET H
      BY <2>1
    <3> QED BY <3>1, <3>2
  <2>3. P(f)
    <3>1. f = [i \in Nat |-> f[i]]
      BY <2>1 DEF Grows
    <3> QED BY <2>2, <3>1
  <2> HIDE DEF P
  <2> QED BY <2>3
<1>5. Marked(held) = rounds[Cardinality(H)]
  BY DEF Marked
<1>6. rounds[0] = held /\ \A i \in Nat : rounds[i + 1] = WithMarked(rounds[i])
  <2> HIDE DEF rounds
  <2>1. rounds[0] = held
    BY <1>4
  <2>2. ASSUME NEW i \in Nat PROVE rounds[i + 1] = WithMarked(rounds[i])
    <3>1. i + 1 \in Nat /\ i + 1 # 0 /\ (i + 1) - 1 = i
      OBVIOUS
    <3> QED BY <1>4, <3>1
  <2> QED BY <2>1, <2>2
<1> HIDE DEF rounds
<1> DEFINE A == {i \in Nat : rounds[i] \in SUBSET H}
<1>7. \A i \in Nat : i \in A
  <2>1. 0 \in A
    BY <1>3, <1>6
  <2>2. ASSUME NEW i \in Nat, i \in A PROVE i + 1 \in A
    <3>1. rounds[i] \in SUBSET H /\ rounds[i + 1] = grow[rounds[i]]
      BY <1>6, <2>2
    <3> QED BY <1>2, <3>1
  <2> HIDE DEF A
  <2> QED BY <2>1, <2>2, NatInd
<1>8. \A i \in Nat : rounds[i + 1] = grow[rounds[i]]
  BY <1>6, <1>7
<1>9. /\ \A i \in Nat : rounds[i] \in SUBSET H
      /\ rounds[0] \subseteq rounds[Cardinality(H)]
      /\ grow[rounds[Cardinality(H)]] = rounds[Cardinality(H)]
  <2>1. rounds[0] \in SUBSET H
    BY <1>3, <1>6
  <2> HIDE DEF H, grow
  <2> QED BY <1>1, <1>2, <1>8, <2>1, ClosureReached
<1>10. Cardinality(H) \in Nat
  BY <1>1, FS_CardinalityType
<1>11. Marked(held) \in SUBSET H /\ held \subseteq Marked(held)
  BY <1>5, <1>6, <1>9, <1>10
<1>12. WithMarked(Marked(held)) = Marked(held)
  BY <1>5, <1>9, <1>11
<1>13. \A o \in Marked(held) : MarkedBy(o) \subseteq Marked(held)
  BY <1>12 DEF WithMarked
<1> QED BY <1>11, <1>13

-----------------------------------------------------------------------------
(* The steps keep the invariant of the collector. *)

(* It holds to begin with, when nothing is about to be swept.              *)
LEMMA InitMarks == Init => Marks
<1>1. SUFFICES ASSUME Init PROVE Marks
  OBVIOUS
<1>2. doomed = {} /\ held = objects /\ heap \in Worlds
  BY <1>1 DEF Init
<1>3. \A s \in DOMAIN heap : heap[s].profile \in DOMAIN heap \cup {NULL}
  BY <1>2, WorldsAssumption
<1>4. ASSUME NEW t, NEW S, IsThread(heap, t, S) PROVE Alive(S) /\ Whole(S)
  BY <1>2, <1>3, <1>4 DEF Alive, Whole, IsThread
<1> QED BY <1>2, <1>4 DEF Marks

(* A part of a thread stays what it is: what leads to the thread after a   *)
(* step that changes no more than objects did so before.                   *)
LEMMA LeadsSame ==
  ASSUME NEW x \in DOMAIN heap, Same(heap[x], heap'[x]), NEW S
  PROVE  (Leads(x, S)' <=> Leads(x, S)) /\ (Attends(x, S)' <=> Attends(x, S))
         /\ (Copy(heap', x) <=> Copy(heap, x))
BY DEF Leads, Attends, Copy, Same

(* What is not part of Marks is that marked objects are structures.        *)
LEMMA FollowedThere == ASSUME HeapOK, NEW x \in Followed PROVE x \in DOMAIN heap \ null
BY DEF HeapOK, LinksAgree, Followed

(* After marking, what is not doomed has been marked, and so has all that  *)
(* its marks lead to.                                                      *)
LEMMA MarkMarks == ASSUME HeapOK, Marks, Sound, Mark PROVE Marks'
<1>1. doomed = {} /\ doomed' = objects \ Marked(held) /\ heap' = heap /\ objects' = objects
      /\ null' = null /\ held' = held
  BY DEF Mark
<1>2. /\ held \subseteq Marked(held) /\ Marked(held) \subseteq objects
      /\ \A o \in Marked(held) : MarkedBy(o) \subseteq Marked(held)
  BY <1>1, MarkedIs
<1>3. \A x \in Followed' : x \in Followed /\ x \in Marked(held)
  BY <1>1, <1>2 DEF Followed
<1>4. ASSUME NEW x \in Followed', NEW t, NEW S, IsThread(heap, t, S), Leads(x, S)
      PROVE  Alive(S)'
  <2>1. x \in DOMAIN heap \ null
    BY <1>3, FollowedThere
  <2>2. ASSUME NEW m \in S, heap[m].kind = "Method", heap[m].profile # NULL
        PROVE  heap[m].profile \in DOMAIN heap \ doomed'
    <3>1. heap[m].profile \in MarkedBy(x)
      BY <1>4, <2>1, <2>2, ProfileMarked DEF HeapOK
    <3>2. heap[m].profile \in DOMAIN heap
      BY <1>3, <1>4, <2>2 DEF Marks, Alive
    <3> QED BY <1>1, <1>2, <1>3, <3>1, <3>2
  <2> QED BY <1>1, <2>2 DEF Alive
<1>5. ASSUME NEW x \in Followed', NEW t, NEW S, IsThread(heap, t, S), Attends(x, S)
      PROVE  Whole(S)'
  <2>1. x \in DOMAIN heap \ null
    BY <1>3, FollowedThere
  <2>2. Sorted(heap) /\ OwnedOnce(heap) /\ NULL \notin DOMAIN heap /\ S \subseteq DOMAIN heap
        /\ Proper(heap) /\ t \in S
    BY <1>5, ProperParts DEF HeapOK, IsThread
  <2>3. prof_thread_mark(t) \subseteq Marked(held)
    <3>1. CASE heap[x].kind = "Thread" /\ x \in S
      <4>1. x = t
        BY <1>5, <2>2, <3>1, OneThread
      <4>2. prof_thread_mark(t) = MarkedBy(x)
        BY <2>1, <3>1, <4>1 DEF MarkedBy
      <4> QED BY <1>2, <1>3, <4>2
    <3>2. CASE heap[x].threads \cap S # {}
      <4>1. heap[x].kind = "Profile" /\ Kinded(heap, x)
        BY <2>1, <2>2, <3>2 DEF Sorted, Plain
      <4>2. PICK u \in heap[x].threads : u \in S
        BY <3>2
      <4>3. heap[u].kind = "Thread"
        BY <2>2, <4>1, <4>2 DEF Kinded, Are
      <4>4. u = t /\ t # NULL
        BY <1>5, <2>2, <4>2, <4>3, OneThread
      <4>5. prof_thread_mark(t) \subseteq prof_profile_mark(x)
        BY <4>2, <4>4 DEF prof_profile_mark, All
      <4>6. prof_profile_mark(x) = MarkedBy(x)
        BY <2>1, <4>1 DEF MarkedBy
      <4> QED BY <1>2, <1>3, <4>5, <4>6
    <3> QED BY <1>5, <3>1, <3>2 DEF Attends
  <2>4. ASSUME NEW s \in S, heap[s].kind # "CallTrees"
        PROVE  s \notin doomed' /\ (s \in held => s \in objects)
    <3>1. s \in held => s \in objects
      BY DEF Sound
    <3>2. ASSUME s \in doomed' PROVE FALSE
      <4>1. s \in objects /\ s \notin Marked(held)
        BY <1>1, <3>2
      <4>2. s \notin null /\ heap[s].object
        BY <2>2, <4>1 DEF HeapOK, LinksAgree
      <4>3. s \in prof_thread_mark(t)
        BY <1>5, <2>2, <2>4, <4>2, ThreadMarked
      <4> QED BY <2>3, <4>1, <4>3
    <3> QED BY <3>1, <3>2
  <2> QED BY <1>1, <2>4 DEF Whole
<1>6. held' \cap doomed' = {}
  BY <1>1, <1>2
<1>7. \A x, S : (Leads(x, S)' <=> Leads(x, S)) /\ (Attends(x, S)' <=> Attends(x, S))
  BY <1>1 DEF Leads, Attends, Copy
<1> QED BY <1>1, <1>4, <1>5, <1>6, <1>7 DEF Marks

(* What is followed after a drop was followed before. *)
LEMMA DropMarks ==
  ASSUME HeapOK, Marks, NEW o \in held, Drop(o) PROVE Marks'
<1>1. heap' = heap /\ objects' = objects /\ null' = null /\ doomed' = doomed
      /\ held' = held \ {o}
  BY DEF Drop
<1>2. \A x \in Followed' : x \in Followed
  BY <1>1 DEF Followed
<1>3. \A x, S : /\ Leads(x, S)' <=> Leads(x, S)
                /\ Attends(x, S)' <=> Attends(x, S)
                /\ Alive(S) => Alive(S)'
                /\ Whole(S) => Whole(S)'
  BY <1>1 DEF Leads, Attends, Copy, Alive, Whole
<1> QED BY <1>1, <1>2, <1>3 DEF Marks

(* A profile is not freed but when it is swept itself.                     *)
LEMMA ProfileFreed ==
  ASSUME Proper(heap), NEW o \in DOMAIN heap, NEW p \in FreedWith(o), p \in DOMAIN heap,
         heap[p].kind = "Profile"
  PROVE  p = o
<1>1. Frees(o, FreedWith(o)) /\ OwnedOnce(heap)
  BY SweptFreeable, ProperParts
<1>2. ~Owned(heap, p)
  BY <1>1 DEF OwnedOnce
<1> QED BY <1>1, <1>2 DEF Frees, Owned

(* What a sweep leaves is what it was, but for its object.                 *)
LEMMA SweptSame ==
  ASSUME HeapOK, NEW o \in doomed, Sweep(o), NEW s \in DOMAIN heap'
  PROVE  s \in DOMAIN heap /\ Same(heap[s], heap'[s])
<1> DEFINE F == IF o \in null THEN {} ELSE FreedWith(o)
           U == IF o \in null THEN {} ELSE Unlinked(o)
<1>1. heap' = [c \in DOMAIN heap \ F |->
                IF c \in U THEN [heap[c] EXCEPT !.object = FALSE] ELSE heap[c]]
  BY DEF Sweep
<1> HIDE DEF F, U
<1>2. s \in DOMAIN heap /\ DOMAIN heap[s] = Fields /\ heap[s].object \in BOOLEAN
  BY <1>1, ProperParts, StructureFields DEF HeapOK, Sorted, Plain
<1>3. CASE s \in U
  <2>1. heap'[s] = [heap[s] EXCEPT !.object = FALSE]
    BY <1>1, <1>3
  <2> QED BY <1>2, <2>1, SetObject
<1>4. CASE s \notin U
  <2>1. heap'[s] = heap[s]
    BY <1>1, <1>4
  <2> QED BY <1>2, <2>1 DEF Same
<1> QED BY <1>3, <1>4

(* Sweeping frees no profile that a followed thread's methods know.        *)
LEMMA SweepMarks ==
  ASSUME HeapOK, Marks, NEW o \in doomed, Sweep(o) PROVE Marks'
<1> DEFINE F == IF o \in null THEN {} ELSE FreedWith(o)
<1>1. /\ objects' = objects \ {o} /\ doomed' = doomed \ {o} /\ held' = held
      /\ null' = (null \cup {s \in F \cap DOMAIN heap : heap[s].object}) \ {o}
  BY DEF Sweep
<1>2. o \notin null => o \in DOMAIN heap
  BY DEF HeapOK, LinksAgree
<1>3. DOMAIN heap' = DOMAIN heap \ F
  BY DEF Sweep
<1>4. ASSUME NEW s \in DOMAIN heap' PROVE s \in DOMAIN heap /\ Same(heap[s], heap'[s])
  BY <1>4, SweptSame
<1>5. ThreadsKept /\ HeapOK'
  BY SweepHeap
<1>6. ASSUME NEW p \in F, p \in DOMAIN heap, heap[p].kind = "Profile" PROVE p \in doomed
  BY <1>2, <1>6, ProfileFreed DEF HeapOK
<1> HIDE DEF F
<1>7. ASSUME NEW x \in Followed' PROVE x \in Followed /\ x \in DOMAIN heap'
  <2>1. x \in objects /\ x # o /\ x \notin null /\ ~(x \in doomed /\ x \notin held)
    BY <1>1, <1>7 DEF Followed
  <2>2. x \in DOMAIN heap'
    BY <1>5, <1>7 DEF Followed, HeapOK, LinksAgree
  <2> QED BY <2>1, <2>2 DEF Followed
<1>8. ASSUME NEW t, NEW S, IsThread(heap', t, S)
      PROVE  /\ IsThread(heap, t, S) /\ S \subseteq DOMAIN heap'
             /\ \A s \in S : Same(heap[s], heap'[s])
  BY <1>4, <1>5, <1>8 DEF ThreadsKept, IsThread
<1>9. ASSUME NEW t, NEW S, IsThread(heap', t, S), Alive(S) PROVE Alive(S)'
  <2>1. ASSUME NEW m \in S, heap'[m].kind = "Method", heap'[m].profile # NULL
        PROVE  heap'[m].profile \in DOMAIN heap' \ doomed'
    <3>1. /\ heap[m].kind = "Method" /\ heap[m].profile = heap'[m].profile /\ m \in DOMAIN heap
          /\ heap'[m].profile \in DOMAIN heap \ doomed
      BY <1>4, <1>8, <1>9, <2>1 DEF Same, Alive
    <3>2. heap[heap'[m].profile].kind = "Profile"
      BY <3>1, ProperParts DEF HeapOK, Sorted, Kinded, Are
    <3>3. heap'[m].profile \notin F
      BY <1>6, <3>1, <3>2
    <3> QED BY <1>1, <1>3, <3>1, <3>3
  <2> QED BY <2>1 DEF Alive
<1>10. ASSUME NEW t, NEW S, IsThread(heap', t, S), Whole(S) PROVE Whole(S)'
  <2>1. ASSUME NEW s \in S, heap'[s].kind # "CallTrees"
        PROVE  s \notin doomed' /\ (s \in held' => s \in objects')
    <3>1. heap[s].kind = heap'[s].kind
      BY <1>8, <1>10 DEF Same
    <3>2. s \notin doomed /\ (s \in held => s \in objects)
      BY <1>10, <2>1, <3>1 DEF Whole
    <3> QED BY <1>1, <3>2
  <2> QED BY <2>1 DEF Whole
<1>11. ASSUME NEW x \in DOMAIN heap', NEW S
       PROVE  /\ (Leads(x, S)' <=> Leads(x, S)) /\ (Attends(x, S)' <=> Attends(x, S))
              /\ (Copy(heap', x) <=> Copy(heap, x))
  BY <1>4, <1>11, LeadsSame
<1>12. ASSUME NEW x \in Followed', NEW t, NEW S, IsThread(heap', t, S)
       PROVE  (Leads(x, S)' => Alive(S)') /\ (Attends(x, S)' => Whole(S)')
  <2>1. (Leads(x, S) => Alive(S)) /\ (Attends(x, S) => Whole(S))
    BY <1>7, <1>8, <1>12 DEF Marks
  <2> QED BY <1>7, <1>9, <1>10, <1>11, <1>12, <2>1
<1>13. ASSUME NEW x \in held' \cap doomed' \cap DOMAIN heap'
       PROVE  heap'[x].kind # "Profile" /\ ~Copy(heap', x)
  <2>1. x \in held \cap doomed \cap DOMAIN heap /\ Same(heap[x], heap'[x])
    BY <1>1, <1>4, <1>13
  <2> QED BY <1>11, <1>13, <2>1 DEF Marks, Same
<1> QED BY <1>12, <1>13 DEF Marks

(* What is part of a thread, or a call of its methods, leads to no other.  *)
LEMMA LeadsOne ==
  ASSUME Proper(heap), NEW t, NEW S, IsThread(heap, t, S), NEW u, NEW T, IsThread(heap, u, T),
         NEW x \in DOMAIN heap, x \in T \/ (heap[x].kind = "CallTree" /\ heap[x].method \in T),
         heap[x].threads = {}, Leads(x, S)
  PROVE  S = T
<1>1. Sorted(heap) /\ OwnedOnce(heap) /\ NoCycle(heap)
  BY ProperParts
<1>2. CASE x \in S /\ heap[x].kind \in {"Thread", "Method", "CallTrees"}
  BY <1>1, <1>2, ThreadsApart
<1>3. CASE heap[x].kind = "CallTree" /\ heap[x].method \in S
  <2>1. heap[x].method \in T
    BY <1>3, NodeMethods
  <2> QED BY <1>1, <1>3, <2>1, ThreadsApart
<1> QED BY <1>2, <1>3 DEF Leads

(* What can be read of the call tree o of a thread with living methods is  *)
(* of that thread, or a parent in another whose methods are alive as well. *)
LEMMA GivenByNode ==
  ASSUME HeapOK, NEW o \in DOMAIN heap, heap[o].kind = "CallTree",
         NEW u, NEW T, IsThread(heap, u, T), heap[o].method \in T, Alive(T),
         NEW x \in (Owns(heap, o) \cup Refers(heap, o)) \cap DOMAIN heap,
         heap[x].kind # "Measurement"
  PROVE  /\ ~Copy(heap, x)
         /\ heap[x].kind = "CallTree" => heap[x].method \in DOMAIN heap
         /\ \E v, V : /\ IsThread(heap, v, V) /\ Alive(V)
                      /\ x \in V \/ (heap[x].kind = "CallTree" /\ heap[x].method \in V)
<1>1. Proper(heap) /\ Sorted(heap) /\ Relatives(heap) /\ Plain(heap[o]) /\ Kinded(heap, o)
      /\ T \subseteq DOMAIN heap /\ u \in DOMAIN heap
  BY ProperParts, ThreadMethods DEF HeapOK, Sorted, IsThread
<1>2. heap[heap[o].method].kind = "Method" /\ heap[o].method \in heap[u].methods
  BY <1>1, ThreadMethods DEF Kinded, Are
<1>3. Related(heap, o)
  BY <1>1 DEF Relatives
<1>4. CASE x \in CallsOf(heap, heap[u].methods)
  <2>1. heap[x].kind = "CallTree" /\ heap[x].owner = "C" /\ heap[x].method \in T
    BY <1>1, <1>4, CallsAre
  <2> QED BY <1>1, <2>1 DEF Copy
<1>5. CASE x = heap[o].method
  BY <1>1, <1>2, <1>5 DEF Copy
<1>6. CASE x = heap[o].parent /\ ~SameThread(heap, o, x)
  <2>1. PICK v, V : IsThread(heap, v, V) /\ x \in V
    BY <1>3, <1>6 DEF Related, InThread
  <2>2. heap[x].kind = "CallTree"
    BY <1>1, <1>6 DEF Kinded, Are
  <2>3. heap[x].method \in V /\ heap[heap[x].method].kind = "Method"
    BY <1>1, <2>1, <2>2, NodeMethods
  <2>4. heap[heap[o].method].profile = heap[heap[x].method].profile
    BY <1>1, <1>3, <1>6 DEF Related
  <2>5. \A m \in V : heap[m].kind = "Method" => heap[m].profile = heap[heap[o].method].profile
    BY <2>1, <2>3, <2>4 DEF IsThread
  <2>6. Alive(V)
    BY <1>2, <2>5 DEF Alive
  <2>7. V \subseteq DOMAIN heap
    BY <2>1 DEF IsThread
  <2>8. ~Copy(heap, x)
    BY <1>1, <2>1, CopyAlone
  <2> QED BY <2>1, <2>2, <2>3, <2>6, <2>7, <2>8
<1>7. x \in heap[o].children \/ (x = heap[o].parent /\ SameThread(heap, o, x)) =>
        x \in CallsOf(heap, heap[u].methods)
  BY <1>1, <1>2, <1>3 DEF Related, SameThread
<1>8. x \in heap[o].children \cup {heap[o].method, heap[o].parent}
  <2>1. Owns(heap, o) = heap[o].children \cup ({heap[o].measurement} \ {NULL})
    BY <1>1, OwnsByKind
  <2>2. heap[o].list = {}
    BY <1>1 DEF Plain
  <2>3. x # heap[o].measurement
    BY <1>1 DEF Kinded, Are
  <2> QED BY <2>1, <2>2, <2>3 DEF Refers
<1> QED BY <1>4, <1>5, <1>6, <1>7, <1>8

(* What a reader gives is no profile and no copy, it leads to threads      *)
(* whose methods are alive only, and it is a thread only if it is read     *)
(* from the profile with the thread in its table.                          *)
LEMMA GivenAre ==
  ASSUME HeapOK, Marks, Sound, NEW o \in Usable,
         NEW x \in (Owns(heap, o) \cup Refers(heap, o)) \cap DOMAIN heap
  PROVE  /\ heap[x].kind # "Profile" /\ ~Copy(heap, x) /\ heap[x].threads = {}
         /\ heap[x].kind = "Thread" => x \in heap[o].threads
         /\ heap[x].kind = "CallTree" => heap[x].method \in DOMAIN heap
         /\ \A t, S : IsThread(heap, t, S) /\ Leads(x, S) => Alive(S)
<1>1. Proper(heap) /\ Sorted(heap) /\ OwnedOnce(heap) /\ NULL \notin DOMAIN heap
  BY ProperParts DEF HeapOK
<1>2. o \in DOMAIN heap /\ o \in Followed /\ Plain(heap[o]) /\ Kinded(heap, o) /\ Plain(heap[x])
  BY <1>1, UsableFollowed DEF Sorted
<1>3. x \in Refers(heap, o) => heap[x].kind \in {"Method", "CallTree"}
  BY <1>2 DEF Refers, Kinded, Are
<1>4. heap[x].kind # "Profile" /\ (heap[x].kind = "Thread" => x \in heap[o].threads)
  BY <1>1, <1>2, <1>3, OwnerKind
<1>5. heap[x].threads = {}
  BY <1>2, <1>4 DEF Plain
<1>6. CASE heap[x].kind = "Measurement"
  <2>1. ~Copy(heap, x) /\ \A S : ~Leads(x, S)
    BY <1>5, <1>6 DEF Copy, Leads
  <2> QED BY <1>4, <1>5, <1>6, <2>1
<1>7. CASE heap[o].kind = "Profile"
  <2>1. x \in heap[o].threads
    BY <1>2, <1>7, OwnsByKind DEF Refers, Plain
  <2>2. heap[x].kind = "Thread"
    BY <1>2, <2>1 DEF Kinded, Are
  <2>3. ASSUME NEW t, NEW S, IsThread(heap, t, S), Leads(x, S) PROVE Alive(S)
    <3>1. x \in S
      BY <1>5, <2>2, <2>3 DEF Leads
    <3>2. Leads(o, S)
      BY <2>1, <3>1 DEF Leads
    <3> QED BY <1>2, <2>3, <3>2 DEF Marks
  <2> QED BY <1>4, <1>5, <2>2, <2>3 DEF Copy
<1>8. CASE heap[o].kind = "CallTree" /\ heap[x].kind # "Measurement"
  <2>1. heap[o].method \in DOMAIN heap
    <3>1. heap[o].method # NULL
      BY <1>2, <1>8 DEF Plain
    <3>2. heap[o].method \in UNION Readers(o)
      BY <3>1 DEF Readers
    <3> QED BY <1>2, <3>2 DEF Sound, Targets
  <2>2. PICK u, T : IsThread(heap, u, T) /\ heap[o].method \in T
    BY <1>1, <1>2, <1>8, <2>1, NodeAt
  <2>3. Alive(T)
    BY <1>2, <1>8, <2>2 DEF Marks, Leads
  <2>4. /\ ~Copy(heap, x)
        /\ heap[x].kind = "CallTree" => heap[x].method \in DOMAIN heap
        /\ \E v, V : /\ IsThread(heap, v, V) /\ Alive(V)
                     /\ x \in V \/ (heap[x].kind = "CallTree" /\ heap[x].method \in V)
    BY <1>2, <1>8, <2>2, <2>3, GivenByNode
  <2> QED BY <1>1, <1>4, <1>5, <2>4, LeadsOne
<1>9. CASE heap[o].kind \in {"Thread", "Method", "CallTrees"}
  <2>1. PICK u, T : IsThread(heap, u, T) /\ o \in T
    BY <1>1, <1>2, <1>9, WhereIs
  <2>2. Alive(T) /\ T \subseteq DOMAIN heap
    BY <1>2, <1>9, <2>1 DEF Marks, Leads, IsThread
  <2>3. CASE x \in Owns(heap, o)
    <3>1. x \in T
      BY <2>1, <2>3 DEF IsThread
    <3>2. ~Copy(heap, x) /\ (heap[x].kind = "CallTree" => heap[x].method \in DOMAIN heap)
      BY <1>1, <2>1, <2>2, <3>1, CopyAlone, NodeMethods
    <3> QED BY <1>1, <1>4, <1>5, <2>1, <2>2, <3>1, <3>2, LeadsOne
  <2>4. CASE x \notin Owns(heap, o)
    <3>1. x \in heap[o].list
      BY <1>2, <1>9, <2>4 DEF Refers, Plain
    <3>2. x \in CallsOf(heap, heap[u].methods)
      BY <2>1, <3>1 DEF IsThread
    <3>3. heap[x].kind = "CallTree" /\ heap[x].owner = "C" /\ heap[x].method \in T
      BY <1>1, <2>1, <3>2, CallsAre
    <3> QED BY <1>1, <1>4, <1>5, <2>1, <2>2, <3>3, LeadsOne DEF Copy
  <2> QED BY <2>3, <2>4
<1>10. heap[o].kind \notin {"Measurement", "Allocation"}
  BY <1>2, OwnsByKind DEF Refers, Plain
<1> QED BY <1>2, <1>6, <1>7, <1>8, <1>9, <1>10 DEF Plain, Kinds

(* An object that a reader gives belongs to the thread whose objects led   *)
(* to it.                                                                  *)
LEMMA ReadMarks ==
  ASSUME HeapOK, Marks, Sound, NEW o \in held, Read(o) PROVE Marks'
<1>1. PICK given, s : Gives(o, given, s)
  BY ReadGives
<1>2. o \in Usable /\ o \in Followed
  BY ReadGives, UsableFollowed
<1>3. /\ given \subseteq (Owns(heap, o) \cup Refers(heap, o)) \cap DOMAIN heap /\ s \in given
      /\ DOMAIN heap' = DOMAIN heap
      /\ \A x \in DOMAIN heap : Same(heap[x], heap'[x])
      /\ objects' = objects \cup given /\ held' = held \cup {s}
      /\ null' = null /\ doomed' = doomed
  BY <1>1 DEF Gives
<1>4. ThreadsKept /\ HeapOK'
  BY ReadHeap
<1>5. ASSUME NEW x \in Followed' PROVE (x \in Followed \/ x \in given) /\ x \in DOMAIN heap
  <2>1. x \in Followed \/ x \in given
    BY <1>3, <1>5 DEF Followed
  <2>2. x \in Followed => x \in DOMAIN heap
    BY FollowedThere
  <2> QED BY <1>3, <2>1, <2>2
<1>6. ASSUME NEW x \in DOMAIN heap, NEW S
      PROVE  /\ (Leads(x, S)' <=> Leads(x, S)) /\ (Attends(x, S)' <=> Attends(x, S))
             /\ (Copy(heap', x) <=> Copy(heap, x))
  BY <1>3, <1>6, LeadsSame
<1>7. ASSUME NEW x \in given
      PROVE  /\ heap[x].kind # "Profile" /\ ~Copy(heap, x) /\ heap[x].threads = {}
             /\ heap[x].kind = "Thread" => x \in heap[o].threads
             /\ \A t, S : IsThread(heap, t, S) /\ Leads(x, S) => Alive(S)
  BY <1>2, <1>3, GivenAre
<1>8. ASSUME NEW t, NEW S, IsThread(heap', t, S)
      PROVE  IsThread(heap, t, S) /\ S \subseteq DOMAIN heap
  BY <1>4, <1>8 DEF ThreadsKept, IsThread
<1>9. ASSUME NEW t, NEW S, IsThread(heap, t, S)
      PROVE  (Alive(S) => Alive(S)') /\ (Whole(S) => Whole(S)')
  <2>1. \A c \in S : c \in DOMAIN heap /\ heap'[c].kind = heap[c].kind
                     /\ heap'[c].profile = heap[c].profile
    BY <1>3, <1>9 DEF IsThread, Same
  <2>2. ASSUME Alive(S) PROVE Alive(S)'
    BY <1>3, <2>1, <2>2 DEF Alive
  <2>3. ASSUME Whole(S) PROVE Whole(S)'
    BY <1>3, <2>1, <2>3 DEF Whole
  <2> QED BY <2>2, <2>3
<1>10. ASSUME NEW x \in Followed', NEW t, NEW S, IsThread(heap', t, S)
       PROVE  (Leads(x, S) => Alive(S)) /\ (Attends(x, S) => Whole(S))
  <2>1. CASE x \in Followed
    BY <1>8, <1>10, <2>1 DEF Marks
  <2>2. CASE x \in given
    <3>1. Leads(x, S) => Alive(S)
      BY <1>7, <1>8, <1>10, <2>2
    <3>2. Attends(x, S) => Attends(o, S)
      BY <1>7, <2>2 DEF Attends
    <3> QED BY <1>2, <1>8, <1>10, <3>1, <3>2 DEF Marks
  <2> QED BY <1>5, <2>1, <2>2
<1>11. ASSUME NEW x \in held' \cap doomed' \cap DOMAIN heap'
       PROVE  heap'[x].kind # "Profile" /\ ~Copy(heap', x)
  <2>1. x \in DOMAIN heap /\ heap'[x].kind = heap[x].kind /\ (x \in held \cap doomed \/ x \in given)
    BY <1>3, <1>11 DEF Same
  <2>2. heap[x].kind # "Profile" /\ ~Copy(heap, x)
    BY <1>7, <2>1 DEF Marks
  <2> QED BY <1>6, <2>1, <2>2
<1>12. ASSUME NEW x \in Followed', NEW t, NEW S, IsThread(heap', t, S)
       PROVE  (Leads(x, S)' => Alive(S)') /\ (Attends(x, S)' => Whole(S)')
  BY <1>5, <1>6, <1>8, <1>9, <1>10, <1>12
<1> QED BY <1>11, <1>12 DEF Marks

(* Allocation, if what is allocated leads to living threads only.          *)
LEMMA AllocatesMarks ==
  ASSUME HeapOK, Marks, NEW N, NEW c, Allocates(N, c),
         heap'[c].kind \in {"CallTree", "Measurement"},
         \A t, S : IsThread(heap, t, S) /\ heap'[c].kind = "CallTree" /\ heap'[c].method \in S
           => Alive(S)
  PROVE  Marks'
<1>1. /\ DOMAIN heap' = DOMAIN heap \cup N /\ N \cap DOMAIN heap = {} /\ N \cap objects = {}
      /\ \A s \in DOMAIN heap : heap'[s] = heap[s]
      /\ c \in N /\ objects' = objects \cup {c} /\ held' = held \cup {c}
      /\ null' = null /\ doomed' = doomed /\ Plain(heap'[c])
  BY DEF Allocates, Extended
<1>2. ThreadsKept /\ HeapOK'
  BY AllocatesHeap
<1>3. c \notin doomed /\ c \notin DOMAIN heap
  BY <1>1 DEF HeapOK
<1>4. \A x \in Followed' : x = c \/ (x \in Followed /\ x \in DOMAIN heap)
  <2>1. ASSUME NEW x \in Followed', x # c PROVE x \in Followed
    BY <1>1, <2>1 DEF Followed
  <2>2. \A x \in Followed : x \in DOMAIN heap
    BY FollowedThere
  <2> QED BY <2>1, <2>2
<1>5. ASSUME NEW t, NEW S, IsThread(heap', t, S)
      PROVE  IsThread(heap, t, S) /\ S \subseteq DOMAIN heap /\ c \notin S
  BY <1>2, <1>3, <1>5 DEF ThreadsKept, IsThread
<1>6. ASSUME NEW t, NEW S, IsThread(heap, t, S)
      PROVE  (Alive(S) => Alive(S)') /\ (Whole(S) => Whole(S)')
  <2>1. \A s \in S : s \in DOMAIN heap /\ heap'[s] = heap[s] /\ s # c
    BY <1>1, <1>3, <1>6 DEF IsThread
  <2>2. ASSUME Alive(S) PROVE Alive(S)'
    BY <1>1, <2>1, <2>2 DEF Alive
  <2>3. ASSUME Whole(S) PROVE Whole(S)'
    BY <1>1, <2>1, <2>3 DEF Whole
  <2> QED BY <2>2, <2>3
<1>7. heap'[c].threads = {} /\ heap'[c].kind # "Thread"
  BY <1>1 DEF Plain
<1>8. ASSUME NEW x \in Followed', NEW t, NEW S, IsThread(heap', t, S)
      PROVE  (Leads(x, S)' => Alive(S)') /\ (Attends(x, S)' => Whole(S)')
  <2>1. CASE x = c
    <3>1. ~Attends(x, S)'
      BY <1>7, <2>1 DEF Attends
    <3>2. Leads(x, S)' => heap'[c].kind = "CallTree" /\ heap'[c].method \in S
      BY <1>5, <1>7, <1>8, <2>1 DEF Leads
    <3>3. Leads(x, S)' => Alive(S)
      BY <1>5, <1>8, <3>2
    <3> QED BY <1>5, <1>6, <1>8, <3>1, <3>3
  <2>2. CASE x \in Followed /\ x \in DOMAIN heap
    <3>1. heap'[x] = heap[x]
      BY <1>1, <2>2
    <3>2. (Leads(x, S)' => Leads(x, S)) /\ (Attends(x, S)' => Attends(x, S))
      BY <3>1 DEF Leads, Attends
    <3>3. (Leads(x, S) => Alive(S)) /\ (Attends(x, S) => Whole(S))
      BY <1>5, <1>8, <2>2 DEF Marks
    <3> QED BY <1>5, <1>6, <1>8, <3>2, <3>3
  <2> QED BY <1>4, <2>1, <2>2
<1>9. ASSUME NEW x \in held' \cap doomed' \cap DOMAIN heap'
      PROVE  heap'[x].kind # "Profile" /\ ~Copy(heap', x)
  <2>1. x \in held \cap doomed
    BY <1>1, <1>3
  <2>2. x \in DOMAIN heap
    <3>1. x \in objects
      BY <2>1 DEF HeapOK
    <3> QED BY <1>1, <3>1
  <2>3. heap'[x] = heap[x]
    BY <1>1, <2>2
  <2> QED BY <2>1, <2>2, <2>3 DEF Marks, Copy
<1> QED BY <1>8, <1>9 DEF Marks

(* A copy leads to the method of the node it was made from. *)
LEMMA AggregateMarks ==
  ASSUME HeapOK, Marks, Sound, NEW l \in held, AggregateCalls(l) PROVE Marks'
<1>1. PICK n, c, k : Allocates({c, k}, c) /\ CopyOf(l, n, c)
  BY AggregateAllocates
<1>2. l \in Usable /\ heap[l].kind = "CallTrees" /\ heap'[c].method = heap[n].method
      /\ heap'[c].kind = "CallTree"
      /\ n \in heap[l].list \cup UNION {heap[d].children : d \in heap[l].list}
      /\ n \in DOMAIN heap /\ heap[n].kind = "CallTree"
  BY <1>1 DEF CopyOf
<1>3. l \in DOMAIN heap /\ l \in Followed
  BY <1>2, UsableFollowed
<1>4. Proper(heap) /\ Sorted(heap) /\ OwnedOnce(heap) /\ NoCycle(heap)
  BY ProperParts DEF HeapOK
<1>5. PICK u, T : IsThread(heap, u, T) /\ l \in T
  BY <1>2, <1>3, <1>4, ListInThread
<1>6. n \in CallsOf(heap, heap[u].methods)
  BY <1>2, <1>4, <1>5, CallsAre DEF IsThread
<1>7. heap[n].method \in T
  BY <1>4, <1>5, <1>6, CallsAre
<1>8. Alive(T)
  BY <1>2, <1>3, <1>5 DEF Marks, Leads
<1>9. ASSUME NEW t, NEW S, IsThread(heap, t, S), heap'[c].method \in S PROVE Alive(S)
  <2>1. S = T
    BY <1>2, <1>4, <1>5, <1>7, <1>9, ThreadsApart
  <2> QED BY <1>8, <2>1
<1> QED BY <1>1, <1>2, <1>9, AllocatesMarks

(* A copy of a measurement is part of no thread. *)
LEMMA DuplicateMarks ==
  ASSUME HeapOK, Marks, NEW o \in held, Duplicate(o) PROVE Marks'
<1>1. PICK m : Allocates({m}, m) /\ heap'[m].kind = "Measurement"
  BY DuplicateAllocates
<1>2. heap'[m].kind # "CallTree"
  BY <1>1
<1> QED BY <1>1, <1>2, AllocatesMarks

(* Threads may leave their tables, and those of U enter one.               *)
Enter(U) ==
  /\ Moves
  /\ \A s \in DOMAIN heap : heap'[s].threads \subseteq heap[s].threads \cup U
  /\ \A u \in U : u \in Followed /\ heap[u].kind = "Thread"

(* A thread that enters a table is followed, so its parts are alive        *)
(* already.                                                                *)
LEMMA MovesMarks ==
  ASSUME HeapOK, Marks, NEW U, Enter(U)
  PROVE  Marks'
<1>1. /\ DOMAIN heap' = DOMAIN heap /\ objects' = objects /\ null' = null
      /\ doomed' = doomed /\ held' = held /\ Tabled(heap, heap') /\ Moves
      /\ \A s \in DOMAIN heap : heap'[s].threads \subseteq heap[s].threads \cup U
      /\ \A u \in U : u \in Followed /\ heap[u].kind = "Thread"
  BY DEF Moves, Tabled, Enter
<1>2. ASSUME NEW s \in DOMAIN heap
      PROVE  /\ heap'[s].kind = heap[s].kind /\ heap'[s].profile = heap[s].profile
             /\ heap'[s].method = heap[s].method
             /\ heap[s].kind = "CallTree" => heap'[s].owner = heap[s].owner
  <2>1. [heap'[s] EXCEPT !.threads = {}, !.owner = "C"] =
            [heap[s] EXCEPT !.threads = {}, !.owner = "C"]
        /\ (heap'[s].owner = heap[s].owner \/ heap[s].kind = "Thread")
        /\ DOMAIN heap'[s] = Fields
    BY <1>1 DEF Tabled
  <2>2. DOMAIN heap[s] = Fields
    BY ProperParts, StructureFields DEF HeapOK, Sorted, Plain
  <2> QED BY <2>1, <2>2 DEF Fields
<1>3. ThreadsKept
  BY <1>1, TabledHeap DEF Moves
<1>4. Followed' = Followed
  BY <1>1 DEF Followed
<1>5. ASSUME NEW t, NEW S, IsThread(heap', t, S)
      PROVE  /\ IsThread(heap, t, S) /\ S \subseteq DOMAIN heap
             /\ Alive(S) => Alive(S)'
             /\ Whole(S) => Whole(S)'
  <2>1. IsThread(heap, t, S) /\ S \subseteq DOMAIN heap
    BY <1>3, <1>5 DEF ThreadsKept, IsThread
  <2> QED BY <1>1, <1>2, <2>1 DEF Alive, Whole
<1>6. ASSUME NEW x \in Followed', NEW t, NEW S, IsThread(heap', t, S)
      PROVE  (Leads(x, S)' => Alive(S)') /\ (Attends(x, S)' => Whole(S)')
  <2>1. x \in Followed /\ x \in DOMAIN heap
    BY <1>4, FollowedThere
  <2>2. CASE U \cap S # {}
    <3>1. PICK u \in U : u \in S
      BY <2>2
    <3>2. Leads(u, S) /\ Attends(u, S)
      BY <1>1, <3>1 DEF Leads, Attends
    <3> QED BY <1>1, <1>5, <1>6, <3>1, <3>2 DEF Marks
  <2>3. CASE U \cap S = {}
    <3>1. heap'[x].threads \cap S # {} => heap[x].threads \cap S # {}
      BY <1>1, <2>1, <2>3
    <3>2. (Leads(x, S)' => Leads(x, S)) /\ (Attends(x, S)' => Attends(x, S))
      BY <1>2, <2>1, <3>1 DEF Leads, Attends
    <3> QED BY <1>5, <1>6, <2>1, <3>2 DEF Marks
  <2> QED BY <2>2, <2>3
<1>7. \A x \in held' \cap doomed' \cap DOMAIN heap' : heap'[x].kind # "Profile" /\ ~Copy(heap', x)
  BY <1>1, <1>2 DEF Marks, Copy
<1> QED BY <1>6, <1>7 DEF Marks

(* Every step keeps the invariant. *)
LEMMA NextMarks == ASSUME HeapOK, Marks, [Next]_vars PROVE Marks'
<1>1. CASE UNCHANGED vars
  BY <1>1 DEF vars, Marks, Followed, Leads, Attends, Alive, Whole, Copy
<1>2. CASE Next
  <2>1. Sound
    BY <1>2 DEF Next
  <2>2. CASE Mark
    BY <2>1, <2>2, MarkMarks
  <2>3. CASE \E o \in doomed : Sweep(o)
    BY <2>3, SweepMarks
  <2>4. CASE \E o \in held : Read(o)
    BY <2>1, <2>4, ReadMarks
  <2>5. CASE \E o \in held : Drop(o)
    BY <2>5, DropMarks
  <2>6. CASE \E o \in held : AggregateCalls(o)
    BY <2>1, <2>6, AggregateMarks
  <2>7. CASE \E o \in held : Duplicate(o)
    BY <2>7, DuplicateMarks
  <2>8. CASE \E p, t \in held : prof_remove_thread(p, t)
    <3>1. Enter({})
      BY <2>1, <2>8, RemoveMoves DEF Enter
    <3> QED BY <3>1, MovesMarks
  <2>9. CASE \E p, t \in held : prof_add_thread(p, t)
    <3>1. PICK p \in held, t \in held : prof_add_thread(p, t)
      BY <2>9
    <3>2. /\ Moves /\ t \in Usable /\ heap[t].kind = "Thread"
          /\ \A s \in DOMAIN heap : heap'[s].threads \subseteq heap[s].threads \cup {t}
      BY <2>1, <3>1, AddMoves
    <3>3. t \in Followed
      BY <2>1, <3>2, UsableFollowed
    <3>4. Enter({t})
      BY <3>2, <3>3 DEF Enter
    <3> QED BY <3>4, MovesMarks
  <2> QED BY <1>2, <2>2, <2>3, <2>4, <2>5, <2>6, <2>7, <2>8, <2>9 DEF Next
<1> QED BY <1>1, <1>2

-----------------------------------------------------------------------------
(* What the two invariants say of the properties. *)

(* What can be read of a profile, if it is freed at all, is freed with it. *)
LEMMA ReadableParts ==
  ASSUME HeapOK, NEW p \in Of("Profile"), NEW o \in Readable(p), o \notin Unfreed
  PROVE  o \in PartsOf(p)
<1>1. Proper(heap) /\ Sorted(heap) /\ OwnedOnce(heap) /\ NULL \notin DOMAIN heap
      /\ p \in DOMAIN heap /\ heap[p].kind = "Profile" /\ Plain(heap[p]) /\ Kinded(heap, p)
      /\ UnfreedParts
  BY ProperParts, UnfreedWhole DEF HeapOK, Of, Sorted
<1>2. SUFFICES ASSUME o \notin PartsOf(p) PROVE FALSE
  OBVIOUS
<1>3. PICK l \in PartsOf(p) : \E n \in heap[l].list \ {NULL} : o \in prof_call_tree_free(n)
  BY <1>2 DEF Readable, All
<1>4. PICK n \in heap[l].list : o \in prof_call_tree_free(n)
  BY <1>3
<1>5. l # p
  BY <1>1, <1>4 DEF Plain
<1>6. PICK t \in heap[p].threads : l \in prof_thread_free(t)
  BY <1>3, <1>5 DEF PartsOf, prof_profile_free, All
<1>7. t \in DOMAIN heap /\ heap[t].kind = "Thread"
  BY <1>1, <1>6 DEF OwnedOnce, Owns, Kinded, Are
<1>8. PICK S : IsThread(heap, t, S)
  BY <1>1, <1>7, ProperParts DEF Threaded
<1>9. prof_thread_free(t) = S /\ t # NULL
  BY <1>1, <1>7, <1>8, ThreadFrees
<1>10. n \in CallsOf(heap, heap[t].methods)
  BY <1>4, <1>6, <1>8, <1>9 DEF IsThread
<1>11. n \in DOMAIN heap /\ heap[n].kind = "CallTree"
  BY <1>1, <1>8, <1>10, CallsAre
<1>12. Frees(n, prof_call_tree_free(n))
  BY <1>1, <1>11, FreesNode
<1>13. n \notin Unfreed
  <2>1. ASSUME n \in Unfreed PROVE FALSE
    <3>1. prof_call_tree_free(n) \subseteq Unfreed
      BY <1>1, <1>12, <2>1, FreesWithin DEF UnfreedParts
    <3> QED BY <1>4, <3>1
  <2> QED BY <2>1
<1>14. n \in S
  BY <1>8, <1>10, <1>13, NodeOfThread
<1>15. prof_call_tree_free(n) \subseteq S
  <2>1. \A s \in S : Owns(heap, s) \subseteq S
    BY <1>8 DEF IsThread
  <2> QED BY <1>1, <1>12, <1>14, <2>1, FreesWithin
<1>16. S \subseteq PartsOf(p)
  BY <1>6, <1>9 DEF PartsOf, prof_profile_free, All
<1> QED BY <1>2, <1>4, <1>15, <1>16

(* What the program holds of a profile that is not about to be swept has   *)
(* not been swept, by Whole.                                               *)
LEMMA MarksHold == HeapOK /\ Marks => HeldAreThere
<1>1. SUFFICES ASSUME HeapOK, Marks, NEW p \in Of("Profile") \ doomed,
                      NEW o \in held \cap Readable(p), heap[o].kind # "CallTrees",
                      o \notin Unfreed
               PROVE  o \in objects
  BY DEF HeldAreThere
<1>2. Proper(heap) /\ Sorted(heap) /\ OwnedOnce(heap) /\ NULL \notin DOMAIN heap
  BY <1>1, ProperParts DEF HeapOK
<1>3. p \in DOMAIN heap /\ heap[p].kind = "Profile" /\ p \in objects /\ p \in Followed
  BY <1>1, <1>2 DEF Of, OwnedOnce, HeapOK, LinksAgree, Followed
<1>4. CASE o = p
  BY <1>3, <1>4
<1>5. CASE o # p
  <2>1. PICK t \in heap[p].threads : o \in prof_thread_free(t)
    BY <1>1, <1>5, ReadableParts DEF PartsOf, prof_profile_free, All
  <2>2. t \in DOMAIN heap /\ heap[t].kind = "Thread"
    BY <1>2, <1>3 DEF OwnedOnce, Owns, Sorted, Kinded, Are
  <2>3. PICK S : IsThread(heap, t, S)
    BY <1>2, <2>2, ProperParts DEF Threaded
  <2>4. o \in S
    BY <1>2, <2>1, <2>3, ThreadFrees
  <2>5. Whole(S)
    BY <1>1, <1>3, <2>1, <2>3 DEF Marks, Attends, IsThread
  <2> QED BY <1>1, <2>4, <2>5 DEF Whole
<1> QED BY <1>4, <1>5

(* A thread that is freed though the profile of its methods is alive does  *)
(* not belong to them.                                                     *)
LEMMA StrangerFreed ==
  ASSUME HeapOK, NEW w \in doomed \cap DOMAIN heap, NEW t, NEW S, IsThread(heap, t, S),
         t \in FreedWith(w), Alive(S)
  PROVE  S \subseteq OfStrangers
<1>1. Proper(heap) /\ Sorted(heap) /\ OwnedOnce(heap) /\ NULL \notin DOMAIN heap
      /\ t \in S /\ S \subseteq DOMAIN heap /\ heap[t].kind = "Thread"
  BY ProperParts DEF HeapOK, IsThread
<1>2. PICK m \in S : heap[m].kind = "Method" /\ m \in heap[t].methods
  BY <1>1, ThreadMethods, NodeMethods
<1>3. Frees(w, FreedWith(w))
  BY <1>1, SweptFreeable
<1>4. Stranger(t)
  <2>1. CASE t = w
    <3>1. heap[t].owner = "Ruby"
      BY <1>1, <2>1 DEF FreedWith
    <3>2. heap[m].profile = NULL
      BY <1>2, <3>1 DEF IsThread
    <3> QED BY <1>2, <3>2 DEF Stranger
  <2>2. CASE t # w
    <3>1. PICK p \in FreedWith(w) : t \in Owns(heap, p)
      BY <1>3, <2>2 DEF Frees
    <3>2. p \in DOMAIN heap
      BY <1>3, <3>1 DEF Frees
    <3>3. heap[p].kind = "Profile" /\ t \in heap[p].threads
      BY <1>1, <3>1, <3>2, OwnerKind
    <3>4. p = w
      BY <1>1, <3>1, <3>2, <3>3, ProfileFreed
    <3>5. heap[m].profile = NULL \/ heap[m].profile # p
      BY <1>2, <3>4 DEF Alive
    <3> QED BY <1>2, <3>2, <3>3, <3>5 DEF Stranger, Of
  <2> QED BY <2>1, <2>2
<1>5. prof_thread_free(t) = S
  BY <1>1, ThreadFrees
<1>6. t \in Of("Thread") /\ t # NULL
  BY <1>1 DEF Of
<1> QED BY <1>4, <1>5, <1>6 DEF OfStrangers, All

(* What a structure points to is what it owns and refers to, and a method  *)
(* to its profile.                                                         *)
LEMMA TargetsAre ==
  ASSUME NEW s
  PROVE  Targets(s) \subseteq Owns(heap, s) \cup Refers(heap, s) \cup ({heap[s].profile} \ {NULL})
<1>1. ASSUME NEW given \in Readers(s), NEW x \in given
      PROVE  x \in Owns(heap, s) \cup Refers(heap, s)
  <2>1. given \notin {{NULL}, {}}
    BY DEF Readers
  <2>2. CASE given \in {heap[s].threads, heap[s].methods, heap[s].children, heap[s].list,
                      heap[s].allocations}
    BY <1>1, <2>2 DEF Owns, Refers
  <2>3. CASE given \in {{heap[s].method}, {heap[s].parent}, {heap[s].call_tree},
                      {heap[s].call_trees}, {heap[s].measurement}}
    <3>1. PICK v \in {heap[s].method, heap[s].parent, heap[s].call_tree, heap[s].call_trees,
                     heap[s].measurement} : given = {v}
      BY <2>3
    <3>2. x = v /\ v # NULL
      BY <1>1, <2>1, <3>1
    <3> QED BY <3>1, <3>2 DEF Owns, Refers
  <2> QED BY <1>1, <2>2, <2>3 DEF Readers
<1> QED BY <1>1 DEF Targets

(* Where what o points to is not, if its method is there: a parent that    *)
(* merging left behind.                                                    *)
There(o) ==
  \A r \in Targets(o) : r \in DOMAIN heap \/ (r \in LeftBehind /\ r = heap[o].parent)

(* A call tree whose method is there points to its thread. *)
LEMMA NodeThere ==
  ASSUME HeapOK, NEW o \in DOMAIN heap, heap[o].kind = "CallTree",
         heap[o].method \in DOMAIN heap
  PROVE  There(o)
<1>1. Proper(heap) /\ OwnedOnce(heap) /\ Plain(heap[o])
  BY ProperParts DEF HeapOK, Sorted
<1>2. Owns(heap, o) \subseteq DOMAIN heap
  BY <1>1 DEF OwnedOnce
<1>3. Refers(heap, o) = {heap[o].method, heap[o].parent} \ {NULL} /\ heap[o].profile = NULL
  BY <1>1 DEF Refers, Plain
<1>4. ASSUME heap[o].parent # NULL, heap[o].parent \notin LeftBehind
      PROVE  heap[o].parent \in DOMAIN heap
  <2>1. SameThread(heap, o, heap[o].parent)
    BY <1>4 DEF HeapOK, Origins
  <2>2. PICK t, S : IsThread(heap, t, S) /\ heap[o].method \in heap[t].methods
    BY <1>1, NodeAt
  <2>3. heap[o].parent \in CallsOf(heap, heap[t].methods)
    BY <2>1, <2>2 DEF SameThread, IsThread
  <2> QED BY <2>3 DEF CallsOf
<1> QED BY <1>2, <1>3, <1>4, TargetsAre DEF There

(* All that is followed points to what is there, but for call trees that   *)
(* have lost their method.                                                 *)
LEMMA TargetsThere ==
  ASSUME HeapOK, Marks, NEW o \in Followed,
         heap[o].kind = "CallTree" => heap[o].method \in DOMAIN heap
  PROVE  There(o)
<1>1. Proper(heap) /\ Sorted(heap) /\ OwnedOnce(heap) /\ NULL \notin DOMAIN heap
      /\ o \in DOMAIN heap /\ Plain(heap[o])
  BY FollowedThere, ProperParts DEF HeapOK, Sorted
<1>2. Owns(heap, o) \subseteq DOMAIN heap
  BY <1>1 DEF OwnedOnce
<1>3. Targets(o) \subseteq Owns(heap, o) \cup Refers(heap, o) \cup ({heap[o].profile} \ {NULL})
  BY TargetsAre
<1>4. CASE heap[o].kind = "CallTree"
  BY <1>1, <1>4, NodeThere
<1>5. CASE heap[o].kind \in {"Profile", "Thread", "Measurement", "Allocation"}
  <2>1. Refers(heap, o) = {} /\ heap[o].profile = NULL
    BY <1>1, <1>5 DEF Refers, Plain
  <2> QED BY <1>2, <1>3, <2>1 DEF There
<1>6. CASE heap[o].kind \in {"Method", "CallTrees"}
  <2>1. PICK t, S : IsThread(heap, t, S) /\ o \in S
    BY <1>1, <1>6, WhereIs
  <2>2. Refers(heap, o) \subseteq DOMAIN heap
    BY <1>1, <1>6, <2>1 DEF Refers, Plain, IsThread, CallsOf
  <2>3. ASSUME heap[o].profile # NULL PROVE heap[o].profile \in DOMAIN heap
    <3>1. heap[o].kind = "Method"
      BY <1>1, <2>3 DEF Plain
    <3>2. Alive(S)
      BY <2>1, <3>1 DEF Marks, Leads
    <3> QED BY <2>1, <2>3, <3>1, <3>2 DEF Alive
  <2> QED BY <1>2, <1>3, <2>2, <2>3 DEF There
<1> QED BY <1>1, <1>4, <1>5, <1>6 DEF Plain, Kinds

(* No step but a sweep takes anything away. *)
LEMMA NothingTaken ==
  ASSUME HeapOK, Sound, Next, ~\E o \in doomed : Sweep(o)
  PROVE  DOMAIN heap \subseteq DOMAIN heap'
<1>1. CASE Mark
  BY <1>1 DEF Mark
<1>2. CASE \E o \in held : Read(o)
  BY <1>2, ReadGives DEF Gives
<1>3. CASE \E o \in held : Drop(o)
  BY <1>3 DEF Drop
<1>4. CASE \E o \in held : AggregateCalls(o)
  <2>1. PICK N, c : Allocates(N, c)
    BY <1>4, AggregateAllocates
  <2> QED BY <2>1 DEF Allocates, Extended
<1>5. CASE \E o \in held : Duplicate(o)
  BY <1>5, DuplicateAllocates DEF Allocates, Extended
<1>6. CASE \E p, t \in held : prof_remove_thread(p, t) \/ prof_add_thread(p, t)
  <2>1. Moves
    BY <1>6, RemoveMoves, AddMoves
  <2> QED BY <2>1 DEF Moves, Tabled
<1> QED BY <1>1, <1>2, <1>3, <1>4, <1>5, <1>6 DEF Next

(* The method of a call tree that is followed is there. *)
LEMMA FollowedMethod ==
  ASSUME HeapOK, Sound, NEW o \in Followed, heap[o].kind = "CallTree"
  PROVE  heap[o].method \in DOMAIN heap /\ heap[o].method # NULL
<1>1. o \in DOMAIN heap /\ Plain(heap[o])
  BY FollowedThere, ProperParts DEF HeapOK, Sorted
<1>2. heap[o].method # NULL
  BY <1>1 DEF Plain
<1>3. heap[o].method \in UNION Readers(o)
  BY <1>2 DEF Readers
<1> QED BY <1>2, <1>3 DEF Sound, Targets

(* What the program holds of a profile that was run is not freed.          *)
LEMMA MarksKeepData ==
  ASSUME HeapOK, Marks, [Next]_vars PROVE KeepsHeldData
<1>1. SUFFICES ASSUME NEW o \in held \cap DOMAIN heap, o \notin OfStrangers,
                      heap[o].kind \notin {"Measurement", "Allocation"}
               PROVE  o \in DOMAIN heap'
  BY DEF KeepsHeldData
<1>2. CASE UNCHANGED vars
  BY <1>1, <1>2 DEF vars
<1>3. CASE Next /\ ~\E w \in doomed : Sweep(w)
  BY <1>1, <1>3, NothingTaken DEF Next
<1>4. CASE Next /\ \E w \in doomed : Sweep(w)
  <2>1. PICK w \in doomed : Sweep(w)
    BY <1>4
  <2>2. SUFFICES ASSUME o \notin DOMAIN heap' PROVE FALSE
    OBVIOUS
  <2>3. w \notin null /\ o \in FreedWith(w)
    BY <1>1, <2>1, <2>2 DEF Sweep
  <2>4. Sorted(heap) /\ OwnedOnce(heap) /\ Proper(heap) /\ NoCycle(heap) /\ Plain(heap[o])
    BY <1>1, ProperParts DEF HeapOK, Sorted
  <2>5. w \in DOMAIN heap /\ w \in doomed
    BY <2>3 DEF HeapOK, LinksAgree
  <2>6. o \in Followed
    BY <1>1, <1>4 DEF Followed, HeapOK, Sound, Next
  <2>7. Frees(w, FreedWith(w)) /\ Freeable(heap, FreedWith(w))
    BY <2>3, <2>4, <2>5, SweptFreeable
  <2>8. CASE o = w
    <3>1. heap[o].kind # "Profile" /\ ~Copy(heap, o)
      BY <1>1, <2>5, <2>8 DEF Marks
    <3>2. heap[o].kind = "Thread"
      BY <1>1, <2>3, <2>8, <3>1 DEF FreedWith, Copy
    <3>3. PICK S : IsThread(heap, o, S)
      BY <1>1, <2>4, <3>2, ProperParts DEF Threaded
    <3>4. Whole(S) /\ o \in S
      BY <2>6, <3>2, <3>3 DEF Marks, Attends, IsThread
    <3> QED BY <2>5, <2>8, <3>2, <3>4 DEF Whole
  <2>9. CASE o # w
    <3>1. Owned(heap, o)
      BY <2>3, <2>7, <2>9 DEF Frees, Owned
    <3>2. heap[o].kind # "Profile" /\ ~Copy(heap, o)
      BY <1>1, <2>4, <3>1 DEF OwnedOnce, Copy
    <3>3. PICK t, S : IsThread(heap, t, S) /\ o \in S /\ Alive(S)
      <4>1. CASE heap[o].kind = "CallTree"
        <5>1. PICK t, S : /\ IsThread(heap, t, S) /\ heap[o].method \in S
                          /\ heap[o].method \in heap[t].methods
          BY <1>1, <2>4, <2>6, <4>1, NodeAt, FollowedMethod, <1>4 DEF Next
        <5>2. o \in CallsOf(heap, heap[t].methods)
          BY <1>1, <2>4, <3>2, <4>1, <5>1 DEF CallsOf, Copy, Plain
        <5>3. o \notin Unfreed
          BY <2>3, <2>7, UnfreedStays
        <5>4. o \in S
          BY <5>1, <5>2, <5>3, NodeOfThread
        <5>5. Alive(S)
          BY <2>6, <4>1, <5>1 DEF Marks, Leads
        <5> QED BY <5>1, <5>4, <5>5
      <4>2. CASE heap[o].kind # "CallTree"
        <5>1. PICK t, S : IsThread(heap, t, S) /\ o \in S
          BY <1>1, <2>4, <3>2, <4>2, WhereIs
        <5>2. Alive(S)
          BY <1>1, <2>4, <2>6, <3>2, <4>2, <5>1 DEF Marks, Leads, Plain, Kinds
        <5> QED BY <5>1, <5>2
      <4> QED BY <4>1, <4>2
    <3>4. t \in FreedWith(w)
      BY <2>3, <2>4, <2>7, <3>3, FreedWithThread
    <3> QED BY <1>1, <2>5, <3>3, <3>4, StrangerFreed
  <2> QED BY <2>8, <2>9
<1> QED BY <1>2, <1>3, <1>4

(* A sweep takes the method of a followed call tree only with a thread     *)
(* that is a stranger, and leaves only a copy or what nothing frees.       *)
LEMMA MethodSwept ==
  ASSUME HeapOK, Marks, Sound, NEW w \in doomed, Sweep(w), NEW o \in Followed,
         o \in DOMAIN heap', heap[o].kind = "CallTree", heap[o].method \notin DOMAIN heap'
  PROVE  (Copy(heap, o) \/ o \in Unfreed) /\ heap[o].method \in OfStrangers
<1> DEFINE F == IF w \in null THEN {} ELSE FreedWith(w)
<1>1. Proper(heap) /\ NoCycle(heap) /\ o \in DOMAIN heap /\ Plain(heap[o])
  BY FollowedThere, ProperParts DEF HeapOK, Sorted
<1>2. DOMAIN heap' = DOMAIN heap \ F
  BY DEF Sweep
<1>3. heap[o].method \in DOMAIN heap
  BY FollowedMethod
<1>4. heap[o].method \in F /\ o \notin F
  BY <1>1, <1>2, <1>3
<1>5. w \notin null /\ F = FreedWith(w) /\ w \in DOMAIN heap
  BY <1>4 DEF HeapOK, LinksAgree
<1> HIDE DEF F
<1>6. Freeable(heap, F)
  BY <1>1, <1>5, SweptFreeable
<1>7. PICK t, S : /\ IsThread(heap, t, S) /\ heap[o].method \in S
                  /\ heap[o].method \in heap[t].methods
  BY <1>1, <1>3, NodeAt
<1>8. t \in F /\ S \subseteq F
  BY <1>1, <1>4, <1>6, <1>7, FreedWithThread
<1>9. Alive(S)
  BY <1>7 DEF Marks, Leads
<1>10. heap[o].method \in OfStrangers
  BY <1>5, <1>7, <1>8, <1>9, StrangerFreed
<1>11. ASSUME ~Copy(heap, o), o \notin Unfreed PROVE FALSE
  <2>1. o \in CallsOf(heap, heap[t].methods)
    BY <1>1, <1>7, <1>11 DEF CallsOf, Copy, Plain
  <2>2. o \in S
    BY <1>7, <1>11, <2>1, NodeOfThread
  <2> QED BY <1>4, <1>8, <2>2
<1> QED BY <1>10, <1>11

(* A call tree that is followed after a step, and was there before, is     *)
(* what it was; it was followed, or its method was there.                  *)
LEMMA NodeFollowed ==
  ASSUME HeapOK, Marks, Next, NEW o \in Followed', o \in DOMAIN heap,
         heap'[o].kind = "CallTree"
  PROVE  /\ o \in DOMAIN heap' /\ heap[o].kind = "CallTree" /\ heap[o].method \in DOMAIN heap
         /\ heap'[o].method = heap[o].method /\ (Copy(heap, o) => Copy(heap', o))
         /\ (\E w \in doomed : Sweep(w)) => o \in Followed
<1>1. Sound /\ HeapOK' /\ o \in DOMAIN heap' /\ Proper(heap) /\ DOMAIN heap[o] = Fields
  <2>1. HeapOK'
    BY NextHeap
  <2>2. o \in DOMAIN heap'
    BY <2>1 DEF Followed, HeapOK, LinksAgree
  <2> QED BY <2>1, <2>2, ProperParts, StructureFields DEF Next, HeapOK, Sorted, Plain
<1>2. ASSUME Same(heap[o], heap'[o])
      PROVE  /\ heap[o].kind = "CallTree" /\ heap'[o].method = heap[o].method
             /\ Copy(heap, o) => Copy(heap', o)
  BY <1>2 DEF Same, Copy
<1>3. o \in Followed /\ heap[o].kind = "CallTree" => heap[o].method \in DOMAIN heap
  BY <1>1, FollowedMethod
<1>4. CASE Mark \/ \E x \in held : Drop(x)
  <2>1. heap' = heap /\ o \in Followed
    BY <1>4 DEF Mark, Drop, Followed, HeapOK
  <2> QED BY <1>1, <1>3, <2>1
<1>5. CASE \E w \in doomed : Sweep(w)
  <2>1. PICK w \in doomed : Sweep(w)
    BY <1>5
  <2>2. o \in Followed
    BY <1>1, <2>1 DEF Sweep, Followed, HeapOK
  <2>3. Same(heap[o], heap'[o])
    BY <1>1, <2>1, SweptSame
  <2> QED BY <1>1, <1>2, <1>3, <2>2, <2>3
<1>6. CASE (\E x \in held : Read(x)) /\ ~\E w \in doomed : Sweep(w)
  <2>1. PICK x \in held : Read(x)
    BY <1>6
  <2>2. PICK given, s : Gives(x, given, s)
    BY <1>1, <2>1, ReadGives
  <2>3. Same(heap[o], heap'[o])
    BY <2>2 DEF Gives
  <2>4. o \in given => heap[o].method \in DOMAIN heap
    <3>1. x \in Usable
      BY <1>1, <2>1, ReadGives
    <3>2. given \subseteq (Owns(heap, x) \cup Refers(heap, x)) \cap DOMAIN heap
      BY <2>2 DEF Gives
    <3> QED BY <1>1, <1>2, <2>3, <3>1, <3>2, GivenAre
  <2>5. o \in Followed \/ o \in given
    BY <2>2 DEF Gives, Followed
  <2> QED BY <1>1, <1>2, <1>3, <1>6, <2>3, <2>4, <2>5
<1>7. CASE \E x \in held : AggregateCalls(x) \/ Duplicate(x)
  <2>1. PICK N, c : Allocates(N, c)
    BY <1>1, <1>7, AggregateAllocates, DuplicateAllocates
  <2>2. heap'[o] = heap[o] /\ o # c
    BY <2>1 DEF Allocates, Extended
  <2>3. o \in Followed
    BY <2>1, <2>2 DEF Allocates, Followed
  <2> QED BY <1>1, <1>3, <2>2, <2>3 DEF Copy
<1>8. CASE \E p, t \in held : prof_remove_thread(p, t) \/ prof_add_thread(p, t)
  <2>1. Moves
    BY <1>1, <1>8, RemoveMoves, AddMoves
  <2>2. o \in Followed
    BY <2>1 DEF Moves, Followed
  <2>3. [heap'[o] EXCEPT !.threads = {}, !.owner = "C"] =
            [heap[o] EXCEPT !.threads = {}, !.owner = "C"]
        /\ (heap'[o].owner = heap[o].owner \/ heap[o].kind = "Thread")
        /\ DOMAIN heap'[o] = Fields
    BY <2>1 DEF Moves, Tabled
  <2>4. heap'[o].kind = heap[o].kind /\ heap'[o].method = heap[o].method
    BY <1>1, <2>3, TabledSame
  <2> QED BY <1>1, <1>3, <2>2, <2>3, <2>4 DEF Copy
<1> QED BY <1>4, <1>5, <1>6, <1>7, <1>8 DEF Next

(* A new call tree has a method that was there. *)
LEMMA NewNodeMethod ==
  ASSUME HeapOK, Next, NEW o \in DOMAIN heap', o \notin DOMAIN heap, heap'[o].kind = "CallTree"
  PROVE  heap'[o].method \in DOMAIN heap'
<1>1. Sound /\ Proper(heap)
  BY DEF Next, HeapOK
<1>2. CASE \E l \in held : AggregateCalls(l)
  <2>1. PICK l \in held : AggregateCalls(l)
    BY <1>2
  <2>2. PICK n, c, k : /\ Allocates({c, k}, c) /\ CopyOf(l, n, c) /\ c # k
                       /\ heap'[k].kind = "Measurement"
    BY <1>1, <2>1, AggregateAllocates
  <2>3. DOMAIN heap' = DOMAIN heap \cup {c, k}
    BY <2>2 DEF Allocates, Extended
  <2>4. o = c
    BY <2>2, <2>3
  <2>5. /\ heap'[o].method = heap[n].method /\ l \in Usable /\ heap[l].kind = "CallTrees"
        /\ n \in heap[l].list \cup UNION {heap[d].children : d \in heap[l].list}
    BY <2>2, <2>4 DEF CopyOf
  <2>6. PICK t, S : IsThread(heap, t, S) /\ l \in S
    BY <1>1, <2>5, UsableFollowed, ListInThread
  <2>7. n \in CallsOf(heap, heap[t].methods)
    BY <1>1, <2>5, <2>6, CallsAre DEF IsThread
  <2>8. heap[n].method \in S /\ S \subseteq DOMAIN heap
    BY <1>1, <2>6, <2>7, CallsAre DEF IsThread
  <2> QED BY <2>3, <2>5, <2>8
<1>3. CASE \E x \in held : Duplicate(x)
  <2>1. PICK m : Allocates({m}, m) /\ heap'[m].kind = "Measurement"
    BY <1>3, DuplicateAllocates
  <2> QED BY <2>1 DEF Allocates, Extended
<1>4. ASSUME ~\E x \in held : AggregateCalls(x) \/ Duplicate(x) PROVE DOMAIN heap' \subseteq DOMAIN heap
  <2>1. CASE Mark \/ (\E x \in held : Drop(x)) \/ \E w \in doomed : Sweep(w)
    BY <2>1 DEF Mark, Drop, Sweep
  <2>2. CASE \E x \in held : Read(x)
    BY <1>1, <2>2, ReadGives DEF Gives
  <2>3. CASE \E p, t \in held : prof_remove_thread(p, t) \/ prof_add_thread(p, t)
    <3>1. Moves
      BY <1>1, <2>3, RemoveMoves, AddMoves
    <3> QED BY <3>1 DEF Moves, Tabled
  <2> QED BY <1>4, <2>1, <2>2, <2>3 DEF Next
<1> QED BY <1>2, <1>3, <1>4

(* What TargetsThere says, for a state and for the next. *)
AllThere ==
  \A o \in Followed : (heap[o].kind = "CallTree" => heap[o].method \in DOMAIN heap) => There(o)

(* In every state that the invariant allows. *)
LEMMA StateThere == HeapOK /\ Marks => AllThere
BY TargetsThere DEF AllThere

(* In the next one. *)
LEMMA NextThere == (HeapOK /\ Marks => AllThere)'
BY StateThere, PTL

(* No object is left that points to what has been freed, but for copies    *)
(* and replaced call trees of strangers, and parents left behind.          *)
LEMMA MarksKeepPointers ==
  ASSUME HeapOK, Marks, Next PROVE KeepsPointers
<1>1. HeapOK' /\ Marks' /\ AllThere'
  BY NextHeap, NextMarks, NextThere
<1>2. SUFFICES ASSUME NEW o \in Followed', heap'[o].kind = "CallTree",
                      heap'[o].method \notin DOMAIN heap'
               PROVE  (Copy(heap', o) \/ o \in Unfreed) /\ heap[o].method \in OfStrangers
  BY <1>1 DEF KeepsPointers, AllThere, There
<1>3. o \in DOMAIN heap'
  BY <1>1 DEF Followed, HeapOK, LinksAgree
<1>4. o \in DOMAIN heap
  BY <1>2, <1>3, NewNodeMethod
<1>5. /\ heap[o].kind = "CallTree" /\ heap[o].method \in DOMAIN heap
      /\ heap'[o].method = heap[o].method /\ (Copy(heap, o) => Copy(heap', o))
      /\ (\E w \in doomed : Sweep(w)) => o \in Followed
  BY <1>2, <1>4, NodeFollowed
<1>6. CASE \E w \in doomed : Sweep(w)
  <2>1. (Copy(heap, o) \/ o \in Unfreed) /\ heap[o].method \in OfStrangers
    BY <1>2, <1>3, <1>5, <1>6, MethodSwept DEF Next
  <2> QED BY <1>5, <2>1
<1>7. CASE ~\E w \in doomed : Sweep(w)
  BY <1>2, <1>5, <1>7, NothingTaken DEF Next
<1> QED BY <1>6, <1>7

(* In every world and after every step pointers go to what they claim, and *)
(* what is doomed or has lost its data is an object still.                 *)
THEOREM Typed == Spec => []TypeOK
<1>1. Init => HeapOK
  BY InitHeap
<1>2. HeapOK /\ [Next]_vars => HeapOK'
  BY NextHeap
<1>3. HeapOK => TypeOK
  BY HeapTyped
<1> QED BY <1>1, <1>2, <1>3, PTL DEF Spec

(* However sweeping, freeing, wrapping and moving threads interleave, no   *)
(* object is left with the data of a structure that is gone, and no        *)
(* structure with an object that is gone.                                  *)
THEOREM Linked == Spec => []LinksAgree
<1>1. Init => HeapOK
  BY InitHeap
<1>2. HeapOK /\ [Next]_vars => HeapOK'
  BY NextHeap
<1>3. HeapOK => LinksAgree
  BY DEF HeapOK
<1> QED BY <1>1, <1>2, <1>3, PTL DEF Spec

(* What the collector frees is never part of what the C code frees: no     *)
(* structure is freed twice.                                               *)
THEOREM OwnedByOne == Spec => []OneOwner
<1>1. Init => HeapOK
  BY InitHeap
<1>2. HeapOK /\ [Next]_vars => HeapOK'
  BY NextHeap
<1>3. HeapOK => OneOwner
  BY HeapOwned
<1> QED BY <1>1, <1>2, <1>3, PTL DEF Spec

(* Once the last object is swept, nothing is left but the threads that     *)
(* were taken out of a profile, and call trees that a call above the start *)
(* replaced, with all below them: what else Ruby does not free, C has      *)
(* freed.                                                                  *)
THEOREM NothingLeft == Spec => []NothingIsLeft
<1>1. Init => HeapOK
  BY InitHeap
<1>2. HeapOK /\ [Next]_vars => HeapOK'
  BY NextHeap
<1>3. HeapOK => NothingIsLeft
  BY HeapEmpties
<1> QED BY <1>1, <1>2, <1>3, PTL DEF Spec

(* No object of a living profile is swept while the program holds it, but  *)
(* for lists of call trees, and the replaced call trees that such lists    *)
(* give, with all below them: what else readers give again is marked       *)
(* through the structures of the profile.                                  *)
THEOREM HeldThere == Spec => []HeldAreThere
<1>1. Init => HeapOK /\ Marks
  BY InitHeap, InitMarks
<1>2. HeapOK /\ Marks /\ [Next]_vars => HeapOK' /\ Marks'
  BY NextHeap, NextMarks
<1>3. HeapOK /\ Marks => HeldAreThere
  BY MarksHold
<1> QED BY <1>1, <1>2, <1>3, PTL DEF Spec

(* No object that is marked or held is left with a pointer to what has     *)
(* been freed, but for the parents from which call trees were merged, and  *)
(* for the copies that callers and callees gave, and the replaced call     *)
(* trees, of a thread whose methods do not know the profile that freed it. *)
THEOREM PointersValid == Spec => PointersStayValid
<1>1. Init => HeapOK /\ Marks
  BY InitHeap, InitMarks
<1>2. HeapOK /\ Marks /\ [Next]_vars => HeapOK' /\ Marks'
  BY NextHeap, NextMarks
<1>3. HeapOK /\ Marks /\ [Next]_vars => [KeepsPointers]_vars
  BY MarksKeepPointers
<1> QED BY <1>1, <1>2, <1>3, PTL DEF Spec, PointersStayValid

(* The data of what the program holds is not freed, but for the parts of   *)
(* threads whose methods do not know their profile, and for measurements   *)
(* and allocations.                                                        *)
THEOREM DataKept == Spec => HeldKeepTheirData
<1>1. Init => HeapOK /\ Marks
  BY InitHeap, InitMarks
<1>2. HeapOK /\ Marks /\ [Next]_vars => HeapOK' /\ Marks'
  BY NextHeap, NextMarks
<1>3. HeapOK /\ Marks /\ [Next]_vars => [KeepsHeldData]_vars
  BY MarksKeepData
<1> QED BY <1>1, <1>2, <1>3, PTL DEF Spec, HeldKeepTheirData
=============================================================================
