--------------------------- MODULE CallTreeProofs ---------------------------
(***************************************************************************)
(* What the counters and links of the call trees mean, for every program:  *)
(* visits are open frames, parent links end at the root, the frames of a   *)
(* fiber are the ancestors of its node, a method measures the sum of its   *)
(* call trees, its total counts every outermost call once, and the times   *)
(* of a node, its children and its frames balance. Each follows from a set *)
(* of records that the elementary operations of ProfilerProofs keep.       *)
(***************************************************************************)
EXTENDS ProfilerProofs, ProfilerTimes

(* A set of at most one element has no two. *)
LEMMA AtMostOne ==
  ASSUME NEW A, IsFiniteSet(A), Cardinality(A) <= 1, NEW a \in A, NEW b \in A
  PROVE  a = b
<1>1. SUFFICES ASSUME a # b PROVE FALSE
  OBVIOUS
<1>2. IsFiniteSet({a}) /\ Cardinality({a}) = 1
  BY FS_Singleton
<1>3. IsFiniteSet({a} \cup {b}) /\ Cardinality({a} \cup {b}) = 2
  <2>1. b \notin {a}
    BY <1>1
  <2>2. Cardinality({a} \cup {b}) = Cardinality({a}) + 1 /\ IsFiniteSet({a} \cup {b})
    BY <1>2, <2>1, FS_AddElement
  <2> QED BY <1>2, <2>2
<1>4. Cardinality({a} \cup {b}) <= Cardinality(A)
  <2>1. {a} \cup {b} \in SUBSET A
    OBVIOUS
  <2> QED BY <2>1, FS_Subset
<1>5. Cardinality(A) \in Nat
  BY FS_CardinalityType
<1> QED BY <1>3, <1>4, <1>5

(* One more frame on a stack. *)
LEMMA OneMore ==
  ASSUME NEW N \in Nat, NEW A \in SUBSET (1 .. N)
  PROVE  /\ IsFiniteSet(A)
         /\ Cardinality(A) \in Nat
         /\ Cardinality(A \cup {N + 1}) = Cardinality(A) + 1
<1>1. IsFiniteSet(1 .. N)
  BY FS_Interval
<1>2. IsFiniteSet(A)
  BY <1>1, FS_Subset
<1>3. N + 1 \notin A
  OBVIOUS
<1> QED BY <1>2, <1>3, FS_AddElement, FS_CardinalityType

-----------------------------------------------------------------------------
(* The frames of a node, and of a method. *)

FramesOfKey(t, k) == {i \in Frames(t) : FrameKey(t, i) = k}

(* A push adds one to the frames of the node and to those of its method; a *)
(* pop, read backwards, is the same.                                       *)
LEMMA FramesPushed ==
  ASSUME NEW t, ThreadOK(t), NEW u \in Thread, SameTree(u, t), NEW n \in Nodes(t),
         StackPushed(u, t, n)
  PROVE  /\ \A x : /\ Cardinality(FramesOf(t, x)) \in Nat
                   /\ Cardinality(FramesOf(u, x))
                        = Cardinality(FramesOf(t, x)) + (IF x = n THEN 1 ELSE 0)
         /\ \A k : /\ Cardinality(FramesOfKey(t, k)) \in Nat
                   /\ Cardinality(FramesOfKey(u, k))
                        = Cardinality(FramesOfKey(t, k)) + (IF k = KeyOf(t, n) THEN 1 ELSE 0)
<1> DEFINE N == Len(t.stack)
<1>1. /\ t \in Thread /\ N \in Nat /\ Frames(t) = 1 .. N /\ Frames(u) = 1 .. N + 1
      /\ Nodes(t) = 1 .. Len(t.nodes)
  BY NodesAre DEF ThreadOK, StackPushed
<1>2. /\ \A i \in 1 .. N : u.stack[i].call_tree = t.stack[i].call_tree
      /\ u.stack[N + 1].call_tree = n
  BY DEF StackPushed
<1>3. \A i \in 1 .. N : t.stack[i].call_tree \in Nodes(t)
  BY <1>1 DEF ThreadOK, RootPath
<1>4. \A x \in Nodes(t) : KeyOf(u, x) = KeyOf(t, x)
  BY <1>1 DEF SameTree, SameLinks, KeyOf
<1>5. /\ \A i \in 1 .. N : FrameKey(u, i) = FrameKey(t, i)
      /\ FrameKey(u, N + 1) = KeyOf(t, n)
  BY <1>2, <1>3, <1>4 DEF FrameKey
<1> HIDE DEF N
<1>6. ASSUME NEW x
      PROVE  /\ Cardinality(FramesOf(t, x)) \in Nat
             /\ Cardinality(FramesOf(u, x))
                  = Cardinality(FramesOf(t, x)) + (IF x = n THEN 1 ELSE 0)
  <2>1. FramesOf(t, x) \in SUBSET (1 .. N)
    BY <1>1 DEF FramesOf
  <2>2. FramesOf(u, x) = IF x = n THEN FramesOf(t, x) \cup {N + 1} ELSE FramesOf(t, x)
    BY <1>1, <1>2 DEF FramesOf
  <2>3. /\ Cardinality(FramesOf(t, x)) \in Nat
        /\ Cardinality(FramesOf(t, x) \cup {N + 1}) = Cardinality(FramesOf(t, x)) + 1
    BY <1>1, <2>1, OneMore
  <2> QED BY <2>2, <2>3
<1>7. ASSUME NEW k
      PROVE  /\ Cardinality(FramesOfKey(t, k)) \in Nat
             /\ Cardinality(FramesOfKey(u, k))
                  = Cardinality(FramesOfKey(t, k)) + (IF k = KeyOf(t, n) THEN 1 ELSE 0)
  <2>1. FramesOfKey(t, k) \in SUBSET (1 .. N)
    BY <1>1 DEF FramesOfKey
  <2>2. FramesOfKey(u, k) = IF k = KeyOf(t, n) THEN FramesOfKey(t, k) \cup {N + 1}
                            ELSE FramesOfKey(t, k)
    BY <1>1, <1>5 DEF FramesOfKey
  <2>3. /\ Cardinality(FramesOfKey(t, k)) \in Nat
        /\ Cardinality(FramesOfKey(t, k) \cup {N + 1}) = Cardinality(FramesOfKey(t, k)) + 1
    BY <1>1, <2>1, OneMore
  <2> QED BY <2>2, <2>3
<1> QED BY <1>6, <1>7

(* The same frames, of the same nodes, count the same. *)
LEMMA FramesSame ==
  ASSUME NEW t, ThreadOK(t), NEW u \in Thread,
         Len(u.stack) = Len(t.stack),
         \A i \in 1 .. Len(t.stack) : u.stack[i].call_tree = t.stack[i].call_tree,
         \A n \in Nodes(t) : KeyOf(u, n) = KeyOf(t, n)
  PROVE  /\ \A x : FramesOf(u, x) = FramesOf(t, x)
         /\ \A k : FramesOfKey(u, k) = FramesOfKey(t, k)
<1>1. t \in Thread /\ Frames(t) = 1 .. Len(t.stack) /\ Frames(u) = Frames(t)
  BY NodesAre DEF ThreadOK
<1>2. \A i \in Frames(t) : t.stack[i].call_tree \in Nodes(t)
  BY DEF ThreadOK, RootPath
<1>3. \A i \in Frames(t) : FrameKey(u, i) = FrameKey(t, i)
  BY <1>1, <1>2 DEF FrameKey
<1> QED BY <1>1, <1>3 DEF FramesOf, FramesOfKey

-----------------------------------------------------------------------------
(* The visits count the frames. *)

Counted == {t \in Thread : ThreadOK(t) /\ VisitsMatch(t)}

(* A new thread has neither. *)
LEMMA NewCounted ==
  ASSUME NEW trace \in BOOLEAN
  PROVE  thread_data_create(trace) \in Counted
<1> DEFINE t == thread_data_create(trace)
<1>1. ThreadOK(t) /\ t \in Thread
  BY NewThreadOK DEF ThreadOK
<1>2. /\ t.stack = <<>> /\ t.nodes = <<>>
      /\ \A k \in Keys : t.method_table[k].visits = 0
  BY DEF thread_data_create, NoMethod
<1> HIDE DEF t
<1>3. Nodes(t) = {} /\ Frames(t) = {}
  BY <1>2 DEF Nodes, Frames
<1>4. \A k : {i \in Frames(t) : FrameKey(t, i) = k} = {}
  BY <1>3
<1>5. VisitsMatch(t)
  BY <1>2, <1>3, <1>4, FS_EmptySet DEF VisitsMatch
<1> QED BY <1>1, <1>5 DEF Counted, t

(* Nor does what leaves the measurements alone change the frames. *)
LEMMA AlikeCounted == KeptAlike(Counted)
<1> SUFFICES ASSUME NEW t \in Counted, NEW u \in Thread, ThreadOK(u), Alike(u, t)
             PROVE  VisitsMatch(u)
  BY DEF KeptAlike, Counted
<1>1. t \in Thread /\ ThreadOK(t) /\ VisitsMatch(t)
  BY DEF Counted
<1>2. /\ u.nodes = t.nodes
      /\ Len(u.stack) = Len(t.stack)
      /\ \A i \in 1 .. Len(t.stack) : u.stack[i].call_tree = t.stack[i].call_tree
      /\ \A k \in Keys : u.method_table[k].visits = t.method_table[k].visits
  BY DEF Alike, SameMeasure
<1>3. \A n \in Nodes(t) : KeyOf(u, n) = KeyOf(t, n)
  BY <1>2 DEF KeyOf
<1>4. /\ \A x : FramesOf(u, x) = FramesOf(t, x)
      /\ \A k : FramesOfKey(u, k) = FramesOfKey(t, k)
  BY <1>1, <1>2, <1>3, FramesSame
<1> QED BY <1>1, <1>2, <1>4 DEF VisitsMatch, FramesOf, FramesOfKey, Nodes

(* A new node has no frame and has not been visited. *)
LEMMA GrownCounted ==
  ASSUME NEW t \in Counted, NEW u, ThreadOK(u), NEW k \in Keys, Grown(u, t, k)
  PROVE  u \in Counted
<1> DEFINE n == Len(t.nodes) + 1
<1>1. t \in Thread /\ ThreadOK(t) /\ VisitsMatch(t) /\ u \in Thread
  BY DEF Counted, Grown
<1>2. /\ u.stack = t.stack
      /\ Nodes(u) = Nodes(t) \cup {n}
      /\ n \notin Nodes(t)
      /\ u.nodes[n].visits = 0
      /\ \A i \in Nodes(t) : KeyOf(u, i) = KeyOf(t, i) /\ u.nodes[i].visits = t.nodes[i].visits
      /\ \A j \in Keys : u.method_table[j].visits = t.method_table[j].visits
  BY DEF Grown, SameMeasure, KeyOf
<1> HIDE DEF n
<1>3. /\ \A x : FramesOf(u, x) = FramesOf(t, x)
      /\ \A j : FramesOfKey(u, j) = FramesOfKey(t, j)
  BY <1>1, <1>2, FramesSame
<1>4. FramesOf(u, n) = {}
  <2>1. \A i \in Frames(t) : t.stack[i].call_tree # n
    BY <1>1, <1>2 DEF ThreadOK, RootPath
  <2> QED BY <1>3, <2>1 DEF FramesOf
<1>5. ASSUME NEW i \in Nodes(u)
      PROVE  Cardinality(FramesOf(u, i)) = u.nodes[i].visits /\ u.nodes[i].visits <= 1
  <2>1. CASE i = n
    <3>1. Cardinality(FramesOf(u, n)) = 0
      BY <1>4, FS_EmptySet
    <3> QED BY <1>2, <2>1, <3>1
  <2>2. CASE i # n
    BY <1>1, <1>2, <1>3, <2>2 DEF VisitsMatch, FramesOf
  <2> QED BY <2>1, <2>2
<1>6. \A j \in Keys : u.method_table[j].visits = Cardinality(FramesOfKey(u, j))
  BY <1>1, <1>2, <1>3 DEF VisitsMatch, FramesOfKey
<1>7. VisitsMatch(u)
  BY <1>5, <1>6 DEF VisitsMatch, FramesOf, FramesOfKey
<1> QED BY <1>1, <1>7 DEF Counted

(* A node that can be reached from the top frame is not on the stack: it   *)
(* would be the root, which has no parent, or its parent would be on the   *)
(* stack twice. So prof_frame_push never visits a node a second time.      *)
LEMMA ReachedIsNew ==
  ASSUME NEW t \in Counted, NEW n \in Nodes(t), Reachable(t, n)
  PROVE  FramesOf(t, n) = {} /\ t.nodes[n].visits = 0
<1>1. /\ t \in Thread /\ ThreadOK(t) /\ VisitsMatch(t) /\ RootedTree(t) /\ RootPath(t)
      /\ Frames(t) = 1 .. Len(t.stack) /\ Len(t.stack) \in Nat
      /\ Nodes(t) = 1 .. Len(t.nodes)
  BY NodesAre DEF Counted, ThreadOK
<1>2. ASSUME NEW i \in Frames(t), t.stack[i].call_tree = n PROVE FALSE
  <2> DEFINE top == Last(t.stack).call_tree
             k == KeyOf(t, n)
  <2>1. /\ t.stack # <<>> /\ top \in Nodes(t) /\ Len(t.stack) \in Frames(t)
        /\ t.stack[Len(t.stack)].call_tree = top
    BY <1>1, <1>2, TopFrameNode DEF Last
  <2>2. t.nodes[top].children[k] = n
    BY <2>1 DEF Reachable
  <2>3. k \in Keys /\ n # NULL /\ top # NULL
    BY <1>1, <2>1, NodesAre DEF NULL
  <2>4. t.nodes[n].parent = top
    <3>1. LinkedNode(t, top)
      BY <1>1, <2>1 DEF RootedTree
    <3> HIDE DEF top, k
    <3> QED BY <2>2, <2>3, <3>1 DEF LinkedNode
  <2>5. n # t.call_tree
    BY <1>1, <2>3, <2>4 DEF RootedTree, LinkedNode
  <2>6. i # 1
    BY <1>1, <1>2, <2>5 DEF RootPath
  <2> DEFINE q == t.stack[i - 1].call_tree
  <2>7. i - 1 \in Frames(t) /\ q \in Nodes(t)
    BY <1>1, <1>2, <2>6 DEF RootPath
  <2>8. t.nodes[q].children[k] = n
    BY <1>1, <1>2, <2>6 DEF RootPath, FrameKey
  <2>9. t.nodes[n].parent = q
    <3>1. LinkedNode(t, q)
      BY <1>1, <2>7 DEF RootedTree
    <3> HIDE DEF q, k
    <3> QED BY <2>3, <2>8, <3>1 DEF LinkedNode
  <2>10. i - 1 \in FramesOf(t, top) /\ Len(t.stack) \in FramesOf(t, top)
    BY <2>1, <2>4, <2>7, <2>9 DEF FramesOf
  <2>11. FramesOf(t, top) \in SUBSET (1 .. Len(t.stack)) /\ Cardinality(FramesOf(t, top)) <= 1
    BY <1>1, <2>1 DEF FramesOf, VisitsMatch
  <2>12. i - 1 = Len(t.stack)
    <3>1. IsFiniteSet(FramesOf(t, top))
      BY <1>1, <2>11, OneMore
    <3> HIDE DEF top
    <3> QED BY <2>10, <2>11, <3>1, AtMostOne
  <2> QED BY <1>1, <2>12
<1>3. FramesOf(t, n) = {}
  BY <1>2 DEF FramesOf
<1> QED BY <1>1, <1>3, FS_EmptySet DEF VisitsMatch, FramesOf

(* Push and pop change the visits with the frames. *)
LEMMA PushCounted == KeptByPush(Counted)
<1> SUFFICES ASSUME NEW t \in Counted, NEW u \in Thread, NEW n \in Nodes(t),
                    ThreadOK(u), Reachable(t, n), PushedOn(u, t, n)
             PROVE  VisitsMatch(u)
  BY DEF KeptByPush, Counted
<1>1. t \in Thread /\ ThreadOK(t) /\ VisitsMatch(t)
  BY DEF Counted
<1>2. /\ SameTree(u, t) /\ StackPushed(u, t, n)
      /\ \A i \in Nodes(t) : u.nodes[i].visits = t.nodes[i].visits + (IF i = n THEN 1 ELSE 0)
      /\ \A k \in Keys : u.method_table[k].visits
            = t.method_table[k].visits + (IF k = KeyOf(t, n) THEN 1 ELSE 0)
  <2>1. \A i \in Nodes(t) : t.nodes[i] \in Node
    BY <1>1, NodesAre
  <2>2. \A k \in Keys : t.method_table[k] \in Method
    BY <1>1, NodesAre
  <2>3. \A node \in Node : Visited(node).visits = node.visits + 1 /\ node.visits \in Int
    BY DEF Visited, Node
  <2>4. \A method \in Method : /\ VisitedMethod(method).visits = method.visits + 1
                               /\ method.visits \in Int
    BY DEF VisitedMethod, Visited, Method
  <2>5. \A i \in Nodes(t) : u.nodes[i].visits = t.nodes[i].visits + (IF i = n THEN 1 ELSE 0)
    BY <2>1, <2>3 DEF PushedOn
  <2>6. \A k \in Keys : u.method_table[k].visits
            = t.method_table[k].visits + (IF k = KeyOf(t, n) THEN 1 ELSE 0)
    BY <2>2, <2>4 DEF PushedOn
  <2> QED BY <2>5, <2>6 DEF PushedOn
<1>3. t.nodes[n].visits = 0
  BY ReachedIsNew
<1>4. Nodes(u) = Nodes(t)
  BY <1>1, <1>2, NodesAre DEF SameTree
<1>5. /\ \A x : Cardinality(FramesOf(u, x))
                  = Cardinality(FramesOf(t, x)) + (IF x = n THEN 1 ELSE 0)
      /\ \A k : Cardinality(FramesOfKey(u, k))
                  = Cardinality(FramesOfKey(t, k)) + (IF k = KeyOf(t, n) THEN 1 ELSE 0)
  BY <1>1, <1>2, FramesPushed
<1>6. /\ \A i \in Nodes(t) : Cardinality(FramesOf(t, i)) = t.nodes[i].visits
                            /\ t.nodes[i].visits <= 1
      /\ \A k \in Keys : t.method_table[k].visits = Cardinality(FramesOfKey(t, k))
  BY <1>1 DEF VisitsMatch, FramesOf, FramesOfKey
<1>7. \A i \in Nodes(u) : Cardinality(FramesOf(u, i)) = u.nodes[i].visits
                         /\ u.nodes[i].visits <= 1
  <2>1. SUFFICES ASSUME NEW i \in Nodes(t)
                 PROVE  Cardinality(FramesOf(u, i)) = u.nodes[i].visits
                        /\ u.nodes[i].visits <= 1
    BY <1>4
  <2>2. t.nodes[i].visits \in Int
    BY <1>1, NodesAre DEF Node
  <2> QED BY <1>2, <1>3, <1>5, <1>6, <2>2
<1>8. \A k \in Keys : u.method_table[k].visits = Cardinality(FramesOfKey(u, k))
  BY <1>2, <1>5, <1>6
<1> QED BY <1>7, <1>8 DEF VisitsMatch, FramesOf, FramesOfKey

(* A pop is a push read backwards. *)
LEMMA PopCounted == KeptByPop(Counted)
<1> SUFFICES ASSUME NEW t \in Counted, NEW u \in Thread, NEW n \in Nodes(t),
                    ThreadOK(u), PoppedOff(u, t, n)
             PROVE  VisitsMatch(u)
  BY DEF KeptByPop, Counted
<1>1. t \in Thread /\ ThreadOK(t) /\ VisitsMatch(t)
  BY DEF Counted
<1>2. /\ SameTree(u, t) /\ StackPushed(t, u, n)
      /\ \A i \in Nodes(t) : u.nodes[i].visits = t.nodes[i].visits - (IF i = n THEN 1 ELSE 0)
      /\ \A k \in Keys : u.method_table[k].visits
            = t.method_table[k].visits - (IF k = KeyOf(t, n) THEN 1 ELSE 0)
  <2>1. /\ \A i \in Nodes(t) : t.nodes[i] \in Node
        /\ \A k \in Keys : t.method_table[k] \in Method
    BY <1>1, NodesAre
  <2>2. PICK total \in Int, self \in Int, wait \in Int :
          /\ \A i \in Nodes(t) :
               u.nodes[i] = IF i = n THEN Left(t.nodes[i], total, self, wait)
                            ELSE t.nodes[i]
          /\ \A k \in Keys :
               u.method_table[k] = IF k = KeyOf(t, n)
                                   THEN Left(t.method_table[k], total, self, wait)
                                   ELSE t.method_table[k]
    BY DEF PoppedOff
  <2>3. \A node \in Node : /\ Left(node, total, self, wait).visits = node.visits - 1
                           /\ node.visits \in Int
    BY DEF Left, Node
  <2>4. \A method \in Method : /\ Left(method, total, self, wait).visits = method.visits - 1
                               /\ method.visits \in Int
    BY DEF Left, Method
  <2>5. \A i \in Nodes(t) : u.nodes[i].visits = t.nodes[i].visits - (IF i = n THEN 1 ELSE 0)
    BY <2>1, <2>2, <2>3
  <2>6. \A k \in Keys : u.method_table[k].visits
            = t.method_table[k].visits - (IF k = KeyOf(t, n) THEN 1 ELSE 0)
    BY <2>1, <2>2, <2>4
  <2> QED BY <2>5, <2>6 DEF PoppedOff
<1>3. Nodes(u) = Nodes(t) /\ SameTree(t, u) /\ KeyOf(u, n) = KeyOf(t, n)
  <2>1. Nodes(u) = Nodes(t) /\ Nodes(t) = 1 .. Len(t.nodes)
    BY <1>1, <1>2, NodesAre DEF SameTree
  <2> QED BY <1>2, <2>1 DEF SameTree, SameLinks, KeyOf
<1>4. /\ \A x : /\ Cardinality(FramesOf(u, x)) \in Nat
                 /\ Cardinality(FramesOf(t, x))
                      = Cardinality(FramesOf(u, x)) + (IF x = n THEN 1 ELSE 0)
      /\ \A k : /\ Cardinality(FramesOfKey(u, k)) \in Nat
                 /\ Cardinality(FramesOfKey(t, k))
                      = Cardinality(FramesOfKey(u, k)) + (IF k = KeyOf(t, n) THEN 1 ELSE 0)
  <2>1. n \in Nodes(u)
    BY <1>3
  <2>2. /\ \A x : /\ Cardinality(FramesOf(u, x)) \in Nat
                   /\ Cardinality(FramesOf(t, x))
                        = Cardinality(FramesOf(u, x)) + (IF x = n THEN 1 ELSE 0)
        /\ \A k : /\ Cardinality(FramesOfKey(u, k)) \in Nat
                   /\ Cardinality(FramesOfKey(t, k))
                        = Cardinality(FramesOfKey(u, k)) + (IF k = KeyOf(u, n) THEN 1 ELSE 0)
    BY <1>1, <1>2, <1>3, <2>1, FramesPushed
  <2> QED BY <1>3, <2>2
<1>5. /\ \A i \in Nodes(t) : Cardinality(FramesOf(t, i)) = t.nodes[i].visits
                            /\ t.nodes[i].visits <= 1
      /\ \A k \in Keys : t.method_table[k].visits = Cardinality(FramesOfKey(t, k))
  BY <1>1 DEF VisitsMatch, FramesOf, FramesOfKey
<1>6. \A i \in Nodes(u) : Cardinality(FramesOf(u, i)) = u.nodes[i].visits
                         /\ u.nodes[i].visits <= 1
  <2>1. SUFFICES ASSUME NEW i \in Nodes(t)
                 PROVE  Cardinality(FramesOf(u, i)) = u.nodes[i].visits
                        /\ u.nodes[i].visits <= 1
    BY <1>3
  <2>2. t.nodes[i].visits \in Int
    BY <1>1, NodesAre DEF Node
  <2>3. Cardinality(FramesOf(u, i)) \in Nat
    BY <1>4
  <2> QED BY <1>2, <1>4, <1>5, <2>2, <2>3
<1>7. \A k \in Keys : u.method_table[k].visits = Cardinality(FramesOfKey(u, k))
  BY <1>2, <1>4, <1>5
<1> QED BY <1>6, <1>7 DEF VisitsMatch, FramesOf, FramesOfKey

(* Every operation keeps visits and frames in step. *)
LEMMA CountedKept == Kept(Counted)
<1>1. /\ \A t \in Counted : ThreadOK(t)
      /\ \A trace \in BOOLEAN : thread_data_create(trace) \in Counted
  BY NewCounted DEF Counted
<1>2. KeptBelow(Counted)
  <2>1. SUFFICES ASSUME NEW t \in Counted, NEW u, ThreadOK(u), NEW k \in Keys, Grown(u, t, k)
                 PROVE  u \in Counted
    BY DEF KeptBelow, GrownBelow
  <2> QED BY <2>1, GrownCounted
<1>3. KeptAbove(Counted)
  <2>1. SUFFICES ASSUME NEW t \in Counted, NEW u, ThreadOK(u), NEW k \in Keys, Grown(u, t, k)
                 PROVE  u \in Counted
    BY DEF KeptAbove, GrownAbove
  <2> QED BY <2>1, GrownCounted
<1> QED BY <1>1, <1>2, <1>3, AlikeCounted, PushCounted, PopCounted DEF Kept, KeptGrowing

(* However fibers interleave and however the profile is started, paused,   *)
(* resumed and stopped: the visits of every node and method count the      *)
(* frames it has, and no node has two. So a total is added exactly when    *)
(* the outermost frame of a method is popped.                              *)
THEOREM VisitsAlwaysCountFrames == Spec => []VisitsCountFrames
<1>1. Init => TableIn(Counted, threads)
  BY CountedKept, KeptIsInductive
<1>2. IInv /\ TableIn(Counted, threads) /\ [Next]_vars => TableIn(Counted, threads)'
  <2>1. SUFFICES ASSUME IInv, TableIn(Counted, threads), [Next]_vars
                 PROVE  TableIn(Counted, threads')
    BY DEF TableIn, Counted
  <2> QED BY <2>1, CountedKept, KeptIsInductive
<1>3. TableIn(Counted, threads) => VisitsCountFrames
  BY DEF TableIn, Counted, VisitsCountFrames
<1> QED BY <1>1, <1>2, <1>3, ProfileIsWellFormed, PTL DEF Spec

-----------------------------------------------------------------------------
(* The parents of a node, and theirs. *)

(* Ancestor walks up one parent a round, and stays within the tree.        *)
LEMMA AncestorWalks ==
  ASSUME NEW t, ThreadOK(t), NEW n \in Nodes(t)
  PROVE  /\ Ancestor(t, n, 0) = n
         /\ \A i \in Nat :
              /\ Ancestor(t, n, i) \in Nodes(t) \cup {NULL}
              /\ Ancestor(t, n, i + 1) = IF Ancestor(t, n, i) = NULL THEN NULL
                                         ELSE t.nodes[Ancestor(t, n, i)].parent
<1> DEFINE S == Nodes(t) \cup {NULL}
           up(c) == IF c = NULL THEN NULL ELSE t.nodes[c].parent
           step == [c \in S |-> up(c)]
           P(f) == f = [j \in Nat |-> IF j = 0 THEN n
                                      ELSE IF f[j - 1] = NULL THEN NULL
                                           ELSE t.nodes[f[j - 1]].parent]
           f0 == CHOOSE f : P(f)
<1>1. n \in S /\ step \in [S -> S]
  <2>1. ASSUME NEW c \in Nodes(t) PROVE t.nodes[c].parent \in S
    BY DEF ThreadOK, RootedTree, LinkedNode
  <2> QED BY <2>1
<1>2. PICK f \in [Nat -> S] : f[0] = n /\ \A i \in Nat : f[i + 1] = step[f[i]]
  <2> HIDE DEF S, step
  <2> QED BY <1>1, IterationExists
<1>3. ASSUME NEW j \in Nat
      PROVE  f[j] = IF j = 0 THEN n
                    ELSE IF f[j - 1] = NULL THEN NULL ELSE t.nodes[f[j - 1]].parent
  <2>1. CASE j = 0
    BY <1>2, <2>1
  <2>2. CASE j # 0
    <3>1. j - 1 \in Nat /\ (j - 1) + 1 = j
      BY <2>2
    <3>2. f[j] = step[f[j - 1]] /\ f[j - 1] \in S
      <4> HIDE DEF S, step
      <4> QED BY <1>2, <3>1
    <3> QED BY <2>2, <3>2
  <2> QED BY <2>1, <2>2
<1>4. P(f)
  <2> HIDE DEF S
  <2> QED BY <1>2, <1>3
<1>5. P(f0)
  <2> HIDE DEF P
  <2> QED BY <1>4
<1>6. \A i : Ancestor(t, n, i) = f0[i]
  BY DEF Ancestor
<1> HIDE DEF f0, S
<1>7. f0[0] = n
  BY <1>5
<1>8. ASSUME NEW i \in Nat
      PROVE  f0[i + 1] = IF f0[i] = NULL THEN NULL ELSE t.nodes[f0[i]].parent
  <2>1. i + 1 \in Nat /\ i + 1 # 0 /\ (i + 1) - 1 = i
    OBVIOUS
  <2> QED BY <1>5, <2>1
<1> DEFINE B == {i \in Nat : f0[i] \in S}
<1>9. \A i \in Nat : i \in B
  <2>1. 0 \in B
    BY <1>1, <1>7
  <2>2. ASSUME NEW i \in Nat, i \in B PROVE i + 1 \in B
    <3>1. f0[i + 1] = step[f0[i]]
      BY <1>8, <2>2
    <3>2. step[f0[i]] \in S
      <4> HIDE DEF step
      <4> QED BY <1>1, <2>2
    <3> QED BY <3>1, <3>2
  <2> HIDE DEF B
  <2> QED BY <2>1, <2>2, NatInd
<1> QED BY <1>6, <1>7, <1>8, <1>9 DEF S

(* The walk does not end before it did when nodes are added at its end.    *)
LEMMA AncestorStays ==
  ASSUME NEW t, ThreadOK(t), NEW u, ThreadOK(u), Nodes(t) \subseteq Nodes(u),
         \A i \in Nodes(t) : t.nodes[i].parent # NULL => u.nodes[i].parent = t.nodes[i].parent,
         NEW n \in Nodes(t)
  PROVE  \A i \in Nat : Ancestor(t, n, i) # NULL => Ancestor(u, n, i) = Ancestor(t, n, i)
<1> DEFINE B == {i \in Nat : Ancestor(t, n, i) # NULL => Ancestor(u, n, i) = Ancestor(t, n, i)}
<1>1. n \in Nodes(u)
  OBVIOUS
<1>2. 0 \in B
  BY <1>1, AncestorWalks
<1>3. ASSUME NEW i \in Nat, i \in B PROVE i + 1 \in B
  <2> DEFINE a == Ancestor(t, n, i)
             b == Ancestor(u, n, i)
  <2>1. /\ a \in Nodes(t) \cup {NULL}
        /\ Ancestor(t, n, i + 1) = IF a = NULL THEN NULL ELSE t.nodes[a].parent
    BY AncestorWalks
  <2>2. Ancestor(u, n, i + 1) = IF b = NULL THEN NULL ELSE u.nodes[b].parent
    BY <1>1, AncestorWalks
  <2>3. a # NULL => b = a
    BY <1>3
  <2> HIDE DEF a, b
  <2>4. Ancestor(t, n, i + 1) # NULL => Ancestor(u, n, i + 1) = Ancestor(t, n, i + 1)
    BY <2>1, <2>2, <2>3
  <2> QED BY <2>4
<1>4. \A i \in Nat : i \in B
  <2> HIDE DEF B
  <2> QED BY <1>2, <1>3, NatInd
<1> QED BY <1>4

-----------------------------------------------------------------------------
(* Ranks. *)

(* A rank for every node, above that of its parent. *)
IsRank(t, rank) ==
  /\ rank \in [Nodes(t) -> 1 .. Len(t.nodes)]
  /\ \A n \in Nodes(t) : t.nodes[n].parent # NULL => rank[t.nodes[n].parent] < rank[n]

Ranked == {t \in Thread : ThreadOK(t) /\ \E rank : IsRank(t, rank)}

(* Every parent is one rank further up, so there are fewer of them than    *)
(* nodes.                                                                  *)
LEMMA RanksFall ==
  ASSUME NEW t, ThreadOK(t), NEW rank, IsRank(t, rank), NEW n \in Nodes(t)
  PROVE  \A i \in Nat : Ancestor(t, n, i) # NULL => i < Len(t.nodes)
<1> DEFINE B == {i \in Nat : LET a == Ancestor(t, n, i)
                             IN  a # NULL => rank[a] + i <= rank[n]}
<1>1. /\ t \in Thread /\ Nodes(t) = 1 .. Len(t.nodes) /\ Len(t.nodes) \in Nat
      /\ rank[n] \in 1 .. Len(t.nodes)
  BY NodesAre DEF ThreadOK, IsRank
<1>2. 0 \in B
  <2>1. Ancestor(t, n, 0) = n
    BY AncestorWalks
  <2> QED BY <1>1, <2>1
<1>3. ASSUME NEW i \in Nat, i \in B PROVE i + 1 \in B
  <2> DEFINE a == Ancestor(t, n, i)
             p == Ancestor(t, n, i + 1)
  <2>1. /\ a \in Nodes(t) \cup {NULL}
        /\ p = IF a = NULL THEN NULL ELSE t.nodes[a].parent
    BY AncestorWalks
  <2>2. a # NULL => rank[a] + i <= rank[n]
    BY <1>3
  <2>3. p \in Nodes(t) \cup {NULL}
    BY AncestorWalks
  <2> HIDE DEF a, p
  <2>4. ASSUME p # NULL PROVE rank[p] + (i + 1) <= rank[n]
    <3>1. a \in Nodes(t) /\ p = t.nodes[a].parent /\ p \in Nodes(t)
      BY <2>1, <2>3, <2>4
    <3>2. rank[p] < rank[a]
      BY <2>4, <3>1 DEF IsRank
    <3>3. rank[p] \in Int /\ rank[a] \in Int /\ rank[n] \in Int
      BY <3>1 DEF IsRank
    <3>4. a # NULL
      BY <1>1, <3>1 DEF NULL
    <3> QED BY <2>2, <3>2, <3>3, <3>4
  <2> QED BY <2>4 DEF p
<1>4. \A i \in Nat : i \in B
  <2> HIDE DEF B
  <2> QED BY <1>2, <1>3, NatInd
<1>5. ASSUME NEW i \in Nat, Ancestor(t, n, i) # NULL PROVE i < Len(t.nodes)
  <2> DEFINE a == Ancestor(t, n, i)
  <2>1. a \in Nodes(t)
    BY <1>5, AncestorWalks
  <2>2. rank[a] + i <= rank[n]
    BY <1>4, <1>5
  <2> HIDE DEF a
  <2>3. rank[a] \in 1 .. Len(t.nodes)
    BY <2>1 DEF IsRank
  <2> QED BY <1>1, <2>2, <2>3
<1> QED BY <1>5

(* The parents of a thread with the same tree have the same ranks. *)
LEMMA SameTreeRanked ==
  ASSUME NEW t \in Ranked, NEW u, ThreadOK(u), SameTree(u, t)
  PROVE  u \in Ranked
<1>1. PICK rank : IsRank(t, rank)
  BY DEF Ranked
<1>2. /\ t \in Thread /\ u \in Thread
      /\ Nodes(t) = 1 .. Len(t.nodes) /\ Nodes(u) = Nodes(t)
      /\ Len(u.nodes) = Len(t.nodes)
      /\ \A n \in Nodes(t) : u.nodes[n].parent = t.nodes[n].parent
  <2>1. /\ t \in Thread /\ u \in Thread
        /\ Nodes(t) = 1 .. Len(t.nodes) /\ Nodes(u) = 1 .. Len(u.nodes)
    BY NodesAre DEF Ranked, ThreadOK
  <2> QED BY <2>1 DEF SameTree, SameLinks
<1>3. IsRank(u, rank)
  BY <1>1, <1>2 DEF IsRank
<1> QED BY <1>2, <1>3 DEF Ranked

(* A new child ranks below all nodes, a new root above all.                *)
LEMMA GrownRanked ==
  ASSUME NEW t \in Ranked, NEW u, ThreadOK(u), NEW k \in Keys
  PROVE  /\ \A parent \in Nodes(t) : GrownBelow(u, t, k, parent) => u \in Ranked
         /\ GrownAbove(u, t, k) => u \in Ranked
<1> DEFINE N == Len(t.nodes)
           n == N + 1
<1>1. PICK rank : IsRank(t, rank)
  BY DEF Ranked
<1>2. /\ t \in Thread /\ u \in Thread /\ ThreadOK(t)
      /\ Nodes(t) = 1 .. N /\ N \in Nat
      /\ Nodes(u) = 1 .. Len(u.nodes) /\ Len(u.nodes) \in Nat
  BY NodesAre DEF Ranked, ThreadOK
<1>3. ASSUME Grown(u, t, k) PROVE Nodes(u) = 1 .. n /\ Len(u.nodes) = n
  <2>1. Nodes(u) = Nodes(t) \cup {n}
    BY <1>3 DEF Grown
  <2>2. \A M \in Nat : (1 .. M) \cup {M + 1} = 1 .. M + 1
    OBVIOUS
  <2>3. Nodes(u) = 1 .. n
    BY <1>2, <2>1, <2>2
  <2> QED BY <1>2, <2>3
<1>4. \A i \in Nodes(t) : rank[i] \in 1 .. N
  BY <1>1 DEF IsRank
<1>5. \A i \in Nodes(t) : t.nodes[i].parent # NULL =>
        t.nodes[i].parent \in Nodes(t) /\ rank[t.nodes[i].parent] < rank[i]
  BY <1>1, <1>2 DEF IsRank, ThreadOK, RootedTree, LinkedNode
<1>6. ASSUME NEW parent \in Nodes(t), GrownBelow(u, t, k, parent) PROVE u \in Ranked
  <2> DEFINE r == [i \in 1 .. n |-> IF i = n THEN n ELSE rank[i]]
  <2>1. Nodes(u) = 1 .. n /\ Len(u.nodes) = n
    BY <1>3, <1>6 DEF GrownBelow
  <2>2. u.nodes[n].parent = parent /\ \A i \in Nodes(t) : u.nodes[i].parent = t.nodes[i].parent
    BY <1>6 DEF GrownBelow
  <2>3. r \in [Nodes(u) -> 1 .. n]
    BY <1>2, <1>4, <2>1
  <2>4. ASSUME NEW i \in Nodes(u), u.nodes[i].parent # NULL
        PROVE  r[u.nodes[i].parent] < r[i]
    <3>1. CASE i = n
      BY <1>2, <1>4, <2>1, <2>2, <3>1
    <3>2. CASE i # n
      <4>1. i \in Nodes(t)
        BY <1>2, <2>1, <3>2
      <4> DEFINE p == t.nodes[i].parent
      <4>2. p \in Nodes(t) /\ rank[p] < rank[i] /\ u.nodes[i].parent = p
        BY <1>5, <2>2, <2>4, <4>1
      <4> HIDE DEF p
      <4> QED BY <1>2, <4>1, <4>2
    <3> QED BY <3>1, <3>2
  <2>5. IsRank(u, r)
    BY <2>1, <2>3, <2>4 DEF IsRank
  <2> QED BY <1>2, <2>5 DEF Ranked
<1>7. ASSUME GrownAbove(u, t, k) PROVE u \in Ranked
  <2> DEFINE r == [i \in 1 .. n |-> IF i = n THEN 1 ELSE rank[i] + 1]
  <2>1. Nodes(u) = 1 .. n /\ Len(u.nodes) = n
    BY <1>3, <1>7 DEF GrownAbove
  <2>2. /\ u.nodes[n].parent = NULL
        /\ \A i \in Nodes(t) :
             u.nodes[i].parent = IF i = t.call_tree THEN n ELSE t.nodes[i].parent
    BY <1>7 DEF GrownAbove
  <2>3. r \in [Nodes(u) -> 1 .. n]
    BY <1>2, <1>4, <2>1
  <2>4. ASSUME NEW i \in Nodes(u), u.nodes[i].parent # NULL
        PROVE  r[u.nodes[i].parent] < r[i]
    <3>1. i \in Nodes(t) /\ i # n
      BY <1>2, <2>1, <2>2, <2>4
    <3>2. CASE i = t.call_tree
      <4>1. u.nodes[i].parent = n /\ r[n] = 1 /\ r[i] = rank[i] + 1 /\ rank[i] \in 1 .. N
        BY <1>2, <1>4, <2>2, <3>1, <3>2
      <4> QED BY <1>2, <4>1
    <3>3. CASE i # t.call_tree
      <4> DEFINE p == t.nodes[i].parent
      <4>1. p \in Nodes(t) /\ rank[p] < rank[i] /\ u.nodes[i].parent = p
        BY <1>5, <2>2, <2>4, <3>1, <3>3
      <4> HIDE DEF p
      <4>2. p # n /\ r[p] = rank[p] + 1 /\ r[i] = rank[i] + 1
        BY <1>2, <3>1, <4>1
      <4>3. rank[p] \in Int /\ rank[i] \in Int
        BY <1>4, <3>1, <4>1
      <4> QED BY <4>1, <4>2, <4>3
    <3> QED BY <3>2, <3>3
  <2>5. IsRank(u, r)
    BY <2>1, <2>3, <2>4 DEF IsRank
  <2> QED BY <1>2, <2>5 DEF Ranked
<1> QED BY <1>6, <1>7

(* Every operation keeps a rank: only a new node needs one. *)
LEMMA RankedKept == Kept(Ranked)
<1>1. \A t \in Ranked : ThreadOK(t)
  BY DEF Ranked
<1>2. ASSUME NEW trace \in BOOLEAN PROVE thread_data_create(trace) \in Ranked
  <2> DEFINE t == thread_data_create(trace)
             rank == [n \in {} |-> 1]
  <2>1. ThreadOK(t) /\ t \in Thread
    BY NewThreadOK DEF ThreadOK
  <2>2. t.nodes = <<>>
    BY DEF thread_data_create
  <2> HIDE DEF t
  <2>3. IsRank(t, rank)
    BY <2>2 DEF IsRank, Nodes
  <2>4. t \in Ranked
    BY <2>1, <2>3 DEF Ranked
  <2> QED BY <2>4 DEF t
<1>3. KeptAlike(Ranked)
  <2>1. SUFFICES ASSUME NEW t \in Ranked, NEW u \in Thread, ThreadOK(u), Alike(u, t)
                 PROVE  u \in Ranked
    BY DEF KeptAlike
  <2>2. SameTree(u, t)
    BY <2>1 DEF Alike, SameTree, SameLinks
  <2> QED BY <2>1, <2>2, SameTreeRanked
<1>4. KeptByPush(Ranked) /\ KeptByPop(Ranked)
  BY SameTreeRanked DEF KeptByPush, KeptByPop, PushedOn, PoppedOff
<1>5. KeptBelow(Ranked)
  <2>1. SUFFICES ASSUME NEW t \in Ranked, NEW u \in Thread, NEW k \in Keys, ThreadOK(u),
                        t.stack # <<>>, GrownBelow(u, t, k, Last(t.stack).call_tree)
                 PROVE  u \in Ranked
    BY DEF KeptBelow
  <2>2. Last(t.stack).call_tree \in Nodes(t)
    BY <1>1, <2>1, TopFrameNode
  <2> QED BY <2>1, <2>2, GrownRanked
<1>6. KeptAbove(Ranked)
  <2>1. SUFFICES ASSUME NEW t \in Ranked, NEW u \in Thread, NEW k \in Keys, ThreadOK(u),
                        GrownAbove(u, t, k)
                 PROVE  u \in Ranked
    BY DEF KeptAbove
  <2> QED BY <2>1, GrownRanked
<1> QED BY <1>1, <1>2, <1>3, <1>4, <1>5, <1>6 DEF Kept, KeptGrowing

(* However often a tree grows below its frames, and above its root once    *)
(* the stack has emptied: following parents ends at the root, so the loop  *)
(* of prof_call_tree_figure_depth and the visitors come to an end.         *)
THEOREM ParentLinksAlwaysEnd == Spec => []ParentLinksEnd
<1>1. Init => TableIn(Ranked, threads)
  BY RankedKept, KeptIsInductive
<1>2. IInv /\ TableIn(Ranked, threads) /\ [Next]_vars => TableIn(Ranked, threads)'
  <2>1. SUFFICES ASSUME IInv, TableIn(Ranked, threads), [Next]_vars
                 PROVE  TableIn(Ranked, threads')
    BY DEF TableIn, Ranked
  <2> QED BY <2>1, RankedKept, KeptIsInductive
<1>3. TableIn(Ranked, threads) => ParentLinksEnd
  <2>1. SUFFICES ASSUME TableIn(Ranked, threads), NEW f \in DOMAIN threads,
                        NEW n \in Nodes(threads[f])
                 PROVE  Ancestor(threads[f], n, Len(threads[f].nodes)) = NULL
    BY DEF ParentLinksEnd, EveryThread
  <2> DEFINE t == threads[f]
  <2>2. PICK rank : ThreadOK(t) /\ IsRank(t, rank)
    BY <2>1 DEF TableIn, Ranked
  <2>3. Len(t.nodes) \in Nat
    BY <2>2, NodesAre DEF ThreadOK
  <2> HIDE DEF t
  <2>4. Ancestor(t, n, Len(t.nodes)) # NULL => Len(t.nodes) < Len(t.nodes)
    BY <2>1, <2>2, <2>3, RanksFall DEF t
  <2> QED BY <2>3, <2>4 DEF t
<1> QED BY <1>1, <1>2, <1>3, ProfileIsWellFormed, PTL DEF Spec

-----------------------------------------------------------------------------
(* The frames of a fiber and the ancestors of a node. *)

(* The node of each frame but the first is a child of the node of the      *)
(* frame below, and a reachable node is one of the top frame's.            *)
LEMMA ParentBelow ==
  ASSUME NEW t, ThreadOK(t)
  PROVE  /\ \A i \in Frames(t) : i # 1 =>
              /\ i - 1 \in Frames(t)
              /\ t.nodes[t.stack[i].call_tree].parent = t.stack[i - 1].call_tree
         /\ \A n \in Nodes(t) : Reachable(t, n) /\ t.stack # <<>> =>
              t.nodes[n].parent = t.stack[Len(t.stack)].call_tree
<1>1. /\ t \in Thread /\ RootedTree(t) /\ RootPath(t)
      /\ Frames(t) = 1 .. Len(t.stack) /\ Len(t.stack) \in Nat
      /\ Nodes(t) = 1 .. Len(t.nodes)
      /\ \A n \in Nodes(t) : KeyOf(t, n) \in Keys
  BY NodesAre DEF ThreadOK
<1>2. ASSUME NEW p \in Nodes(t), NEW c \in Nodes(t), t.nodes[p].children[KeyOf(t, c)] = c
      PROVE  t.nodes[c].parent = p
  <2>1. LinkedNode(t, p) /\ KeyOf(t, c) \in Keys /\ c # NULL
    BY <1>1 DEF RootedTree, NULL
  <2> QED BY <1>2, <2>1 DEF LinkedNode
<1>3. ASSUME NEW i \in Frames(t), i # 1
      PROVE  /\ i - 1 \in Frames(t)
             /\ t.nodes[t.stack[i].call_tree].parent = t.stack[i - 1].call_tree
  <2> DEFINE p == t.stack[i - 1].call_tree
             c == t.stack[i].call_tree
  <2>1. i - 1 \in Frames(t)
    BY <1>1, <1>3
  <2>2. p \in Nodes(t) /\ c \in Nodes(t) /\ t.nodes[p].children[KeyOf(t, c)] = c
    BY <1>1, <1>3, <2>1 DEF RootPath, FrameKey
  <2> HIDE DEF p, c
  <2>3. t.nodes[c].parent = p
    BY <1>2, <2>2
  <2> QED BY <2>1, <2>3 DEF p, c
<1>4. ASSUME NEW n \in Nodes(t), Reachable(t, n), t.stack # <<>>
      PROVE  t.nodes[n].parent = t.stack[Len(t.stack)].call_tree
  <2>1. Last(t.stack).call_tree \in Nodes(t)
    BY <1>4, TopFrameNode
  <2>2. t.nodes[Last(t.stack).call_tree].children[KeyOf(t, n)] = n
    BY <1>4 DEF Reachable
  <2> QED BY <1>2, <2>1, <2>2 DEF Last
<1> QED BY <1>3, <1>4

(* So the frames, from the top down, are the ancestors of that node, and   *)
(* there are no others: the bottom frame's node is the root.               *)
LEMMA FramesAreAncestors ==
  ASSUME NEW t \in Ranked, NEW n \in Nodes(t), Reachable(t, n)
  PROVE  ProperAncestors(t, n) = {t.stack[i].call_tree : i \in Frames(t)}
<1> DEFINE N == Len(t.stack)
           B == {d \in Nat : Ancestor(t, n, d + 1)
                               = IF d + 1 <= N THEN t.stack[N - d].call_tree ELSE NULL}
<1>1. /\ ThreadOK(t) /\ Frames(t) = 1 .. N /\ N \in Nat
      /\ Nodes(t) = 1 .. Len(t.nodes) /\ Len(t.nodes) \in Nat
  BY NodesAre DEF Ranked, ThreadOK
<1>2. \A d \in Nat : Ancestor(t, n, d + 1) = IF Ancestor(t, n, d) = NULL THEN NULL
                                             ELSE t.nodes[Ancestor(t, n, d)].parent
  BY <1>1, AncestorWalks
<1>3. \A j \in Frames(t) : t.stack[j].call_tree \in Nodes(t) /\ t.stack[j].call_tree # NULL
  BY <1>1 DEF ThreadOK, RootPath, NULL
<1>4. /\ N >= 1 => t.stack[1].call_tree = t.call_tree
      /\ N = 0 => n = t.call_tree
      /\ \A i \in Nodes(t) : i = t.call_tree => t.nodes[i].parent = NULL
  <2>1. N >= 1 => t.stack[1].call_tree = t.call_tree
    BY <1>1 DEF ThreadOK, RootPath
  <2>2. N = 0 => t.stack = <<>>
    BY <1>1, NodesAre DEF ThreadOK
  <2>3. N = 0 => n = t.call_tree
    BY <2>2 DEF Reachable
  <2>4. \A i \in Nodes(t) : i = t.call_tree => t.nodes[i].parent = NULL
    BY <1>1 DEF ThreadOK, RootedTree, LinkedNode
  <2> QED BY <2>1, <2>3, <2>4
<1>5. 0 \in B
  <2>1. Ancestor(t, n, 0) = n /\ n # NULL
    BY <1>1, AncestorWalks DEF NULL
  <2>2. Ancestor(t, n, 0 + 1) = t.nodes[n].parent
    BY <1>2, <2>1
  <2>3. CASE N = 0
    BY <1>4, <2>2, <2>3
  <2>4. CASE N # 0
    <3>1. t.stack # <<>> /\ 0 + 1 <= N /\ N - 0 = N
      BY <1>1, <2>4
    <3>2. t.nodes[n].parent = t.stack[N].call_tree
      BY <1>1, <3>1, ParentBelow
    <3> QED BY <2>2, <3>1, <3>2
  <2> QED BY <2>3, <2>4
<1>6. ASSUME NEW d \in Nat, d \in B PROVE d + 1 \in B
  <2> DEFINE a == Ancestor(t, n, d + 1)
  <2>1. Ancestor(t, n, (d + 1) + 1) = IF a = NULL THEN NULL ELSE t.nodes[a].parent
    BY <1>2
  <2>2. a = IF d + 1 <= N THEN t.stack[N - d].call_tree ELSE NULL
    BY <1>6
  <2> HIDE DEF a
  <2>3. SUFFICES Ancestor(t, n, (d + 1) + 1)
                   = IF (d + 1) + 1 <= N THEN t.stack[N - (d + 1)].call_tree ELSE NULL
    OBVIOUS
  <2>4. CASE (d + 1) + 1 <= N
    <3>1. /\ N - d \in Frames(t) /\ N - d # 1 /\ (N - d) - 1 = N - (d + 1)
          /\ d + 1 <= N
      BY <1>1, <2>4
    <3>2. t.nodes[t.stack[N - d].call_tree].parent = t.stack[(N - d) - 1].call_tree
      BY <1>1, <3>1, ParentBelow
    <3>3. a = t.stack[N - d].call_tree /\ a # NULL
      BY <1>3, <2>2, <3>1
    <3> QED BY <2>1, <2>4, <3>1, <3>2, <3>3
  <2>5. CASE d + 1 = N
    <3>1. /\ a = t.stack[N - d].call_tree /\ N - d = 1 /\ 1 \in Frames(t)
          /\ ~((d + 1) + 1 <= N) /\ N >= 1
      BY <1>1, <2>2, <2>5
    <3>2. a = t.call_tree /\ a \in Nodes(t) /\ a # NULL
      BY <1>3, <1>4, <3>1
    <3>3. t.nodes[a].parent = NULL
      BY <1>4, <3>2
    <3> QED BY <2>1, <3>1, <3>2, <3>3
  <2>6. CASE ~(d + 1 <= N)
    <3>1. a = NULL /\ ~((d + 1) + 1 <= N)
      BY <1>1, <2>2, <2>6
    <3> QED BY <2>1, <3>1
  <2>7. (d + 1) + 1 <= N \/ d + 1 = N \/ ~(d + 1 <= N)
    BY <1>1
  <2> QED BY <2>4, <2>5, <2>6, <2>7
<1>7. \A d \in Nat : d \in B
  <2> HIDE DEF B
  <2> QED BY <1>5, <1>6, NatInd
<1>8. ASSUME NEW i \in Frames(t) PROVE t.stack[i].call_tree \in ProperAncestors(t, n)
  <2> DEFINE d == N - i
  <2>1. d \in Nat /\ d + 1 \in Nat /\ d + 1 <= N /\ N - d = i
    <3>1. N \in Nat /\ i \in 1 .. N
      BY <1>1
    <3> HIDE DEF N
    <3> QED BY <3>1
  <2> HIDE DEF d
  <2>2. Ancestor(t, n, d + 1) = t.stack[i].call_tree
    BY <1>7, <2>1
  <2>3. Ancestor(t, n, d + 1) # NULL
    BY <1>3, <2>2
  <2>4. PICK rank : IsRank(t, rank)
    BY DEF Ranked
  <2>5. d + 1 < Len(t.nodes)
    BY <1>1, <2>1, <2>3, <2>4, RanksFall
  <2>6. d + 1 \in 1 .. Len(t.nodes)
    BY <1>1, <2>1, <2>5
  <2> QED BY <2>2, <2>3, <2>6 DEF ProperAncestors
<1>9. ASSUME NEW i \in 1 .. Len(t.nodes), Ancestor(t, n, i) # NULL
      PROVE  \E j \in Frames(t) : Ancestor(t, n, i) = t.stack[j].call_tree
  <2> DEFINE d == i - 1
  <2>1. d \in Nat /\ d + 1 = i
    BY <1>1
  <2> HIDE DEF d
  <2>2. Ancestor(t, n, i) = IF d + 1 <= N THEN t.stack[N - d].call_tree ELSE NULL
    BY <1>7, <2>1
  <2>3. d + 1 <= N
    BY <1>9, <2>2
  <2>4. N - d \in Frames(t)
    BY <1>1, <2>1, <2>3
  <2> QED BY <2>2, <2>3, <2>4
<1> HIDE DEF B
<1> QED BY <1>8, <1>9 DEF ProperAncestors

-----------------------------------------------------------------------------
(* Recursion. *)

NestedKey(t, k) ==
  \E n \in NodesOf(t, k) : NodesOf(t, k) \cap ProperAncestors(t, n) # {}

FlagsTrue(t) == \A k \in Keys : t.method_table[k].recursive => NestedKey(t, k)

Nested == {t \in Thread : t \in Ranked /\ t \in Counted /\ FlagsTrue(t)}

(* Call trees that are nested stay nested. *)
LEMMA NestedStays ==
  ASSUME NEW t, ThreadOK(t), NEW u, ThreadOK(u),
         Nodes(t) \subseteq Nodes(u), Len(t.nodes) <= Len(u.nodes),
         \A i \in Nodes(t) :
            /\ u.nodes[i].method = t.nodes[i].method
            /\ t.nodes[i].parent # NULL => u.nodes[i].parent = t.nodes[i].parent,
         NEW k, NestedKey(t, k)
  PROVE  NestedKey(u, k)
<1>1. PICK n \in NodesOf(t, k), a \in NodesOf(t, k) : a \in ProperAncestors(t, n)
  BY DEF NestedKey
<1>2. n \in Nodes(t) /\ n \in NodesOf(u, k) /\ a \in NodesOf(u, k)
  BY <1>1 DEF NodesOf
<1>3. PICK i \in 1 .. Len(t.nodes) : a = Ancestor(t, n, i) /\ a # NULL
  BY <1>1 DEF ProperAncestors
<1>4. t \in Thread /\ u \in Thread /\ Len(t.nodes) \in Nat /\ Len(u.nodes) \in Nat
  BY NodesAre DEF ThreadOK
<1>5. i \in Nat /\ i \in 1 .. Len(u.nodes)
  BY <1>4
<1>6. Ancestor(u, n, i) = a
  BY <1>2, <1>3, <1>5, AncestorStays
<1>7. a \in ProperAncestors(u, n)
  BY <1>3, <1>5, <1>6 DEF ProperAncestors
<1> QED BY <1>2, <1>7 DEF NestedKey

(* So they do in a thread with the same tree, or one that has grown.       *)
LEMMA NestedSame ==
  ASSUME NEW t, ThreadOK(t), NEW u, ThreadOK(u), SameTree(u, t), NEW k, NestedKey(t, k)
  PROVE  NestedKey(u, k)
<1>1. /\ Nodes(t) = 1 .. Len(t.nodes) /\ Nodes(u) = 1 .. Len(u.nodes) /\ Len(t.nodes) \in Nat
  BY NodesAre DEF ThreadOK
<1>2. /\ Nodes(u) = Nodes(t) /\ Len(t.nodes) <= Len(u.nodes)
      /\ \A i \in Nodes(t) :
            /\ u.nodes[i].method = t.nodes[i].method
            /\ u.nodes[i].parent = t.nodes[i].parent
  BY <1>1 DEF SameTree, SameLinks
<1> QED BY <1>2, NestedStays

(* A new node, below or above, changes the parent only of an old root. *)
LEMMA NestedGrown ==
  ASSUME NEW t, ThreadOK(t), NEW u, ThreadOK(u), NEW j \in Keys,
         GrownAbove(u, t, j) \/ \E parent : GrownBelow(u, t, j, parent),
         NEW k, NestedKey(t, k)
  PROVE  NestedKey(u, k)
<1>1. /\ Nodes(t) = 1 .. Len(t.nodes) /\ Nodes(u) = 1 .. Len(u.nodes)
      /\ Len(t.nodes) \in Nat /\ Len(u.nodes) \in Nat
  BY NodesAre DEF ThreadOK
<1>2. Grown(u, t, j)
  BY DEF GrownAbove, GrownBelow
<1>3. Nodes(u) = Nodes(t) \cup {Len(t.nodes) + 1}
  BY <1>2 DEF Grown
<1>4. Len(t.nodes) <= Len(u.nodes)
  <2>1. Len(t.nodes) + 1 \in 1 .. Len(u.nodes)
    BY <1>1, <1>3
  <2> QED BY <1>1, <2>1
<1>5. \A i \in Nodes(t) : u.nodes[i].method = t.nodes[i].method
  BY <1>2 DEF Grown
<1>6. \A i \in Nodes(t) : t.nodes[i].parent # NULL => u.nodes[i].parent = t.nodes[i].parent
  <2>1. CASE GrownAbove(u, t, j)
    <3>1. \A i \in Nodes(t) : i = t.call_tree => t.nodes[i].parent = NULL
      BY DEF ThreadOK, RootedTree, LinkedNode
    <3> QED BY <2>1, <3>1 DEF GrownAbove
  <2>2. CASE \E parent : GrownBelow(u, t, j, parent)
    BY <2>2 DEF GrownBelow
  <2> QED BY <2>1, <2>2
<1> QED BY <1>3, <1>4, <1>5, <1>6, NestedStays

(* The flag is raised when a method is called with a frame below.          *)
LEMMA PushNested ==
  ASSUME NEW t \in Nested, NEW u \in Thread, NEW n \in Nodes(t),
         ThreadOK(u), Reachable(t, n), PushedOn(u, t, n)
  PROVE  FlagsTrue(u)
<1>1. /\ t \in Thread /\ t \in Ranked /\ t \in Counted /\ ThreadOK(t)
      /\ FlagsTrue(t) /\ VisitsMatch(t)
  BY DEF Nested, Counted
<1>2. SUFFICES ASSUME NEW k \in Keys, u.method_table[k].recursive PROVE NestedKey(u, k)
  BY DEF FlagsTrue
<1>3. SUFFICES NestedKey(t, k)
  BY <1>1, NestedSame DEF PushedOn
<1>4. t.method_table[k].recursive \/ (k = KeyOf(t, n) /\ t.method_table[k].visits > 0)
  <2>1. t.method_table[k] \in Method
    BY <1>1, NodesAre
  <2>2. VisitedMethod(t.method_table[k]).recursive
          = (t.method_table[k].recursive \/ t.method_table[k].visits > 0)
    BY <2>1 DEF VisitedMethod, Visited, Method
  <2> QED BY <1>2, <2>2 DEF PushedOn
<1>5. CASE t.method_table[k].recursive
  BY <1>1, <1>5 DEF FlagsTrue
<1>6. CASE k = KeyOf(t, n) /\ t.method_table[k].visits > 0
  <2>1. Cardinality(FramesOfKey(t, k)) = t.method_table[k].visits
    BY <1>1 DEF VisitsMatch, FramesOfKey
  <2>2. Cardinality({}) = 0
    BY FS_EmptySet
  <2>3. FramesOfKey(t, k) # {}
    BY <1>6, <2>1, <2>2
  <2>4. PICK i \in Frames(t) : FrameKey(t, i) = k
    BY <2>3 DEF FramesOfKey
  <2>5. t.stack[i].call_tree \in ProperAncestors(t, n)
    BY <1>1, FramesAreAncestors
  <2>6. t.stack[i].call_tree \in NodesOf(t, k)
    BY <1>1, <2>4 DEF NodesOf, FrameKey, KeyOf, ThreadOK, RootPath
  <2>7. n \in NodesOf(t, k)
    BY <1>6 DEF NodesOf, KeyOf
  <2> QED BY <2>5, <2>6, <2>7 DEF NestedKey
<1> QED BY <1>4, <1>5, <1>6

(* Every operation keeps the flags true: only a push raises one. *)
LEMMA NestedKept == Kept(Nested)
<1>0. Kept(Ranked) /\ Kept(Counted)
  BY RankedKept, CountedKept
<1>1. \A t \in Nested : /\ ThreadOK(t) /\ t \in Ranked /\ t \in Counted /\ FlagsTrue(t)
                        /\ t \in Thread
  BY DEF Nested, Ranked
<1>2. ASSUME NEW u, u \in Ranked, u \in Counted, FlagsTrue(u) PROVE u \in Nested
  BY <1>2 DEF Nested, Ranked
<1>3. ASSUME NEW trace \in BOOLEAN PROVE thread_data_create(trace) \in Nested
  <2> DEFINE t == thread_data_create(trace)
  <2>1. t \in Ranked /\ t \in Counted
    BY <1>0 DEF Kept, KeptGrowing
  <2>2. \A k \in Keys : ~t.method_table[k].recursive
    BY DEF thread_data_create, NoMethod
  <2> HIDE DEF t
  <2>3. t \in Nested
    BY <1>2, <2>1, <2>2 DEF FlagsTrue
  <2> QED BY <2>3 DEF t
<1>4. KeptAlike(Nested)
  <2>1. SUFFICES ASSUME NEW t \in Nested, NEW u \in Thread, ThreadOK(u), Alike(u, t)
                 PROVE  u \in Nested
    BY DEF KeptAlike
  <2>2. u \in Ranked /\ u \in Counted
    BY <1>0, <1>1, <2>1 DEF Kept, KeptGrowing, KeptAlike
  <2>3. SameTree(u, t)
    BY <2>1 DEF Alike, SameTree, SameLinks
  <2>4. \A k \in Keys : u.method_table[k].recursive = t.method_table[k].recursive
    BY <2>1 DEF Alike
  <2>5. FlagsTrue(u)
    BY <1>1, <2>1, <2>3, <2>4, NestedSame DEF FlagsTrue
  <2> QED BY <1>2, <2>2, <2>5
<1>5. KeptByPush(Nested)
  <2>1. SUFFICES ASSUME NEW t \in Nested, NEW u \in Thread, NEW n \in Nodes(t),
                        ThreadOK(u), Reachable(t, n), PushedOn(u, t, n)
                 PROVE  u \in Nested
    BY DEF KeptByPush
  <2>2. u \in Ranked
    BY <1>0, <1>1, <2>1 DEF Kept, KeptGrowing, KeptByPush
  <2>3. u \in Counted
    BY <1>0, <1>1, <2>1 DEF Kept, KeptGrowing, KeptByPush
  <2>4. FlagsTrue(u)
    BY <2>1, PushNested
  <2> QED BY <1>2, <2>2, <2>3, <2>4
<1>6. KeptByPop(Nested)
  <2>1. SUFFICES ASSUME NEW t \in Nested, NEW u \in Thread, NEW n \in Nodes(t),
                        ThreadOK(u), PoppedOff(u, t, n)
                 PROVE  u \in Nested
    BY DEF KeptByPop
  <2>2. u \in Ranked
    BY <1>0, <1>1, <2>1 DEF Kept, KeptGrowing, KeptByPop
  <2>3. u \in Counted
    BY <1>0, <1>1, <2>1 DEF Kept, KeptGrowing, KeptByPop
  <2>4. \A k \in Keys : t.method_table[k] \in Method
    BY <1>1, NodesAre
  <2>5. \A method \in Method, a, b, c \in Int : Left(method, a, b, c).recursive = method.recursive
    BY DEF Left, Method
  <2>6. \A k \in Keys : u.method_table[k].recursive = t.method_table[k].recursive
    BY <2>1, <2>4, <2>5 DEF PoppedOff
  <2>7. SameTree(u, t)
    BY <2>1 DEF PoppedOff
  <2>8. FlagsTrue(u)
    BY <1>1, <2>1, <2>6, <2>7, NestedSame DEF FlagsTrue
  <2> QED BY <1>2, <2>2, <2>3, <2>8
<1>7. ASSUME NEW t \in Nested, NEW u \in Thread, NEW k \in Keys, ThreadOK(u),
             GrownAbove(u, t, k) \/ \E parent : GrownBelow(u, t, k, parent)
      PROVE  FlagsTrue(u)
  <2>1. Grown(u, t, k)
    BY <1>7 DEF GrownAbove, GrownBelow
  <2>2. \A j \in Keys : u.method_table[j].recursive = t.method_table[j].recursive
    BY <2>1 DEF Grown
  <2> QED BY <1>1, <1>7, <2>2, NestedGrown DEF FlagsTrue
<1>8. KeptBelow(Nested)
  <2>1. SUFFICES ASSUME NEW t \in Nested, NEW u \in Thread, NEW k \in Keys, ThreadOK(u),
                        t.stack # <<>>, t.method_table[k].created,
                        GrownBelow(u, t, k, Last(t.stack).call_tree)
                 PROVE  u \in Nested
    BY DEF KeptBelow
  <2>2. u \in Ranked
    BY <1>0, <1>1, <2>1 DEF Kept, KeptGrowing, KeptBelow
  <2>3. u \in Counted
    BY <1>0, <1>1, <2>1 DEF Kept, KeptGrowing, KeptBelow
  <2> QED BY <1>2, <1>7, <2>1, <2>2, <2>3
<1>9. KeptAbove(Nested)
  <2>1. SUFFICES ASSUME NEW t \in Nested, NEW u \in Thread, NEW k \in Keys, ThreadOK(u),
                        t.stack = <<>>, t.method_table[k].created, GrownAbove(u, t, k)
                 PROVE  u \in Nested
    BY DEF KeptAbove
  <2>2. u \in Ranked
    BY <1>0, <1>1, <2>1 DEF Kept, KeptGrowing, KeptAbove
  <2>3. u \in Counted
    BY <1>0, <1>1, <2>1 DEF Kept, KeptGrowing, KeptAbove
  <2> QED BY <1>2, <1>7, <2>1, <2>2, <2>3
<1> QED BY <1>1, <1>3, <1>4, <1>5, <1>6, <1>8, <1>9 DEF Kept, KeptGrowing

(* A method is flagged recursive only if one of its call trees is below    *)
(* another: visits > 0 when a method is called means that a frame of it is *)
(* on the stack, and the frames are the ancestors of the new node.         *)
THEOREM RecursiveAlwaysMeansNested == Spec => []RecursiveMeansNested
<1>1. Init => TableIn(Nested, threads)
  BY NestedKept, KeptIsInductive
<1>2. IInv /\ TableIn(Nested, threads) /\ [Next]_vars => TableIn(Nested, threads)'
  <2>1. SUFFICES ASSUME IInv, TableIn(Nested, threads), [Next]_vars
                 PROVE  TableIn(Nested, threads')
    BY DEF TableIn, Nested
  <2> QED BY <2>1, NestedKept, KeptIsInductive
<1>3. TableIn(Nested, threads) => RecursiveMeansNested
  <2>1. SUFFICES ASSUME TableIn(Nested, threads), NEW f \in DOMAIN threads,
                        NEW k \in Keys, threads[f].method_table[k].recursive
                 PROVE  Outermost(threads[f], k) # NodesOf(threads[f], k)
    BY DEF RecursiveMeansNested, EveryThread
  <2>2. NestedKey(threads[f], k)
    BY <2>1 DEF TableIn, Nested, FlagsTrue
  <2> QED BY <2>2 DEF NestedKey, Outermost
<1> QED BY <1>1, <1>2, <1>3, ProfileIsWellFormed, PTL DEF Spec

-----------------------------------------------------------------------------
(* The sums over the call trees of a method. *)

(* What a method has measured is what its call trees have. *)
MethodSums(t, k) ==
  LET method == t.method_table[k]
      trees  == NodesOf(t, k)
  IN  /\ method.call_trees = trees
      /\ trees # {} => method.created
      /\ method.called = SumFunction([n \in trees |-> t.nodes[n].called])
      /\ method.self_time = SumFunction([n \in trees |-> t.nodes[n].self_time])
      /\ method.wait_time = SumFunction([n \in trees |-> t.nodes[n].wait_time])

Summed == {t \in Thread : ThreadOK(t) /\ \A k \in Keys : MethodSums(t, k)}

(* The sums are over finitely many integers. *)
LEMMA SumsTyped ==
  ASSUME NEW t \in Thread, NEW k
  PROVE  LET trees == NodesOf(t, k)
         IN  /\ IsFiniteSet(trees)
             /\ [n \in trees |-> t.nodes[n].called] \in [trees -> Int]
             /\ [n \in trees |-> t.nodes[n].self_time] \in [trees -> Int]
             /\ [n \in trees |-> t.nodes[n].wait_time] \in [trees -> Int]
<1>1. Nodes(t) = 1 .. Len(t.nodes) /\ Len(t.nodes) \in Nat
  BY NodesAre
<1>2. NodesOf(t, k) \in SUBSET (1 .. Len(t.nodes))
  BY <1>1 DEF NodesOf
<1>3. IsFiniteSet(1 .. Len(t.nodes))
  BY <1>1, FS_Interval
<1>4. IsFiniteSet(NodesOf(t, k))
  BY <1>2, <1>3, FS_Subset
<1>5. \A n \in NodesOf(t, k) : /\ t.nodes[n].called \in Int
                               /\ t.nodes[n].self_time \in Int
                               /\ t.nodes[n].wait_time \in Int
  <2>1. \A n \in NodesOf(t, k) : t.nodes[n] \in Node
    BY NodesAre DEF NodesOf
  <2> QED BY <2>1 DEF Node
<1> QED BY <1>4, <1>5

(* They move together when one node x and its method measure more: called  *)
(* calls, self self time and wait wait time.                               *)
NodesMoved(u, t, k, x, called, self, wait) ==
  \A n \in NodesOf(t, k) :
    LET new == u.nodes[n]
        old == t.nodes[n]
    IN  /\ new.called = old.called + (IF n = x THEN called ELSE 0)
        /\ new.self_time = old.self_time + (IF n = x THEN self ELSE 0)
        /\ new.wait_time = old.wait_time + (IF n = x THEN wait ELSE 0)

MethodMoved(u, t, k, x, called, self, wait) ==
  LET new == u.method_table[k]
      old == t.method_table[k]
      has == x \in NodesOf(t, k)
  IN  /\ new.call_trees = old.call_trees
      /\ old.created => new.created
      /\ new.called = old.called + (IF has THEN called ELSE 0)
      /\ new.self_time = old.self_time + (IF has THEN self ELSE 0)
      /\ new.wait_time = old.wait_time + (IF has THEN wait ELSE 0)

(* A sum moves by what its one element does. *)
LEMMA MethodSumsMove ==
  ASSUME NEW t \in Thread, NEW u \in Thread, NEW x,
         NEW called \in Int, NEW self \in Int, NEW wait \in Int,
         NEW k \in Keys, MethodSums(t, k), NodesOf(u, k) = NodesOf(t, k),
         NodesMoved(u, t, k, x, called, self, wait),
         MethodMoved(u, t, k, x, called, self, wait)
  PROVE  MethodSums(u, k)
<1> DEFINE S == NodesOf(t, k)
           f1 == [n \in S |-> t.nodes[n].called]
           g1 == [n \in S |-> u.nodes[n].called]
           f2 == [n \in S |-> t.nodes[n].self_time]
           g2 == [n \in S |-> u.nodes[n].self_time]
           f3 == [n \in S |-> t.nodes[n].wait_time]
           g3 == [n \in S |-> u.nodes[n].wait_time]
<1>1. IsFiniteSet(S) /\ f1 \in [S -> Int] /\ f2 \in [S -> Int] /\ f3 \in [S -> Int]
  BY SumsTyped
<1>2. g1 \in [S -> Int] /\ g2 \in [S -> Int] /\ g3 \in [S -> Int]
  BY SumsTyped
<1>3. /\ \A y \in S : g1[y] = f1[y] + (IF y = x THEN called ELSE 0)
      /\ \A y \in S : g2[y] = f2[y] + (IF y = x THEN self ELSE 0)
      /\ \A y \in S : g3[y] = f3[y] + (IF y = x THEN wait ELSE 0)
  BY DEF NodesMoved
<1>4. MethodSums(t, k) <=>
        LET method == t.method_table[k]
        IN  /\ method.call_trees = S
            /\ S # {} => method.created
            /\ method.called = SumFunction(f1)
            /\ method.self_time = SumFunction(f2)
            /\ method.wait_time = SumFunction(f3)
  BY DEF MethodSums
<1>5. MethodSums(u, k) <=>
        LET method == u.method_table[k]
        IN  /\ method.call_trees = S
            /\ S # {} => method.created
            /\ method.called = SumFunction(g1)
            /\ method.self_time = SumFunction(g2)
            /\ method.wait_time = SumFunction(g3)
  BY DEF MethodSums
<1> HIDE DEF f1, f2, f3, g1, g2, g3
<1>6. /\ SumFunction(g1) = SumFunction(f1) + (IF x \in S THEN called ELSE 0)
      /\ SumFunction(g2) = SumFunction(f2) + (IF x \in S THEN self ELSE 0)
      /\ SumFunction(g3) = SumFunction(f3) + (IF x \in S THEN wait ELSE 0)
  <2> HIDE DEF S
  <2>1. SumFunction(g1) = SumFunction(f1) + (IF x \in S THEN called ELSE 0)
    <3>1. MovedAt(g1, f1, S, x, called)
      BY <1>1, <1>2, <1>3 DEF MovedAt
    <3> QED BY <3>1, SumMoved
  <2>2. SumFunction(g2) = SumFunction(f2) + (IF x \in S THEN self ELSE 0)
    <3>1. MovedAt(g2, f2, S, x, self)
      BY <1>1, <1>2, <1>3 DEF MovedAt
    <3> QED BY <3>1, SumMoved
  <2>3. SumFunction(g3) = SumFunction(f3) + (IF x \in S THEN wait ELSE 0)
    <3>1. MovedAt(g3, f3, S, x, wait)
      BY <1>1, <1>2, <1>3 DEF MovedAt
    <3> QED BY <3>1, SumMoved
  <2> QED BY <2>1, <2>2, <2>3
<1> QED BY <1>4, <1>5, <1>6 DEF MethodMoved

(* A new thread has no call trees. *)
LEMMA NewSummed ==
  ASSUME NEW trace \in BOOLEAN
  PROVE  thread_data_create(trace) \in Summed
<1> DEFINE t == thread_data_create(trace)
<1>1. ThreadOK(t) /\ t \in Thread
  BY NewThreadOK DEF ThreadOK
<1>2. /\ t.nodes = <<>>
      /\ \A k \in Keys : t.method_table[k] = NoMethod
  BY DEF thread_data_create
<1> HIDE DEF t
<1>3. ASSUME NEW k \in Keys PROVE MethodSums(t, k)
  <2> DEFINE f1 == [n \in NodesOf(t, k) |-> t.nodes[n].called]
             f2 == [n \in NodesOf(t, k) |-> t.nodes[n].self_time]
             f3 == [n \in NodesOf(t, k) |-> t.nodes[n].wait_time]
  <2>1. NodesOf(t, k) = {}
    BY <1>2 DEF NodesOf, Nodes
  <2>2. /\ IsFiniteSet(NodesOf(t, k)) /\ f1 \in [NodesOf(t, k) -> Int]
        /\ f2 \in [NodesOf(t, k) -> Int] /\ f3 \in [NodesOf(t, k) -> Int]
    BY <1>1, SumsTyped
  <2>3. MethodSums(t, k) <=>
          LET method == t.method_table[k]
          IN  /\ method.call_trees = NodesOf(t, k)
              /\ NodesOf(t, k) # {} => method.created
              /\ method.called = SumFunction(f1)
              /\ method.self_time = SumFunction(f2)
              /\ method.wait_time = SumFunction(f3)
    BY DEF MethodSums
  <2> HIDE DEF f1, f2, f3
  <2>4. SumFunction(f1) = 0 /\ SumFunction(f2) = 0 /\ SumFunction(f3) = 0
    BY <2>1, <2>2, SumType
  <2>5. /\ t.method_table[k].call_trees = {} /\ t.method_table[k].called = 0
        /\ t.method_table[k].self_time = 0 /\ t.method_table[k].wait_time = 0
    BY <1>2 DEF NoMethod
  <2> QED BY <2>1, <2>3, <2>4, <2>5
<1> QED BY <1>1, <1>3 DEF Summed, t

(* What leaves the measurements alone leaves the sums alone. *)
LEMMA AlikeSummed == KeptAlike(Summed)
<1> SUFFICES ASSUME NEW t \in Summed, NEW u \in Thread, ThreadOK(u), Alike(u, t),
                    NEW k \in Keys
             PROVE  MethodSums(u, k)
  BY DEF KeptAlike, Summed
<1>1. t \in Thread /\ MethodSums(t, k)
  BY DEF Summed
<1>2. NodesOf(u, k) = NodesOf(t, k) /\ u.nodes = t.nodes
  BY DEF Alike, NodesOf, Nodes
<1>3. LET new == u.method_table[k]
          old == t.method_table[k]
      IN  /\ new.call_trees = old.call_trees
          /\ old.created => new.created
          /\ new.called = old.called /\ old.called \in Int
          /\ new.self_time = old.self_time /\ old.self_time \in Int
          /\ new.wait_time = old.wait_time /\ old.wait_time \in Int
  <2>1. t.method_table[k] \in Method
    BY <1>1, NodesAre
  <2> QED BY <2>1 DEF Alike, SameMeasure, Method
<1>4. \A n \in NodesOf(t, k) : /\ t.nodes[n].called \in Int
                               /\ t.nodes[n].self_time \in Int
                               /\ t.nodes[n].wait_time \in Int
  <2>1. \A n \in NodesOf(t, k) : t.nodes[n] \in Node
    BY <1>1, NodesAre DEF NodesOf
  <2> QED BY <2>1 DEF Node
<1>5. NodesMoved(u, t, k, 0, 0, 0, 0) /\ MethodMoved(u, t, k, 0, 0, 0, 0)
  BY <1>2, <1>3, <1>4 DEF NodesMoved, MethodMoved
<1>6. 0 \in Int
  OBVIOUS
<1> QED BY <1>1, <1>2, <1>5, <1>6, MethodSumsMove

(* The nodes of a method stay the same when its node n moves, and n is the *)
(* node of no other.                                                       *)
LEMMA NodesOfStay ==
  ASSUME NEW t \in Thread, NEW u \in Thread, SameTree(u, t), NEW n \in Nodes(t), NEW k
  PROVE  NodesOf(u, k) = NodesOf(t, k) /\ (n \in NodesOf(t, k) <=> k = KeyOf(t, n))
BY NodesAre DEF SameTree, SameLinks, NodesOf, KeyOf

(* A push counts one call more for the node and for its method. *)
LEMMA PushSummed == KeptByPush(Summed)
<1> SUFFICES ASSUME NEW t \in Summed, NEW u \in Thread, NEW n \in Nodes(t),
                    ThreadOK(u), PushedOn(u, t, n), NEW k \in Keys
             PROVE  MethodSums(u, k)
  BY DEF KeptByPush, Summed
<1>1. t \in Thread /\ MethodSums(t, k)
  BY DEF Summed
<1>2. NodesOf(u, k) = NodesOf(t, k) /\ (n \in NodesOf(t, k) <=> k = KeyOf(t, n))
  BY <1>1, NodesOfStay DEF PushedOn
<1>3. \A i \in NodesOf(t, k) : LET new == u.nodes[i]
                                   old == t.nodes[i]
                               IN  /\ new.called = old.called + (IF i = n THEN 1 ELSE 0)
                                   /\ new.self_time = old.self_time
                                   /\ old.self_time \in Int
                                   /\ new.wait_time = old.wait_time
                                   /\ old.wait_time \in Int
  <2>1. SUFFICES ASSUME NEW i \in Nodes(t)
                 PROVE  LET new == u.nodes[i]
                            old == t.nodes[i]
                        IN  /\ new.called = old.called + (IF i = n THEN 1 ELSE 0)
                            /\ new.self_time = old.self_time
                            /\ old.self_time \in Int
                            /\ new.wait_time = old.wait_time
                            /\ old.wait_time \in Int
    BY DEF NodesOf
  <2>2. t.nodes[i] \in Node
    BY <1>1, NodesAre
  <2>3. u.nodes[i] = IF i = n THEN Visited(t.nodes[i]) ELSE t.nodes[i]
    BY DEF PushedOn
  <2> QED BY <2>2, <2>3 DEF Visited, Node
<1>4. LET new == u.method_table[k]
          old == t.method_table[k]
      IN  /\ new.call_trees = old.call_trees
          /\ new.created = old.created
          /\ new.called = old.called + (IF k = KeyOf(t, n) THEN 1 ELSE 0)
          /\ new.self_time = old.self_time /\ old.self_time \in Int
          /\ new.wait_time = old.wait_time /\ old.wait_time \in Int
  <2>1. t.method_table[k] \in Method
    BY <1>1, NodesAre
  <2>2. u.method_table[k] = IF k = KeyOf(t, n) THEN VisitedMethod(t.method_table[k])
                            ELSE t.method_table[k]
    BY DEF PushedOn
  <2> QED BY <2>1, <2>2 DEF VisitedMethod, Visited, Method
<1>5. NodesMoved(u, t, k, n, 1, 0, 0) /\ MethodMoved(u, t, k, n, 1, 0, 0)
  BY <1>2, <1>3, <1>4 DEF NodesMoved, MethodMoved
<1>6. 0 \in Int /\ 1 \in Int
  OBVIOUS
<1> QED BY <1>1, <1>2, <1>5, <1>6, MethodSumsMove

(* A pop adds the same self and wait time to both. *)
LEMMA PopSummed == KeptByPop(Summed)
<1> SUFFICES ASSUME NEW t \in Summed, NEW u \in Thread, NEW n \in Nodes(t),
                    ThreadOK(u), PoppedOff(u, t, n), NEW k \in Keys
             PROVE  MethodSums(u, k)
  BY DEF KeptByPop, Summed
<1>1. t \in Thread /\ MethodSums(t, k)
  BY DEF Summed
<1>2. NodesOf(u, k) = NodesOf(t, k) /\ (n \in NodesOf(t, k) <=> k = KeyOf(t, n))
  BY <1>1, NodesOfStay DEF PoppedOff
<1>3. PICK total \in Int, self \in Int, wait \in Int :
        /\ \A i \in Nodes(t) :
             u.nodes[i] = IF i = n THEN Left(t.nodes[i], total, self, wait)
                          ELSE t.nodes[i]
        /\ \A j \in Keys :
             u.method_table[j] = IF j = KeyOf(t, n)
                                 THEN Left(t.method_table[j], total, self, wait)
                                 ELSE t.method_table[j]
  BY DEF PoppedOff
<1>4. \A i \in NodesOf(t, k) : LET new == u.nodes[i]
                                   old == t.nodes[i]
                               IN  /\ new.called = old.called /\ old.called \in Int
                                   /\ new.self_time = old.self_time + (IF i = n THEN self ELSE 0)
                                   /\ new.wait_time = old.wait_time + (IF i = n THEN wait ELSE 0)
  <2>1. SUFFICES ASSUME NEW i \in Nodes(t)
                 PROVE  LET new == u.nodes[i]
                            old == t.nodes[i]
                        IN  /\ new.called = old.called /\ old.called \in Int
                            /\ new.self_time = old.self_time + (IF i = n THEN self ELSE 0)
                            /\ new.wait_time = old.wait_time + (IF i = n THEN wait ELSE 0)
    BY DEF NodesOf
  <2>2. t.nodes[i] \in Node
    BY <1>1, NodesAre
  <2>3. u.nodes[i] = IF i = n THEN Left(t.nodes[i], total, self, wait) ELSE t.nodes[i]
    BY <1>3
  <2> QED BY <2>2, <2>3 DEF Left, Node
<1>5. LET new == u.method_table[k]
          old == t.method_table[k]
      IN  /\ new.call_trees = old.call_trees
          /\ new.created = old.created
          /\ new.called = old.called /\ old.called \in Int
          /\ new.self_time = old.self_time + (IF k = KeyOf(t, n) THEN self ELSE 0)
          /\ new.wait_time = old.wait_time + (IF k = KeyOf(t, n) THEN wait ELSE 0)
  <2>1. t.method_table[k] \in Method
    BY <1>1, NodesAre
  <2>2. u.method_table[k] = IF k = KeyOf(t, n) THEN Left(t.method_table[k], total, self, wait)
                            ELSE t.method_table[k]
    BY <1>3
  <2> QED BY <2>1, <2>2 DEF Left, Method
<1>6. NodesMoved(u, t, k, n, 0, self, wait) /\ MethodMoved(u, t, k, n, 0, self, wait)
  BY <1>2, <1>4, <1>5 DEF NodesMoved, MethodMoved
<1>7. 0 \in Int
  OBVIOUS
<1> QED BY <1>1, <1>2, <1>6, <1>7, MethodSumsMove

(* A new node joins the call trees of its method, with what it starts with.*)
LEMMA GrownSummed ==
  ASSUME NEW t \in Summed, NEW u, ThreadOK(u), NEW k \in Keys,
         t.method_table[k].created, Grown(u, t, k)
  PROVE  u \in Summed
<1> DEFINE x == Len(t.nodes) + 1
<1>1. t \in Thread /\ u \in Thread /\ \A j \in Keys : MethodSums(t, j)
  BY DEF Summed, Grown
<1>2. /\ Nodes(u) = Nodes(t) \cup {x} /\ x \notin Nodes(t)
      /\ u.nodes[x].method = k
      /\ u.nodes[x].called = 0 /\ u.nodes[x].self_time = 0
      /\ \A i \in Nodes(t) : /\ u.nodes[i].method = t.nodes[i].method
                             /\ SameMeasure(u.nodes[i], t.nodes[i])
  BY DEF Grown
<1>3. ASSUME NEW j \in Keys, j # k PROVE MethodSums(u, j)
  <2>1. NodesOf(u, j) = NodesOf(t, j)
    BY <1>2, <1>3 DEF NodesOf
  <2>2. u.method_table[j] = t.method_table[j]
    BY <1>3 DEF Grown
  <2>3. t.method_table[j].called \in Int /\ t.method_table[j].self_time \in Int
        /\ t.method_table[j].wait_time \in Int
    <3>1. t.method_table[j] \in Method
      BY <1>1, NodesAre
    <3> QED BY <3>1 DEF Method
  <2>4. \A n \in NodesOf(t, j) :
          /\ u.nodes[n].called = t.nodes[n].called /\ t.nodes[n].called \in Int
          /\ u.nodes[n].self_time = t.nodes[n].self_time /\ t.nodes[n].self_time \in Int
          /\ u.nodes[n].wait_time = t.nodes[n].wait_time /\ t.nodes[n].wait_time \in Int
    <3>1. \A n \in NodesOf(t, j) : t.nodes[n] \in Node
      BY <1>1, NodesAre DEF NodesOf
    <3> QED BY <1>2, <3>1 DEF NodesOf, SameMeasure, Node
  <2>5. NodesMoved(u, t, j, 0, 0, 0, 0) /\ MethodMoved(u, t, j, 0, 0, 0, 0)
    BY <2>1, <2>2, <2>3, <2>4 DEF NodesMoved, MethodMoved
  <2>6. 0 \in Int
    OBVIOUS
  <2> QED BY <1>1, <2>1, <2>5, <2>6, MethodSumsMove
<1>4. MethodSums(u, k)
  <2> DEFINE S == NodesOf(t, k)
             T == NodesOf(u, k)
             f1 == [n \in S |-> t.nodes[n].called]
             g1 == [n \in T |-> u.nodes[n].called]
             f2 == [n \in S |-> t.nodes[n].self_time]
             g2 == [n \in T |-> u.nodes[n].self_time]
             f3 == [n \in S |-> t.nodes[n].wait_time]
             g3 == [n \in T |-> u.nodes[n].wait_time]
  <2>1. IsFiniteSet(S) /\ f1 \in [S -> Int] /\ f2 \in [S -> Int] /\ f3 \in [S -> Int]
    BY <1>1, SumsTyped
  <2>2. g1 \in [T -> Int] /\ g2 \in [T -> Int] /\ g3 \in [T -> Int]
    BY <1>1, SumsTyped
  <2>3. T = S \cup {x} /\ x \notin S
    <3> HIDE DEF x
    <3> QED BY <1>2 DEF NodesOf
  <2>4. /\ \A y \in S : g1[y] = f1[y] /\ g2[y] = f2[y] /\ g3[y] = f3[y]
        /\ g1[x] = 0 /\ g2[x] = 0 /\ g3[x] = u.nodes[x].wait_time
    <3> HIDE DEF x
    <3>1. \A y \in S : y \in Nodes(t) /\ y \in T
      BY <2>3 DEF NodesOf
    <3> QED BY <1>2, <2>3, <3>1 DEF SameMeasure
  <2>5. LET method == t.method_table[k]
        IN  /\ method.call_trees = S
            /\ method.called = SumFunction(f1)
            /\ method.self_time = SumFunction(f2)
            /\ method.wait_time = SumFunction(f3)
    BY <1>1 DEF MethodSums
  <2>6. LET method == u.method_table[k]
        IN  /\ method.call_trees = T
            /\ method.created
            /\ method.called = SumFunction(g1)
            /\ method.self_time = SumFunction(g2)
            /\ method.wait_time = SumFunction(g3)
        => MethodSums(u, k)
    BY DEF MethodSums
  <2>7. LET new == u.method_table[k]
            old == t.method_table[k]
        IN  /\ new.created
            /\ new.called = old.called
            /\ new.self_time = old.self_time
            /\ new.wait_time = old.wait_time + u.nodes[x].wait_time
            /\ new.call_trees = old.call_trees \cup {x}
    BY DEF Grown
  <2> HIDE DEF S, T, f1, f2, f3, g1, g2, g3, x
  <2>8. /\ SumFunction(g1) = SumFunction(f1) + g1[x]
        /\ SumFunction(g2) = SumFunction(f2) + g2[x]
        /\ SumFunction(g3) = SumFunction(f3) + g3[x]
    <3>1. SumFunction(g1) = SumFunction(f1) + g1[x]
      <4>1. AddedAt(g1, f1, S, x)
        BY <2>1, <2>2, <2>3, <2>4 DEF AddedAt
      <4> QED BY <4>1, SumAdded
    <3>2. SumFunction(g2) = SumFunction(f2) + g2[x]
      <4>1. AddedAt(g2, f2, S, x)
        BY <2>1, <2>2, <2>3, <2>4 DEF AddedAt
      <4> QED BY <4>1, SumAdded
    <3>3. SumFunction(g3) = SumFunction(f3) + g3[x]
      <4>1. AddedAt(g3, f3, S, x)
        BY <2>1, <2>2, <2>3, <2>4 DEF AddedAt
      <4> QED BY <4>1, SumAdded
    <3> QED BY <3>1, <3>2, <3>3
  <2>9. SumFunction(f1) \in Int /\ SumFunction(f2) \in Int
    BY <2>1, SumType
  <2> QED BY <2>3, <2>4, <2>5, <2>6, <2>7, <2>8, <2>9
<1> QED BY <1>1, <1>3, <1>4 DEF Summed

(* Every operation keeps the sums. *)
LEMMA SummedKept == Kept(Summed)
<1>1. /\ \A t \in Summed : ThreadOK(t)
      /\ \A trace \in BOOLEAN : thread_data_create(trace) \in Summed
  BY NewSummed DEF Summed
<1>2. KeptBelow(Summed)
  BY GrownSummed DEF KeptBelow, GrownBelow
<1>3. KeptAbove(Summed)
  BY GrownSummed DEF KeptAbove, GrownAbove
<1> QED BY <1>1, <1>2, <1>3, AlikeSummed, PushSummed, PopSummed DEF Kept, KeptGrowing

(* However calls nest and fibers interleave, and wherever the profile      *)
(* climbed above its start: a method's call_trees are all its nodes, those *)
(* no longer in any children table included, and its calls, self and wait  *)
(* time are theirs added up.                                               *)
THEOREM MethodsAlwaysSumTheirCallTrees == Spec => []MethodsSumTheirCallTrees
<1>1. Init => TableIn(Summed, threads)
  BY SummedKept, KeptIsInductive
<1>2. IInv /\ TableIn(Summed, threads) /\ [Next]_vars => TableIn(Summed, threads)'
  <2>1. SUFFICES ASSUME IInv, TableIn(Summed, threads), [Next]_vars
                 PROVE  TableIn(Summed, threads')
    BY DEF TableIn, Summed, MethodSums
  <2> QED BY <2>1, SummedKept, KeptIsInductive
<1>3. TableIn(Summed, threads) => MethodsSumTheirCallTrees
  BY DEF TableIn, Summed, MethodSums, MethodsSumTheirCallTrees, EveryThread
<1> QED BY <1>1, <1>2, <1>3, ProfileIsWellFormed, PTL DEF Spec

-----------------------------------------------------------------------------
(* The total of a method and its outermost call trees. *)

(* The parents are what makes a tree: new nodes at its end leave those of  *)
(* the old ones alone.                                                     *)
LEMMA AncestorsSame ==
  ASSUME NEW t \in Ranked, NEW u \in Ranked, Nodes(t) \subseteq Nodes(u),
         Len(t.nodes) <= Len(u.nodes),
         \A i \in Nodes(t) : u.nodes[i].parent = t.nodes[i].parent,
         NEW n \in Nodes(t)
  PROVE  /\ ProperAncestors(u, n) = ProperAncestors(t, n)
         /\ ProperAncestors(t, n) \subseteq Nodes(t)
<1> DEFINE B == {i \in Nat : Ancestor(u, n, i) = Ancestor(t, n, i)}
<1>1. /\ ThreadOK(t) /\ ThreadOK(u) /\ n \in Nodes(u)
      /\ Len(t.nodes) \in Nat /\ Len(u.nodes) \in Nat
  BY NodesAre DEF Ranked, ThreadOK
<1>2. 0 \in B
  BY <1>1, AncestorWalks
<1>3. ASSUME NEW i \in Nat, i \in B PROVE i + 1 \in B
  <2> DEFINE a == Ancestor(t, n, i)
  <2>1. /\ a \in Nodes(t) \cup {NULL}
        /\ Ancestor(t, n, i + 1) = IF a = NULL THEN NULL ELSE t.nodes[a].parent
    BY <1>1, AncestorWalks
  <2>2. Ancestor(u, n, i + 1) = IF a = NULL THEN NULL ELSE u.nodes[a].parent
    <3>1. Ancestor(u, n, i) = a
      BY <1>3
    <3>2. Ancestor(u, n, i + 1) = IF Ancestor(u, n, i) = NULL THEN NULL
                                  ELSE u.nodes[Ancestor(u, n, i)].parent
      BY <1>1, AncestorWalks
    <3> HIDE DEF a
    <3> QED BY <3>1, <3>2
  <2> HIDE DEF a
  <2>3. Ancestor(u, n, i + 1) = Ancestor(t, n, i + 1)
    BY <2>1, <2>2
  <2> QED BY <2>3
<1>4. \A i \in Nat : i \in B
  <2> HIDE DEF B
  <2> QED BY <1>2, <1>3, NatInd
<1>5. \A i \in Nat : Ancestor(u, n, i) = Ancestor(t, n, i)
  BY <1>4
<1> HIDE DEF B
<1>6. PICK rank : IsRank(t, rank)
  BY DEF Ranked
<1>7. \A i \in Nat : Ancestor(t, n, i) # NULL => i < Len(t.nodes)
  BY <1>1, <1>6, RanksFall
<1>8. ProperAncestors(t, n) \subseteq Nodes(t)
  <2>1. \A i \in Nat : Ancestor(t, n, i) \in Nodes(t) \cup {NULL}
    BY <1>1, AncestorWalks
  <2>2. \A i \in 1 .. Len(t.nodes) : i \in Nat
    BY <1>1
  <2> QED BY <2>1, <2>2 DEF ProperAncestors
<1>9. ProperAncestors(t, n) \subseteq ProperAncestors(u, n)
  <2>1. \A i \in 1 .. Len(t.nodes) : i \in Nat /\ i \in 1 .. Len(u.nodes)
    BY <1>1
  <2> QED BY <1>5, <2>1 DEF ProperAncestors
<1>10. ProperAncestors(u, n) \subseteq ProperAncestors(t, n)
  <2>1. SUFFICES ASSUME NEW i \in 1 .. Len(u.nodes), Ancestor(u, n, i) # NULL
                 PROVE  Ancestor(u, n, i) \in ProperAncestors(t, n)
    BY DEF ProperAncestors
  <2>2. i \in Nat /\ i >= 1
    BY <1>1
  <2>3. Ancestor(t, n, i) = Ancestor(u, n, i) /\ i < Len(t.nodes)
    BY <1>5, <1>7, <2>1, <2>2
  <2>4. i \in 1 .. Len(t.nodes)
    BY <1>1, <2>2, <2>3
  <2> QED BY <2>1, <2>3, <2>4 DEF ProperAncestors
<1> QED BY <1>8, <1>9, <1>10

(* So a push and a pop leave the outermost call trees of each method, and  *)
(* whether the profile has climbed, as they were.                          *)
LEMMA OutermostSame ==
  ASSUME NEW t \in Ranked, NEW u \in Ranked, SameTree(u, t)
  PROVE  /\ \A k : Outermost(u, k) = Outermost(t, k)
         /\ \A n \in Nodes(t) : ProperAncestors(u, n) = ProperAncestors(t, n)
         /\ Nodes(u) = Nodes(t)
         /\ \A n \in Nodes(t) : Climbed(u, n) <=> Climbed(t, n)
<1>1. /\ t \in Thread /\ u \in Thread
      /\ Nodes(t) = 1 .. Len(t.nodes) /\ Nodes(u) = 1 .. Len(u.nodes)
      /\ Len(t.nodes) \in Nat
  BY NodesAre DEF Ranked
<1>2. /\ Nodes(u) = Nodes(t) /\ Len(t.nodes) <= Len(u.nodes)
      /\ \A i \in Nodes(t) : /\ u.nodes[i].parent = t.nodes[i].parent
                             /\ u.nodes[i].method = t.nodes[i].method
  BY <1>1 DEF SameTree, SameLinks
<1>3. \A n \in Nodes(t) : ProperAncestors(u, n) = ProperAncestors(t, n)
  BY <1>2, AncestorsSame
<1>4. \A k : NodesOf(u, k) = NodesOf(t, k)
  BY <1>2 DEF NodesOf
<1>5. \A k : Outermost(u, k) = Outermost(t, k)
  BY <1>3, <1>4 DEF Outermost, NodesOf
<1>6. \A n \in Nodes(t) : Climbed(u, n) <=> Climbed(t, n)
  BY <1>2 DEF Climbed, ChildrenOf
<1> QED BY <1>2, <1>3, <1>5, <1>6

(* The total of a method is the sum of those of its outermost call trees,  *)
(* unless the profile has climbed.                                         *)
OnceFor(t, k) ==
  t.method_table[k].total_time
    = SumFunction([n \in Outermost(t, k) |-> t.nodes[n].total_time])

NoClimb(t) == \A n \in Nodes(t) : ~Climbed(t, n)

Once == {t \in Thread :
           /\ t \in Ranked
           /\ t \in Counted
           /\ NoClimb(t) => \A k \in Keys : OnceFor(t, k)}

(* That sum is over finitely many integers. *)
LEMMA OutermostTyped ==
  ASSUME NEW t \in Thread, NEW k
  PROVE  /\ IsFiniteSet(Outermost(t, k))
         /\ [n \in Outermost(t, k) |-> t.nodes[n].total_time] \in [Outermost(t, k) -> Int]
<1>1. IsFiniteSet(NodesOf(t, k))
  BY SumsTyped
<1>2. Outermost(t, k) \in SUBSET NodesOf(t, k)
  BY DEF Outermost
<1>3. IsFiniteSet(Outermost(t, k))
  BY <1>1, <1>2, FS_Subset
<1>4. \A n \in Outermost(t, k) : t.nodes[n].total_time \in Int
  <2>1. \A n \in Outermost(t, k) : t.nodes[n] \in Node
    BY NodesAre DEF Outermost, NodesOf
  <2> QED BY <2>1 DEF Node
<1> QED BY <1>3, <1>4

(* It moves with the total of a node x, if x is one of them.               *)
LEMMA OnceMoves ==
  ASSUME NEW t \in Thread, NEW u \in Thread, NEW k \in Keys, NEW x, NEW total \in Int,
         Outermost(u, k) = Outermost(t, k), OnceFor(t, k),
         \A n \in Outermost(t, k) :
           u.nodes[n].total_time = t.nodes[n].total_time + (IF n = x THEN total ELSE 0),
         u.method_table[k].total_time
           = t.method_table[k].total_time + (IF x \in Outermost(t, k) THEN total ELSE 0)
  PROVE  OnceFor(u, k)
<1> DEFINE S == Outermost(t, k)
           f == [n \in S |-> t.nodes[n].total_time]
           g == [n \in S |-> u.nodes[n].total_time]
<1>1. IsFiniteSet(S) /\ f \in [S -> Int] /\ g \in [S -> Int]
  BY OutermostTyped
<1>2. MovedAt(g, f, S, x, total)
  BY <1>1 DEF MovedAt
<1>3. /\ OnceFor(t, k) <=> t.method_table[k].total_time = SumFunction(f)
      /\ OnceFor(u, k) <=> u.method_table[k].total_time = SumFunction(g)
  BY DEF OnceFor
<1> HIDE DEF f, g, S
<1>4. SumFunction(g) = SumFunction(f) + (IF x \in S THEN total ELSE 0)
  BY <1>2, SumMoved
<1> QED BY <1>3, <1>4 DEF S

(* Nothing measured, nothing moved. *)
LEMMA OnceStays ==
  ASSUME NEW t \in Thread, NEW u \in Thread, NEW k \in Keys,
         Outermost(u, k) = Outermost(t, k), OnceFor(t, k),
         \A n \in Outermost(t, k) : u.nodes[n].total_time = t.nodes[n].total_time,
         u.method_table[k].total_time = t.method_table[k].total_time
  PROVE  OnceFor(u, k)
BY DEF OnceFor

(* A new thread has no call trees. *)
LEMMA NewOnce ==
  ASSUME NEW trace \in BOOLEAN
  PROVE  thread_data_create(trace) \in Once
<1> DEFINE t == thread_data_create(trace)
<1>1. t \in Ranked /\ t \in Counted /\ t \in Thread
  BY RankedKept, CountedKept DEF Kept, KeptGrowing, Ranked
<1>2. /\ t.nodes = <<>>
      /\ \A k \in Keys : t.method_table[k].total_time = 0
  BY DEF thread_data_create, NoMethod
<1> HIDE DEF t
<1>3. ASSUME NEW k \in Keys PROVE OnceFor(t, k)
  <2> DEFINE f == [n \in Outermost(t, k) |-> t.nodes[n].total_time]
  <2>1. Outermost(t, k) = {}
    BY <1>2 DEF Outermost, NodesOf, Nodes
  <2>2. IsFiniteSet(Outermost(t, k)) /\ f \in [Outermost(t, k) -> Int]
    BY <1>1, OutermostTyped
  <2>3. OnceFor(t, k) <=> t.method_table[k].total_time = SumFunction(f)
    BY DEF OnceFor
  <2> HIDE DEF f
  <2>4. SumFunction(f) = 0
    BY <2>1, <2>2, SumType
  <2> QED BY <1>2, <2>3, <2>4
<1> QED BY <1>1, <1>3 DEF Once, t

(* A switch, a pause or an added method changes no total. *)
LEMMA AlikeOnce == KeptAlike(Once)
<1> SUFFICES ASSUME NEW t \in Once, NEW u \in Thread, ThreadOK(u), Alike(u, t)
             PROVE  u \in Once
  BY DEF KeptAlike
<1>1. t \in Ranked /\ t \in Counted /\ t \in Thread
  BY DEF Once
<1>2. u \in Ranked /\ u \in Counted
  BY <1>1, RankedKept, CountedKept DEF Kept, KeptGrowing, KeptAlike
<1>3. SameTree(u, t) /\ u.nodes = t.nodes
  BY DEF Alike, SameTree, SameLinks
<1>4. /\ \A k : Outermost(u, k) = Outermost(t, k)
      /\ NoClimb(u) => NoClimb(t)
  BY <1>1, <1>2, <1>3, OutermostSame DEF NoClimb
<1>5. ASSUME NEW k \in Keys, OnceFor(t, k) PROVE OnceFor(u, k)
  <2>1. u.method_table[k].total_time = t.method_table[k].total_time
    BY DEF Alike, SameMeasure
  <2> QED BY <1>1, <1>3, <1>4, <1>5, <2>1, OnceStays
<1> QED BY <1>1, <1>2, <1>4, <1>5 DEF Once

(* Nor does a push. *)
LEMMA PushOnce == KeptByPush(Once)
<1> SUFFICES ASSUME NEW t \in Once, NEW u \in Thread, NEW n \in Nodes(t),
                    ThreadOK(u), Reachable(t, n), PushedOn(u, t, n)
             PROVE  u \in Once
  BY DEF KeptByPush
<1>1. t \in Ranked /\ t \in Counted /\ t \in Thread
  BY DEF Once
<1>2. u \in Ranked /\ u \in Counted
  BY <1>1, RankedKept, CountedKept DEF Kept, KeptGrowing, KeptByPush
<1>3. SameTree(u, t)
  BY DEF PushedOn
<1>4. /\ \A k : Outermost(u, k) = Outermost(t, k)
      /\ NoClimb(u) => NoClimb(t)
  BY <1>1, <1>2, <1>3, OutermostSame DEF NoClimb
<1>5. \A i \in Nodes(t) : u.nodes[i].total_time = t.nodes[i].total_time
  <2>1. SUFFICES ASSUME NEW i \in Nodes(t) PROVE u.nodes[i].total_time = t.nodes[i].total_time
    OBVIOUS
  <2>2. t.nodes[i] \in Node
    BY <1>1, NodesAre
  <2>3. u.nodes[i] = IF i = n THEN Visited(t.nodes[i]) ELSE t.nodes[i]
    BY DEF PushedOn
  <2> QED BY <2>2, <2>3 DEF Visited, Node
<1>6. ASSUME NEW k \in Keys, OnceFor(t, k) PROVE OnceFor(u, k)
  <2>1. u.method_table[k].total_time = t.method_table[k].total_time
    <3>1. t.method_table[k] \in Method
      BY <1>1, NodesAre
    <3>2. u.method_table[k] = IF k = KeyOf(t, n) THEN VisitedMethod(t.method_table[k])
                              ELSE t.method_table[k]
      BY DEF PushedOn
    <3> QED BY <3>1, <3>2 DEF VisitedMethod, Visited, Method
  <2>2. \A i \in Outermost(t, k) : i \in Nodes(t)
    BY DEF Outermost, NodesOf
  <2> QED BY <1>1, <1>4, <1>5, <1>6, <2>1, <2>2, OnceStays
<1> QED BY <1>1, <1>2, <1>4, <1>6 DEF Once

(* The visits of the popped frame's method are 1 just when its node is     *)
(* outermost: the other frames are its node's ancestors. Its node has one. *)
LEMMA PoppedVisits ==
  ASSUME NEW t \in Once, NEW u \in Ranked, NEW n \in Nodes(t), PoppedOff(u, t, n)
  PROVE  /\ t.nodes[n].visits = 1
         /\ t.method_table[KeyOf(t, n)].visits = 1 <=> n \in Outermost(t, KeyOf(t, n))
<1> DEFINE k == KeyOf(t, n)
<1>1. /\ t \in Ranked /\ t \in Thread /\ ThreadOK(t) /\ VisitsMatch(t)
      /\ u \in Thread /\ ThreadOK(u) /\ k \in Keys
  BY NodesAre DEF Once, Counted, Ranked
<1>2. /\ SameTree(u, t) /\ StackPushed(t, u, n)
      /\ Nodes(u) = Nodes(t) /\ SameTree(t, u) /\ KeyOf(u, n) = k
  <2>1. SameTree(u, t) /\ StackPushed(t, u, n)
    BY DEF PoppedOff
  <2>2. Nodes(u) = Nodes(t) /\ Nodes(t) = 1 .. Len(t.nodes)
    BY <1>1, <2>1, NodesAre DEF SameTree
  <2> QED BY <2>1, <2>2 DEF SameTree, SameLinks, KeyOf
<1> HIDE DEF k
<1>3. /\ Cardinality(FramesOf(t, n)) = Cardinality(FramesOf(u, n)) + 1
      /\ Cardinality(FramesOf(u, n)) \in Nat
      /\ Cardinality(FramesOfKey(t, k)) = Cardinality(FramesOfKey(u, k)) + 1
      /\ Cardinality(FramesOfKey(u, k)) \in Nat
  BY <1>1, <1>2, FramesPushed
<1>4. /\ Cardinality(FramesOf(t, n)) = t.nodes[n].visits /\ t.nodes[n].visits <= 1
      /\ t.method_table[k].visits = Cardinality(FramesOfKey(t, k))
  BY <1>1 DEF VisitsMatch, FramesOf, FramesOfKey
<1>5. t.nodes[n].visits = 1
  BY <1>3, <1>4
<1>6. t.method_table[k].visits = 1 <=> Cardinality(FramesOfKey(u, k)) = 0
  BY <1>3, <1>4
<1>7. Cardinality(FramesOfKey(u, k)) = 0 <=> FramesOfKey(u, k) = {}
  <2>1. FramesOfKey(u, k) \in SUBSET (1 .. Len(u.stack)) /\ Len(u.stack) \in Nat
    BY <1>1, NodesAre DEF FramesOfKey
  <2>2. IsFiniteSet(FramesOfKey(u, k))
    BY <2>1, OneMore
  <2> QED BY <2>2, FS_EmptySet
<1>8. Reachable(u, n)
  <2> DEFINE N == Len(t.stack)
  <2>1. /\ t.stack \in Seq(Frame) /\ u.stack \in Seq(Frame) /\ N \in Nat
        /\ Len(u.stack) = N - 1 /\ Frames(t) = 1 .. N /\ N \in Frames(t)
        /\ t.stack[N].call_tree = n
        /\ \A i \in 1 .. N - 1 : t.stack[i].call_tree = u.stack[i].call_tree
    BY <1>1, <1>2, NodesAre DEF StackPushed
  <2>2. CASE N = 1
    <3>1. u.stack = <<>>
      BY <2>1, <2>2
    <3>2. n = t.call_tree
      BY <1>1, <2>1, <2>2 DEF ThreadOK, RootPath
    <3> QED BY <1>2, <3>1, <3>2 DEF Reachable, SameTree
  <2>3. CASE N # 1
    <3> DEFINE p == t.stack[N - 1].call_tree
    <3>1. N \in 1 .. N /\ N \in Nat
      BY <2>1
    <3>2. N - 1 \in Nat /\ N - 1 >= 1 /\ N - 1 \in 1 .. N
      <4> HIDE DEF N
      <4> QED BY <2>3, <3>1
    <3>3. N - 1 >= 1 /\ N - 1 \in 1 .. N - 1 /\ N - 1 \in Frames(t)
      <4> HIDE DEF N
      <4> QED BY <2>1, <3>2
    <3>4. u.stack # <<>>
      <4>1. SUFFICES ASSUME u.stack = <<>> PROVE FALSE
        OBVIOUS
      <4>2. Len(u.stack) = 0
        BY <4>1
      <4>3. Len(u.stack) >= 1
        BY <2>1, <3>3
      <4> QED BY <4>2, <4>3
    <3>5. u.stack[N - 1].call_tree = p
      BY <2>1, <3>3
    <3>6. /\ u.stack # <<>> /\ N - 1 \in 1 .. N - 1 /\ N - 1 \in Frames(t)
          /\ Last(u.stack).call_tree = p
      BY <2>1, <3>3, <3>4, <3>5 DEF Last
    <3>7. p \in Nodes(t) /\ t.nodes[p].children[k] = n
      BY <1>1, <2>1, <2>3, <3>6 DEF ThreadOK, RootPath, FrameKey, k
    <3> HIDE DEF p
    <3>8. u.nodes[p].children = t.nodes[p].children
      <4>1. p \in 1 .. Len(t.nodes)
        BY <1>1, <3>7, NodesAre
      <4> QED BY <1>2, <4>1 DEF SameTree, SameLinks
    <3> QED BY <1>2, <3>6, <3>7, <3>8 DEF Reachable
  <2> QED BY <2>2, <2>3
<1>9. ProperAncestors(t, n) = {u.stack[i].call_tree : i \in Frames(u)}
  <2>1. ProperAncestors(u, n) = {u.stack[i].call_tree : i \in Frames(u)}
    BY <1>2, <1>8, FramesAreAncestors
  <2> QED BY <1>1, <1>2, <2>1, OutermostSame
<1>10. n \in Outermost(t, k) <=> FramesOfKey(u, k) = {}
  <2>1. n \in NodesOf(t, k)
    BY DEF NodesOf, k, KeyOf
  <2>2. \A i \in Frames(u) : /\ u.stack[i].call_tree \in Nodes(t)
                             /\ FrameKey(u, i) = t.nodes[u.stack[i].call_tree].method
    <3>1. \A i \in Frames(u) : u.stack[i].call_tree \in Nodes(u)
      BY <1>1 DEF ThreadOK, RootPath
    <3>2. \A i \in Nodes(t) : u.nodes[i].method = t.nodes[i].method
      BY <1>1, <1>2, NodesAre DEF SameTree, SameLinks
    <3> QED BY <1>2, <3>1, <3>2 DEF FrameKey, KeyOf
  <2>3. NodesOf(t, k) \cap ProperAncestors(t, n) = {} <=> FramesOfKey(u, k) = {}
    BY <1>9, <2>2 DEF NodesOf, FramesOfKey
  <2> QED BY <2>1, <2>3 DEF Outermost
<1> QED BY <1>5, <1>6, <1>7, <1>10 DEF k

(* So a pop adds the same total to both or, of a recursive call, to the    *)
(* node alone.                                                             *)
LEMMA PopKeepsOnce == KeptByPop(Once)
<1> SUFFICES ASSUME NEW t \in Once, NEW u \in Thread, NEW n \in Nodes(t),
                    ThreadOK(u), PoppedOff(u, t, n)
             PROVE  u \in Once
  BY DEF KeptByPop
<1>1. t \in Ranked /\ t \in Counted /\ t \in Thread
  BY DEF Once
<1>2. u \in Ranked /\ u \in Counted
  BY <1>1, RankedKept, CountedKept DEF Kept, KeptGrowing, KeptByPop
<1>3. SameTree(u, t)
  BY DEF PoppedOff
<1>4. /\ \A k : Outermost(u, k) = Outermost(t, k)
      /\ NoClimb(u) => NoClimb(t)
  BY <1>1, <1>2, <1>3, OutermostSame DEF NoClimb
<1>5. /\ t.nodes[n].visits = 1
      /\ t.method_table[KeyOf(t, n)].visits = 1 <=> n \in Outermost(t, KeyOf(t, n))
  BY <1>2, PoppedVisits
<1>6. PICK total \in Int, self \in Int, wait \in Int :
        /\ \A i \in Nodes(t) :
             u.nodes[i] = IF i = n THEN Left(t.nodes[i], total, self, wait)
                          ELSE t.nodes[i]
        /\ \A j \in Keys :
             u.method_table[j] = IF j = KeyOf(t, n)
                                 THEN Left(t.method_table[j], total, self, wait)
                                 ELSE t.method_table[j]
  BY DEF PoppedOff
<1>7. \A i \in Nodes(t) : u.nodes[i].total_time
                            = t.nodes[i].total_time + (IF i = n THEN total ELSE 0)
  <2>1. SUFFICES ASSUME NEW i \in Nodes(t)
                 PROVE  u.nodes[i].total_time
                          = t.nodes[i].total_time + (IF i = n THEN total ELSE 0)
    OBVIOUS
  <2>2. t.nodes[i] \in Node
    BY <1>1, NodesAre
  <2>3. u.nodes[i] = IF i = n THEN Left(t.nodes[i], total, self, wait) ELSE t.nodes[i]
    BY <1>6
  <2> QED BY <1>5, <2>2, <2>3 DEF Left, Node
<1>8. ASSUME NEW k \in Keys, OnceFor(t, k) PROVE OnceFor(u, k)
  <2>1. t.method_table[k] \in Method
    BY <1>1, NodesAre
  <2>2. u.method_table[k] = IF k = KeyOf(t, n) THEN Left(t.method_table[k], total, self, wait)
                            ELSE t.method_table[k]
    BY <1>6
  <2>3. n \in Outermost(t, k) => k = KeyOf(t, n)
    BY DEF Outermost, NodesOf, KeyOf
  <2>4. u.method_table[k].total_time
          = t.method_table[k].total_time + (IF n \in Outermost(t, k) THEN total ELSE 0)
    BY <1>5, <2>1, <2>2, <2>3 DEF Left, Method
  <2>5. \A i \in Outermost(t, k) : i \in Nodes(t)
    BY DEF Outermost, NodesOf
  <2> QED BY <1>1, <1>4, <1>7, <1>8, <2>4, <2>5, OnceMoves
<1> QED BY <1>1, <1>2, <1>4, <1>8 DEF Once

(* A new node below the top frame, or the first one, has measured nothing; *)
(* the old ones keep their ancestors.                                      *)
LEMMA GrownOnce ==
  ASSUME NEW t \in Once, NEW u \in Ranked, u \in Counted, NEW k \in Keys, Grown(u, t, k),
         u.nodes[Len(t.nodes) + 1].total_time = 0,
         \A i \in Nodes(t) : u.nodes[i].parent = t.nodes[i].parent
  PROVE  u \in Once
<1> DEFINE x == Len(t.nodes) + 1
<1>1. /\ t \in Ranked /\ t \in Thread /\ u \in Thread
      /\ Nodes(t) = 1 .. Len(t.nodes) /\ Nodes(u) = 1 .. Len(u.nodes)
      /\ Len(t.nodes) \in Nat /\ Len(u.nodes) \in Nat
  BY NodesAre DEF Once, Ranked
<1>2. /\ Nodes(u) = Nodes(t) \cup {x} /\ x \notin Nodes(t)
      /\ \A i \in Nodes(t) : /\ u.nodes[i].method = t.nodes[i].method
                             /\ u.nodes[i].total_time = t.nodes[i].total_time
  BY DEF Grown, SameMeasure
<1>3. \A n \in Nodes(t) : /\ ProperAncestors(u, n) = ProperAncestors(t, n)
                          /\ ProperAncestors(t, n) \subseteq Nodes(t)
  <2>1. Len(t.nodes) <= Len(u.nodes)
    <3>1. x \in 1 .. Len(u.nodes)
      BY <1>1, <1>2
    <3> QED BY <1>1, <3>1
  <2> QED BY <1>1, <1>2, <2>1, AncestorsSame
<1>4. NoClimb(u) => NoClimb(t)
  BY <1>2 DEF NoClimb, Climbed, ChildrenOf
<1>5. u.nodes[x].total_time = 0
  OBVIOUS
<1> HIDE DEF x
<1>6. ASSUME NEW j \in Keys
      PROVE  /\ x \notin Outermost(t, j)
             /\ Outermost(u, j) = Outermost(t, j) \/ Outermost(u, j) = Outermost(t, j) \cup {x}
  <2>1. /\ NodesOf(t, j) \subseteq Nodes(t)
        /\ \A n \in Nodes(t) : n \in NodesOf(u, j) <=> n \in NodesOf(t, j)
        /\ NodesOf(u, j) \subseteq Nodes(t) \cup {x}
    BY <1>2 DEF NodesOf
  <2>2. \A n \in Nodes(t) : n \in Outermost(u, j) <=> n \in Outermost(t, j)
    <3>1. SUFFICES ASSUME NEW n \in Nodes(t)
                   PROVE  n \in Outermost(u, j) <=> n \in Outermost(t, j)
      OBVIOUS
    <3>2. NodesOf(u, j) \cap ProperAncestors(u, n) = NodesOf(t, j) \cap ProperAncestors(t, n)
      BY <1>3, <2>1
    <3> QED BY <2>1, <3>2 DEF Outermost
  <2>3. Outermost(t, j) \subseteq Nodes(t) /\ Outermost(u, j) \subseteq Nodes(t) \cup {x}
    BY <2>1 DEF Outermost
  <2>4. x \notin Outermost(t, j)
    BY <1>2, <2>3
  <2>5. CASE x \in Outermost(u, j)
    <3>1. Outermost(u, j) = Outermost(t, j) \cup {x}
      BY <2>2, <2>3, <2>5
    <3> QED BY <2>4, <3>1
  <2>6. CASE x \notin Outermost(u, j)
    <3>1. Outermost(u, j) = Outermost(t, j)
      BY <2>2, <2>3, <2>6
    <3> QED BY <2>4, <3>1
  <2> QED BY <2>5, <2>6
<1>7. ASSUME NEW j \in Keys, OnceFor(t, j) PROVE OnceFor(u, j)
  <2> DEFINE S == Outermost(t, j)
             f == [n \in S |-> t.nodes[n].total_time]
             g == [n \in Outermost(u, j) |-> u.nodes[n].total_time]
  <2>1. u.method_table[j].total_time = t.method_table[j].total_time
    <3>1. CASE j # k
      BY <3>1 DEF Grown
    <3>2. CASE j = k
      <4>1. u.method_table[k].total_time = t.method_table[k].total_time + 0
        BY DEF Grown
      <4>2. t.method_table[k].total_time \in Int
        BY <1>1, NodesAre DEF Method
      <4> QED BY <3>2, <4>1, <4>2
    <3> QED BY <3>1, <3>2
  <2>2. \A n \in S : u.nodes[n].total_time = t.nodes[n].total_time
    BY <1>2 DEF Outermost, NodesOf
  <2>3. CASE Outermost(u, j) = Outermost(t, j)
    BY <1>1, <1>7, <2>1, <2>2, <2>3, OnceStays
  <2>4. CASE Outermost(u, j) = S \cup {x}
    <3>1. IsFiniteSet(S) /\ f \in [S -> Int]
      BY <1>1, OutermostTyped
    <3>2. g \in [S \cup {x} -> Int]
      BY <1>1, <2>4, OutermostTyped
    <3>3. AddedAt(g, f, S, x) /\ g[x] = 0
      BY <1>5, <1>6, <2>2, <2>4, <3>1, <3>2 DEF AddedAt
    <3>4. /\ OnceFor(t, j) <=> t.method_table[j].total_time = SumFunction(f)
          /\ OnceFor(u, j) <=> u.method_table[j].total_time = SumFunction(g)
      BY DEF OnceFor
    <3> HIDE DEF f, g, S
    <3>5. SumFunction(g) = SumFunction(f) + 0
      BY <3>3, SumAdded
    <3>6. SumFunction(f) \in Int
      BY <3>1, SumType
    <3> QED BY <1>7, <2>1, <3>4, <3>5, <3>6
  <2> QED BY <1>6, <2>3, <2>4
<1> QED BY <1>1, <1>4, <1>7 DEF Once

(* Every operation keeps it; a climb does because there it says nothing.   *)
LEMMA OnceKept == Kept(Once)
<1>1. \A t \in Once : t \in Ranked /\ t \in Counted /\ t \in Thread /\ ThreadOK(t)
  BY DEF Once, Ranked
<1>2. KeptBelow(Once)
  <2>1. SUFFICES ASSUME NEW t \in Once, NEW u \in Thread, NEW k \in Keys, ThreadOK(u),
                        t.stack # <<>>, t.method_table[k].created,
                        GrownBelow(u, t, k, Last(t.stack).call_tree)
                 PROVE  u \in Once
    BY DEF KeptBelow
  <2>2. u \in Ranked
    BY <1>1, <2>1, RankedKept DEF Kept, KeptGrowing, KeptBelow
  <2>3. u \in Counted
    BY <1>1, <2>1, CountedKept DEF Kept, KeptGrowing, KeptBelow
  <2> QED BY <2>1, <2>2, <2>3, GrownOnce DEF GrownBelow
<1>3. KeptAbove(Once)
  <2>1. SUFFICES ASSUME NEW t \in Once, NEW u \in Thread, NEW k \in Keys, ThreadOK(u),
                        t.stack = <<>>, t.method_table[k].created, GrownAbove(u, t, k)
                 PROVE  u \in Once
    BY DEF KeptAbove
  <2>2. u \in Ranked
    BY <1>1, <2>1, RankedKept DEF Kept, KeptGrowing, KeptAbove
  <2>3. u \in Counted
    BY <1>1, <2>1, CountedKept DEF Kept, KeptGrowing, KeptAbove
  <2>4. Nodes(t) = 1 .. Len(t.nodes) /\ Len(t.nodes) \in Nat
    BY <1>1, NodesAre
  <2>5. CASE t.call_tree = NULL
    <3>1. \A i \in Nodes(t) : u.nodes[i].parent = t.nodes[i].parent
      BY <2>1, <2>4, <2>5 DEF GrownAbove, NULL
    <3>2. u.nodes[Len(t.nodes) + 1].total_time = 0
      BY <2>1, <2>5 DEF GrownAbove
    <3> QED BY <2>1, <2>2, <2>3, <3>1, <3>2, GrownOnce DEF GrownAbove
  <2>6. CASE t.call_tree # NULL
    <3> DEFINE r == t.call_tree
               x == Len(t.nodes) + 1
    <3>1. r \in Nodes(t)
      BY <1>1, <2>6 DEF ThreadOK, RootedTree
    <3>2. u.nodes[r].parent = x /\ r \in Nodes(u) /\ x \in Nodes(u)
      BY <2>1, <3>1 DEF GrownAbove, Grown
    <3>3. r < x
      BY <2>4, <3>1
    <3> HIDE DEF r, x
    <3>4. ~NoClimb(u)
      BY <3>2, <3>3 DEF NoClimb, Climbed, ChildrenOf
    <3> QED BY <2>2, <2>3, <3>4 DEF Once
  <2> QED BY <2>5, <2>6
<1> QED BY <1>1, <1>2, <1>3, NewOnce, AlikeOnce, PushOnce, PopKeepsOnce DEF Kept, KeptGrowing

(* However calls recur, directly or through others, and fibers interleave: *)
(* as long as the profile has not climbed above where it started, the      *)
(* total of a method counts each time span once, that of its outermost     *)
(* call trees.                                                             *)
THEOREM MethodTotalsAlwaysCountOnce == Spec => []MethodTotalsCountOnceBelowStart
<1>1. Init => TableIn(Once, threads)
  BY OnceKept, KeptIsInductive
<1>2. IInv /\ TableIn(Once, threads) /\ [Next]_vars => TableIn(Once, threads)'
  <2>1. SUFFICES ASSUME IInv, TableIn(Once, threads), [Next]_vars
                 PROVE  TableIn(Once, threads')
    BY DEF TableIn, Once
  <2> QED BY <2>1, OnceKept, KeptIsInductive
<1>3. TableIn(Once, threads) => MethodTotalsCountOnceBelowStart
  BY DEF TableIn, Once, OnceFor, NoClimb, TotalIsOutermost,
         MethodTotalsCountOnceBelowStart, EveryThread
<1> QED BY <1>1, <1>2, <1>3, ProfileIsWellFormed, PTL DEF Spec

-----------------------------------------------------------------------------
(* The times of a node and of its children. *)

(* The sums that BalancedNode is stated with. *)
Below(t, n) == [c \in ChildrenOf(t, n) |-> t.nodes[c].total_time]
Open(t, n) == [i \in FramesOf(t, n) |-> t.stack[i].child_time]
Older(t, n) == {c \in ChildrenOf(t, n) : c < n}
Carried(t, n) == [c \in Older(t, n) |-> t.nodes[c].wait_time]

(* What the node's own times and its children's are more than its total.   *)
Surplus(t, n) ==
  t.nodes[n].self_time + t.nodes[n].wait_time
    + SumFunction(Below(t, n)) - SumFunction(Open(t, n)) - t.nodes[n].total_time

(* BalancedNode asks that the surplus of a node is nothing, or wait time a *)
(* node above took over from the one it was put on.                        *)
LEMMA BalancedMeans ==
  ASSUME NEW t, NEW n
  PROVE  BalancedNode(t, n) <=>
           IF Climbed(t, n) THEN Surplus(t, n) \in 0 .. SumFunction(Carried(t, n))
           ELSE Surplus(t, n) = 0
BY DEF BalancedNode, Surplus, Below, Open, OpenChildTime, Older, Carried

(* They are sums of finitely many integers. *)
LEMMA BalanceTyped ==
  ASSUME NEW t \in Thread, NEW n
  PROVE  /\ IsFiniteSet(ChildrenOf(t, n)) /\ Below(t, n) \in [ChildrenOf(t, n) -> Int]
         /\ IsFiniteSet(FramesOf(t, n)) /\ Open(t, n) \in [FramesOf(t, n) -> Int]
         /\ IsFiniteSet(Older(t, n)) /\ Carried(t, n) \in [Older(t, n) -> Int]
         /\ SumFunction(Below(t, n)) \in Int
         /\ SumFunction(Open(t, n)) \in Int
         /\ SumFunction(Carried(t, n)) \in Int
<1>1. /\ Nodes(t) = 1 .. Len(t.nodes) /\ Len(t.nodes) \in Nat
      /\ Frames(t) = 1 .. Len(t.stack) /\ Len(t.stack) \in Nat
      /\ \A i \in Nodes(t) : t.nodes[i] \in Node
      /\ \A i \in Frames(t) : t.stack[i] \in Frame
  BY NodesAre
<1>2. /\ ChildrenOf(t, n) \in SUBSET (1 .. Len(t.nodes))
      /\ FramesOf(t, n) \in SUBSET (1 .. Len(t.stack))
      /\ Older(t, n) \in SUBSET (1 .. Len(t.nodes))
  BY <1>1 DEF ChildrenOf, FramesOf, Older
<1>3. IsFiniteSet(1 .. Len(t.nodes)) /\ IsFiniteSet(1 .. Len(t.stack))
  <2>1. \A b \in Int : IsFiniteSet(1 .. b)
    BY FS_Interval
  <2>2. Len(t.nodes) \in Int /\ Len(t.stack) \in Int
    BY <1>1
  <2> QED BY <2>1, <2>2
<1>4. IsFiniteSet(ChildrenOf(t, n)) /\ IsFiniteSet(FramesOf(t, n)) /\ IsFiniteSet(Older(t, n))
  BY <1>2, <1>3, FS_Subset
<1>5. /\ \A i \in Nodes(t) : t.nodes[i].total_time \in Int /\ t.nodes[i].wait_time \in Int
      /\ \A i \in Frames(t) : t.stack[i].child_time \in Int
  BY <1>1 DEF Node, Frame
<1>6. /\ Below(t, n) \in [ChildrenOf(t, n) -> Int]
      /\ Open(t, n) \in [FramesOf(t, n) -> Int]
      /\ Carried(t, n) \in [Older(t, n) -> Int]
  BY <1>1, <1>2, <1>5 DEF Below, Open, Carried
<1>7. SumFunction(Below(t, n)) \in Int
  BY <1>4, <1>6, SumType
<1>8. SumFunction(Open(t, n)) \in Int
  BY <1>4, <1>6, SumType
<1>9. SumFunction(Carried(t, n)) \in Int
  BY <1>4, <1>6, SumType
<1> QED BY <1>4, <1>6, <1>7, <1>8, <1>9

(* A node stays balanced when its surplus does not change and what it may  *)
(* be does not get less.                                                   *)
LEMMA BalanceStays ==
  ASSUME NEW t \in Thread, NEW u \in Thread, NEW n, BalancedNode(t, n),
         Climbed(u, n) <=> Climbed(t, n),
         Surplus(u, n) = Surplus(t, n),
         SumFunction(Carried(u, n)) >= SumFunction(Carried(t, n))
  PROVE  BalancedNode(u, n)
<1>1. SumFunction(Carried(u, n)) \in Int /\ SumFunction(Carried(t, n)) \in Int
  BY BalanceTyped
<1>2. CASE Climbed(t, n)
  <2>1. Surplus(t, n) \in 0 .. SumFunction(Carried(t, n))
    BY <1>2, BalancedMeans
  <2>2. Surplus(t, n) \in 0 .. SumFunction(Carried(u, n))
    BY <1>1, <2>1
  <2> QED BY <1>2, <2>2, BalancedMeans
<1>3. CASE ~Climbed(t, n)
  BY <1>3, BalancedMeans
<1> QED BY <1>2, <1>3

(* What its surplus and what it may be depend on. *)
LEMMA SameBalance ==
  ASSUME NEW t \in Thread, NEW u \in Thread, NEW n, BalancedNode(t, n),
         SameMeasure(u.nodes[n], t.nodes[n]),
         ChildrenOf(u, n) = ChildrenOf(t, n),
         \A c \in ChildrenOf(t, n) : SameMeasure(u.nodes[c], t.nodes[c]),
         SumFunction(Open(u, n)) = SumFunction(Open(t, n))
  PROVE  BalancedNode(u, n)
<1>1. Below(u, n) = Below(t, n)
  BY DEF Below, SameMeasure
<1>2. Older(u, n) = Older(t, n) /\ (Climbed(u, n) <=> Climbed(t, n))
  BY DEF Older, Climbed
<1>3. Carried(u, n) = Carried(t, n)
  BY <1>2 DEF Carried, Older, SameMeasure
<1>4. Surplus(u, n) = Surplus(t, n)
  BY <1>1 DEF Surplus, SameMeasure
<1>5. SumFunction(Carried(u, n)) >= SumFunction(Carried(t, n))
  <2>1. SumFunction(Carried(t, n)) \in Int
    BY BalanceTyped
  <2> QED BY <1>3, <2>1
<1> QED BY <1>2, <1>4, <1>5, BalanceStays

-----------------------------------------------------------------------------
(* Balanced threads. *)

(* Waits are not negative, because they begin before they end.             *)
WaitsPositive(t, m) ==
  /\ \A i \in Frames(t) : t.stack[i].wait_time >= 0 /\ t.stack[i].switch_time <= m
  /\ \A n \in Nodes(t) : t.nodes[n].wait_time >= 0

Balanced(m) ==
  {t \in Thread : /\ t \in Counted
                  /\ WaitsPositive(t, m)
                  /\ \A n \in Nodes(t) : BalancedNode(t, n)}

(* Time passes. *)
LEMMA LaterBalanced ==
  ASSUME NEW m \in Nat, NEW l \in Nat, m <= l, NEW t \in Balanced(m)
  PROVE  t \in Balanced(l)
<1>1. t \in Thread /\ t \in Counted /\ \A n \in Nodes(t) : BalancedNode(t, n)
  BY DEF Balanced
<1>2. WaitsPositive(t, m)
  BY DEF Balanced
<1>3. \A i \in Frames(t) : t.stack[i].switch_time \in Nat
  <2>1. \A i \in Frames(t) : t.stack[i] \in Frame
    BY <1>1, NodesAre
  <2> QED BY <2>1 DEF Frame
<1>4. WaitsPositive(t, l)
  BY <1>2, <1>3 DEF WaitsPositive
<1> QED BY <1>1, <1>4 DEF Balanced

(* A new thread has nothing to balance. *)
LEMMA NewBalanced ==
  ASSUME NEW m, NEW trace \in BOOLEAN
  PROVE  thread_data_create(trace) \in Balanced(m)
<1> DEFINE t == thread_data_create(trace)
<1>1. t \in Counted
  BY NewCounted
<1>2. t.nodes = <<>> /\ t.stack = <<>>
  BY DEF thread_data_create
<1> HIDE DEF t
<1>3. Nodes(t) = {} /\ Frames(t) = {}
  BY <1>2 DEF Nodes, Frames
<1>4. WaitsPositive(t, m) /\ \A n \in Nodes(t) : BalancedNode(t, n)
  BY <1>3 DEF WaitsPositive
<1>5. t \in Thread
  BY <1>1 DEF Counted
<1> QED BY <1>1, <1>4, <1>5 DEF Balanced, t

(* A switch or a pause changes what is waited for, and no node.            *)
LEMMA AlikeBalanced ==
  ASSUME NEW m \in Nat, NEW t \in Balanced(m), NEW u, ThreadOK(u), AlikeAt(u, t, m)
  PROVE  u \in Balanced(m)
<1>1. /\ t \in Thread /\ t \in Counted /\ WaitsPositive(t, m)
      /\ \A n \in Nodes(t) : BalancedNode(t, n)
  BY DEF Balanced
<1>2. u \in Thread /\ Alike(u, t) /\ \A i \in Frames(t) : Touched(u.stack[i], t.stack[i], m)
  BY DEF AlikeAt, Alike
<1>3. u \in Counted
  BY <1>1, <1>2, CountedKept DEF Kept, KeptAlike
<1>4. /\ u.nodes = t.nodes /\ Nodes(u) = Nodes(t)
      /\ Frames(t) = 1 .. Len(t.stack) /\ Frames(u) = Frames(t)
      /\ \A i \in Frames(t) : u.stack[i].call_tree = t.stack[i].call_tree
  BY <1>1, <1>2, NodesAre DEF Alike, Nodes
<1>5. \A i \in Frames(t) : t.stack[i] \in Frame /\ u.stack[i] \in Frame
  BY <1>1, <1>2, <1>4, NodesAre
<1>6. WaitsPositive(u, m)
  <2>1. SUFFICES ASSUME NEW i \in Frames(t)
                 PROVE  u.stack[i].wait_time >= 0 /\ u.stack[i].switch_time <= m
    BY <1>1, <1>4 DEF WaitsPositive
  <2>2. t.stack[i].wait_time >= 0 /\ t.stack[i].switch_time <= m
    BY <1>1 DEF WaitsPositive
  <2>3. t.stack[i].wait_time \in Int /\ t.stack[i].switch_time \in Nat
    BY <1>5 DEF Frame
  <2>4. Touched(u.stack[i], t.stack[i], m)
    BY <1>2
  <2>5. \/ /\ u.stack[i].wait_time = t.stack[i].wait_time
           /\ u.stack[i].switch_time = t.stack[i].switch_time
        \/ u.stack[i].wait_time = t.stack[i].wait_time /\ u.stack[i].switch_time = m
        \/ /\ u.stack[i].wait_time = t.stack[i].wait_time + (m - t.stack[i].switch_time)
           /\ u.stack[i].switch_time = 0
    BY <2>4 DEF Touched, SameTimes, Switched
  <2> QED BY <2>2, <2>3, <2>5
<1>7. ASSUME NEW n \in Nodes(t) PROVE BalancedNode(u, n)
  <2>1. BalancedNode(t, n)
    BY <1>1
  <2>2. ChildrenOf(u, n) = ChildrenOf(t, n) /\ FramesOf(u, n) = FramesOf(t, n)
    BY <1>4 DEF ChildrenOf, FramesOf
  <2>3. Open(u, n) = Open(t, n)
    <3>1. \A i \in FramesOf(t, n) : u.stack[i].child_time = t.stack[i].child_time
      BY <1>2 DEF FramesOf, Touched, SameTimes, Switched
    <3> QED BY <2>2, <3>1 DEF Open
  <2>4. \A i : SameMeasure(u.nodes[i], t.nodes[i])
    BY <1>4 DEF SameMeasure
  <2> QED BY <1>1, <1>2, <2>1, <2>2, <2>3, <2>4, SameBalance
<1> QED BY <1>2, <1>3, <1>4, <1>6, <1>7 DEF Balanced

(* The frame that a push puts on top has no child_time yet.                *)
LEMMA PushBalanced ==
  ASSUME NEW m \in Nat, NEW t \in Balanced(m), NEW u, ThreadOK(u),
         NEW n \in Nodes(t), Reachable(t, n), PushedAt(u, t, n, m)
  PROVE  u \in Balanced(m)
<1>1. /\ t \in Thread /\ t \in Counted /\ WaitsPositive(t, m)
      /\ \A x \in Nodes(t) : BalancedNode(t, x)
  BY DEF Balanced
<1>2. /\ u \in Thread /\ PushedOn(u, t, n) /\ SameTree(u, t) /\ StackPushed(u, t, n)
      /\ \A i \in Frames(t) : SameTimes(u.stack[i], t.stack[i], m)
      /\ StartsAt(u.stack[Len(u.stack)], m)
  BY DEF PushedAt, PushedOn
<1>3. u \in Counted
  BY <1>1, <1>2, CountedKept DEF Kept, KeptByPush
<1> DEFINE N == Len(t.stack)
<1>4. /\ N \in Nat /\ Frames(t) = 1 .. N /\ Frames(u) = 1 .. N + 1
      /\ Nodes(t) = 1 .. Len(t.nodes) /\ Nodes(u) = Nodes(t)
  BY <1>1, <1>2, NodesAre DEF SameTree, StackPushed
<1>5. /\ \A i \in Frames(t) : u.stack[i].call_tree = t.stack[i].call_tree
      /\ u.stack[N + 1].call_tree = n
      /\ StartsAt(u.stack[N + 1], m)
  BY <1>2, <1>4 DEF StackPushed
<1> HIDE DEF N
<1>6. \A i \in Nodes(t) : /\ u.nodes[i].total_time = t.nodes[i].total_time
                          /\ u.nodes[i].self_time = t.nodes[i].self_time
                          /\ u.nodes[i].wait_time = t.nodes[i].wait_time
                          /\ u.nodes[i].parent = t.nodes[i].parent
  <2>1. SUFFICES ASSUME NEW i \in Nodes(t)
                 PROVE  /\ u.nodes[i].total_time = t.nodes[i].total_time
                        /\ u.nodes[i].self_time = t.nodes[i].self_time
                        /\ u.nodes[i].wait_time = t.nodes[i].wait_time
                        /\ u.nodes[i].parent = t.nodes[i].parent
    OBVIOUS
  <2>2. t.nodes[i] \in Node
    BY <1>1, NodesAre
  <2>3. u.nodes[i] = Visited(t.nodes[i]) \/ u.nodes[i] = t.nodes[i]
    BY <1>2 DEF PushedOn
  <2> QED BY <2>2, <2>3 DEF Visited, Node
<1>7. WaitsPositive(u, m)
  <2>1. \A i \in Frames(u) : i \in Frames(t) \/ i = N + 1
    BY <1>4
  <2>2. \A i \in Frames(t) : u.stack[i].wait_time >= 0 /\ u.stack[i].switch_time <= m
    BY <1>1, <1>2 DEF WaitsPositive, SameTimes
  <2>3. u.stack[N + 1].wait_time >= 0 /\ u.stack[N + 1].switch_time <= m
    BY <1>5 DEF StartsAt
  <2> QED BY <1>1, <1>4, <1>6, <2>1, <2>2, <2>3 DEF WaitsPositive
<1>8. ASSUME NEW x \in Nodes(t) PROVE BalancedNode(u, x)
  <2>1. BalancedNode(t, x)
    BY <1>1
  <2>2. ChildrenOf(u, x) = ChildrenOf(t, x) /\ \A c \in ChildrenOf(t, x) : c \in Nodes(t)
    BY <1>4, <1>6 DEF ChildrenOf
  <2>3. /\ IsFiniteSet(FramesOf(t, x))
        /\ Open(t, x) \in [FramesOf(t, x) -> Int]
        /\ Open(u, x) \in [FramesOf(u, x) -> Int]
        /\ SumFunction(Open(t, x)) \in Int
    BY <1>1, <1>2, BalanceTyped
  <2>4. N + 1 \notin FramesOf(t, x)
    BY <1>4 DEF FramesOf
  <2>5. \A i \in FramesOf(t, x) : u.stack[i].child_time = t.stack[i].child_time
    BY <1>2 DEF FramesOf, SameTimes
  <2>6. SumFunction(Open(u, x)) = SumFunction(Open(t, x))
    <3>1. ASSUME x # n PROVE Open(u, x) = Open(t, x)
      <4>1. FramesOf(u, x) = FramesOf(t, x)
        BY <1>4, <1>5, <3>1 DEF FramesOf
      <4> QED BY <2>5, <4>1 DEF Open
    <3>2. CASE x = n
      <4>1. FramesOf(u, x) = FramesOf(t, x) \cup {N + 1}
        BY <1>4, <1>5, <3>2 DEF FramesOf
      <4>2. \A i \in FramesOf(t, x) : Open(u, x)[i] = Open(t, x)[i]
        BY <2>5, <4>1 DEF Open
      <4>3. AddedAt(Open(u, x), Open(t, x), FramesOf(t, x), N + 1)
        BY <2>3, <2>4, <4>1, <4>2 DEF AddedAt
      <4>4. Open(u, x)[N + 1] = 0
        BY <1>5, <4>1 DEF Open, StartsAt
      <4> QED BY <2>3, <4>3, <4>4, SumAdded
    <3> QED BY <3>1, <3>2
  <2>7. Below(u, x) = Below(t, x)
    BY <1>6, <2>2 DEF Below
  <2>8. Carried(u, x) = Carried(t, x) /\ (Climbed(u, x) <=> Climbed(t, x))
    BY <1>6, <2>2 DEF Carried, Older, Climbed
  <2>9. Surplus(u, x) = Surplus(t, x)
    BY <1>6, <2>6, <2>7 DEF Surplus
  <2>10. SumFunction(Carried(u, x)) >= SumFunction(Carried(t, x))
    <3>1. SumFunction(Carried(t, x)) \in Int
      BY <1>1, BalanceTyped
    <3> QED BY <2>8, <3>1
  <2> QED BY <1>1, <1>2, <2>1, <2>8, <2>9, <2>10, BalanceStays
<1> QED BY <1>2, <1>3, <1>4, <1>7, <1>8 DEF Balanced

(* A node that is popped is on the stack once, and not its own parent.     *)
LEMMA PoppedOnce ==
  ASSUME NEW t \in Counted, NEW u \in Thread, NEW n \in Nodes(t), PoppedOff(u, t, n)
  PROVE  /\ t.nodes[n].visits = 1
         /\ FramesOf(t, n) = {Len(t.stack)} /\ FramesOf(u, n) = {}
         /\ \A x \in Nodes(t) : n \in ChildrenOf(t, x) <=> Len(u.stack) \in FramesOf(t, x)
<1>1. /\ t \in Thread /\ ThreadOK(t) /\ VisitsMatch(t)
      /\ SameTree(u, t) /\ StackPushed(t, u, n)
  BY DEF Counted, PoppedOff
<1> DEFINE N == Len(t.stack)
<1>2. /\ N \in Nat /\ N >= 1 /\ Len(u.stack) = N - 1
      /\ Frames(t) = 1 .. N /\ Frames(u) = 1 .. N - 1
      /\ Nodes(t) = 1 .. Len(t.nodes)
  <2>1. Len(t.stack) = Len(u.stack) + 1 /\ Len(u.stack) \in Nat
    BY <1>1, NodesAre DEF StackPushed
  <2> QED BY <1>1, <2>1, NodesAre
<1>3. /\ t.stack[N].call_tree = n
      /\ \A i \in 1 .. N - 1 : t.stack[i].call_tree = u.stack[i].call_tree
  BY <1>1, <1>2 DEF StackPushed
<1>4. /\ IsFiniteSet(FramesOf(t, n)) /\ Cardinality(FramesOf(t, n)) = t.nodes[n].visits
      /\ t.nodes[n].visits <= 1 /\ Cardinality(FramesOf(t, n)) \in Nat
  <2>1. IsFiniteSet(FramesOf(t, n))
    BY <1>1, BalanceTyped
  <2>2. Cardinality(FramesOf(t, n)) \in Nat
    BY <2>1, FS_CardinalityType
  <2> QED BY <1>1, <2>1, <2>2 DEF VisitsMatch
<1> HIDE DEF N
<1>5. N \in FramesOf(t, n)
  BY <1>2, <1>3 DEF FramesOf
<1>6. t.nodes[n].visits = 1
  <2>1. FramesOf(t, n) # {}
    BY <1>5
  <2>2. Cardinality(FramesOf(t, n)) # 0
    BY <1>4, <2>1, FS_EmptySet
  <2> QED BY <1>4, <2>2
<1>7. FramesOf(t, n) = {N}
  BY <1>4, <1>5, AtMostOne
<1>8. FramesOf(u, n) = {}
  BY <1>2, <1>3, <1>7 DEF FramesOf
<1>9. ASSUME NEW x \in Nodes(t)
      PROVE  n \in ChildrenOf(t, x) <=> Len(u.stack) \in FramesOf(t, x)
  <2>1. n \in ChildrenOf(t, x) <=> t.nodes[n].parent = x
    BY DEF ChildrenOf
  <2>2. CASE N = 1
    <3>1. n = t.call_tree /\ t.nodes[n].parent = NULL
      BY <1>1, <1>2, <1>3, <2>2 DEF ThreadOK, RootPath, RootedTree, LinkedNode
    <3>2. x # NULL
      BY <1>2 DEF NULL
    <3>3. Len(u.stack) \notin FramesOf(t, x)
      BY <1>2, <2>2 DEF FramesOf
    <3> QED BY <2>1, <3>1, <3>2, <3>3
  <2>3. CASE N # 1
    <3>1. N \in Frames(t) /\ N - 1 \in Frames(t)
      BY <1>2, <2>3
    <3>2. t.nodes[n].parent = t.stack[N - 1].call_tree
      BY <1>1, <1>3, <2>3, <3>1, ParentBelow
    <3>3. N - 1 \in FramesOf(t, x) <=> t.stack[N - 1].call_tree = x
      BY <3>1 DEF FramesOf
    <3> QED BY <1>2, <2>1, <3>2, <3>3
  <2> QED BY <2>2, <2>3
<1> QED BY <1>6, <1>7, <1>8, <1>9 DEF N

(* A pop moves the times of the frame into its node, and its total into    *)
(* the child_time of the parent frame, that is into its parent's surplus   *)
(* on both sides.                                                          *)
LEMMA PopBalanced ==
  ASSUME NEW m \in Nat, NEW t \in Balanced(m), t.stack # <<>>, NEW u, ThreadOK(u),
         NEW n \in Nodes(t), PoppedAt(u, t, n, m)
  PROVE  u \in Balanced(m)
<1> DEFINE N     == Len(t.stack)
           top   == t.stack[Len(t.stack)]
           dead  == DeadAt(top, m)
           total == m - top.start_time - dead
           wait  == top.wait_time
           self  == total - top.child_time - wait
<1>1. /\ t \in Thread /\ t \in Counted /\ ThreadOK(t) /\ WaitsPositive(t, m)
      /\ \A x \in Nodes(t) : BalancedNode(t, x)
  BY DEF Balanced, Counted
<1>2. PoppedOff(u, t, n)
  BY <1>1, PoppedAtIs
<1>3. /\ u \in Thread /\ SameTree(u, t) /\ StackPushed(t, u, n)
      /\ \A i \in Frames(u) :
           u.stack[i] = IF i = Len(u.stack) THEN Credited(t.stack[i], total, dead)
                        ELSE t.stack[i]
      /\ \A i \in Nodes(t) :
           u.nodes[i] = IF i = n THEN Left(t.nodes[i], total, self, wait)
                        ELSE t.nodes[i]
  BY DEF PoppedAt
<1>4. u \in Counted
  BY <1>1, <1>2, <1>3, CountedKept DEF Kept, KeptByPop
<1>5. /\ N \in Nat /\ Len(u.stack) = N - 1 /\ N >= 1
      /\ Frames(t) = 1 .. N /\ Frames(u) = 1 .. N - 1
      /\ Nodes(t) = 1 .. Len(t.nodes) /\ Nodes(u) = Nodes(t)
  <2>1. Len(t.stack) = Len(u.stack) + 1 /\ Len(u.stack) \in Nat
    BY <1>3, NodesAre DEF StackPushed
  <2> QED BY <1>1, <1>3, <2>1, NodesAre DEF SameTree
<1>6. /\ t.nodes[n].visits = 1
      /\ FramesOf(t, n) = {N} /\ FramesOf(u, n) = {}
      /\ \A x \in Nodes(t) : n \in ChildrenOf(t, x) <=> N - 1 \in FramesOf(t, x)
  <2>1. /\ t.nodes[n].visits = 1
        /\ FramesOf(t, n) = {Len(t.stack)} /\ FramesOf(u, n) = {}
        /\ \A x \in Nodes(t) : n \in ChildrenOf(t, x) <=> Len(u.stack) \in FramesOf(t, x)
    BY <1>1, <1>2, <1>3, PoppedOnce
  <2> QED BY <1>5, <2>1
<1>7. \A i \in Frames(t) : /\ t.stack[i] \in Frame
                           /\ t.stack[i].child_time \in Int
                           /\ t.stack[i].dead_time \in Int
  <2>1. \A i \in Frames(t) : t.stack[i] \in Frame
    BY <1>1, NodesAre
  <2> QED BY <2>1 DEF Frame
<1>8. /\ dead \in Int /\ total \in Int /\ wait \in Int /\ self \in Int
      /\ top.child_time \in Int /\ wait >= 0 /\ self + wait = total - top.child_time
  <2>1. top \in Frame /\ N \in Frames(t)
    BY <1>5, <1>7
  <2>2. /\ top.start_time \in Nat /\ top.wait_time \in Int /\ top.child_time \in Int
        /\ top.dead_time \in Int /\ top.pause_time \in Int
    BY <2>1 DEF Frame
  <2>3. dead \in Int
    BY <2>2 DEF DeadAt
  <2>4. wait >= 0
    BY <1>1, <2>1 DEF WaitsPositive
  <2>5. total \in Int
    <3> HIDE DEF top, dead
    <3> QED BY <2>2, <2>3
  <2> DEFINE child == top.child_time
  <2>6. self = total - child - wait /\ child \in Int /\ wait \in Int
    BY <2>2
  <2> HIDE DEF top, dead, wait, total, self, child
  <2>7. self \in Int /\ self + wait = total - child
    BY <2>5, <2>6
  <2> QED BY <2>2, <2>3, <2>4, <2>5, <2>6, <2>7 DEF child
<1>9. \A i \in Nodes(t) : /\ t.nodes[i].total_time \in Int /\ t.nodes[i].self_time \in Int
                          /\ t.nodes[i].wait_time \in Int
  <2>1. \A i \in Nodes(t) : t.nodes[i] \in Node
    BY <1>1, NodesAre
  <2> QED BY <2>1 DEF Node
<1> HIDE DEF N, dead, total, wait, self, top
<1>10. /\ \A i \in Nodes(t) : /\ i # n => SameMeasure(u.nodes[i], t.nodes[i])
                              /\ u.nodes[i].parent = t.nodes[i].parent
       /\ u.nodes[n].total_time = t.nodes[n].total_time + total
       /\ u.nodes[n].self_time = t.nodes[n].self_time + self
       /\ u.nodes[n].wait_time = t.nodes[n].wait_time + wait
  <2>1. \A i \in Nodes(t) : t.nodes[i] \in Node
    BY <1>1, NodesAre
  <2>2. u.nodes[n] = Left(t.nodes[n], total, self, wait)
    BY <1>3
  <2>3. \A i \in Nodes(t) : i # n => u.nodes[i] = t.nodes[i]
    BY <1>3
  <2>4. \A i \in Nodes(t) : u.nodes[i].parent = t.nodes[i].parent
    BY <1>3, <1>5 DEF SameTree, SameLinks
  <2>5. t.nodes[n] \in Node
    BY <2>1
  <2> QED BY <1>6, <2>2, <2>3, <2>4, <2>5 DEF Left, Node, SameMeasure
<1>11. \A i \in Frames(u) :
          /\ i \in Frames(t)
          /\ u.stack[i].call_tree = t.stack[i].call_tree
          /\ u.stack[i].wait_time = t.stack[i].wait_time
          /\ u.stack[i].switch_time = t.stack[i].switch_time
          /\ u.stack[i].child_time = t.stack[i].child_time + (IF i = N - 1 THEN total ELSE 0)
  <2>1. SUFFICES ASSUME NEW i \in Frames(u)
                 PROVE  /\ i \in Frames(t)
                        /\ u.stack[i].call_tree = t.stack[i].call_tree
                        /\ u.stack[i].wait_time = t.stack[i].wait_time
                        /\ u.stack[i].switch_time = t.stack[i].switch_time
                        /\ u.stack[i].child_time
                             = t.stack[i].child_time + (IF i = N - 1 THEN total ELSE 0)
    OBVIOUS
  <2>2. i \in Frames(t)
    BY <1>5
  <2>3. t.stack[i] \in Frame /\ t.stack[i].child_time \in Int
    BY <1>7, <2>2
  <2>4. u.stack[i] = IF i = N - 1 THEN Credited(t.stack[i], total, dead) ELSE t.stack[i]
    BY <1>3, <1>5
  <2>5. CASE i = N - 1
    <3>1. u.stack[i] = Credited(t.stack[i], total, dead)
      BY <2>4, <2>5
    <3>2. /\ u.stack[i].call_tree = t.stack[i].call_tree
          /\ u.stack[i].wait_time = t.stack[i].wait_time
          /\ u.stack[i].switch_time = t.stack[i].switch_time
          /\ u.stack[i].child_time = t.stack[i].child_time + total
      BY <2>3, <3>1 DEF Credited, Frame
    <3> QED BY <2>2, <2>5, <3>2
  <2>6. CASE i # N - 1
    <3>1. u.stack[i] = t.stack[i]
      BY <2>4, <2>6
    <3> QED BY <2>2, <2>3, <2>6, <3>1
  <2> QED BY <2>5, <2>6
<1>12. WaitsPositive(u, m)
  <2>1. \A i \in Frames(u) : u.stack[i].wait_time >= 0 /\ u.stack[i].switch_time <= m
    BY <1>1, <1>11 DEF WaitsPositive
  <2>2. ASSUME NEW i \in Nodes(t) PROVE u.nodes[i].wait_time >= 0
    <3>1. t.nodes[i].wait_time >= 0 /\ t.nodes[i].wait_time \in Int
      BY <1>1, <1>9 DEF WaitsPositive
    <3>2. u.nodes[i].wait_time = t.nodes[i].wait_time + wait
          \/ u.nodes[i].wait_time = t.nodes[i].wait_time
      BY <1>10 DEF SameMeasure
    <3> DEFINE a == u.nodes[i].wait_time
               b == t.nodes[i].wait_time
    <3>3. b \in Int /\ b >= 0 /\ wait \in Int /\ wait >= 0 /\ (a = b + wait \/ a = b)
      BY <1>8, <3>1, <3>2
    <3> HIDE DEF a, b
    <3>4. a >= 0
      BY <3>3
    <3> QED BY <3>4 DEF a
  <2> QED BY <1>5, <2>1, <2>2 DEF WaitsPositive
<1>13. ASSUME NEW x \in Nodes(t) PROVE BalancedNode(u, x)
  <2>1. BalancedNode(t, x)
    BY <1>1
  <2>2. /\ ChildrenOf(u, x) = ChildrenOf(t, x) /\ Older(u, x) = Older(t, x)
        /\ \A c \in ChildrenOf(t, x) : c \in Nodes(t)
        /\ \A c \in Older(t, x) : c \in ChildrenOf(t, x)
        /\ Climbed(u, x) <=> Climbed(t, x)
    BY <1>5, <1>10 DEF ChildrenOf, Older, Climbed
  <2>3. /\ IsFiniteSet(ChildrenOf(t, x)) /\ Below(t, x) \in [ChildrenOf(t, x) -> Int]
        /\ IsFiniteSet(FramesOf(t, x)) /\ Open(t, x) \in [FramesOf(t, x) -> Int]
        /\ IsFiniteSet(Older(t, x)) /\ Carried(t, x) \in [Older(t, x) -> Int]
        /\ SumFunction(Below(t, x)) \in Int
        /\ SumFunction(Open(t, x)) \in Int
        /\ SumFunction(Carried(t, x)) \in Int
    BY <1>1, BalanceTyped
  <2>4. /\ Below(u, x) \in [ChildrenOf(t, x) -> Int]
        /\ Open(u, x) \in [FramesOf(u, x) -> Int]
        /\ Carried(u, x) \in [Older(t, x) -> Int]
        /\ IsFiniteSet(FramesOf(u, x))
    BY <1>3, <2>2, BalanceTyped
  <2>5. SumFunction(Below(u, x))
          = SumFunction(Below(t, x)) + (IF n \in ChildrenOf(t, x) THEN total ELSE 0)
    <3>1. \A y \in ChildrenOf(t, x) :
            Below(u, x)[y] = Below(t, x)[y] + (IF y = n THEN total ELSE 0)
      BY <1>9, <1>10, <2>2 DEF Below, SameMeasure
    <3>2. MovedAt(Below(u, x), Below(t, x), ChildrenOf(t, x), n, total)
      BY <1>8, <2>3, <2>4, <3>1 DEF MovedAt
    <3> QED BY <3>2, SumMoved
  <2>6. SumFunction(Carried(u, x)) >= SumFunction(Carried(t, x))
    <3>1. \A y \in Older(t, x) :
            Carried(u, x)[y] = Carried(t, x)[y] + (IF y = n THEN wait ELSE 0)
      BY <1>9, <1>10, <2>2 DEF Carried, SameMeasure
    <3>2. MovedAt(Carried(u, x), Carried(t, x), Older(t, x), n, wait)
      BY <1>8, <2>3, <2>4, <3>1 DEF MovedAt
    <3>3. SumFunction(Carried(u, x))
            = SumFunction(Carried(t, x)) + (IF n \in Older(t, x) THEN wait ELSE 0)
      BY <3>2, SumMoved
    <3> QED BY <1>8, <2>3, <3>3
  <2>7. ASSUME x # n PROVE Surplus(u, x) = Surplus(t, x)
    <3>1. FramesOf(u, x) = FramesOf(t, x)
      <4>1. N \notin FramesOf(t, x)
        BY <1>6, <2>7 DEF FramesOf
      <4>2. \A i : i \in Frames(t) <=> i \in Frames(u) \/ i = N
        BY <1>5
      <4>3. \A i \in Frames(u) : u.stack[i].call_tree = t.stack[i].call_tree
        BY <1>11
      <4> QED BY <4>1, <4>2, <4>3 DEF FramesOf
    <3>2. \A y \in FramesOf(t, x) :
            Open(u, x)[y] = Open(t, x)[y] + (IF y = N - 1 THEN total ELSE 0)
      BY <1>11, <3>1 DEF Open, FramesOf
    <3>3. MovedAt(Open(u, x), Open(t, x), FramesOf(t, x), N - 1, total)
      BY <1>8, <2>3, <2>4, <3>1, <3>2 DEF MovedAt
    <3>4. SumFunction(Open(u, x))
            = SumFunction(Open(t, x)) + (IF N - 1 \in FramesOf(t, x) THEN total ELSE 0)
      BY <3>3, SumMoved
    <3>5. n \in ChildrenOf(t, x) <=> N - 1 \in FramesOf(t, x)
      BY <1>6
    <3>6. SameMeasure(u.nodes[x], t.nodes[x])
      BY <1>10, <2>7
    <3> QED BY <1>8, <1>9, <2>3, <2>5, <3>4, <3>5, <3>6 DEF Surplus, SameMeasure
  <2>8. ASSUME x = n PROVE Surplus(u, x) = Surplus(t, x)
    <3>1. SumFunction(Open(u, x)) = 0
      BY <1>6, <2>4, <2>8, SumType
    <3>2. SumFunction(Open(t, x)) = top.child_time
      <4>1. FramesOf(t, x) = FramesOf(u, x) \cup {N} /\ N \notin FramesOf(u, x)
        BY <1>6, <2>8
      <4>2. \A y \in FramesOf(u, x) : Open(t, x)[y] = Open(u, x)[y]
        BY <1>6, <2>8
      <4>3. AddedAt(Open(t, x), Open(u, x), FramesOf(u, x), N)
        BY <2>3, <2>4, <4>1, <4>2 DEF AddedAt
      <4>4. Open(t, x)[N] = top.child_time
        BY <4>1 DEF Open, top, N
      <4> QED BY <1>8, <3>1, <4>3, <4>4, SumAdded
    <3>3. n \notin ChildrenOf(t, x)
      <4>1. N - 1 \notin FramesOf(t, x)
        BY <1>5, <1>6, <2>8
      <4> QED BY <1>6, <4>1
    <3>4. SumFunction(Below(u, x)) = SumFunction(Below(t, x))
      BY <2>3, <2>5, <3>3
    <3>5. /\ u.nodes[x].total_time = t.nodes[x].total_time + total
          /\ u.nodes[x].self_time = t.nodes[x].self_time + self
          /\ u.nodes[x].wait_time = t.nodes[x].wait_time + wait
      BY <1>10, <2>8
    <3> DEFINE a == t.nodes[x].self_time
               b == t.nodes[x].wait_time
               c == SumFunction(Below(t, x))
               d == t.nodes[x].total_time
               f == top.child_time
    <3>6. /\ a \in Int /\ b \in Int /\ c \in Int /\ d \in Int /\ f \in Int
          /\ self \in Int /\ wait \in Int /\ total \in Int /\ self + wait = total - f
      BY <1>8, <1>9, <2>3
    <3>7. /\ Surplus(t, x) = a + b + c - f - d
          /\ Surplus(u, x) = (a + self) + (b + wait) + c - 0 - (d + total)
      BY <3>1, <3>2, <3>4, <3>5 DEF Surplus
    <3> HIDE DEF a, b, c, d, f
    <3>8. (a + self) + (b + wait) + c - 0 - (d + total) = a + b + c - f - d
      BY <3>6
    <3> QED BY <3>7, <3>8
  <2>9. Surplus(u, x) = Surplus(t, x)
    BY <2>7, <2>8
  <2> QED BY <1>1, <1>3, <2>1, <2>2, <2>6, <2>9, BalanceStays
<1> QED BY <1>3, <1>4, <1>5, <1>12, <1>13 DEF Balanced

(* What any new node leaves alone.                                         *)
LEMMA GrownFrames ==
  ASSUME NEW t, ThreadOK(t), NEW u, ThreadOK(u), NEW k \in Keys, Grown(u, t, k)
  PROVE  LET x == Len(t.nodes) + 1 IN
         /\ x \in Nat /\ x > 0
         /\ \A n \in Nodes(t) : n \in Nat /\ 0 < n /\ n < x
         /\ \A n \in Nodes(t) : t.nodes[n].parent \in Nodes(t) \cup {NULL}
         /\ \A n : FramesOf(u, n) = FramesOf(t, n) /\ Open(u, n) = Open(t, n)
         /\ FramesOf(u, x) = {} /\ SumFunction(Open(u, x)) = 0
<1> DEFINE x == Len(t.nodes) + 1
<1>1. /\ Nodes(t) = 1 .. Len(t.nodes) /\ Len(t.nodes) \in Nat
      /\ u \in Thread /\ t \in Thread
  BY NodesAre DEF ThreadOK
<1>2. u.stack = t.stack /\ x \notin Nodes(t)
  BY DEF Grown
<1>3. \A n \in Nodes(t) : t.nodes[n].parent \in Nodes(t) \cup {NULL}
  BY DEF ThreadOK, RootedTree, LinkedNode
<1>4. \A n : FramesOf(u, n) = FramesOf(t, n) /\ Open(u, n) = Open(t, n)
  BY <1>2 DEF FramesOf, Frames, Open
<1>5. FramesOf(u, x) = {}
  <2>1. \A i \in Frames(t) : t.stack[i].call_tree \in Nodes(t)
    BY DEF ThreadOK, RootPath
  <2> QED BY <1>2, <1>4, <2>1 DEF FramesOf
<1>6. SumFunction(Open(u, x)) = 0
  <2>1. IsFiniteSet(FramesOf(u, x)) /\ Open(u, x) \in [FramesOf(u, x) -> Int]
    BY <1>1, BalanceTyped
  <2> QED BY <1>5, <2>1, SumType
<1> QED BY <1>1, <1>3, <1>4, <1>5, <1>6

(* A new child has measured nothing yet.                                   *)
LEMMA BelowBalanced ==
  ASSUME NEW m \in Nat, NEW t \in Balanced(m), NEW u, ThreadOK(u), u \in Counted,
         NEW k \in Keys, NEW parent \in Nodes(t), GrownBelow(u, t, k, parent)
  PROVE  u \in Balanced(m)
<1> DEFINE x == Len(t.nodes) + 1
<1>1. /\ t \in Thread /\ u \in Thread /\ ThreadOK(t) /\ WaitsPositive(t, m)
      /\ \A n \in Nodes(t) : BalancedNode(t, n)
  BY DEF Balanced, Counted
<1>2. /\ Grown(u, t, k) /\ u.stack = t.stack /\ Nodes(u) = Nodes(t) \cup {x}
      /\ x \notin Nodes(t) /\ u.nodes[x].parent = parent
      /\ u.nodes[x].self_time = 0 /\ u.nodes[x].total_time = 0 /\ u.nodes[x].wait_time = 0
      /\ \A n \in Nodes(t) : /\ SameMeasure(u.nodes[n], t.nodes[n])
                              /\ u.nodes[n].parent = t.nodes[n].parent
  BY DEF GrownBelow, Grown
<1>3. /\ x \in Nat /\ x > 0
      /\ \A n \in Nodes(t) : n \in Nat /\ 0 < n /\ n < x
      /\ \A n \in Nodes(t) : t.nodes[n].parent \in Nodes(t) \cup {NULL}
      /\ \A n : FramesOf(u, n) = FramesOf(t, n) /\ Open(u, n) = Open(t, n)
      /\ FramesOf(u, x) = {} /\ SumFunction(Open(u, x)) = 0
  BY <1>1, <1>2, GrownFrames
<1> HIDE DEF x
<1>4. WaitsPositive(u, m)
  <2>1. Frames(u) = Frames(t)
    BY <1>2 DEF Frames
  <2> QED BY <1>1, <1>2, <2>1 DEF WaitsPositive, SameMeasure
<1>5. BalancedNode(u, x)
  <2>1. ChildrenOf(u, x) = {}
    BY <1>2, <1>3 DEF ChildrenOf, NULL
  <2>2. ~Climbed(u, x)
    BY <2>1 DEF Climbed
  <2>3. SumFunction(Below(u, x)) = 0
    BY <1>1, <2>1, BalanceTyped, SumType
  <2>4. Surplus(u, x) = 0 + 0 + 0 - 0 - 0
    BY <1>2, <1>3, <2>3 DEF Surplus
  <2>5. Surplus(u, x) = 0
    BY <2>4
  <2> QED BY <2>2, <2>5, BalancedMeans
<1>6. ASSUME NEW n \in Nodes(t), n # parent PROVE BalancedNode(u, n)
  <2>1. ChildrenOf(u, n) = ChildrenOf(t, n)
    BY <1>2, <1>6 DEF ChildrenOf
  <2>2. \A c \in ChildrenOf(t, n) : SameMeasure(u.nodes[c], t.nodes[c])
    BY <1>2 DEF ChildrenOf
  <2> QED BY <1>1, <1>2, <1>3, <2>1, <2>2, SameBalance
<1>7. BalancedNode(u, parent)
  <2>1. ChildrenOf(u, parent) = ChildrenOf(t, parent) \cup {x} /\ x \notin ChildrenOf(t, parent)
    BY <1>2 DEF ChildrenOf
  <2>2. Older(u, parent) = Older(t, parent) /\ (Climbed(u, parent) <=> Climbed(t, parent))
    BY <1>3, <2>1 DEF Older, Climbed
  <2>3. \A c \in ChildrenOf(t, parent) : SameMeasure(u.nodes[c], t.nodes[c])
    BY <1>2 DEF ChildrenOf
  <2>4. Carried(u, parent) = Carried(t, parent)
    BY <2>2, <2>3 DEF Carried, Older, SameMeasure
  <2>5. SumFunction(Below(u, parent)) = SumFunction(Below(t, parent))
    <3>1. /\ IsFiniteSet(ChildrenOf(t, parent))
          /\ Below(t, parent) \in [ChildrenOf(t, parent) -> Int]
          /\ Below(u, parent) \in [ChildrenOf(u, parent) -> Int]
          /\ SumFunction(Below(t, parent)) \in Int
      BY <1>1, BalanceTyped
    <3>2. \A c \in ChildrenOf(t, parent) : Below(u, parent)[c] = Below(t, parent)[c]
      BY <2>1, <2>3 DEF Below, SameMeasure
    <3>3. AddedAt(Below(u, parent), Below(t, parent), ChildrenOf(t, parent), x)
      BY <2>1, <3>1, <3>2 DEF AddedAt
    <3>4. Below(u, parent)[x] = 0
      BY <1>2, <2>1 DEF Below
    <3> QED BY <3>1, <3>3, <3>4, SumAdded
  <2>6. Surplus(u, parent) = Surplus(t, parent)
    BY <1>2, <1>3, <2>5 DEF Surplus, SameMeasure
  <2>7. SumFunction(Carried(u, parent)) >= SumFunction(Carried(t, parent))
    <3>1. SumFunction(Carried(t, parent)) \in Int
      BY <1>1, BalanceTyped
    <3> QED BY <2>4, <3>1
  <2> QED BY <1>1, <2>2, <2>6, <2>7, BalanceStays
<1>8. \A n \in Nodes(u) : BalancedNode(u, n)
  BY <1>2, <1>5, <1>6, <1>7
<1> QED BY <1>1, <1>4, <1>8 DEF Balanced

(* The node that a climb puts above the root has the root's total and wait *)
(* time, so its surplus is that wait.                                      *)
LEMMA AboveBalanced ==
  ASSUME NEW m \in Nat, NEW t \in Balanced(m), NEW u, ThreadOK(u), u \in Counted,
         NEW k \in Keys, GrownAbove(u, t, k)
  PROVE  u \in Balanced(m)
<1> DEFINE x == Len(t.nodes) + 1
           r == t.call_tree
<1>1. /\ t \in Thread /\ u \in Thread /\ ThreadOK(t) /\ WaitsPositive(t, m)
      /\ \A n \in Nodes(t) : BalancedNode(t, n)
  BY DEF Balanced, Counted
<1>2. /\ Grown(u, t, k) /\ u.stack = t.stack /\ Nodes(u) = Nodes(t) \cup {x}
      /\ x \notin Nodes(t) /\ u.nodes[x].parent = NULL /\ u.nodes[x].self_time = 0
      /\ u.nodes[x].total_time = IF r = NULL THEN 0 ELSE t.nodes[r].total_time
      /\ u.nodes[x].wait_time = IF r = NULL THEN 0 ELSE t.nodes[r].wait_time
      /\ \A n \in Nodes(t) : SameMeasure(u.nodes[n], t.nodes[n])
      /\ \A n \in Nodes(t) : u.nodes[n].parent = IF n = r THEN x ELSE t.nodes[n].parent
  BY DEF GrownAbove, Grown
<1>3. /\ x \in Nat /\ x > 0
      /\ \A n \in Nodes(t) : n \in Nat /\ 0 < n /\ n < x
      /\ \A n \in Nodes(t) : t.nodes[n].parent \in Nodes(t) \cup {NULL}
      /\ \A n : FramesOf(u, n) = FramesOf(t, n) /\ Open(u, n) = Open(t, n)
      /\ FramesOf(u, x) = {} /\ SumFunction(Open(u, x)) = 0
  BY <1>1, <1>2, GrownFrames
<1>4. /\ r = NULL => Nodes(t) = {}
      /\ r # NULL => /\ r \in Nodes(t) /\ t.nodes[r].parent = NULL
                     /\ t.nodes[r].total_time \in Int /\ t.nodes[r].wait_time \in Int
  <2>1. /\ t.nodes = <<>> <=> r = NULL
        /\ t.nodes # <<>> => r \in Nodes(t)
        /\ \A n \in Nodes(t) : n = r <=> t.nodes[n].parent = NULL
    BY <1>1 DEF ThreadOK, RootedTree, LinkedNode
  <2>2. \A n \in Nodes(t) : t.nodes[n].total_time \in Int /\ t.nodes[n].wait_time \in Int
    <3>1. \A n \in Nodes(t) : t.nodes[n] \in Node
      BY <1>1, NodesAre
    <3> QED BY <3>1 DEF Node
  <2> HIDE DEF r
  <2> QED BY <2>1, <2>2 DEF Nodes
<1> HIDE DEF x, r
<1>5. WaitsPositive(u, m)
  <2>1. Frames(u) = Frames(t)
    BY <1>2 DEF Frames
  <2>2. u.nodes[x].wait_time >= 0
    BY <1>1, <1>2, <1>4 DEF WaitsPositive
  <2> QED BY <1>1, <1>2, <2>1, <2>2 DEF WaitsPositive, SameMeasure
<1>6. BalancedNode(u, x)
  <2>1. CASE r = NULL
    <3>1. ChildrenOf(u, x) = {}
      BY <1>2, <1>3, <1>4, <2>1 DEF ChildrenOf, NULL
    <3>2. ~Climbed(u, x)
      BY <3>1 DEF Climbed
    <3>3. SumFunction(Below(u, x)) = 0
      BY <1>1, <3>1, BalanceTyped, SumType
    <3>4. Surplus(u, x) = 0 + 0 + 0 - 0 - 0
      BY <1>2, <1>3, <2>1, <3>3 DEF Surplus
    <3>5. Surplus(u, x) = 0
      BY <3>4
    <3> QED BY <3>2, <3>5, BalancedMeans
  <2>2. CASE r # NULL
    <3>1. r \in Nodes(t) /\ r < x
      BY <1>3, <1>4, <2>2
    <3>2. ChildrenOf(u, x) = {r}
      BY <1>2, <1>3, <3>1 DEF ChildrenOf, NULL
    <3>3. Older(u, x) = {r} /\ Climbed(u, x)
      BY <3>1, <3>2 DEF Older, Climbed
    <3>4. SumFunction(Below(u, x)) = t.nodes[r].total_time
      <4>1. Below(u, x)[r] = t.nodes[r].total_time
        BY <1>2, <3>1, <3>2 DEF Below, SameMeasure
      <4> QED BY <1>1, <3>2, <4>1, BalanceTyped, SumOfOne
    <3>5. SumFunction(Carried(u, x)) = t.nodes[r].wait_time
      <4>1. Carried(u, x)[r] = t.nodes[r].wait_time
        BY <1>2, <3>1, <3>3 DEF Carried, SameMeasure
      <4> QED BY <1>1, <3>3, <4>1, BalanceTyped, SumOfOne
    <3>6. /\ t.nodes[r].total_time \in Int /\ t.nodes[r].wait_time \in Int
          /\ t.nodes[r].wait_time >= 0
      BY <1>1, <1>4, <3>1, <2>2 DEF WaitsPositive
    <3> DEFINE total == t.nodes[r].total_time
               wait == t.nodes[r].wait_time
    <3>7. Surplus(u, x) = 0 + wait + total - 0 - total
      BY <1>2, <1>3, <2>2, <3>4 DEF Surplus
    <3> HIDE DEF total, wait
    <3>8. 0 + wait + total - 0 - total = wait /\ wait \in 0 .. wait
      BY <3>6 DEF total, wait
    <3>9. Surplus(u, x) \in 0 .. SumFunction(Carried(u, x))
      BY <3>5, <3>7, <3>8 DEF wait
    <3> QED BY <3>3, <3>9, BalancedMeans
  <2> QED BY <2>1, <2>2
<1>7. ASSUME NEW n \in Nodes(t) PROVE BalancedNode(u, n)
  <2>1. n # NULL /\ n # x
    BY <1>2, <1>3 DEF NULL
  <2>2. ChildrenOf(u, n) = ChildrenOf(t, n)
    BY <1>2, <1>4, <2>1 DEF ChildrenOf
  <2>3. \A c \in ChildrenOf(t, n) : SameMeasure(u.nodes[c], t.nodes[c])
    BY <1>2 DEF ChildrenOf
  <2> QED BY <1>1, <1>2, <1>3, <2>2, <2>3, SameBalance
<1>8. \A n \in Nodes(u) : BalancedNode(u, n)
  BY <1>2, <1>6, <1>7
<1> QED BY <1>1, <1>5, <1>8 DEF Balanced

(* Whatever is done at the reading m keeps what is balanced at m.          *)
LEMMA BalancedKept ==
  ASSUME NEW m \in Nat
  PROVE  KeptAt(Balanced(m), m)
<1> DEFINE S == Balanced(m)
<1>1. \A t \in S : ThreadOK(t) /\ t \in Counted
  BY DEF Balanced, Counted
<1>2. \A trace \in BOOLEAN : thread_data_create(trace) \in S
  BY NewBalanced
<1>3. KeptBelow(S)
  <2>1. SUFFICES ASSUME NEW t \in S, NEW u \in Thread, NEW k \in Keys, ThreadOK(u),
                        t.stack # <<>>, t.method_table[k].created,
                        GrownBelow(u, t, k, Last(t.stack).call_tree)
                 PROVE  u \in S
    BY DEF KeptBelow
  <2>2. u \in Counted
    BY <1>1, <2>1, CountedKept DEF Kept, KeptGrowing, KeptBelow
  <2>3. Last(t.stack).call_tree \in Nodes(t)
    BY <1>1, <2>1, TopFrameNode DEF ThreadOK
  <2> QED BY <2>1, <2>2, <2>3, BelowBalanced
<1>4. KeptAbove(S)
  <2>1. SUFFICES ASSUME NEW t \in S, NEW u \in Thread, NEW k \in Keys, ThreadOK(u),
                        t.stack = <<>>, t.method_table[k].created, GrownAbove(u, t, k)
                 PROVE  u \in S
    BY DEF KeptAbove
  <2>2. u \in Counted
    BY <1>1, <2>1, CountedKept DEF Kept, KeptGrowing, KeptAbove
  <2> QED BY <2>1, <2>2, AboveBalanced
<1>5. KeptGrowing(S)
  BY <1>1, <1>2, <1>3, <1>4 DEF KeptGrowing
<1>6. \A t \in S, u \in Thread : ThreadOK(u) /\ AlikeAt(u, t, m) => u \in S
  BY AlikeBalanced
<1>7. \A t \in S, u \in Thread : \A n \in Nodes(t) :
        ThreadOK(u) /\ Reachable(t, n) /\ PushedAt(u, t, n, m) => u \in S
  BY PushBalanced
<1>8. \A t \in S, u \in Thread : \A n \in Nodes(t) :
        ThreadOK(u) /\ t.stack # <<>> /\ PoppedAt(u, t, n, m) => u \in S
  BY PopBalanced
<1> HIDE DEF S
<1>9. KeptAt(S, m)
  BY <1>5, <1>6, <1>7, <1>8 DEF KeptAt
<1> QED BY <1>9 DEF S

(* However calls nest and fibers switch, and whenever the profile pauses:  *)
(* the total of a call tree is its own time, its wait and its children's   *)
(* totals, once their frames are popped; no span is lost or counted twice. *)
(* Above where the profile started a node may have more, up to the wait it *)
(* took over from the one below.                                           *)
THEOREM NodeTimesAlwaysBalance == Spec => []NodeTimesBalance
<1>1. Init => TableIn(Balanced(now), threads)
  BY DEF Init, TableIn
<1>2. IInv /\ TableIn(Balanced(now), threads) /\ [Next]_vars
        => TableIn(Balanced(now), threads)'
  <2>1. SUFFICES ASSUME IInv, TableIn(Balanced(now), threads), [Next]_vars
                 PROVE  TableIn(Balanced(now'), threads')
    BY DEF TableIn, Balanced
  <2>2. now \in Nat /\ now' \in Nat /\ now <= now'
    BY <2>1, NextReading
  <2>3. PICK m \in Nat : m = now'
    BY <2>2
  <2>4. TableIn(Balanced(m), threads)
    BY <2>1, <2>2, <2>3, LaterBalanced DEF TableIn
  <2>5. TableIn(Balanced(m), threads')
    BY <2>1, <2>3, <2>4, BalancedKept, NextKept
  <2> QED BY <2>3, <2>5
<1>3. TableIn(Balanced(now), threads) => NodeTimesBalance
  BY DEF TableIn, Balanced, NodeTimesBalance, EveryThread
<1> QED BY <1>1, <1>2, <1>3, ProfileIsWellFormed, PTL DEF Spec
=============================================================================
