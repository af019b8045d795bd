--------------------------- MODULE ProfilerProofs ---------------------------
(***************************************************************************)
(* The type invariant and the shape of the call trees and of the stacks of *)
(* frames, proved for every program, every number of fibers and every      *)
(* clock: first what the operations of ThreadData do to the record of a    *)
(* thread, then what a step of the profiler does. The inductive invariant  *)
(* is IInv: a frame names a node of its thread (or the times it measures   *)
(* could not be added to any node), which needs the stack to be a path     *)
(* from the root of a well linked tree, and a running profile has a last   *)
(* thread.                                                                 *)
(*                                                                         *)
(* Last comes how to prove an invariant of the records of the threads.     *)
(* Whatever the hook and the methods of a profile do to a thread is made   *)
(* of five elementary operations: changing its times, a push, a pop,       *)
(* growing below the top, and growing above the root. KeptIsInductive says *)
(* that a set of records closed under these and under what a new thread    *)
(* is, a Kept one, is kept by every step of the profile. The proofs about  *)
(* counts, marks and nesting rest on it.                                   *)
(***************************************************************************)
EXTENDS ProfilerShape, SequenceTheorems, LoopsAndSums

-----------------------------------------------------------------------------
(* Pieces of the operations. *)

(* The links of a node: all that the shape of the tree depends on. *)
SameLinks(a, b) ==
  /\ a.method = b.method
  /\ a.parent = b.parent
  /\ a.children = b.children

(* prof_frame_unpause gives a frame, of the same node. *)
LEMMA UnpauseType ==
  ASSUME NEW fr \in Frame, NEW m \in Nat
  PROVE  /\ prof_frame_unpause(fr, m) \in Frame
         /\ prof_frame_unpause(fr, m).call_tree = fr.call_tree
<1> DEFINE v1 == fr.dead_time + (m - fr.pause_time)
           v2 == -1
           r1 == [fr EXCEPT !.dead_time = v1]
           r2 == [r1 EXCEPT !.pause_time = v2]
<1>1. v1 \in Int /\ v2 \in Int
  BY DEF Frame
<1> HIDE DEF v1, v2
<1>2. /\ r1 \in Frame
      /\ r1.call_tree = fr.call_tree
  BY <1>1 DEF Frame
<1> HIDE DEF r1
<1>3. /\ r2 \in Frame
      /\ r2.call_tree = fr.call_tree
  BY <1>1, <1>2 DEF Frame
<1> HIDE DEF r2
<1>4. r2 = [fr EXCEPT !.dead_time = v1, !.pause_time = v2]
  BY DEF r1, r2
<1> QED BY <1>3, <1>4 DEF prof_frame_unpause, v1, v2

(* So does the crediting of a parent frame in prof_frame_pop. *)
LEMMA CreditedType ==
  ASSUME NEW fr \in Frame, NEW total \in Int, NEW dead \in Int
  PROVE  /\ Credited(fr, total, dead) \in Frame
         /\ Credited(fr, total, dead).call_tree = fr.call_tree
<1> DEFINE v1 == fr.child_time + total
           v2 == fr.dead_time + dead
           r1 == [fr EXCEPT !.child_time = v1]
           r2 == [r1 EXCEPT !.dead_time = v2]
<1>1. v1 \in Int /\ v2 \in Int
  BY DEF Frame
<1> HIDE DEF v1, v2
<1>2. /\ r1 \in Frame
      /\ r1.call_tree = fr.call_tree
  BY <1>1 DEF Frame
<1> HIDE DEF r1
<1>3. /\ r2 \in Frame
      /\ r2.call_tree = fr.call_tree
  BY <1>1, <1>2 DEF Frame
<1> HIDE DEF r2
<1>4. r2 = [fr EXCEPT !.child_time = v1, !.dead_time = v2]
  BY DEF r1, r2
<1> QED BY <1>3, <1>4 DEF Credited, v1, v2

(* So does the return to a frame in switch_thread. *)
LEMMA ResumedType ==
  ASSUME NEW fr \in Frame, NEW m \in Nat
  PROVE  /\ Resumed(fr, m) \in Frame
         /\ Resumed(fr, m).call_tree = fr.call_tree
<1> DEFINE v1 == fr.wait_time + (m - fr.switch_time)
           v2 == 0
           r1 == [fr EXCEPT !.wait_time = v1]
           r2 == [r1 EXCEPT !.switch_time = v2]
<1>1. v1 \in Int /\ v2 \in Nat
  BY DEF Frame
<1> HIDE DEF v1, v2
<1>2. /\ r1 \in Frame
      /\ r1.call_tree = fr.call_tree
  BY <1>1 DEF Frame
<1> HIDE DEF r1
<1>3. /\ r2 \in Frame
      /\ r2.call_tree = fr.call_tree
  BY <1>1, <1>2 DEF Frame
<1> HIDE DEF r2
<1>4. r2 = [fr EXCEPT !.wait_time = v1, !.switch_time = v2]
  BY DEF r1, r2
<1> QED BY <1>3, <1>4 DEF Resumed, v1, v2

(* prof_frame_push counts a call in a node and leaves its links alone. *)
LEMMA VisitedNode ==
  ASSUME NEW node \in Node
  PROVE  /\ Visited(node) \in Node
         /\ SameLinks(Visited(node), node)
<1> DEFINE v1 == node.called + 1
           v2 == node.visits + 1
           r1 == [node EXCEPT !.called = v1]
           r2 == [r1 EXCEPT !.visits = v2]
<1>1. v1 \in Nat /\ v2 \in Int
  BY DEF Node
<1> HIDE DEF v1, v2
<1>2. /\ r1 \in Node
      /\ r1.method = node.method
      /\ r1.parent = node.parent
      /\ r1.children = node.children
  BY <1>1 DEF Node
<1> HIDE DEF r1
<1>3. /\ r2 \in Node
      /\ r2.method = node.method
      /\ r2.parent = node.parent
      /\ r2.children = node.children
  BY <1>1, <1>2 DEF Node
<1> HIDE DEF r2
<1>4. r2 = [node EXCEPT !.called = v1, !.visits = v2]
  BY DEF r1, r2
<1> QED BY <1>3, <1>4 DEF Visited, SameLinks, v1, v2

(* prof_frame_unshift gives a node times and leaves its links alone. *)
LEMMA TakeOverNode ==
  ASSUME NEW node \in Node, NEW root \in Node
  PROVE  /\ TakeOver(node, root) \in Node
         /\ SameLinks(TakeOver(node, root), node)
<1> DEFINE v1 == root.total_time
           v2 == 0
           v3 == root.wait_time
           r1 == [node EXCEPT !.total_time = v1]
           r2 == [r1 EXCEPT !.self_time = v2]
           r3 == [r2 EXCEPT !.wait_time = v3]
<1>1. v1 \in Int /\ v2 \in Int /\ v3 \in Int
  BY DEF Node
<1> HIDE DEF v1, v2, v3
<1>2. /\ r1 \in Node
      /\ r1.method = node.method
      /\ r1.parent = node.parent
      /\ r1.children = node.children
  BY <1>1 DEF Node
<1> HIDE DEF r1
<1>3. /\ r2 \in Node
      /\ r2.method = node.method
      /\ r2.parent = node.parent
      /\ r2.children = node.children
  BY <1>1, <1>2 DEF Node
<1> HIDE DEF r2
<1>4. /\ r3 \in Node
      /\ r3.method = node.method
      /\ r3.parent = node.parent
      /\ r3.children = node.children
  BY <1>1, <1>3 DEF Node
<1> HIDE DEF r3
<1>5. r3 = [node EXCEPT !.total_time = v1, !.self_time = v2, !.wait_time = v3]
  BY DEF r1, r2, r3
<1> QED BY <1>4, <1>5 DEF TakeOver, SameLinks, v1, v2, v3

(* prof_frame_pop gives a node times and leaves its links alone. *)
LEMMA LeftNode ==
  ASSUME NEW node \in Node,
         NEW total \in Int, NEW self \in Int, NEW wait \in Int
  PROVE  /\ Left(node, total, self, wait) \in Node
         /\ SameLinks(Left(node, total, self, wait), node)
<1> DEFINE v1 == IF node.visits = 1 THEN node.total_time + total
                 ELSE node.total_time
           v2 == node.self_time + self
           v3 == node.wait_time + wait
           v4 == node.visits - 1
           r1 == [node EXCEPT !.total_time = v1]
           r2 == [r1 EXCEPT !.self_time = v2]
           r3 == [r2 EXCEPT !.wait_time = v3]
           r4 == [r3 EXCEPT !.visits = v4]
<1>1. v1 \in Int /\ v2 \in Int /\ v3 \in Int /\ v4 \in Int
  BY DEF Node
<1> HIDE DEF v1, v2, v3, v4
<1>2. /\ r1 \in Node
      /\ r1.method = node.method
      /\ r1.parent = node.parent
      /\ r1.children = node.children
  BY <1>1 DEF Node
<1> HIDE DEF r1
<1>3. /\ r2 \in Node
      /\ r2.method = node.method
      /\ r2.parent = node.parent
      /\ r2.children = node.children
  BY <1>1, <1>2 DEF Node
<1> HIDE DEF r2
<1>4. /\ r3 \in Node
      /\ r3.method = node.method
      /\ r3.parent = node.parent
      /\ r3.children = node.children
  BY <1>1, <1>3 DEF Node
<1> HIDE DEF r3
<1>5. /\ r4 \in Node
      /\ r4.method = node.method
      /\ r4.parent = node.parent
      /\ r4.children = node.children
  BY <1>1, <1>4 DEF Node
<1> HIDE DEF r4
<1>6. r4 = [node EXCEPT !.total_time = v1, !.self_time = v2, !.wait_time = v3, !.visits = v4]
  BY DEF r1, r2, r3, r4
<1> QED BY <1>5, <1>6 DEF Left, SameLinks, v1, v2, v3, v4

(* prof_frame_push keeps a method well typed. *)
LEMMA VisitedMethodType ==
  ASSUME NEW method \in Method
  PROVE  VisitedMethod(method) \in Method
<1> DEFINE v1 == method.called + 1
           v2 == method.visits + 1
           v3 == method.recursive \/ method.visits > 0
           r1 == [method EXCEPT !.called = v1]
           r2 == [r1 EXCEPT !.visits = v2]
           r3 == [r2 EXCEPT !.recursive = v3]
<1>1. v1 \in Nat /\ v2 \in Int /\ v3 \in BOOLEAN
  BY DEF Method
<1> HIDE DEF v1, v2, v3
<1>2. /\ r1 \in Method
  BY <1>1 DEF Method
<1> HIDE DEF r1
<1>3. /\ r2 \in Method
  BY <1>1, <1>2 DEF Method
<1> HIDE DEF r2
<1>4. /\ r3 \in Method
  BY <1>1, <1>3 DEF Method
<1> HIDE DEF r3
<1>5. r3 = [method EXCEPT !.called = v1, !.visits = v2, !.recursive = v3]
  BY DEF r1, r2, r3
<1> QED BY <1>4, <1>5 DEF VisitedMethod, Visited, v1, v2, v3

(* prof_frame_unshift keeps a method well typed. *)
LEMMA TakeOverMethodType ==
  ASSUME NEW method \in Method, NEW root \in Node
  PROVE  TakeOverMethod(method, root) \in Method
<1> DEFINE v1 == method.total_time + root.total_time
           v2 == method.wait_time + root.wait_time
           r1 == [method EXCEPT !.total_time = v1]
           r2 == [r1 EXCEPT !.wait_time = v2]
<1>1. v1 \in Int /\ v2 \in Int
  BY DEF Method, Node
<1> HIDE DEF v1, v2
<1>2. /\ r1 \in Method
  BY <1>1 DEF Method
<1> HIDE DEF r1
<1>3. /\ r2 \in Method
  BY <1>1, <1>2 DEF Method
<1> HIDE DEF r2
<1>4. r2 = [method EXCEPT !.total_time = v1, !.wait_time = v2]
  BY DEF r1, r2
<1> QED BY <1>3, <1>4 DEF TakeOverMethod, v1, v2

(* prof_frame_pop keeps a method well typed. *)
LEMMA LeftMethod ==
  ASSUME NEW method \in Method,
         NEW total \in Int, NEW self \in Int, NEW wait \in Int
  PROVE  Left(method, total, self, wait) \in Method
<1> DEFINE v1 == IF method.visits = 1 THEN method.total_time + total
                 ELSE method.total_time
           v2 == method.self_time + self
           v3 == method.wait_time + wait
           v4 == method.visits - 1
           r1 == [method EXCEPT !.total_time = v1]
           r2 == [r1 EXCEPT !.self_time = v2]
           r3 == [r2 EXCEPT !.wait_time = v3]
           r4 == [r3 EXCEPT !.visits = v4]
<1>1. v1 \in Int /\ v2 \in Int /\ v3 \in Int /\ v4 \in Int
  BY DEF Method
<1> HIDE DEF v1, v2, v3, v4
<1>2. /\ r1 \in Method
  BY <1>1 DEF Method
<1> HIDE DEF r1
<1>3. /\ r2 \in Method
  BY <1>1, <1>2 DEF Method
<1> HIDE DEF r2
<1>4. /\ r3 \in Method
  BY <1>1, <1>3 DEF Method
<1> HIDE DEF r3
<1>5. /\ r4 \in Method
  BY <1>1, <1>4 DEF Method
<1> HIDE DEF r4
<1>6. r4 = [method EXCEPT !.total_time = v1, !.self_time = v2, !.wait_time = v3, !.visits = v4]
  BY DEF r1, r2, r3, r4
<1> QED BY <1>5, <1>6 DEF Left, v1, v2, v3, v4

(* prof_frame_pause gives a frame, of the same node. *)
LEMMA PauseType ==
  ASSUME NEW fr \in Frame, NEW m \in Nat
  PROVE  /\ prof_frame_pause(fr, m) \in Frame
         /\ prof_frame_pause(fr, m).call_tree = fr.call_tree
BY DEF prof_frame_pause, Paused, Frame

(* The frame prof_frame_push starts with is one of the pushed node. *)
LEMMA NewFrameType ==
  ASSUME NEW n \in Nat, NEW m \in Nat
  PROVE  /\ NewFrame(n, m) \in Frame
         /\ NewFrame(n, m).call_tree = n
BY DEF NewFrame, Frame

(* A node that prof_call_tree_create makes has its key, its parent and no   *)
(* children.                                                                *)
LEMMA NewNodeType ==
  ASSUME NEW k \in Keys, NEW parent \in Nat
  PROVE  /\ NewNode(k, parent) \in Node
         /\ NewNode(k, parent).method = k
         /\ NewNode(k, parent).parent = parent
         /\ \A c \in Keys : NewNode(k, parent).children[c] = NULL
BY DEF NewNode, Node, NULL

(* Replacing the top frame keeps the others in place. *)
LEMMA SetLastType ==
  ASSUME NEW stack \in Seq(Frame), stack # <<>>, NEW fr \in Frame
  PROVE  /\ SetLast(stack, fr) \in Seq(Frame)
         /\ Len(SetLast(stack, fr)) = Len(stack)
         /\ \A i \in 1 .. Len(stack) :
              SetLast(stack, fr)[i] = IF i = Len(stack) THEN fr ELSE stack[i]
<1>1. Len(stack) \in 1 .. Len(stack)
  OBVIOUS
<1> QED BY <1>1, ExceptSeq DEF SetLast

(* The top of a stack that has one is a frame (prof_stack_last). *)
LEMMA LastType ==
  ASSUME NEW stack \in Seq(Frame), stack # <<>>
  PROVE  Last(stack) \in Frame /\ Last(stack) = stack[Len(stack)]
BY DEF Last

(* Unpausing the parent frame of a push keeps every frame's node. *)
LEMMA UnpauseParentType ==
  ASSUME NEW stack \in Seq(Frame), NEW m \in Nat
  PROVE  /\ UnpauseParent(stack, m) \in Seq(Frame)
         /\ Len(UnpauseParent(stack, m)) = Len(stack)
         /\ \A i \in 1 .. Len(stack) :
              UnpauseParent(stack, m)[i].call_tree = stack[i].call_tree
<1>1. CASE stack = <<>>
  BY <1>1 DEF UnpauseParent
<1>2. CASE stack # <<>>
  <2> DEFINE top == Last(stack)
             fr == prof_frame_unpause(top, m)
  <2>1. /\ top \in Frame
        /\ top = stack[Len(stack)]
    BY <1>2, LastType
  <2>2. /\ fr \in Frame
        /\ fr.call_tree = top.call_tree
    BY <2>1, UnpauseType
  <2>3. UnpauseParent(stack, m) = SetLast(stack, fr)
    BY <1>2 DEF UnpauseParent
  <2> HIDE DEF top, fr
  <2>4. /\ SetLast(stack, fr) \in Seq(Frame)
        /\ Len(SetLast(stack, fr)) = Len(stack)
        /\ \A i \in 1 .. Len(stack) :
             SetLast(stack, fr)[i] = IF i = Len(stack) THEN fr ELSE stack[i]
    BY <1>2, <2>2, SetLastType
  <2> DEFINE s == SetLast(stack, fr)
  <2>5. \A i \in 1 .. Len(stack) : s[i].call_tree = stack[i].call_tree
    BY <2>1, <2>2, <2>4
  <2> QED BY <2>3, <2>4, <2>5
<1> QED BY <1>1, <1>2

(* Crediting the parent frame of a pop keeps every frame's node. *)
LEMMA CreditParentType ==
  ASSUME NEW stack \in Seq(Frame), NEW total \in Int, NEW dead \in Int
  PROVE  /\ CreditParent(stack, total, dead) \in Seq(Frame)
         /\ Len(CreditParent(stack, total, dead)) = Len(stack)
         /\ \A i \in 1 .. Len(stack) :
              CreditParent(stack, total, dead)[i].call_tree = stack[i].call_tree
<1>1. CASE stack = <<>>
  BY <1>1 DEF CreditParent
<1>2. CASE stack # <<>>
  <2> DEFINE top == Last(stack)
             fr == Credited(top, total, dead)
  <2>1. /\ top \in Frame
        /\ top = stack[Len(stack)]
    BY <1>2, LastType
  <2>2. /\ fr \in Frame
        /\ fr.call_tree = top.call_tree
    BY <2>1, CreditedType
  <2>3. CreditParent(stack, total, dead) = SetLast(stack, fr)
    BY <1>2 DEF CreditParent
  <2> HIDE DEF top, fr
  <2>4. /\ SetLast(stack, fr) \in Seq(Frame)
        /\ Len(SetLast(stack, fr)) = Len(stack)
        /\ \A i \in 1 .. Len(stack) :
             SetLast(stack, fr)[i] = IF i = Len(stack) THEN fr ELSE stack[i]
    BY <1>2, <2>2, SetLastType
  <2> DEFINE s == SetLast(stack, fr)
  <2>5. \A i \in 1 .. Len(stack) : s[i].call_tree = stack[i].call_tree
    BY <2>1, <2>2, <2>4
  <2> QED BY <2>3, <2>4, <2>5
<1> QED BY <1>1, <1>2

-----------------------------------------------------------------------------
(* The shape of a thread record, and how one operation relates two.        *)

ThreadOK(t) == t \in Thread /\ RootedTree(t) /\ RootPath(t)

SameTree(u, t) ==
  /\ u.call_tree = t.call_tree
  /\ Len(u.nodes) = Len(t.nodes)
  /\ \A n \in 1 .. Len(t.nodes) : SameLinks(u.nodes[n], t.nodes[n])

(* The stack of u is a part of that of t, as far as the nodes go.          *)
StackWithin(u, t) ==
  /\ Len(u.stack) <= Len(t.stack)
  /\ \A i \in 1 .. Len(u.stack) : u.stack[i].call_tree = t.stack[i].call_tree

(* The stack of u is that of t with a frame for n on top.                  *)
StackPushed(u, t, n) ==
  /\ Len(u.stack) = Len(t.stack) + 1
  /\ \A i \in 1 .. Len(t.stack) : u.stack[i].call_tree = t.stack[i].call_tree
  /\ u.stack[Len(u.stack)].call_tree = n

(* The fields of a thread, in the form the proofs use them. *)
LEMMA NodesAre ==
  ASSUME NEW t \in Thread
  PROVE  /\ Nodes(t) = 1 .. Len(t.nodes)
         /\ Frames(t) = 1 .. Len(t.stack)
         /\ Len(t.nodes) \in Nat
         /\ Len(t.stack) \in Nat
         /\ t.stack \in Seq(Frame)
         /\ t.nodes \in Seq(Node)
         /\ t.call_tree \in Nat
         /\ t.trace \in BOOLEAN
         /\ t.method_table \in [Keys -> Method]
         /\ \A n \in Nodes(t) : /\ t.nodes[n] \in Node
                                /\ KeyOf(t, n) \in Keys
                                /\ MethodOf(t, n) \in Method
         /\ \A i \in Frames(t) : t.stack[i] \in Frame
<1>1. /\ t.stack \in Seq(Frame)
      /\ t.nodes \in Seq(Node)
      /\ t.call_tree \in Nat
      /\ t.trace \in BOOLEAN
      /\ t.method_table \in [Keys -> Method]
  BY DEF Thread
<1>2. /\ Nodes(t) = 1 .. Len(t.nodes)
      /\ Frames(t) = 1 .. Len(t.stack)
      /\ Len(t.nodes) \in Nat
      /\ Len(t.stack) \in Nat
  BY <1>1 DEF Nodes, Frames
<1>3. /\ \A n \in Nodes(t) : t.nodes[n] \in Node
      /\ \A i \in Frames(t) : t.stack[i] \in Frame
  BY <1>1, <1>2
<1>4. \A n \in Nodes(t) : KeyOf(t, n) \in Keys /\ MethodOf(t, n) \in Method
  BY <1>1, <1>3 DEF KeyOf, MethodOf, Node
<1> QED BY <1>1, <1>2, <1>3, <1>4

(* A linked tree stays one when only times and counts change.              *)
LEMMA SameTreeRooted ==
  ASSUME NEW t \in Thread, NEW u \in Thread, SameTree(u, t), RootedTree(t)
  PROVE  RootedTree(u)
<1>1. Nodes(u) = Nodes(t) /\ Nodes(t) = 1 .. Len(t.nodes)
  BY NodesAre DEF SameTree
<1>2. /\ u.call_tree = t.call_tree
      /\ \A n \in Nodes(t) : /\ u.nodes[n].method = t.nodes[n].method
                             /\ u.nodes[n].parent = t.nodes[n].parent
                             /\ u.nodes[n].children = t.nodes[n].children
  BY <1>1 DEF SameTree, SameLinks
<1>3. u.nodes = <<>> <=> t.nodes = <<>>
  BY NodesAre DEF SameTree
<1>4. \A n \in Nodes(u) : LinkedNode(u, n)
  <2>1. SUFFICES ASSUME NEW n \in Nodes(t) PROVE LinkedNode(u, n)
    BY <1>1
  <2>2. LinkedNode(t, n)
    BY DEF RootedTree
  <2>3. \A k \in Keys : u.nodes[n].children[k] # NULL =>
          /\ u.nodes[n].children[k] \in Nodes(u)
          /\ u.nodes[u.nodes[n].children[k]].method = k
          /\ u.nodes[u.nodes[n].children[k]].parent = n
    <3>1. SUFFICES ASSUME NEW k \in Keys, t.nodes[n].children[k] # NULL
                   PROVE  LET c == t.nodes[n].children[k]
                          IN  /\ c \in Nodes(u)
                              /\ u.nodes[c].method = k
                              /\ u.nodes[c].parent = n
      BY <1>2
    <3> DEFINE c == t.nodes[n].children[k]
    <3>2. /\ c \in Nodes(t)
          /\ t.nodes[c].method = k
          /\ t.nodes[c].parent = n
      BY <2>2, <3>1 DEF LinkedNode
    <3> HIDE DEF c
    <3>3. c \in Nodes(u) /\ u.nodes[c].method = k /\ u.nodes[c].parent = n
      BY <1>1, <1>2, <3>2
    <3> QED BY <3>3 DEF c
  <2>4. n = u.call_tree <=> u.nodes[n].parent = NULL
    BY <1>2, <2>2 DEF LinkedNode
  <2>5. n # u.call_tree =>
          /\ u.nodes[n].parent \in Nodes(u)
          /\ \/ u.nodes[u.nodes[n].parent].children[u.nodes[n].method] = n
             \/ u.nodes[u.nodes[n].parent].method = InsertedParent
    <3> DEFINE q == t.nodes[n].parent
    <3>1. n # t.call_tree => /\ q \in Nodes(t)
                             /\ \/ t.nodes[q].children[t.nodes[n].method] = n
                                \/ t.nodes[q].method = InsertedParent
      BY <2>2 DEF LinkedNode
    <3>2. u.nodes[n].parent = q /\ u.nodes[n].method = t.nodes[n].method
      BY <1>2
    <3> HIDE DEF q
    <3> QED BY <1>1, <1>2, <3>1, <3>2
  <2> QED BY <2>3, <2>4, <2>5 DEF LinkedNode
<1> QED BY <1>1, <1>2, <1>3, <1>4 DEF RootedTree

(* So does a path when frames are taken off it.                            *)
LEMMA StackWithinPath ==
  ASSUME NEW t \in Thread, NEW u \in Thread,
         SameTree(u, t), StackWithin(u, t), RootPath(t)
  PROVE  RootPath(u)
<1>1. Nodes(u) = Nodes(t) /\ Nodes(t) = 1 .. Len(t.nodes)
  BY NodesAre DEF SameTree
<1>2. SUFFICES ASSUME NEW i \in Frames(u)
               PROVE  /\ u.stack[i].call_tree \in Nodes(u)
                      /\ IF i = 1 THEN u.stack[i].call_tree = u.call_tree
                         ELSE u.nodes[u.stack[i - 1].call_tree].children[FrameKey(u, i)]
                                = u.stack[i].call_tree
  BY DEF RootPath
<1>3. /\ i \in Frames(t)
      /\ u.stack[i].call_tree = t.stack[i].call_tree
  BY NodesAre DEF StackWithin
<1>4. u.stack[i].call_tree \in Nodes(u)
  BY <1>1, <1>3 DEF RootPath
<1>5. CASE i = 1
  BY <1>3, <1>4, <1>5 DEF RootPath, SameTree
<1>6. CASE i # 1
  <2>1. /\ i - 1 \in Frames(t)
        /\ u.stack[i - 1].call_tree = t.stack[i - 1].call_tree
    <3>1. /\ i \in 1 .. Len(u.stack) /\ Len(u.stack) \in Nat
          /\ Frames(t) = 1 .. Len(t.stack) /\ Len(t.stack) \in Nat
      BY NodesAre
    <3>2. i - 1 \in 1 .. Len(u.stack)
      BY <1>6, <3>1
    <3> QED BY <3>1, <3>2 DEF StackWithin
  <2>2. t.stack[i - 1].call_tree \in Nodes(t) /\ t.stack[i].call_tree \in Nodes(t)
    BY <1>3, <2>1 DEF RootPath
  <2>3. /\ u.nodes[t.stack[i - 1].call_tree].children
             = t.nodes[t.stack[i - 1].call_tree].children
        /\ u.nodes[t.stack[i].call_tree].method = t.nodes[t.stack[i].call_tree].method
    <3>1. \A n \in Nodes(t) : SameLinks(u.nodes[n], t.nodes[n])
      BY <1>1 DEF SameTree
    <3> QED BY <2>2, <3>1 DEF SameLinks
  <2>4. t.nodes[t.stack[i - 1].call_tree].children[t.nodes[t.stack[i].call_tree].method]
          = t.stack[i].call_tree
    BY <1>3, <1>6 DEF RootPath, FrameKey, KeyOf
  <2> QED BY <1>3, <1>4, <1>6, <2>1, <2>3, <2>4 DEF FrameKey, KeyOf
<1> QED BY <1>5, <1>6

(* An operation of the two kinds above keeps a thread well formed. *)
LEMMA WithinOK ==
  ASSUME NEW t, ThreadOK(t), NEW u \in Thread, SameTree(u, t), StackWithin(u, t)
  PROVE  ThreadOK(u)
BY SameTreeRooted, StackWithinPath DEF ThreadOK

-----------------------------------------------------------------------------
(* The operations that leave the tree alone.                               *)

(* check_method may add a method to the table but touches neither tree nor  *)
(* stack.                                                                   *)
LEMMA CreateMethodOK ==
  ASSUME NEW t, ThreadOK(t), NEW k \in Keys
  PROVE  LET u == create_method(t, k)
         IN  /\ ThreadOK(u)
             /\ u.stack = t.stack
             /\ u.nodes = t.nodes
             /\ u.call_tree = t.call_tree
<1> DEFINE method == [t.method_table[k] EXCEPT !.created = TRUE]
           table  == [t.method_table EXCEPT ![k] = method]
           u      == [t EXCEPT !.method_table = table]
<1>1. t \in Thread /\ t.method_table[k] \in Method
  BY NodesAre DEF ThreadOK
<1>2. method \in Method
  BY <1>1 DEF Method
<1>3. create_method(t, k) = u
  BY DEF create_method
<1> HIDE DEF method
<1>4. table \in [Keys -> Method]
  BY <1>1, <1>2, NodesAre
<1> HIDE DEF table
<1>5. /\ u \in Thread
      /\ u.stack = t.stack
      /\ u.nodes = t.nodes
      /\ u.call_tree = t.call_tree
  BY <1>1, <1>4 DEF Thread
<1> HIDE DEF u
<1>6. SameTree(u, t) /\ StackWithin(u, t)
  BY <1>1, <1>5, NodesAre DEF SameTree, SameLinks, StackWithin
<1> QED BY <1>3, <1>5, <1>6, WithinOK

(* A new top frame for the same node, as the switches and the pauses make. *)
LEMMA SetCurrentOK ==
  ASSUME NEW t, ThreadOK(t), t.stack # <<>>,
         NEW fr \in Frame, fr.call_tree = prof_frame_current(t).call_tree
  PROVE  LET u == SetCurrent(t, fr)
         IN  ThreadOK(u) /\ u.stack # <<>> /\ u.call_tree = t.call_tree
<1> DEFINE stack == SetLast(t.stack, fr)
           u == [t EXCEPT !.stack = stack]
<1>1. t \in Thread /\ t.stack \in Seq(Frame)
  BY NodesAre DEF ThreadOK
<1>2. /\ stack \in Seq(Frame)
      /\ Len(stack) = Len(t.stack)
      /\ \A i \in 1 .. Len(t.stack) :
           stack[i] = IF i = Len(t.stack) THEN fr ELSE t.stack[i]
  BY <1>1, SetLastType
<1>3. SetCurrent(t, fr) = u
  BY DEF SetCurrent
<1>4. fr.call_tree = t.stack[Len(t.stack)].call_tree
  BY <1>1, LastType DEF prof_frame_current
<1> HIDE DEF stack
<1>5. /\ u \in Thread
      /\ u.stack = stack
      /\ u.nodes = t.nodes
      /\ u.call_tree = t.call_tree
  BY <1>1, <1>2 DEF Thread
<1> HIDE DEF u
<1>6. SameTree(u, t)
  BY <1>5 DEF SameTree, SameLinks
<1>7. StackWithin(u, t)
  BY <1>1, <1>2, <1>4, <1>5 DEF StackWithin
<1>8. u.stack # <<>>
  BY <1>1, <1>2, <1>5
<1> QED BY <1>3, <1>5, <1>6, <1>7, <1>8, WithinOK

(* Both halves of switch_thread keep a thread well formed. *)
LEMMA SwitchOK ==
  ASSUME NEW t, ThreadOK(t), NEW m \in Nat
  PROVE  ThreadOK(SwitchIn(t, m)) /\ ThreadOK(SwitchOut(t, m))
<1> DEFINE top == prof_frame_current(t)
<1>1. CASE t.stack = <<>>
  BY <1>1 DEF SwitchIn, SwitchOut
<1>2. CASE t.stack # <<>>
  <2>1. top \in Frame
    BY <1>2, NodesAre, LastType DEF ThreadOK, prof_frame_current
  <2> HIDE DEF top
  <2>2. Resumed(top, m) \in Frame /\ Resumed(top, m).call_tree = top.call_tree
    BY <2>1, ResumedType
  <2>3. /\ [top EXCEPT !.switch_time = m] \in Frame
        /\ [top EXCEPT !.switch_time = m].call_tree = top.call_tree
    BY <2>1 DEF Frame
  <2>4. ThreadOK(SetCurrent(t, Resumed(top, m)))
    BY <1>2, <2>2, SetCurrentOK DEF top
  <2>5. ThreadOK(SetCurrent(t, [top EXCEPT !.switch_time = m]))
    BY <1>2, <2>3, SetCurrentOK DEF top
  <2> QED BY <1>2, <2>4, <2>5 DEF SwitchIn, SwitchOut, top
<1> QED BY <1>1, <1>2

(* pause_thread and, on a stack that has a frame, unpause_thread keep a     *)
(* thread well formed.                                                      *)
LEMMA PauseOK ==
  ASSUME NEW t, ThreadOK(t), NEW m \in Nat
  PROVE  /\ ThreadOK(pause_thread(t, m))
         /\ t.stack # <<>> => ThreadOK(unpause_thread(t, m))
<1> DEFINE top == prof_frame_current(t)
<1>1. CASE t.stack = <<>>
  BY <1>1 DEF pause_thread
<1>2. CASE t.stack # <<>>
  <2>1. top \in Frame
    BY <1>2, NodesAre, LastType DEF ThreadOK, prof_frame_current
  <2> HIDE DEF top
  <2>2. /\ prof_frame_pause(top, m) \in Frame
        /\ prof_frame_pause(top, m).call_tree = top.call_tree
    BY <2>1, PauseType
  <2>3. /\ prof_frame_unpause(top, m) \in Frame
        /\ prof_frame_unpause(top, m).call_tree = top.call_tree
    BY <2>1, UnpauseType
  <2>4. ThreadOK(SetCurrent(t, prof_frame_pause(top, m)))
    BY <1>2, <2>2, SetCurrentOK DEF top
  <2>5. ThreadOK(SetCurrent(t, prof_frame_unpause(top, m)))
    BY <1>2, <2>3, SetCurrentOK DEF top
  <2> QED BY <1>2, <2>4, <2>5 DEF pause_thread, unpause_thread, top
<1> QED BY <1>1, <1>2

-----------------------------------------------------------------------------
(* One node, its method and the stack change, the links do not.            *)

Measured(t, stack, n, node, k, method) ==
  [t EXCEPT !.stack = stack, !.nodes[n] = node, !.method_table[k] = method]

(* Replacing the stack, a node's times and a method leaves the tree as it   *)
(* is.                                                                      *)
LEMMA MeasureUpdate ==
  ASSUME NEW t \in Thread, NEW stack \in Seq(Frame),
         NEW n \in Nodes(t), NEW node \in Node, SameLinks(node, t.nodes[n]),
         NEW k \in Keys, NEW method \in Method
  PROVE  LET u == Measured(t, stack, n, node, k, method)
         IN  /\ u \in Thread
             /\ u.stack = stack
             /\ SameTree(u, t)
             /\ \A i \in Nodes(t) : u.nodes[i] = IF i = n THEN node ELSE t.nodes[i]
             /\ \A j \in Keys :
                  u.method_table[j] = IF j = k THEN method ELSE t.method_table[j]
<1> DEFINE nodes == [t.nodes EXCEPT ![n] = node]
           table == [t.method_table EXCEPT ![k] = method]
           u1 == [t EXCEPT !.stack = stack]
           u2 == [u1 EXCEPT !.nodes = nodes]
           u3 == [u2 EXCEPT !.method_table = table]
<1>1. /\ nodes \in Seq(Node)
      /\ Len(nodes) = Len(t.nodes)
      /\ \A i \in 1 .. Len(t.nodes) :
           nodes[i] = IF i = n THEN node ELSE t.nodes[i]
  BY NodesAre, ExceptSeq
<1>2. /\ table \in [Keys -> Method]
      /\ \A j \in Keys : table[j] = IF j = k THEN method ELSE t.method_table[j]
  BY NodesAre
<1>3. Measured(t, stack, n, node, k, method)
        = [t EXCEPT !.stack = stack, !.nodes = nodes, !.method_table = table]
  BY DEF Measured
<1> HIDE DEF nodes, table
<1>4. u1 \in Thread /\ u1.stack = stack /\ u1.call_tree = t.call_tree
  BY DEF Thread
<1> HIDE DEF u1
<1>5. /\ u2 \in Thread /\ u2.stack = stack /\ u2.call_tree = t.call_tree
      /\ u2.nodes = nodes
  BY <1>1, <1>4 DEF Thread
<1> HIDE DEF u2
<1>6. /\ u3 \in Thread /\ u3.stack = stack /\ u3.call_tree = t.call_tree
      /\ u3.nodes = nodes /\ u3.method_table = table
  BY <1>2, <1>5 DEF Thread
<1> HIDE DEF u3
<1>7. u3 = [t EXCEPT !.stack = stack, !.nodes = nodes, !.method_table = table]
  BY DEF u1, u2, u3
<1>8. SameTree(u3, t)
  BY <1>1, <1>6 DEF SameTree, SameLinks
<1>9. Nodes(t) = 1 .. Len(t.nodes)
  BY NodesAre
<1> QED BY <1>1, <1>2, <1>3, <1>6, <1>7, <1>8, <1>9

(* prof_frame_push adds one frame, of the given node, and leaves the tree as*)
(* it is.                                                                   *)
LEMMA PushShape ==
  ASSUME NEW t \in Thread, NEW n \in Nodes(t), NEW m \in Nat, NEW p \in BOOLEAN
  PROVE  LET u == prof_frame_push(t, n, m, p)
         IN  u \in Thread /\ SameTree(u, t) /\ StackPushed(u, t, n)
<1> DEFINE new    == NewFrame(n, m)
           frame  == IF p THEN prof_frame_pause(new, m) ELSE new
           rest   == UnpauseParent(t.stack, m)
           stack  == Append(rest, frame)
           node   == Visited(t.nodes[n])
           k      == KeyOf(t, n)
           method == VisitedMethod(MethodOf(t, n))
           u      == Measured(t, stack, n, node, k, method)
<1>1. /\ t.nodes[n] \in Node
      /\ k \in Keys
      /\ MethodOf(t, n) \in Method
      /\ t.stack \in Seq(Frame)
      /\ n \in Nat
  BY NodesAre
<1>2. frame \in Frame /\ frame.call_tree = n
  BY <1>1, NewFrameType, PauseType
<1>3. /\ rest \in Seq(Frame)
      /\ Len(rest) = Len(t.stack)
      /\ \A i \in 1 .. Len(t.stack) : rest[i].call_tree = t.stack[i].call_tree
  BY <1>1, UnpauseParentType
<1>4. node \in Node /\ SameLinks(node, t.nodes[n])
  BY <1>1, VisitedNode
<1>5. method \in Method
  BY <1>1, VisitedMethodType
<1>6. prof_frame_push(t, n, m, p) = u
  BY DEF prof_frame_push, Measured
<1> HIDE DEF frame, rest, node, method, k
<1>7. /\ stack \in Seq(Frame)
      /\ Len(stack) = Len(t.stack) + 1
      /\ \A i \in 1 .. Len(t.stack) : stack[i].call_tree = t.stack[i].call_tree
      /\ stack[Len(stack)].call_tree = n
  BY <1>1, <1>2, <1>3
<1> HIDE DEF stack
<1>8. u \in Thread /\ u.stack = stack /\ SameTree(u, t)
  BY <1>1, <1>4, <1>5, <1>7, MeasureUpdate
<1> HIDE DEF u
<1> QED BY <1>6, <1>7, <1>8 DEF StackPushed

(* prof_frame_pop keeps a thread well formed and, unless the stack is empty,*)
(* takes one frame off it.                                                  *)
LEMMA PopOK ==
  ASSUME NEW t, ThreadOK(t), NEW m \in Nat
  PROVE  LET u == prof_frame_pop(t, m)
         IN  /\ ThreadOK(u)
             /\ t.stack # <<>> => Len(u.stack) = Len(t.stack) - 1
<1>1. CASE t.stack = <<>>
  BY <1>1 DEF prof_frame_pop
<1>2. CASE t.stack # <<>>
  <2> DEFINE frame == prof_frame_unpause(Last(t.stack), m)
             total == m - frame.start_time - frame.dead_time
             self  == total - frame.child_time - frame.wait_time
             n     == frame.call_tree
             rest  == SubSeq(t.stack, 1, Len(t.stack) - 1)
             stack == CreditParent(rest, total, frame.dead_time)
             node  == Left(t.nodes[n], total, self, frame.wait_time)
             k     == KeyOf(t, n)
             method == Left(MethodOf(t, n), total, self, frame.wait_time)
             u == Measured(t, stack, n, node, k, method)
  <2>1. t \in Thread /\ t.stack \in Seq(Frame) /\ Len(t.stack) \in Frames(t)
    BY <1>2, NodesAre DEF ThreadOK
  <2>2. frame \in Frame /\ frame.call_tree = t.stack[Len(t.stack)].call_tree
    BY <1>2, <2>1, LastType, UnpauseType
  <2>3. prof_frame_pop(t, m) = u
    BY <1>2 DEF prof_frame_pop, Measured
  <2> HIDE DEF frame
  <2>4. total \in Int /\ self \in Int /\ frame.dead_time \in Int /\ frame.wait_time \in Int
    BY <2>2 DEF Frame
  <2>5. n \in Nodes(t)
    BY <2>1, <2>2 DEF ThreadOK, RootPath
  <2> HIDE DEF n, total, self
  <2>6. /\ rest \in Seq(Frame)
        /\ Len(rest) = Len(t.stack) - 1
        /\ \A i \in 1 .. Len(rest) : rest[i] = t.stack[i]
    BY <1>2, <2>1
  <2> HIDE DEF rest
  <2>7. /\ stack \in Seq(Frame)
        /\ Len(stack) = Len(rest)
        /\ \A i \in 1 .. Len(rest) : stack[i].call_tree = rest[i].call_tree
    BY <2>4, <2>6, CreditParentType
  <2>8. t.nodes[n] \in Node /\ k \in Keys /\ MethodOf(t, n) \in Method
    BY <2>1, <2>5, NodesAre
  <2>9. node \in Node /\ SameLinks(node, t.nodes[n]) /\ method \in Method
    BY <2>4, <2>8, LeftNode, LeftMethod
  <2> HIDE DEF stack, node, k, method
  <2>10. u \in Thread /\ u.stack = stack /\ SameTree(u, t)
    BY <2>1, <2>5, <2>7, <2>8, <2>9, MeasureUpdate
  <2> HIDE DEF u
  <2>11. StackWithin(u, t)
    BY <2>1, <2>6, <2>7, <2>10 DEF StackWithin
  <2>12. ThreadOK(u)
    BY <2>10, <2>11, WithinOK
  <2> QED BY <2>3, <2>6, <2>7, <2>10, <2>12
<1> QED BY <1>1, <1>2

-----------------------------------------------------------------------------
(* The operations that add nodes.                                          *)

(* A frame for a node reached from the top frame's keeps the path.         *)
Reachable(t, n) ==
  IF t.stack = <<>> THEN n = t.call_tree
  ELSE t.nodes[Last(t.stack).call_tree].children[KeyOf(t, n)] = n

(* A frame pushed for a node reachable from the top one extends the path.   *)
LEMMA PushedPath ==
  ASSUME NEW t, ThreadOK(t), NEW n \in Nodes(t), Reachable(t, n),
         NEW u \in Thread, SameTree(u, t), StackPushed(u, t, n)
  PROVE  ThreadOK(u)
<1>1. t \in Thread /\ RootedTree(t) /\ RootPath(t)
  BY DEF ThreadOK
<1>2. Nodes(u) = Nodes(t) /\ Nodes(t) = 1 .. Len(t.nodes)
  BY <1>1, NodesAre DEF SameTree
<1>3. /\ u.call_tree = t.call_tree
      /\ \A c \in Nodes(t) : /\ u.nodes[c].method = t.nodes[c].method
                             /\ u.nodes[c].children = t.nodes[c].children
  BY <1>2 DEF SameTree, SameLinks
<1>4. SUFFICES ASSUME NEW i \in Frames(u)
               PROVE  /\ u.stack[i].call_tree \in Nodes(u)
                      /\ IF i = 1 THEN u.stack[i].call_tree = u.call_tree
                         ELSE u.nodes[u.stack[i - 1].call_tree].children[FrameKey(u, i)]
                                = u.stack[i].call_tree
  BY <1>1, SameTreeRooted DEF RootPath, ThreadOK
<1>5. /\ i \in 1 .. Len(t.stack) + 1
      /\ Len(u.stack) = Len(t.stack) + 1
      /\ Len(t.stack) \in Nat
      /\ Frames(t) = 1 .. Len(t.stack)
      /\ t.stack \in Seq(Frame)
  BY <1>1, NodesAre DEF StackPushed
<1>6. CASE i = Len(t.stack) + 1
  <2>1. u.stack[i].call_tree = n
    BY <1>5, <1>6 DEF StackPushed
  <2>2. CASE t.stack = <<>>
    <3>1. i = 1 /\ n = u.call_tree
      BY <1>3, <1>5, <1>6, <2>2 DEF Reachable
    <3> QED BY <1>2, <2>1, <3>1
  <2>3. CASE t.stack # <<>>
    <3>1. i - 1 = Len(t.stack) /\ Len(t.stack) \in Frames(t) /\ i # 1
      BY <1>5, <1>6, <2>3
    <3>2. u.stack[i - 1].call_tree = Last(t.stack).call_tree
      BY <1>5, <3>1 DEF StackPushed, Last
    <3>3. Last(t.stack).call_tree \in Nodes(t)
      BY <1>1, <3>1 DEF RootPath, Last
    <3>4. t.nodes[Last(t.stack).call_tree].children[t.nodes[n].method] = n
      BY <2>3 DEF Reachable, KeyOf
    <3>5. u.nodes[Last(t.stack).call_tree].children[u.nodes[n].method] = n
      BY <1>3, <3>3, <3>4
    <3> QED BY <1>2, <2>1, <3>1, <3>2, <3>5 DEF FrameKey, KeyOf
  <2> QED BY <2>2, <2>3
<1>7. CASE i # Len(t.stack) + 1
  <2>1. i \in Frames(t) /\ u.stack[i].call_tree = t.stack[i].call_tree
    BY <1>5, <1>7 DEF StackPushed
  <2>2. t.stack[i].call_tree \in Nodes(t)
    BY <1>1, <2>1 DEF RootPath
  <2>3. CASE i = 1
    BY <1>1, <1>2, <1>3, <2>1, <2>2, <2>3 DEF RootPath
  <2>4. CASE i # 1
    <3>1. i - 1 \in Frames(t) /\ u.stack[i - 1].call_tree = t.stack[i - 1].call_tree
      BY <1>5, <2>1, <2>4 DEF StackPushed
    <3>2. t.stack[i - 1].call_tree \in Nodes(t)
      BY <1>1, <3>1 DEF RootPath
    <3>3. t.nodes[t.stack[i - 1].call_tree].children[t.nodes[t.stack[i].call_tree].method]
            = t.stack[i].call_tree
      BY <1>1, <2>1, <2>4 DEF RootPath, FrameKey, KeyOf
    <3>4. u.nodes[t.stack[i - 1].call_tree].children[u.nodes[t.stack[i].call_tree].method]
            = t.stack[i].call_tree
      BY <1>3, <2>2, <3>2, <3>3
    <3> QED BY <1>2, <2>1, <2>2, <2>4, <3>1, <3>4 DEF FrameKey, KeyOf
  <2> QED BY <2>3, <2>4
<1> QED BY <1>6, <1>7

(* prof_frame_push of a reachable node keeps a thread well formed. *)
LEMMA PushOK ==
  ASSUME NEW t, ThreadOK(t), NEW n \in Nodes(t), Reachable(t, n),
         NEW m \in Nat, NEW p \in BOOLEAN
  PROVE  /\ ThreadOK(prof_frame_push(t, n, m, p))
         /\ SameTree(prof_frame_push(t, n, m, p), t)
         /\ StackPushed(prof_frame_push(t, n, m, p), t, n)
<1>1. t \in Thread
  BY DEF ThreadOK
<1> DEFINE u == prof_frame_push(t, n, m, p)
<1>2. u \in Thread /\ SameTree(u, t) /\ StackPushed(u, t, n)
  BY <1>1, PushShape
<1> HIDE DEF u
<1>3. ThreadOK(u)
  BY <1>2, PushedPath
<1> QED BY <1>2, <1>3 DEF u

(* prof_call_tree_create appends one node and changes no other. *)
LEMMA CreateType ==
  ASSUME NEW t \in Thread, NEW k \in Keys, NEW parent \in Nat
  PROVE  LET c == prof_call_tree_create(t, k, parent)
         IN  /\ c \in Thread
             /\ c.stack = t.stack
             /\ c.call_tree = t.call_tree
             /\ c.nodes = Append(t.nodes, NewNode(k, parent))
             /\ NewestNode(c) = Len(t.nodes) + 1
             /\ c.trace = t.trace
<1> DEFINE nodes  == Append(t.nodes, NewNode(k, parent))
           trees  == t.method_table[k].call_trees \cup {Len(t.nodes) + 1}
           method == [t.method_table[k] EXCEPT !.call_trees = trees]
           table  == [t.method_table EXCEPT ![k] = method]
           u1 == [t EXCEPT !.nodes = nodes]
           u2 == [u1 EXCEPT !.method_table = table]
<1>1. /\ t.method_table \in [Keys -> Method]
      /\ t.method_table[k] \in Method
      /\ t.nodes \in Seq(Node)
      /\ Len(t.nodes) \in Nat
  BY NodesAre
<1>2. nodes \in Seq(Node) /\ Len(nodes) = Len(t.nodes) + 1
  BY <1>1, NewNodeType
<1>3. trees \in SUBSET Nat
  BY <1>1 DEF Method
<1>4. prof_call_tree_create(t, k, parent) = [t EXCEPT !.nodes = nodes, !.method_table = table]
  BY DEF prof_call_tree_create
<1> HIDE DEF trees
<1>5. method \in Method
  BY <1>1, <1>3 DEF Method
<1> HIDE DEF method
<1>6. table \in [Keys -> Method]
  BY <1>1, <1>5
<1> HIDE DEF table, nodes
<1>7. /\ u1 \in Thread /\ u1.stack = t.stack /\ u1.call_tree = t.call_tree
      /\ u1.nodes = nodes /\ u1.trace = t.trace
  BY <1>2 DEF Thread
<1> HIDE DEF u1
<1>8. /\ u2 \in Thread /\ u2.stack = t.stack /\ u2.call_tree = t.call_tree
      /\ u2.nodes = nodes /\ u2.trace = t.trace
  BY <1>6, <1>7 DEF Thread
<1> HIDE DEF u2
<1>9. u2 = [t EXCEPT !.nodes = nodes, !.method_table = table]
  BY DEF u1, u2
<1> QED BY <1>2, <1>4, <1>8, <1>9 DEF NewestNode, nodes

WithNode(t, n, node) == [t EXCEPT !.nodes[n] = node]

(* Replacing one node of a thread changes no other. *)
LEMMA WithNodeType ==
  ASSUME NEW t \in Thread, NEW n \in Nodes(t), NEW node \in Node
  PROVE  LET u == WithNode(t, n, node)
         IN  /\ u \in Thread
             /\ u.stack = t.stack
             /\ u.call_tree = t.call_tree
             /\ Len(u.nodes) = Len(t.nodes)
             /\ \A i \in Nodes(t) :
                  u.nodes[i] = IF i = n THEN node ELSE t.nodes[i]
<1> DEFINE nodes == [t.nodes EXCEPT ![n] = node]
           u == [t EXCEPT !.nodes = nodes]
<1>1. /\ nodes \in Seq(Node)
      /\ Len(nodes) = Len(t.nodes)
      /\ \A i \in Nodes(t) : nodes[i] = IF i = n THEN node ELSE t.nodes[i]
  BY NodesAre, ExceptSeq
<1>2. WithNode(t, n, node) = u
  BY DEF WithNode
<1> HIDE DEF nodes
<1>3. u \in Thread /\ u.stack = t.stack /\ u.call_tree = t.call_tree /\ u.nodes = nodes
  BY <1>1 DEF Thread
<1> HIDE DEF u
<1> QED BY <1>1, <1>2, <1>3

(* u is t with child in the children table of self under the key k.        *)
ChildAdded(u, t, self, child, k) ==
  /\ u \in Thread
  /\ u.stack = t.stack
  /\ u.call_tree = t.call_tree
  /\ Nodes(u) = Nodes(t)
  /\ Len(u.nodes) = Len(t.nodes)
  /\ \A n \in Nodes(t) :
       /\ u.nodes[n].method = t.nodes[n].method
       /\ u.nodes[n].parent = t.nodes[n].parent
       /\ \A c \in Keys : u.nodes[n].children[c] =
            IF n = self /\ c = k THEN child ELSE t.nodes[n].children[c]

(* prof_call_tree_add_child changes one entry of one children table. *)
LEMMA AddChildType ==
  ASSUME NEW t \in Thread, NEW self \in Nodes(t), NEW child \in Nodes(t)
  PROVE  ChildAdded(prof_call_tree_add_child(t, self, child), t, self, child,
                    t.nodes[child].method)
<1> DEFINE k == t.nodes[child].method
           children == [t.nodes[self].children EXCEPT ![k] = child]
           node == [t.nodes[self] EXCEPT !.children = children]
           u == WithNode(t, self, node)
<1>0. /\ t.nodes[self] \in Node
      /\ t.nodes[child] \in Node
      /\ child \in Nat
  BY NodesAre
<1>1. /\ t.nodes[self] \in Node
      /\ t.nodes[self].children \in [Keys -> Nat]
      /\ k \in Keys
      /\ child \in Nat
  BY <1>0 DEF Node
<1>2. /\ children \in [Keys -> Nat]
      /\ \A c \in Keys :
           children[c] = IF c = k THEN child ELSE t.nodes[self].children[c]
  BY <1>1
<1>3. prof_call_tree_add_child(t, self, child) = u
  BY DEF prof_call_tree_add_child, WithNode
<1> HIDE DEF children
<1>4. /\ node \in Node
      /\ node.method = t.nodes[self].method
      /\ node.parent = t.nodes[self].parent
      /\ node.children = children
  BY <1>1, <1>2 DEF Node
<1> HIDE DEF node, k
<1>5. /\ u \in Thread
      /\ u.stack = t.stack
      /\ u.call_tree = t.call_tree
      /\ Len(u.nodes) = Len(t.nodes)
      /\ \A i \in Nodes(t) : u.nodes[i] = IF i = self THEN node ELSE t.nodes[i]
  BY <1>4, WithNodeType
<1> HIDE DEF u
<1>6. Nodes(u) = Nodes(t)
  BY <1>5, NodesAre
<1>7. \A n \in Nodes(t) :
        /\ u.nodes[n].method = t.nodes[n].method
        /\ u.nodes[n].parent = t.nodes[n].parent
        /\ \A c \in Keys : u.nodes[n].children[c] =
             IF n = self /\ c = k THEN child ELSE t.nodes[n].children[c]
  BY <1>2, <1>4, <1>5
<1> QED BY <1>3, <1>5, <1>6, <1>7 DEF k, ChildAdded

(* Setting a node's parent changes nothing else. *)
LEMMA SetParentType ==
  ASSUME NEW t \in Thread, NEW self \in Nodes(t), NEW parent \in Nat
  PROVE  LET u == [t EXCEPT !.nodes[self].parent = parent]
         IN  /\ u \in Thread
             /\ u.stack = t.stack
             /\ u.call_tree = t.call_tree
             /\ Nodes(u) = Nodes(t)
             /\ Len(u.nodes) = Len(t.nodes)
             /\ \A n \in Nodes(t) :
                  /\ u.nodes[n].method = t.nodes[n].method
                  /\ u.nodes[n].parent = IF n = self THEN parent ELSE t.nodes[n].parent
                  /\ u.nodes[n].children = t.nodes[n].children
<1> DEFINE node == [t.nodes[self] EXCEPT !.parent = parent]
           u == WithNode(t, self, node)
<1>1. t.nodes[self] \in Node
  BY NodesAre
<1>2. [t EXCEPT !.nodes[self].parent = parent] = u
  BY DEF WithNode
<1>3. /\ node \in Node
      /\ node.method = t.nodes[self].method
      /\ node.parent = parent
      /\ node.children = t.nodes[self].children
  BY <1>1 DEF Node
<1> HIDE DEF node
<1>4. /\ u \in Thread
      /\ u.stack = t.stack
      /\ u.call_tree = t.call_tree
      /\ Len(u.nodes) = Len(t.nodes)
      /\ \A i \in Nodes(t) : u.nodes[i] = IF i = self THEN node ELSE t.nodes[i]
  BY <1>3, WithNodeType
<1> HIDE DEF u
<1>5. Nodes(u) = Nodes(t)
  BY <1>4, NodesAre
<1>6. \A n \in Nodes(t) :
        /\ u.nodes[n].method = t.nodes[n].method
        /\ u.nodes[n].parent = IF n = self THEN parent ELSE t.nodes[n].parent
        /\ u.nodes[n].children = t.nodes[n].children
  BY <1>3, <1>4
<1> QED BY <1>2, <1>4, <1>5, <1>6

(* Setting thread->call_tree changes nothing else. *)
LEMMA SetRootType ==
  ASSUME NEW t \in Thread, NEW n \in Nat
  PROVE  LET u == [t EXCEPT !.call_tree = n]
         IN  /\ u \in Thread
             /\ u.stack = t.stack
             /\ u.call_tree = n
             /\ u.nodes = t.nodes
BY DEF Thread

(* A new child of the node parent, which has none under that key unless it *)
(* is the dummy.                                                           *)
LEMMA ChildTree ==
  ASSUME NEW t, ThreadOK(t), NEW k \in Keys, NEW parent \in Nodes(t),
         t.nodes[parent].children[k] = NULL \/ t.nodes[parent].method = InsertedParent
  PROVE  LET c == prof_call_tree_create(t, k, parent)
             n == NewestNode(c)
             a == prof_call_tree_add_child(c, parent, n)
         IN  /\ a \in Thread
             /\ a.stack = t.stack
             /\ NewestNode(a) = n
             /\ RootedTree(a)
             /\ Nodes(a) = Nodes(t) \cup {n}
             /\ n \notin Nodes(t)
             /\ a.call_tree = t.call_tree
             /\ a.nodes[n].method = k
             /\ \A i \in Nodes(t) :
                  /\ a.nodes[i].method = t.nodes[i].method
                  /\ \A j \in Keys : a.nodes[i].children[j] =
                       IF i = parent /\ j = k THEN n ELSE t.nodes[i].children[j]
<1> DEFINE c == prof_call_tree_create(t, k, parent)
           n == NewestNode(c)
           a == prof_call_tree_add_child(c, parent, n)
<1>1. /\ t \in Thread /\ RootedTree(t) /\ parent \in Nat
      /\ Nodes(t) = 1 .. Len(t.nodes) /\ Len(t.nodes) \in Nat
  BY NodesAre DEF ThreadOK
<1>2. /\ c \in Thread
      /\ c.stack = t.stack
      /\ c.call_tree = t.call_tree
      /\ c.nodes = Append(t.nodes, NewNode(k, parent))
      /\ n = Len(t.nodes) + 1
  BY <1>1, CreateType
<1>3. t.nodes \in Seq(Node) /\ NewNode(k, parent) \in Node
  BY <1>1, NodesAre, NewNodeType
<1> HIDE DEF c, n
<1>4. /\ Nodes(c) = Nodes(t) \cup {n}
      /\ n \notin Nodes(t)
      /\ c.nodes[n] = NewNode(k, parent)
      /\ \A i \in Nodes(t) : c.nodes[i] = t.nodes[i]
  <2> DEFINE new == NewNode(k, parent)
  <2>1. Nodes(c) = 1 .. Len(c.nodes)
    BY <1>2, NodesAre
  <2> HIDE DEF new
  <2>2. /\ Len(c.nodes) = Len(t.nodes) + 1
        /\ c.nodes[Len(t.nodes) + 1] = new
        /\ \A i \in 1 .. Len(t.nodes) : c.nodes[i] = t.nodes[i]
    BY <1>2, <1>3 DEF new
  <2> QED BY <1>1, <1>2, <2>1, <2>2 DEF new
<1>5. c.nodes[n].method = k
  BY <1>1, <1>4, NewNodeType
<1>6. /\ a \in Thread
      /\ a.stack = t.stack
      /\ a.call_tree = t.call_tree
      /\ Nodes(a) = Nodes(c)
      /\ Len(a.nodes) = Len(c.nodes)
      /\ \A i \in Nodes(c) :
           /\ a.nodes[i].method = c.nodes[i].method
           /\ a.nodes[i].parent = c.nodes[i].parent
           /\ \A j \in Keys : a.nodes[i].children[j] =
                IF i = parent /\ j = k THEN n ELSE c.nodes[i].children[j]
  <2>1. parent \in Nodes(c) /\ n \in Nodes(c)
    BY <1>4
  <2>2. ChildAdded(a, c, parent, n, c.nodes[n].method)
    BY <1>2, <2>1, AddChildType
  <2> HIDE DEF a
  <2>3. ChildAdded(a, c, parent, n, k)
    BY <1>5, <2>2
  <2> QED BY <1>2, <2>3 DEF ChildAdded
<1> HIDE DEF a
<1>7. /\ a.nodes[n].method = k
      /\ a.nodes[n].parent = parent
      /\ \A j \in Keys : a.nodes[n].children[j] = NULL
  <2>1. parent \in Nat /\ parent # n
    BY <1>1, <1>4
  <2>2. /\ c.nodes[n].parent = parent
        /\ \A j \in Keys : c.nodes[n].children[j] = NULL
    BY <1>4, <2>1, NewNodeType
  <2> QED BY <1>4, <1>5, <1>6, <2>1, <2>2
<1>8. \A i \in Nodes(t) :
        /\ a.nodes[i].method = t.nodes[i].method
        /\ a.nodes[i].parent = t.nodes[i].parent
        /\ \A j \in Keys : a.nodes[i].children[j] =
             IF i = parent /\ j = k THEN n ELSE t.nodes[i].children[j]
  BY <1>4, <1>6
<1>9. a.call_tree \in Nodes(t)
  BY <1>1, <1>6 DEF RootedTree
<1>10. \A i \in Nodes(a) : LinkedNode(a, i)
  <2>1. ASSUME NEW i \in Nodes(t) PROVE LinkedNode(a, i)
    <3>1. LinkedNode(t, i)
      BY <1>1 DEF RootedTree
    <3>2. ASSUME NEW j \in Keys, a.nodes[i].children[j] # NULL
          PROVE  LET d == a.nodes[i].children[j]
                 IN  d \in Nodes(a) /\ a.nodes[d].method = j /\ a.nodes[d].parent = i
      <4>1. CASE i = parent /\ j = k
        BY <1>4, <1>6, <1>7, <1>8, <4>1
      <4>2. CASE ~(i = parent /\ j = k)
        <5> DEFINE d == t.nodes[i].children[j]
        <5>1. a.nodes[i].children[j] = d /\ d # NULL
          BY <1>8, <3>2, <4>2
        <5>2. d \in Nodes(t) /\ t.nodes[d].method = j /\ t.nodes[d].parent = i
          BY <3>1, <5>1 DEF LinkedNode
        <5> HIDE DEF d
        <5> QED BY <1>4, <1>6, <1>8, <5>1, <5>2
      <4> QED BY <4>1, <4>2
    <3>3. i = a.call_tree <=> a.nodes[i].parent = NULL
      BY <1>6, <1>8, <3>1 DEF LinkedNode
    <3>4. ASSUME i # a.call_tree
          PROVE  /\ a.nodes[i].parent \in Nodes(a)
                 /\ \/ a.nodes[a.nodes[i].parent].children[a.nodes[i].method] = i
                    \/ a.nodes[a.nodes[i].parent].method = InsertedParent
      <4> DEFINE q == t.nodes[i].parent
                 j == t.nodes[i].method
      <4>1. /\ q \in Nodes(t)
            /\ \/ t.nodes[q].children[j] = i
               \/ t.nodes[q].method = InsertedParent
        BY <1>6, <3>1, <3>4 DEF LinkedNode
      <4>2. j \in Keys
        BY <1>1, NodesAre DEF KeyOf
      <4>3. i # NULL
        BY <1>1 DEF NULL
      <4>4. a.nodes[i].parent = q /\ a.nodes[i].method = j
        BY <1>8
      <4> HIDE DEF q, j
      <4>5. CASE q = parent /\ j = k
        BY <1>4, <1>6, <1>8, <4>1, <4>3, <4>4, <4>5
      <4>6. CASE ~(q = parent /\ j = k)
        BY <1>4, <1>6, <1>8, <4>1, <4>2, <4>4, <4>6
      <4> QED BY <4>5, <4>6
    <3> QED BY <3>2, <3>3, <3>4 DEF LinkedNode
  <2>2. LinkedNode(a, n)
    <3>1. n # a.call_tree /\ parent # NULL
      BY <1>1, <1>4, <1>9 DEF NULL
    <3>2. /\ a.nodes[parent].children[k] = n
          /\ parent \in Nodes(a)
      BY <1>4, <1>6, <1>8
    <3> QED BY <1>7, <3>1, <3>2 DEF LinkedNode
  <2> QED BY <1>4, <1>6, <2>1, <2>2
<1>11. RootedTree(a)
  <2>1. a.nodes # <<>>
    BY <1>4, <1>6 DEF Nodes
  <2>2. a.call_tree # NULL
    BY <1>1, <1>9 DEF NULL
  <2> QED BY <1>4, <1>6, <1>9, <1>10, <2>1, <2>2 DEF RootedTree
<1>12. NewestNode(a) = n
  <2> DEFINE new == NewNode(k, parent)
  <2> HIDE DEF new
  <2>1. Len(c.nodes) = Len(t.nodes) + 1
    BY <1>2, <1>3 DEF new
  <2> QED BY <1>2, <1>6, <2>1 DEF NewestNode
<1> QED BY <1>4, <1>6, <1>7, <1>8, <1>11, <1>12 DEF a, c, n

(* The first node of a thread is a tree by itself and its frame may be      *)
(* pushed.                                                                  *)
LEMMA FirstTree ==
  ASSUME NEW t, ThreadOK(t), t.stack = <<>>, t.call_tree = NULL, NEW k \in Keys
  PROVE  LET c == prof_call_tree_create(t, k, NULL)
             n == NewestNode(c)
             d == [c EXCEPT !.call_tree = n]
         IN  /\ ThreadOK(d)
             /\ n \in Nodes(d)
             /\ Reachable(d, n)
<1> DEFINE c == prof_call_tree_create(t, k, NULL)
           n == NewestNode(c)
           d == [c EXCEPT !.call_tree = n]
           new == NewNode(k, NULL)
<1>1. t \in Thread /\ t.nodes = <<>> /\ NULL \in Nat
  BY DEF ThreadOK, RootedTree, NULL
<1>2. /\ c \in Thread
      /\ c.stack = <<>>
      /\ c.nodes = Append(<<>>, new)
      /\ n = 1
  <2> HIDE DEF c, n, new
  <2>1. /\ c \in Thread
        /\ c.stack = t.stack
        /\ c.nodes = Append(t.nodes, new)
        /\ n = Len(t.nodes) + 1
    BY <1>1, CreateType DEF c, n, new
  <2> QED BY <1>1, <2>1
<1>3. /\ new \in Node
      /\ new.parent = NULL
      /\ \A j \in Keys : new.children[j] = NULL
  BY <1>1, NewNodeType
<1> HIDE DEF c, n, new
<1>4. /\ d \in Thread
      /\ d.stack = <<>>
      /\ d.call_tree = 1
      /\ d.nodes = Append(<<>>, new)
  BY <1>2 DEF Thread
<1> HIDE DEF d
<1>5. Len(d.nodes) = 1 /\ d.nodes[1] = new /\ d.nodes # <<>>
  BY <1>3, <1>4
<1>6. Nodes(d) = {1} /\ Frames(d) = {}
  BY <1>4, <1>5, NodesAre
<1>7. LinkedNode(d, 1)
  BY <1>3, <1>4, <1>5 DEF LinkedNode
<1>8. RootedTree(d)
  BY <1>4, <1>5, <1>6, <1>7 DEF RootedTree, NULL
<1>9. RootPath(d)
  BY <1>6 DEF RootPath
<1> QED BY <1>2, <1>4, <1>6, <1>8, <1>9 DEF ThreadOK, Reachable, c, n, d

(* A node put above the root of an idle thread is the root of a linked tree.*)
LEMMA ClimbTree ==
  ASSUME NEW t, ThreadOK(t), t.stack = <<>>, t.call_tree # NULL, NEW k \in Keys
  PROVE  LET c == prof_call_tree_create(t, k, NULL)
             n == NewestNode(c)
             p == prof_call_tree_add_parent(c, t.call_tree, n)
             d == [p EXCEPT !.call_tree = n]
         IN  /\ ThreadOK(d)
             /\ d.stack = <<>>
             /\ d.call_tree = n
             /\ {n, t.call_tree} \subseteq Nodes(d)
             /\ d.nodes[n].method = k
<1> DEFINE c == prof_call_tree_create(t, k, NULL)
           n == NewestNode(c)
           r == t.call_tree
           a == prof_call_tree_add_child(c, n, r)
           p == prof_call_tree_add_parent(c, r, n)
           d == [p EXCEPT !.call_tree = n]
           new == NewNode(k, NULL)
           q == t.nodes[r].method
<1>1. /\ t \in Thread /\ RootedTree(t) /\ NULL \in Nat
      /\ Nodes(t) = 1 .. Len(t.nodes) /\ Len(t.nodes) \in Nat
      /\ t.nodes \in Seq(Node)
  BY NodesAre DEF ThreadOK, NULL
<1>2. r \in Nodes(t) /\ t.nodes[r] \in Node /\ t.nodes[r].parent = NULL
  BY <1>1, NodesAre DEF RootedTree, LinkedNode
<1>3. q \in Keys
  BY <1>2 DEF Node
<1>4. /\ c \in Thread
      /\ c.stack = <<>>
      /\ c.nodes = Append(t.nodes, new)
      /\ n = Len(t.nodes) + 1
  BY <1>1, CreateType
<1>5. /\ new \in Node
      /\ new.method = k
      /\ new.parent = NULL
      /\ \A j \in Keys : new.children[j] = NULL
  BY <1>1, NewNodeType
<1> HIDE DEF c, n, new, r
<1>6. /\ Len(c.nodes) = Len(t.nodes) + 1
      /\ c.nodes[n] = new
      /\ \A i \in Nodes(t) : c.nodes[i] = t.nodes[i]
  BY <1>1, <1>4, <1>5
<1>7. Nodes(c) = Nodes(t) \cup {n} /\ n \notin Nodes(t) /\ n \in Nat
  BY <1>1, <1>4, <1>6, NodesAre
<1>8. ChildAdded(a, c, n, r, q)
  <2>1. n \in Nodes(c) /\ r \in Nodes(c) /\ c.nodes[r].method = q
    BY <1>2, <1>6, <1>7
  <2> HIDE DEF a, q
  <2>2. ChildAdded(prof_call_tree_add_child(c, n, r), c, n, r, c.nodes[r].method)
    BY <1>4, <2>1, AddChildType
  <2> QED BY <2>1, <2>2 DEF a
<1>9. p = [a EXCEPT !.nodes[r].parent = n]
  BY DEF prof_call_tree_add_parent
<1> HIDE DEF a, p, q
<1>10. a \in Thread /\ r \in Nodes(a)
  BY <1>2, <1>7, <1>8 DEF ChildAdded
<1>11. /\ p \in Thread
       /\ p.stack = a.stack
       /\ Nodes(p) = Nodes(a)
       /\ \A i \in Nodes(a) :
            /\ p.nodes[i].method = a.nodes[i].method
            /\ p.nodes[i].parent = IF i = r THEN n ELSE a.nodes[i].parent
            /\ p.nodes[i].children = a.nodes[i].children
  BY <1>7, <1>9, <1>10, SetParentType
<1>12. /\ d \in Thread
       /\ d.stack = p.stack
       /\ d.call_tree = n
       /\ d.nodes = p.nodes
  BY <1>7, <1>11, SetRootType
<1> HIDE DEF d
<1>13. Nodes(d) = Nodes(t) \cup {n} /\ d.stack = <<>>
  BY <1>4, <1>7, <1>8, <1>11, <1>12 DEF ChildAdded, Nodes
<1>14. /\ d.nodes[n].method = k
       /\ d.nodes[n].parent = NULL
       /\ \A j \in Keys : d.nodes[n].children[j] = IF j = q THEN r ELSE NULL
  <2>1. n # r /\ n \in Nodes(c)
    BY <1>2, <1>7
  <2> QED BY <2>1, <1>5, <1>6, <1>8, <1>11, <1>12 DEF ChildAdded
<1>15. \A i \in Nodes(t) :
         /\ d.nodes[i].method = t.nodes[i].method
         /\ d.nodes[i].parent = IF i = r THEN n ELSE t.nodes[i].parent
         /\ \A j \in Keys : d.nodes[i].children[j] = t.nodes[i].children[j]
  <2>1. SUFFICES ASSUME NEW i \in Nodes(t)
                 PROVE  /\ d.nodes[i].method = t.nodes[i].method
                        /\ d.nodes[i].parent = IF i = r THEN n ELSE t.nodes[i].parent
                        /\ \A j \in Keys :
                             d.nodes[i].children[j] = t.nodes[i].children[j]
    OBVIOUS
  <2>2. i # n /\ i \in Nodes(c) /\ c.nodes[i] = t.nodes[i]
    BY <1>6, <1>7
  <2>3. /\ a.nodes[i].method = t.nodes[i].method
        /\ a.nodes[i].parent = t.nodes[i].parent
        /\ \A j \in Keys : a.nodes[i].children[j] = t.nodes[i].children[j]
        /\ i \in Nodes(a)
    BY <1>8, <2>2 DEF ChildAdded
  <2> QED BY <1>11, <1>12, <2>3
<1>16. LinkedNode(d, n)
  <2>1. d.nodes[r].method = q /\ d.nodes[r].parent = n /\ r \in Nodes(d)
    BY <1>2, <1>13, <1>15 DEF q
  <2> QED BY <1>12, <1>14, <2>1 DEF LinkedNode
<1>17. ASSUME NEW i \in Nodes(t) PROVE LinkedNode(d, i)
  <2>1. LinkedNode(t, i)
    BY <1>1 DEF RootedTree
  <2>2. i # n /\ i # NULL
    BY <1>1, <1>7 DEF NULL
  <2>3. ASSUME NEW j \in Keys, d.nodes[i].children[j] # NULL
        PROVE  LET e == d.nodes[i].children[j]
               IN  e \in Nodes(d) /\ d.nodes[e].method = j /\ d.nodes[e].parent = i
    <3> DEFINE e == t.nodes[i].children[j]
    <3>1. d.nodes[i].children[j] = e /\ e # NULL
      BY <1>15, <2>3
    <3>2. e \in Nodes(t) /\ t.nodes[e].method = j /\ t.nodes[e].parent = i
      BY <2>1, <3>1 DEF LinkedNode
    <3> HIDE DEF e
    <3>3. e # r
      BY <1>2, <2>2, <3>2
    <3> QED BY <1>13, <1>15, <3>1, <3>2, <3>3
  <2>4. CASE i = r
    <3>1. /\ d.nodes[i].parent = n
          /\ d.nodes[i].method = q
          /\ d.nodes[n].children[q] = i
      BY <1>3, <1>14, <1>15, <2>4 DEF q
    <3>2. n \in Nodes(d) /\ n # NULL
      BY <1>1, <1>4, <1>13 DEF NULL
    <3> HIDE DEF q
    <3> QED BY <1>12, <2>2, <2>3, <3>1, <3>2 DEF LinkedNode
  <2>5. CASE i # r
    <3> DEFINE e == t.nodes[i].parent
               j == t.nodes[i].method
    <3>1. /\ e \in Nodes(t)
          /\ e # NULL
          /\ \/ t.nodes[e].children[j] = i
             \/ t.nodes[e].method = InsertedParent
      BY <2>1, <2>5 DEF LinkedNode, r
    <3>2. j \in Keys
      BY <1>1, NodesAre DEF KeyOf
    <3>3. d.nodes[i].parent = e /\ d.nodes[i].method = j
      BY <1>15, <2>5
    <3> HIDE DEF e, j
    <3>4. /\ e \in Nodes(d)
          /\ \/ d.nodes[e].children[j] = i
             \/ d.nodes[e].method = InsertedParent
      BY <1>13, <1>15, <3>1, <3>2
    <3> QED BY <1>12, <2>2, <2>3, <3>1, <3>3, <3>4 DEF LinkedNode
  <2> QED BY <2>4, <2>5
<1>18. RootedTree(d)
  <2>1. d.nodes # <<>> /\ d.call_tree # NULL
    BY <1>1, <1>4, <1>12, <1>13 DEF Nodes, NULL
  <2> QED BY <1>12, <1>13, <1>16, <1>17, <2>1 DEF RootedTree
<1>19. RootPath(d)
  BY <1>12, <1>13, NodesAre DEF RootPath
<1> QED BY <1>2, <1>12, <1>13, <1>14, <1>18, <1>19 DEF ThreadOK, c, n, r, p, d

-----------------------------------------------------------------------------
(* The event hook, on the data of one fiber.                               *)

(* The first frame of a thread, from a line or a call event, keeps it well  *)
(* formed.                                                                  *)
LEMMA FirstFrameOK ==
  ASSUME NEW t, ThreadOK(t), t.stack = <<>>, t.call_tree = NULL,
         NEW k \in Keys, NEW m \in Nat, paused \in BOOLEAN
  PROVE  ThreadOK(FirstFrame(t, k, m))
<1> DEFINE c == prof_call_tree_create(t, k, NULL)
           n == NewestNode(c)
           d == [c EXCEPT !.call_tree = n]
<1>1. ThreadOK(d) /\ n \in Nodes(d) /\ Reachable(d, n)
  BY FirstTree
<1>2. FirstFrame(t, k, m) = prof_frame_push(d, n, m, paused)
  BY DEF FirstFrame
<1> HIDE DEF d, n
<1> QED BY <1>1, <1>2, PushOK

(* prof_frame_unshift adds one frame, of the given parent, and leaves the   *)
(* tree as it is.                                                           *)
LEMMA UnshiftShape ==
  ASSUME NEW t \in Thread, NEW parent \in Nodes(t), NEW root \in Nodes(t), NEW m \in Nat
  PROVE  LET u == prof_frame_unshift(t, parent, root, m)
         IN  u \in Thread /\ SameTree(u, t) /\ StackPushed(u, t, parent)
<1> DEFINE node == TakeOver(t.nodes[parent], t.nodes[root])
           k == KeyOf(t, parent)
           method == TakeOverMethod(MethodOf(t, parent), t.nodes[root])
           v == Measured(t, t.stack, parent, node, k, method)
           u == prof_frame_push(v, parent, m, FALSE)
<1>1. /\ t.nodes[parent] \in Node
      /\ t.nodes[root] \in Node
      /\ k \in Keys
      /\ MethodOf(t, parent) \in Method
      /\ t.stack \in Seq(Frame)
  BY NodesAre
<1>2. node \in Node /\ SameLinks(node, t.nodes[parent]) /\ method \in Method
  BY <1>1, TakeOverNode, TakeOverMethodType
<1>3. prof_frame_unshift(t, parent, root, m) = u
  <2>1. [t EXCEPT !.nodes[parent] = node, !.method_table[k] = method] = v
    BY DEF Measured, Thread
  <2> QED BY <2>1 DEF prof_frame_unshift
<1> HIDE DEF node, method, k
<1>4. v \in Thread /\ v.stack = t.stack /\ SameTree(v, t)
  BY <1>1, <1>2, MeasureUpdate
<1> HIDE DEF v
<1>5. parent \in Nodes(v)
  BY <1>4, NodesAre DEF SameTree
<1>6. u \in Thread /\ SameTree(u, v) /\ StackPushed(u, v, parent)
  BY <1>4, <1>5, PushShape
<1> HIDE DEF u
<1>7. SameTree(u, t)
  BY <1>4, <1>6 DEF SameTree, SameLinks
<1>8. StackPushed(u, t, parent)
  BY <1>4, <1>6 DEF StackPushed
<1> QED BY <1>3, <1>6, <1>7, <1>8

(* Climbing above the root keeps a thread well formed, with the new root's  *)
(* frame as the only one.                                                   *)
LEMMA ClimbOK ==
  ASSUME NEW t, ThreadOK(t), t.stack = <<>>, t.call_tree # NULL,
         NEW k \in Keys, NEW m \in Nat
  PROVE  LET u == Climb(t, k, m)
         IN  /\ ThreadOK(u)
             /\ Len(u.stack) = 1
             /\ Last(u.stack).call_tree = u.call_tree
             /\ u.call_tree \in Nodes(u)
             /\ KeyOf(u, u.call_tree) = k
<1> DEFINE c == prof_call_tree_create(t, k, NULL)
           n == NewestNode(c)
           r == t.call_tree
           p == prof_call_tree_add_parent(c, r, n)
           d == [p EXCEPT !.call_tree = n]
           u == prof_frame_unshift(d, n, r, m)
<1>1. /\ ThreadOK(d)
      /\ d.stack = <<>>
      /\ d.call_tree = n
      /\ n \in Nodes(d)
      /\ r \in Nodes(d)
      /\ d.nodes[n].method = k
  BY ClimbTree
<1>2. Climb(t, k, m) = u
  BY DEF Climb
<1> HIDE DEF d, n, r
<1>3. u \in Thread /\ SameTree(u, d) /\ StackPushed(u, d, n)
  BY <1>1, UnshiftShape DEF ThreadOK
<1> HIDE DEF u
<1>4. ThreadOK(u)
  BY <1>1, <1>3, PushedPath DEF Reachable
<1>5. /\ Len(u.stack) = 1
      /\ Last(u.stack).call_tree = n
      /\ u.call_tree = n
  BY <1>1, <1>3 DEF StackPushed, SameTree, Last
<1>6. n \in Nodes(u) /\ u.nodes[n].method = k
  <2>1. Nodes(u) = 1 .. Len(u.nodes) /\ Nodes(d) = 1 .. Len(d.nodes)
    BY <1>1, <1>3, NodesAre DEF ThreadOK
  <2> QED BY <1>1, <1>3, <2>1 DEF SameTree, SameLinks
<1> QED BY <1>2, <1>4, <1>5, <1>6 DEF KeyOf

(* A line event keeps its fiber's thread well formed. *)
LEMMA LineEventOK ==
  ASSUME NEW t, ThreadOK(t), NEW k \in Keys, NEW m \in Nat, paused \in BOOLEAN
  PROVE  ThreadOK(LineEvent(t, k, m))
<1> DEFINE u == create_method(t, k)
<1>1. ThreadOK(u) /\ u.stack = t.stack /\ u.call_tree = t.call_tree
  BY CreateMethodOK
<1> HIDE DEF u
<1>2. CASE t.stack # <<>>
  BY <1>2 DEF LineEvent
<1>3. CASE t.stack = <<>> /\ t.call_tree = NULL
  <2>1. ThreadOK(FirstFrame(u, k, m))
    BY <1>1, <1>3, FirstFrameOK
  <2> QED BY <1>3, <2>1 DEF LineEvent, u
<1>4. CASE t.stack = <<>> /\ t.call_tree # NULL
  <2>1. ThreadOK(Climb(u, k, m))
    BY <1>1, <1>4, ClimbOK
  <2> QED BY <1>4, <2>1 DEF LineEvent, u
<1> QED BY <1>2, <1>3, <1>4

(* The top frame of a well formed thread is of one of its nodes. *)
LEMMA TopFrameNode ==
  ASSUME NEW t, ThreadOK(t), t.stack # <<>>
  PROVE  /\ Last(t.stack).call_tree \in Nodes(t)
         /\ Len(t.stack) \in Frames(t)
<1>1. Len(t.stack) \in Frames(t)
  BY NodesAre DEF ThreadOK
<1> QED BY <1>1 DEF ThreadOK, RootPath, Last

(* A new child of the top frame's node keeps the thread well formed and may *)
(* be pushed; a child that is replaced was one of the dummy's.              *)
LEMMA NewChildOK ==
  ASSUME NEW t, ThreadOK(t), t.stack # <<>>, NEW k \in Keys,
         LET top == Last(t.stack).call_tree
         IN  \/ t.nodes[top].children[k] = NULL
             \/ t.nodes[top].method = InsertedParent /\ Len(t.stack) = 1
  PROVE  LET top == Last(t.stack).call_tree
             c == prof_call_tree_create(t, k, top)
             n == NewestNode(c)
             a == prof_call_tree_add_child(c, top, n)
         IN  /\ ThreadOK(a)
             /\ a.stack = t.stack
             /\ NewestNode(a) = n
             /\ n \in Nodes(a)
             /\ Reachable(a, n)
<1> DEFINE top == Last(t.stack).call_tree
           c == prof_call_tree_create(t, k, top)
           n == NewestNode(c)
           a == prof_call_tree_add_child(c, top, n)
<1>1. /\ t \in Thread /\ RootedTree(t) /\ RootPath(t)
      /\ Nodes(t) = 1 .. Len(t.nodes) /\ Len(t.nodes) \in Nat
      /\ top \in Nodes(t)
  BY NodesAre, TopFrameNode DEF ThreadOK
<1>2. /\ a \in Thread
      /\ a.stack = t.stack
      /\ NewestNode(a) = n
      /\ RootedTree(a)
      /\ Nodes(a) = Nodes(t) \cup {n}
      /\ n \notin Nodes(t)
      /\ a.call_tree = t.call_tree
      /\ a.nodes[n].method = k
      /\ \A i \in Nodes(t) :
           /\ a.nodes[i].method = t.nodes[i].method
           /\ \A j \in Keys : a.nodes[i].children[j] =
                IF i = top /\ j = k THEN n ELSE t.nodes[i].children[j]
  <2>1. t.nodes[top].children[k] = NULL \/ t.nodes[top].method = InsertedParent
    OBVIOUS
  <2> HIDE DEF top
  <2> QED BY <1>1, <2>1, ChildTree
<1> HIDE DEF a, n
<1>4. RootPath(a)
  <2>1. SUFFICES ASSUME NEW i \in Frames(t)
                 PROVE  /\ a.stack[i].call_tree \in Nodes(a)
                        /\ IF i = 1 THEN a.stack[i].call_tree = a.call_tree
                           ELSE a.nodes[a.stack[i - 1].call_tree].children[FrameKey(a, i)]
                                  = a.stack[i].call_tree
    BY <1>2 DEF RootPath, Frames
  <2>2. t.stack[i].call_tree \in Nodes(t)
    BY <1>1 DEF RootPath
  <2>3. CASE i = 1
    BY <1>1, <1>2, <2>2, <2>3 DEF RootPath
  <2>4. CASE i # 1
    <3> DEFINE q == t.stack[i - 1].call_tree
               e == t.stack[i].call_tree
               j == t.nodes[e].method
    <3>1. i - 1 \in Frames(t) /\ Len(t.stack) # 1
      BY <1>1, <2>4, NodesAre
    <3>2. q \in Nodes(t) /\ t.nodes[q].children[j] = e
      BY <1>1, <2>4, <3>1 DEF RootPath, FrameKey, KeyOf
    <3>3. j \in Keys /\ e # NULL
      BY <1>1, <2>2, NodesAre DEF KeyOf, NULL
    <3>4. a.nodes[e].method = j
      BY <1>2, <2>2
    <3> HIDE DEF q, e, j
    <3>5. ~(q = top /\ j = k)
      BY <3>1, <3>2, <3>3
    <3>6. a.nodes[q].children[j] = e
      BY <1>2, <3>2, <3>3, <3>5
    <3>7. a.stack[i - 1].call_tree = q /\ a.stack[i].call_tree = e
      BY <1>2 DEF q, e
    <3> QED BY <1>2, <2>2, <2>4, <3>4, <3>6, <3>7 DEF FrameKey, KeyOf, e
  <2> QED BY <2>3, <2>4
<1>5. Reachable(a, n)
  BY <1>1, <1>2 DEF Reachable, KeyOf, top
<1>6. ThreadOK(a) /\ n \in Nodes(a)
  BY <1>2, <1>4 DEF ThreadOK
<1> QED BY <1>2, <1>5, <1>6 DEF a, n

(* So does the call that makes it.                                          *)
LEMMA CallChildOK ==
  ASSUME NEW t, ThreadOK(t), t.stack # <<>>,
         NEW k \in Keys, NEW m \in Nat, paused \in BOOLEAN,
         LET top == Last(t.stack).call_tree
         IN  \/ t.nodes[top].children[k] = NULL
             \/ t.nodes[top].method = InsertedParent /\ Len(t.stack) = 1
  PROVE  ThreadOK(CallChild(t, k, Last(t.stack).call_tree, m))
<1> DEFINE top == Last(t.stack).call_tree
           c == prof_call_tree_create(t, k, top)
           n == NewestNode(c)
           a == prof_call_tree_add_child(c, top, n)
<1>1. ThreadOK(a) /\ NewestNode(a) = n /\ n \in Nodes(a) /\ Reachable(a, n)
  BY NewChildOK
<1>2. CallChild(t, k, top, m) = prof_frame_push(a, n, m, paused)
  BY <1>1 DEF CallChild
<1> HIDE DEF a, n
<1> QED BY <1>1, <1>2, PushOK

(* A call event keeps its fiber's thread well formed, on each of its paths. *)
LEMMA CallEventOK ==
  ASSUME NEW t, ThreadOK(t), NEW k \in Keys, NEW m \in Nat, paused \in BOOLEAN
  PROVE  ThreadOK(CallEvent(t, k, m))
<1> DEFINE u == create_method(t, k)
<1>1. ThreadOK(u) /\ u.stack = t.stack /\ u.call_tree = t.call_tree
  BY CreateMethodOK
<1> HIDE DEF u
<1>2. CASE t.stack # <<>>
  <2> DEFINE top == Last(u.stack).call_tree
             child == u.nodes[top].children[k]
  <2>1. u.stack # <<>> /\ top \in Nodes(u)
    BY <1>1, <1>2, TopFrameNode
  <2>2. CASE child = NULL
    <3>1. ThreadOK(CallChild(u, k, top, m))
      BY <1>1, <2>1, <2>2, CallChildOK
    <3> QED BY <1>2, <2>2, <3>1 DEF CallEvent, CallFromFrame, prof_frame_current, u
  <2>3. CASE child # NULL
    <3>1. child \in Nodes(u) /\ KeyOf(u, child) = k
      BY <1>1, <2>1, <2>3 DEF ThreadOK, RootedTree, LinkedNode, KeyOf
    <3>2. Reachable(u, child)
      BY <2>1, <3>1 DEF Reachable
    <3> HIDE DEF child
    <3>3. ThreadOK(prof_frame_push(u, child, m, paused))
      BY <1>1, <3>1, <3>2, PushOK
    <3> QED BY <1>2, <2>3, <3>3 DEF CallEvent, CallFromFrame, prof_frame_current, child, u
  <2> QED BY <2>2, <2>3
<1>3. CASE t.stack = <<>> /\ t.call_tree = NULL
  <2>1. ThreadOK(FirstFrame(u, k, m))
    BY <1>1, <1>3, FirstFrameOK
  <2> QED BY <1>3, <2>1 DEF CallEvent, u
<1>4. CASE t.stack = <<>> /\ t.call_tree # NULL
  <2> DEFINE v == create_method(u, InsertedParent)
             w == Climb(v, InsertedParent, m)
  <2>1. InsertedParent \in Keys
    BY DEF Keys
  <2>2. ThreadOK(v) /\ v.stack = <<>> /\ v.call_tree # NULL
    BY <1>1, <1>4, <2>1, CreateMethodOK
  <2> HIDE DEF v
  <2>3. /\ ThreadOK(w)
        /\ Len(w.stack) = 1
        /\ Last(w.stack).call_tree = w.call_tree
        /\ KeyOf(w, w.call_tree) = InsertedParent
    BY <2>1, <2>2, ClimbOK
  <2> HIDE DEF w
  <2>4. w.stack # <<>> /\ w.nodes[w.call_tree].method = InsertedParent
    BY <2>3 DEF KeyOf
  <2>5. ThreadOK(CallChild(w, k, w.call_tree, m))
    BY <2>3, <2>4, CallChildOK
  <2> QED BY <1>4, <2>5 DEF CallEvent, CallAboveRoot, u, v, w
<1> QED BY <1>2, <1>3, <1>4

(* An event leaves the data of its fiber well formed, whatever the event.  *)
LEMMA HandleOK ==
  ASSUME NEW t, ThreadOK(t), NEW k \in Methods, NEW m \in Nat, paused \in BOOLEAN,
         NEW event \in {"line", "call", "return"}
  PROVE  ThreadOK(Handle(event, t, k, m))
<1>1. k \in Keys
  BY DEF Keys
<1>2. ThreadOK(create_method(t, k))
  BY <1>1, CreateMethodOK
<1>3. ThreadOK(ReturnEvent(t, k, m))
  BY <1>2, PopOK DEF ReturnEvent
<1>4. ThreadOK(LineEvent(t, k, m)) /\ ThreadOK(CallEvent(t, k, m))
  BY <1>1, LineEventOK, CallEventOK
<1>5. CASE event = "line"
  BY <1>4, <1>5 DEF Handle
<1>6. CASE event = "call"
  BY <1>4, <1>6 DEF Handle
<1>7. CASE event = "return"
  BY <1>3, <1>7 DEF Handle
<1> QED BY <1>5, <1>6, <1>7

(* PopAll is what repeated prof_frame_pop arrives at.                       *)
LEMMA PopAllIterates ==
  ASSUME NEW t, ThreadOK(t), NEW m \in Nat
  PROVE  \E popped : /\ popped[0] = t
                     /\ \A i \in Nat : popped[i + 1] = prof_frame_pop(popped[i], m)
                     /\ PopAll(t, m) = popped[Len(t.stack)]
<1> DEFINE S == {u \in Thread : ThreadOK(u)}
           step == [u \in S |-> prof_frame_pop(u, m)]
           P(f) == f = [i \in Nat |-> IF i = 0 THEN t ELSE prof_frame_pop(f[i - 1], m)]
           popped == CHOOSE f : P(f)
<1>1. t \in S /\ step \in [S -> S]
  <2>1. ASSUME NEW u \in S PROVE prof_frame_pop(u, m) \in S
    BY PopOK DEF ThreadOK
  <2> QED BY <2>1 DEF ThreadOK
<1>2. P(popped)
  <2>1. PICK f \in [Nat -> S] : f[0] = t /\ \A n \in Nat : f[n + 1] = step[f[n]]
    <3> HIDE DEF S, step
    <3> QED BY <1>1, IterationExists
  <2>2. ASSUME NEW i \in Nat
        PROVE  f[i] = IF i = 0 THEN t ELSE prof_frame_pop(f[i - 1], m)
    <3>1. CASE i = 0
      BY <2>1, <3>1
    <3>2. CASE i # 0
      <4>1. i - 1 \in Nat /\ (i - 1) + 1 = i
        BY <3>2
      <4>2. f[i] = step[f[i - 1]] /\ f[i - 1] \in S
        <5> HIDE DEF S, step
        <5> QED BY <2>1, <4>1
      <4> QED BY <3>2, <4>2
    <3> QED BY <3>1, <3>2
  <2>3. P(f)
    <3> HIDE DEF S
    <3> QED BY <2>1, <2>2
  <2> HIDE DEF P
  <2> QED BY <2>3
<1>3. PopAll(t, m) = popped[Len(t.stack)]
  BY DEF PopAll
<1> HIDE DEF popped
<1>4. popped[0] = t
  BY <1>2
<1>5. ASSUME NEW i \in Nat PROVE popped[i + 1] = prof_frame_pop(popped[i], m)
  <2>1. i + 1 \in Nat /\ i + 1 # 0 /\ (i + 1) - 1 = i
    OBVIOUS
  <2> QED BY <1>2, <2>1
<1> QED BY <1>3, <1>4, <1>5

(* Popping as often as there are frames empties the stack, and changes     *)
(* nothing when it is empty.                                               *)
LEMMA PopAllOK ==
  ASSUME NEW t, ThreadOK(t), NEW m \in Nat
  PROVE  /\ ThreadOK(PopAll(t, m)) /\ PopAll(t, m).stack = <<>>
         /\ t.stack = <<>> => PopAll(t, m) = t
<1>1. PICK popped : /\ popped[0] = t
                    /\ \A i \in Nat : popped[i + 1] = prof_frame_pop(popped[i], m)
                    /\ PopAll(t, m) = popped[Len(t.stack)]
  BY PopAllIterates
<1> DEFINE B == {i \in Nat : i <= Len(t.stack) =>
                   ThreadOK(popped[i]) /\ Len(popped[i].stack) = Len(t.stack) - i}
<1>2. Len(t.stack) \in Nat
  BY NodesAre DEF ThreadOK
<1>3. \A i \in Nat : i \in B
  <2>1. 0 \in B
    <3>1. ThreadOK(popped[0]) /\ Len(popped[0].stack) = Len(t.stack) - 0
      BY <1>1, <1>2
    <3> QED BY <3>1
  <2>2. ASSUME NEW i \in Nat, i \in B PROVE i + 1 \in B
    <3>1. SUFFICES ASSUME i + 1 <= Len(t.stack)
                   PROVE  /\ ThreadOK(popped[i + 1])
                          /\ Len(popped[i + 1].stack) = Len(t.stack) - (i + 1)
      OBVIOUS
    <3>2. ThreadOK(popped[i]) /\ Len(popped[i].stack) = Len(t.stack) - i
      BY <1>2, <2>2, <3>1
    <3>3. popped[i].stack # <<>>
      BY <1>2, <3>1, <3>2
    <3>4. LET u == prof_frame_pop(popped[i], m)
          IN  ThreadOK(u) /\ Len(u.stack) = Len(popped[i].stack) - 1
      BY <3>2, <3>3, PopOK
    <3>5. popped[i + 1] = prof_frame_pop(popped[i], m)
      BY <1>1
    <3>6. Len(popped[i + 1].stack) = Len(popped[i].stack) - 1
      BY <3>4, <3>5
    <3>7. (Len(t.stack) - i) - 1 = Len(t.stack) - (i + 1)
      BY <1>2
    <3>8. ThreadOK(popped[i + 1])
      BY <3>4, <3>5
    <3> QED BY <3>2, <3>6, <3>7, <3>8
  <2> HIDE DEF B
  <2> QED BY <2>1, <2>2, NatInd
<1>4. LET u == popped[Len(t.stack)] IN ThreadOK(u) /\ Len(u.stack) = 0
  BY <1>2, <1>3
<1>5. popped[Len(t.stack)].stack = <<>>
  BY <1>4, NodesAre DEF ThreadOK
<1>6. ASSUME t.stack = <<>> PROVE popped[Len(t.stack)] = t
  <2>1. Len(t.stack) = 0
    BY <1>6
  <2> QED BY <1>1, <2>1
<1> QED BY <1>1, <1>4, <1>5, <1>6

-----------------------------------------------------------------------------
(* The threads table.                                                      *)

TableOK(tbl) ==
  /\ DOMAIN tbl \subseteq Fibers
  /\ \A f \in DOMAIN tbl : ThreadOK(tbl[f])

(* While the profile runs, last_thread_data is one of its threads.         *)
LastIsKnown == running => last \in DOMAIN threads

IInv ==
  /\ TypeOK
  /\ LastIsKnown
  /\ TableOK(threads)

(* thread_data_create makes a well formed thread. *)
LEMMA NewThreadOK ==
  ASSUME NEW trace \in BOOLEAN
  PROVE  ThreadOK(thread_data_create(trace))
<1> DEFINE t == thread_data_create(trace)
<1>1. t \in Thread
  BY DEF thread_data_create, Thread, NoMethod, Method, NULL
<1>2. t.stack = <<>> /\ t.nodes = <<>> /\ t.call_tree = NULL
  BY DEF thread_data_create
<1> HIDE DEF t
<1>3. Nodes(t) = {} /\ Frames(t) = {}
  BY <1>2 DEF Nodes, Frames
<1> QED BY <1>1, <1>2, <1>3 DEF ThreadOK, RootedTree, RootPath, t

(* threads_table_insert keeps the table well formed, whether or not the     *)
(* fiber was in it.                                                         *)
LEMMA InsertOK ==
  ASSUME NEW tbl, TableOK(tbl), NEW f \in Fibers
  PROVE  LET u == threads_table_insert(tbl, f)
         IN  TableOK(u) /\ DOMAIN u = DOMAIN tbl \cup {f}
<1>1. ThreadOK(thread_data_create(f \notin Untraced))
  BY NewThreadOK
<1> QED BY <1>1 DEF TableOK, threads_table_insert

(* While the profile runs check_fiber returns a fiber of the table it       *)
(* leaves, after switching away from a last thread that is in it.           *)
LEMMA CheckFiberOK ==
  ASSUME IInv, running, NEW f \in Fibers, NEW m \in Nat
  PROVE  LET u == check_fiber(f, m) IN TableOK(u) /\ f \in DOMAIN u
<1>1. TableOK(threads) /\ last \in DOMAIN threads
  BY DEF IInv, LastIsKnown
<1>2. CASE last = f
  BY <1>1, <1>2 DEF check_fiber
<1>3. CASE last # f
  <2> DEFINE tbl == threads_table_fetch(threads, f)
             u == switch_thread(tbl, f, last, m)
  <2>1. TableOK(tbl) /\ {f, last} \subseteq DOMAIN tbl
    <3> DEFINE new == threads_table_insert(threads, f)
    <3>1. TableOK(new) /\ DOMAIN new = DOMAIN threads \cup {f}
      BY <1>1, InsertOK
    <3> HIDE DEF new
    <3>2. tbl = IF f \in DOMAIN threads THEN threads ELSE new
      BY DEF threads_table_fetch, new
    <3> QED BY <1>1, <3>1, <3>2
  <2>2. check_fiber(f, m) = u
    BY <1>3 DEF check_fiber
  <2> HIDE DEF tbl
  <2>3. ThreadOK(SwitchIn(tbl[f], m)) /\ ThreadOK(SwitchOut(tbl[last], m))
    BY <2>1, SwitchOK DEF TableOK
  <2>4. DOMAIN u = DOMAIN tbl
    BY DEF switch_thread
  <2>5. \A g \in DOMAIN tbl : u[g] = IF g = f THEN SwitchIn(tbl[f], m)
                                     ELSE IF g = last THEN SwitchOut(tbl[last], m)
                                     ELSE tbl[g]
    BY <1>3, <2>1 DEF switch_thread
  <2> HIDE DEF u
  <2>6. TableOK(u)
    BY <2>1, <2>3, <2>4, <2>5 DEF TableOK
  <2> QED BY <2>1, <2>2, <2>4, <2>6
<1> QED BY <1>2, <1>3

(* The clock is read within its bound. *)
LEMMA ReadingsAre ==
  ASSUME TypeOK
  PROVE  Readings \subseteq 0 .. MaxTime
BY ProfilerAssumption DEF Readings, TypeOK

-----------------------------------------------------------------------------
(* The event hook and the methods of Profile, on the table.                *)

(* What the steps that keep the program's stack well typed have to show.   *)
ProfileOK ==
  /\ now \in 0 .. MaxTime
  /\ running \in BOOLEAN
  /\ paused \in BOOLEAN
  /\ last \in Fibers \cup {NoFiber}
  /\ crashed \in BOOLEAN
  /\ LastIsKnown
  /\ TableOK(threads)

(* With a typed program stack ProfileOK is the invariant. *)
LEMMA ProfileOKIsEnough ==
  ASSUME ProfileOK, rstack \in [Fibers -> Seq(Entry)]
  PROVE  IInv
BY DEF ProfileOK, IInv, TypeOK, TableOK, ThreadOK

(* And the invariant gives both. *)
LEMMA IInvGivesProfileOK ==
  ASSUME IInv
  PROVE  ProfileOK /\ rstack \in [Fibers -> Seq(Entry)]
BY DEF ProfileOK, IInv, TypeOK

(* prof_event_hook on a line, call or return event preserves the invariant. *)
LEMMA HookOK ==
  ASSUME IInv, running, NEW f \in Fibers, NEW m \in Readings, NEW k \in Methods,
         NEW event \in {"line", "call", "return"}, prof_event_hook(f, event, k, m)
  PROVE  ProfileOK'
<1> DEFINE tbl == check_fiber(f, m)
<1>1. m \in Nat /\ m \in 0 .. MaxTime /\ paused \in BOOLEAN
  BY ReadingsAre, ProfilerAssumption DEF IInv, TypeOK
<1>2. TableOK(tbl) /\ f \in DOMAIN tbl
  BY <1>1, CheckFiberOK
<1>3. /\ threads' = IF tbl[f].trace
                    THEN [tbl EXCEPT ![f] = Handle(event, tbl[f], k, m)] ELSE tbl
      /\ now' = m
      /\ last' = f
      /\ UNCHANGED <<running, paused, crashed>>
  BY DEF prof_event_hook
<1> HIDE DEF tbl
<1>4. ThreadOK(Handle(event, tbl[f], k, m))
  BY <1>1, <1>2, HandleOK DEF TableOK
<1>5. TableOK(threads') /\ f \in DOMAIN threads'
  BY <1>2, <1>3, <1>4 DEF TableOK
<1> QED BY <1>1, <1>3, <1>5 DEF ProfileOK, LastIsKnown, IInv, TypeOK

(* So does an event, whether the tracepoints are enabled or not. *)
LEMMA ObserveOK ==
  ASSUME IInv, NEW f \in Fibers, NEW k \in Methods,
         NEW event \in {"line", "call", "return"}, Observe(f, event, k)
  PROVE  ProfileOK'
<1>1. CASE running /\ \E m \in Readings : prof_event_hook(f, event, k, m)
  BY <1>1, HookOK
<1>2. CASE UNCHANGED profile
  <2>1. ProfileOK
    BY IInvGivesProfileOK
  <2> QED BY <1>2, <2>1 DEF profile, ProfileOK, LastIsKnown
<1> QED BY <1>1, <1>2 DEF Observe

(* A start puts a fresh thread in the table and makes it the last one.     *)
LEMMA StartOK ==
  ASSUME IInv, NEW f \in Fibers, prof_start(f)
  PROVE  ProfileOK'
<1>1. TableOK(threads)
  BY DEF IInv
<1> DEFINE new == threads_table_insert(threads, f)
<1>2. TableOK(new) /\ f \in DOMAIN new
  BY <1>1, InsertOK
<1> HIDE DEF new
<1>3. threads' = new /\ running' = TRUE /\ paused' = FALSE /\ last' = f
      /\ UNCHANGED <<now, crashed>>
  BY DEF prof_start, new
<1> QED BY <1>2, <1>3 DEF ProfileOK, LastIsKnown, IInv, TypeOK

(* prof_pause keeps the table well formed. *)
LEMMA PauseTableOK ==
  ASSUME NEW tbl, TableOK(tbl), NEW m \in Nat, prof_pause(tbl, m)
  PROVE  /\ TableOK(threads') /\ DOMAIN threads' = DOMAIN tbl
         /\ paused' \in BOOLEAN /\ UNCHANGED <<running, crashed>>
<1>1. \A g \in DOMAIN tbl : ThreadOK(pause_thread(tbl[g], m))
  BY PauseOK DEF TableOK
<1> QED BY <1>1 DEF prof_pause, TableOK

(* prof_resume keeps the table well formed, also when it finds an empty     *)
(* stack.                                                                   *)
LEMMA ResumeTableOK ==
  ASSUME NEW tbl, TableOK(tbl), NEW m \in Nat, prof_resume(tbl, m), crashed \in BOOLEAN
  PROVE  /\ TableOK(threads') /\ DOMAIN threads' = DOMAIN tbl
         /\ paused' \in BOOLEAN /\ crashed' \in BOOLEAN /\ UNCHANGED running
<1>1. CASE threads' = tbl
  BY <1>1 DEF prof_resume
<1>2. CASE /\ threads' = [g \in DOMAIN tbl |-> unpause_thread(tbl[g], m)]
           /\ \A g \in DOMAIN tbl : tbl[g].stack # <<>>
  <2>1. \A g \in DOMAIN tbl : ThreadOK(unpause_thread(tbl[g], m))
    BY <1>2, PauseOK DEF TableOK
  <2> QED BY <1>2, <2>1 DEF prof_resume, TableOK
<1> QED BY <1>1, <1>2 DEF prof_resume

(* prof_stop empties well formed stacks and leaves the profile well formed. *)
LEMMA StopOK ==
  ASSUME NEW tbl, TableOK(tbl), NEW g, NEW m \in Readings, prof_stop(tbl, g, m), IInv,
         now' = m
  PROVE  ProfileOK'
<1>1. m \in Nat /\ m \in 0 .. MaxTime /\ crashed \in BOOLEAN
  BY ReadingsAre, ProfilerAssumption DEF IInv, TypeOK
<1>2. ASSUME NEW h \in DOMAIN tbl PROVE ThreadOK(pop_frames(tbl[h], h # g, m))
  <2>1. ThreadOK(SwitchIn(tbl[h], m)) /\ ThreadOK(tbl[h])
    BY <1>1, SwitchOK DEF TableOK
  <2> DEFINE t == IF h # g THEN SwitchIn(tbl[h], m) ELSE tbl[h]
  <2>2. ThreadOK(t)
    BY <2>1
  <2> HIDE DEF t
  <2>3. ThreadOK(PopAll(t, m))
    BY <1>1, <2>2, PopAllOK
  <2> QED BY <2>3 DEF pop_frames, t
<1>3. /\ threads' = [h \in DOMAIN tbl |-> pop_frames(tbl[h], h # g, m)]
      /\ running' = FALSE /\ paused' = FALSE /\ last' = NoFiber /\ UNCHANGED crashed
  BY DEF prof_stop
<1>4. TableOK(threads')
  BY <1>2, <1>3 DEF TableOK
<1> QED BY <1>1, <1>3, <1>4 DEF ProfileOK, LastIsKnown

-----------------------------------------------------------------------------
(* The program's own stack.                                                *)

(* A call or a block keeps the program's stack typed. *)
LEMMA PushTyped ==
  ASSUME rstack \in [Fibers -> Seq(Entry)], NEW f \in Fibers, NEW k \in Methods,
         NEW kind \in BlockKinds \cup {"method"}, Push(f, k, kind)
  PROVE  rstack' \in [Fibers -> Seq(Entry)]
<1>1. [method |-> k, kind |-> kind] \in Entry
  BY DEF Entry
<1> QED BY <1>1 DEF Push

(* So does a return or the end of a block. *)
LEMMA PopTyped ==
  ASSUME rstack \in [Fibers -> Seq(Entry)], NEW f \in Fibers, rstack[f] # <<>>, Pop(f)
  PROVE  rstack' \in [Fibers -> Seq(Entry)]
<1>1. SubSeq(rstack[f], 1, Len(rstack[f]) - 1) \in Seq(Entry)
  OBVIOUS
<1> QED BY <1>1 DEF Pop

(* The method on top of the program's stack is one of the program's methods.*)
LEMMA TopTyped ==
  ASSUME rstack \in [Fibers -> Seq(Entry)], NEW f \in Fibers, rstack[f] # <<>>
  PROVE  Top(f).method \in Methods
<1>1. Top(f) \in Entry
  BY DEF Top, Last
<1> QED BY <1>1 DEF Entry

-----------------------------------------------------------------------------
(* The invariant.                                                          *)

(* The invariant holds of an allocated profile (prof_allocate). *)
LEMMA InitOK ==
  ASSUME Init
  PROVE  IInv
<1>1. DOMAIN threads = {}
  BY DEF Init
<1>2. TableOK(threads)
  BY <1>1 DEF TableOK
<1>3. now \in 0 .. MaxTime /\ rstack \in [Fibers -> Seq(Entry)]
  BY ProfilerAssumption DEF Init
<1> QED BY <1>1, <1>2, <1>3 DEF Init, IInv, TypeOK, LastIsKnown

(* Every step preserves the invariant: one step per action. *)
LEMMA NextOK ==
  ASSUME IInv, [Next]_vars
  PROVE  IInv'
<1>1. ProfileOK /\ rstack \in [Fibers -> Seq(Entry)]
  BY IInvGivesProfileOK
<1>2. SUFFICES ProfileOK' /\ rstack' \in [Fibers -> Seq(Entry)]
  BY DEF ProfileOK, IInv, TypeOK, TableOK, ThreadOK, LastIsKnown
<1>3. ASSUME UNCHANGED profile PROVE ProfileOK'
  BY <1>1, <1>3 DEF profile, ProfileOK, LastIsKnown
<1>4. CASE UNCHANGED vars
  BY <1>1, <1>3, <1>4 DEF vars
<1>5. ASSUME NEW f \in Fibers, NEW k \in Methods, Call(f, k)
      PROVE  ProfileOK' /\ rstack' \in [Fibers -> Seq(Entry)]
  BY <1>1, <1>5, ObserveOK, PushTyped DEF Call
<1>6. ASSUME NEW f \in Fibers, NEW k \in Methods, Yield(f, k)
      PROVE  ProfileOK' /\ rstack' \in [Fibers -> Seq(Entry)]
  <2>1. Push(f, k, "block") /\ UNCHANGED profile
    BY <1>6 DEF Yield
  <2> QED BY <1>1, <1>3, <2>1, PushTyped DEF BlockKinds
<1>7. ASSUME NEW f \in Fibers, Return(f)
      PROVE  ProfileOK' /\ rstack' \in [Fibers -> Seq(Entry)]
  <2>1. rstack[f] # <<>> /\ Pop(f) /\ Observe(f, "return", Top(f).method)
    BY <1>7 DEF Return, CanRun
  <2> QED BY <1>1, <2>1, ObserveOK, PopTyped, TopTyped
<1>8. ASSUME NEW f \in Fibers, Line(f)
      PROVE  ProfileOK' /\ rstack' \in [Fibers -> Seq(Entry)]
  <2>1. rstack[f] # <<>> /\ Observe(f, "line", Top(f).method) /\ UNCHANGED rstack
    BY <1>8 DEF Line, InRuby, CanRun
  <2> QED BY <1>1, <2>1, ObserveOK, TopTyped
<1>9. ASSUME NEW f \in Fibers, EndYield(f)
      PROVE  ProfileOK' /\ rstack' \in [Fibers -> Seq(Entry)]
  <2>1. rstack[f] # <<>> /\ Pop(f) /\ UNCHANGED profile
    BY <1>9 DEF EndYield, CanRun
  <2> QED BY <1>1, <1>3, <2>1, PopTyped
<1>10. ASSUME NEW f \in Fibers, Start(f)
       PROVE  ProfileOK' /\ rstack' \in [Fibers -> Seq(Entry)]
  BY <1>1, <1>10, StartOK DEF Start
<1>11. ASSUME NEW f \in Fibers, NEW m \in Readings, running
       PROVE  /\ TableOK(check_fiber(f, m)) /\ f \in DOMAIN check_fiber(f, m)
              /\ m \in Nat /\ m \in 0 .. MaxTime
  <2>1. m \in Nat /\ m \in 0 .. MaxTime
    BY ReadingsAre, ProfilerAssumption DEF IInv
  <2> QED BY <1>11, <2>1, CheckFiberOK
<1>12. ASSUME NEW f \in Fibers, Pause(f)
       PROVE  ProfileOK' /\ rstack' \in [Fibers -> Seq(Entry)]
  <2>1. PICK m \in Readings : /\ prof_event_hook_profile(f, m)
                              /\ prof_pause(check_fiber(f, m), m)
    BY <1>12 DEF Pause
  <2>2. running /\ UNCHANGED rstack
    BY <1>12 DEF Pause
  <2> DEFINE tbl == check_fiber(f, m)
  <2>3. TableOK(tbl) /\ f \in DOMAIN tbl /\ m \in Nat /\ m \in 0 .. MaxTime
    BY <1>11, <2>2
  <2>4. prof_pause(tbl, m)
    BY <2>1
  <2> HIDE DEF tbl
  <2>5. /\ TableOK(threads') /\ DOMAIN threads' = DOMAIN tbl
        /\ paused' \in BOOLEAN /\ UNCHANGED <<running, crashed>>
    BY <2>3, <2>4, PauseTableOK
  <2> QED BY <1>1, <2>1, <2>2, <2>3, <2>5
          DEF ProfileOK, LastIsKnown, prof_event_hook_profile
<1>13. ASSUME NEW f \in Fibers, NEW m \in Readings, running,
              prof_event_hook_profile(f, m), prof_resume(check_fiber(f, m), m)
       PROVE  ProfileOK'
  <2> DEFINE tbl == check_fiber(f, m)
  <2>1. TableOK(tbl) /\ f \in DOMAIN tbl /\ m \in Nat /\ m \in 0 .. MaxTime
    BY <1>11, <1>13
  <2>2. prof_resume(tbl, m) /\ crashed \in BOOLEAN
    BY <1>1, <1>13 DEF ProfileOK
  <2> HIDE DEF tbl
  <2>3. /\ TableOK(threads') /\ DOMAIN threads' = DOMAIN tbl
        /\ paused' \in BOOLEAN /\ crashed' \in BOOLEAN /\ UNCHANGED running
    BY <2>1, <2>2, ResumeTableOK
  <2> QED BY <1>1, <1>13, <2>1, <2>3
          DEF ProfileOK, LastIsKnown, prof_event_hook_profile
<1>14. ASSUME NEW f \in Fibers, Resume(f)
       PROVE  ProfileOK' /\ rstack' \in [Fibers -> Seq(Entry)]
  BY <1>1, <1>13, <1>14 DEF Resume
<1>15. ASSUME NEW f \in Fibers, Stop(f)
       PROVE  ProfileOK' /\ rstack' \in [Fibers -> Seq(Entry)]
  <2>1. running /\ UNCHANGED rstack
    BY <1>15 DEF Stop
  <2>2. PICK m \in Readings : now' = m /\ prof_stop(check_fiber(f, m), f, m)
    BY <1>15 DEF Stop
  <2>3. TableOK(check_fiber(f, m))
    BY <1>11, <2>1
  <2> QED BY <1>1, <2>1, <2>2, <2>3, StopOK
<1>16. ASSUME NEW f \in Fibers, ProfileBlock(f)
       PROVE  ProfileOK' /\ rstack' \in [Fibers -> Seq(Entry)]
  <2>1. rstack[f] # <<>> /\ prof_start(f) /\ Push(f, Top(f).method, "profiled")
    BY <1>16 DEF ProfileBlock, InRuby, CanRun
  <2> QED BY <1>1, <2>1, StartOK, TopTyped, PushTyped DEF BlockKinds
<1>17. ASSUME NEW f \in Fibers, EndProfileBlock(f)
       PROVE  ProfileOK' /\ rstack' \in [Fibers -> Seq(Entry)]
  <2>1. rstack[f] # <<>> /\ Pop(f)
    BY <1>17 DEF EndProfileBlock, CanRun
  <2>2. CASE ~running
    BY <1>1, <1>3, <1>17, <2>1, <2>2, PopTyped DEF EndProfileBlock
  <2>3. CASE running
    <3>1. PICK m \in Readings : now' = m /\ prof_stop(threads, last, m)
      BY <1>17, <2>3 DEF EndProfileBlock
    <3>2. TableOK(threads)
      BY <1>1 DEF ProfileOK
    <3> QED BY <1>1, <2>1, <3>1, <3>2, PopTyped, StopOK
  <2> QED BY <2>2, <2>3
<1>18. ASSUME NEW f \in Fibers, ResumeBlock(f)
       PROVE  ProfileOK' /\ rstack' \in [Fibers -> Seq(Entry)]
  <2>1. ProfileOK'
    BY <1>13, <1>18 DEF ResumeBlock
  <2>2. rstack[f] # <<>>
    BY <1>18 DEF ResumeBlock, InRuby, CanRun
  <2>3. UNCHANGED rstack \/ Push(f, Top(f).method, "resumed")
    BY <1>18 DEF ResumeBlock
  <2> QED BY <1>1, <2>1, <2>2, <2>3, TopTyped, PushTyped DEF BlockKinds
<1>19. ASSUME NEW f \in Fibers, EndResumeBlock(f)
       PROVE  ProfileOK' /\ rstack' \in [Fibers -> Seq(Entry)]
  <2>1. rstack[f] # <<>> /\ Pop(f)
    BY <1>19 DEF EndResumeBlock, CanRun
  <2>2. CASE ~running
    BY <1>1, <1>3, <1>19, <2>1, <2>2, PopTyped DEF EndResumeBlock
  <2>3. CASE running
    <3>1. PICK m \in Readings : now' = m /\ prof_pause(threads, m) /\ UNCHANGED last
      BY <1>19, <2>3 DEF EndResumeBlock
    <3>2. m \in Nat /\ m \in 0 .. MaxTime /\ TableOK(threads) /\ last \in DOMAIN threads
      BY <1>1, <1>11, <2>3, ReadingsAre, ProfilerAssumption
         DEF IInv, LastIsKnown, ProfileOK
    <3>3. /\ TableOK(threads') /\ DOMAIN threads' = DOMAIN threads
          /\ paused' \in BOOLEAN /\ UNCHANGED <<running, crashed>>
      BY <3>1, <3>2, PauseTableOK
    <3>4. ProfileOK'
      BY <1>1, <3>1, <3>2, <3>3 DEF ProfileOK, LastIsKnown
    <3> QED BY <1>1, <2>1, <3>4, PopTyped
  <2> QED BY <2>2, <2>3
<1> QED BY <1>4, <1>5, <1>6, <1>7, <1>8, <1>9, <1>10, <1>12, <1>14, <1>15,
           <1>16, <1>17, <1>18, <1>19 DEF Next

(* In every reachable state each variable has its type, the thread data    *)
(* names only nodes of its own tree, and a running profile has a last      *)
(* thread, so that the hook never reads through a NULL.                    *)
THEOREM ProfileIsWellFormed == Spec => []IInv
<1>1. Init => IInv
  BY InitOK
<1>2. IInv /\ [Next]_vars => IInv'
  BY NextOK
<1> QED BY <1>1, <1>2, PTL DEF Spec

(* Every variable keeps its type, in every run of any program with any      *)
(* number of fibers: a reading of the clock, a frame and a measurement are  *)
(* numbers, and the threads table is keyed by fibers.                       *)
THEOREM ProfileIsTyped == Spec => []TypeOK
<1>1. IInv => TypeOK
  BY DEF IInv
<1> QED BY <1>1, ProfileIsWellFormed, PTL

(* For every fiber, the parents and the children tables that the hook links *)
(* while it calls, returns and climbs describe one tree under               *)
(* thread->call_tree.                                                       *)
THEOREM CallTreesStayLinked == Spec => []CallTreesLinked
<1>1. IInv => CallTreesLinked
  BY DEF IInv, TableOK, ThreadOK, CallTreesLinked
<1> QED BY <1>1, ProfileIsWellFormed, PTL

(* For every fiber, the frames that the hook pushes and pops are a path down*)
(* from the root of its call tree, whatever fibers run in between and       *)
(* whenever the profile is paused, resumed, stopped and started again.      *)
THEOREM StackStaysARootPath == Spec => []StackIsRootPath
<1>1. IInv => StackIsRootPath
  BY DEF IInv, TableOK, ThreadOK, StackIsRootPath
<1> QED BY <1>1, ProfileIsWellFormed, PTL

-----------------------------------------------------------------------------
(* The times of a frame at the reading m.                                  *)

(* Its dead time, with the pause it is in.                                 *)
DeadAt(fr, m) == fr.dead_time + IF Paused(fr) THEN m - fr.pause_time ELSE 0

(* A pause that begins or ends at m changes none of them.                  *)
SameTimes(new, old, m) ==
  /\ new.start_time = old.start_time
  /\ new.switch_time = old.switch_time
  /\ new.wait_time = old.wait_time
  /\ new.child_time = old.child_time
  /\ DeadAt(new, m) = DeadAt(old, m)

(* A switch at m begins a wait or adds the one it ends.                    *)
Switched(new, old, m) ==
  /\ new.start_time = old.start_time
  /\ \/ new.switch_time = m /\ new.wait_time = old.wait_time
     \/ /\ new.switch_time = 0
        /\ new.wait_time = old.wait_time + (m - old.switch_time)
  /\ new.child_time = old.child_time
  /\ DeadAt(new, m) = DeadAt(old, m)

(* prof_frame_pause and prof_frame_unpause keep the times.                 *)
LEMMA PauseTimes ==
  ASSUME NEW fr \in Frame, NEW m \in Nat
  PROVE  /\ SameTimes(fr, fr, m)
         /\ SameTimes(prof_frame_pause(fr, m), fr, m)
         /\ SameTimes(prof_frame_unpause(fr, m), fr, m)
         /\ prof_frame_unpause(fr, m).dead_time = DeadAt(fr, m)
<1>1. fr.dead_time \in Int /\ fr.pause_time \in Int
  BY DEF Frame
<1>2. SameTimes(fr, fr, m)
  BY DEF SameTimes
<1>3. CASE Paused(fr)
  <2> DEFINE dead == fr.dead_time + (m - fr.pause_time)
             r1 == [fr EXCEPT !.dead_time = dead]
             r2 == [r1 EXCEPT !.pause_time = -1]
  <2>1. prof_frame_pause(fr, m) = fr /\ prof_frame_unpause(fr, m) = r2
    BY <1>3 DEF prof_frame_pause, prof_frame_unpause
  <2>2. DeadAt(fr, m) = dead
    BY <1>3 DEF DeadAt
  <2> HIDE DEF dead
  <2>3. /\ r2.dead_time = dead /\ r2.pause_time = -1
        /\ r2.start_time = fr.start_time /\ r2.switch_time = fr.switch_time
        /\ r2.wait_time = fr.wait_time /\ r2.child_time = fr.child_time
    BY DEF Frame
  <2> HIDE DEF r2
  <2>4. dead \in Int
    BY <1>1 DEF dead
  <2>5. ~Paused(r2)
    BY <2>3 DEF Paused
  <2>6. DeadAt(r2, m) = dead
    BY <2>3, <2>4, <2>5 DEF DeadAt
  <2> QED BY <1>2, <2>1, <2>2, <2>3, <2>6 DEF SameTimes
<1>4. CASE ~Paused(fr)
  <2> DEFINE r == [fr EXCEPT !.pause_time = m]
  <2>1. prof_frame_pause(fr, m) = r /\ prof_frame_unpause(fr, m) = fr
    BY <1>4 DEF prof_frame_pause, prof_frame_unpause
  <2>2. DeadAt(fr, m) = fr.dead_time
    BY <1>1, <1>4 DEF DeadAt
  <2>3. /\ r.dead_time = fr.dead_time /\ r.pause_time = m
        /\ r.start_time = fr.start_time /\ r.switch_time = fr.switch_time
        /\ r.wait_time = fr.wait_time /\ r.child_time = fr.child_time
    BY DEF Frame
  <2> HIDE DEF r
  <2>4. DeadAt(r, m) = fr.dead_time
    BY <1>1, <2>3 DEF DeadAt
  <2> QED BY <1>2, <2>1, <2>2, <2>3, <2>4 DEF SameTimes
<1> QED BY <1>3, <1>4

(* switch_thread adds a wait or begins one. *)
LEMMA SwitchTimes ==
  ASSUME NEW fr \in Frame, NEW m \in Nat
  PROVE  /\ Switched(Resumed(fr, m), fr, m)
         /\ Switched([fr EXCEPT !.switch_time = m], fr, m)
<1> DEFINE wait == fr.wait_time + (m - fr.switch_time)
           r == Resumed(fr, m)
           s == [fr EXCEPT !.switch_time = m]
<1>1. r = [[fr EXCEPT !.wait_time = wait] EXCEPT !.switch_time = 0]
  BY DEF Resumed
<1> HIDE DEF wait
<1>2. /\ r.switch_time = 0 /\ r.wait_time = wait
      /\ r.start_time = fr.start_time /\ r.child_time = fr.child_time
      /\ r.dead_time = fr.dead_time /\ r.pause_time = fr.pause_time
  BY <1>1 DEF Frame
<1>3. /\ s.switch_time = m /\ s.wait_time = fr.wait_time
      /\ s.start_time = fr.start_time /\ s.child_time = fr.child_time
      /\ s.dead_time = fr.dead_time /\ s.pause_time = fr.pause_time
  BY DEF Frame
<1> HIDE DEF r, s
<1>4. DeadAt(r, m) = DeadAt(fr, m) /\ DeadAt(s, m) = DeadAt(fr, m)
  BY <1>2, <1>3 DEF DeadAt, Paused
<1>5. Switched(r, fr, m) /\ Switched(s, fr, m)
  BY <1>2, <1>3, <1>4 DEF Switched, wait
<1> QED BY <1>5 DEF r, s

(* A new frame has run for no time. *)
StartsAt(fr, m) ==
  /\ fr.start_time = m /\ fr.switch_time = 0
  /\ fr.wait_time = 0 /\ fr.child_time = 0 /\ DeadAt(fr, m) = 0

(* The frame that prof_frame_push begins with, paused or not.              *)
LEMMA NewFrameTimes ==
  ASSUME NEW n \in Nat, NEW m \in Nat
  PROVE  /\ StartsAt(NewFrame(n, m), m)
         /\ StartsAt(prof_frame_pause(NewFrame(n, m), m), m)
<1> DEFINE new == NewFrame(n, m)
<1>1. new \in Frame
  BY NewFrameType
<1>2. /\ new.start_time = m /\ new.switch_time = 0 /\ new.pause_time = -1
      /\ new.wait_time = 0 /\ new.child_time = 0 /\ new.dead_time = 0
  BY DEF NewFrame
<1> HIDE DEF new
<1>3. ~Paused(new)
  BY <1>2 DEF Paused
<1>4. StartsAt(new, m)
  BY <1>2, <1>3 DEF StartsAt, DeadAt
<1>5. SameTimes(prof_frame_pause(new, m), new, m)
  BY <1>1, PauseTimes
<1> QED BY <1>4, <1>5 DEF StartsAt, SameTimes, new

(* A push unpauses the frame below it, a pop credits it.                   *)
LEMMA UnpauseParentTimes ==
  ASSUME NEW stack \in Seq(Frame), NEW m \in Nat
  PROVE  \A i \in 1 .. Len(stack) : SameTimes(UnpauseParent(stack, m)[i], stack[i], m)
<1>1. \A i \in 1 .. Len(stack) : stack[i] \in Frame
  OBVIOUS
<1>2. CASE stack = <<>>
  BY <1>2
<1>3. CASE stack # <<>>
  <2> DEFINE fr == prof_frame_unpause(Last(stack), m)
  <2>1. Last(stack) \in Frame /\ Last(stack) = stack[Len(stack)]
    BY <1>3, LastType
  <2>2. fr \in Frame /\ SameTimes(fr, stack[Len(stack)], m)
    BY <2>1, UnpauseType, PauseTimes
  <2>3. UnpauseParent(stack, m) = SetLast(stack, fr)
    BY <1>3 DEF UnpauseParent
  <2> HIDE DEF fr
  <2>4. \A i \in 1 .. Len(stack) :
          SetLast(stack, fr)[i] = IF i = Len(stack) THEN fr ELSE stack[i]
    BY <1>3, <2>2, SetLastType
  <2> QED BY <1>1, <2>2, <2>3, <2>4, PauseTimes
<1> QED BY <1>2, <1>3

(* CreditParent changes the top frame and no other.                        *)
LEMMA CreditParentTimes ==
  ASSUME NEW stack \in Seq(Frame), NEW total \in Int, NEW dead \in Int
  PROVE  \A i \in 1 .. Len(stack) :
           CreditParent(stack, total, dead)[i] =
             IF i = Len(stack) THEN Credited(stack[i], total, dead) ELSE stack[i]
<1>1. CASE stack = <<>>
  BY <1>1
<1>2. CASE stack # <<>>
  <2> DEFINE fr == Credited(Last(stack), total, dead)
  <2>1. Last(stack) \in Frame /\ Last(stack) = stack[Len(stack)]
    BY <1>2, LastType
  <2>2. fr \in Frame
    BY <2>1, CreditedType
  <2>3. CreditParent(stack, total, dead) = SetLast(stack, fr)
    BY <1>2 DEF CreditParent
  <2>4. fr = Credited(stack[Len(stack)], total, dead)
    BY <2>1
  <2> HIDE DEF fr
  <2>5. \A i \in 1 .. Len(stack) :
          SetLast(stack, fr)[i] = IF i = Len(stack) THEN fr ELSE stack[i]
    BY <1>2, <2>2, SetLastType
  <2> QED BY <2>3, <2>4, <2>5
<1> QED BY <1>1, <1>2

-----------------------------------------------------------------------------
(* What prof_frame_push and prof_frame_pop do to the records of a thread.  *)

(* u is t with a frame of node n on top, counted in n and in its method.   *)
PushedOn(u, t, n) ==
  /\ u \in Thread
  /\ SameTree(u, t)
  /\ StackPushed(u, t, n)
  /\ \A i \in Nodes(t) :
       u.nodes[i] = IF i = n THEN Visited(t.nodes[i]) ELSE t.nodes[i]
  /\ \A k \in Keys :
       u.method_table[k] = IF k = KeyOf(t, n) THEN VisitedMethod(t.method_table[k])
                           ELSE t.method_table[k]

(* The new frame is empty, the others keep their times.                    *)
PushedAt(u, t, n, m) ==
  /\ PushedOn(u, t, n)
  /\ m \in Nat
  /\ \A i \in Frames(t) : SameTimes(u.stack[i], t.stack[i], m)
  /\ StartsAt(u.stack[Len(u.stack)], m)

(* u is t without its top frame, of node n, whose times n and its method   *)
(* have received.                                                          *)
PoppedOff(u, t, n) ==
  /\ u \in Thread
  /\ SameTree(u, t)
  /\ StackPushed(t, u, n)
  /\ \E total, self, wait \in Int :
       /\ \A i \in Nodes(t) :
            u.nodes[i] = IF i = n THEN Left(t.nodes[i], total, self, wait)
                         ELSE t.nodes[i]
       /\ \A k \in Keys :
            u.method_table[k] = IF k = KeyOf(t, n)
                                THEN Left(t.method_table[k], total, self, wait)
                                ELSE t.method_table[k]

(* They are those of the frame at m, which its parent frame has received.  *)
PoppedAt(u, t, n, m) ==
  LET top   == t.stack[Len(t.stack)]
      dead  == DeadAt(top, m)
      total == m - top.start_time - dead
      self  == total - top.child_time - top.wait_time
  IN  /\ u \in Thread
      /\ m \in Nat
      /\ SameTree(u, t)
      /\ StackPushed(t, u, n)
      /\ \A i \in Frames(u) :
           u.stack[i] = IF i = Len(u.stack) THEN Credited(t.stack[i], total, dead)
                        ELSE t.stack[i]
      /\ \A i \in Nodes(t) :
           u.nodes[i] = IF i = n THEN Left(t.nodes[i], total, self, top.wait_time)
                        ELSE t.nodes[i]
      /\ \A k \in Keys :
           u.method_table[k] = IF k = KeyOf(t, n)
                               THEN Left(t.method_table[k], total, self, top.wait_time)
                               ELSE t.method_table[k]

(* So what holds of every popped frame holds of one popped at m.           *)
LEMMA PoppedAtIs ==
  ASSUME NEW t \in Thread, t.stack # <<>>, NEW u, NEW n, NEW m, PoppedAt(u, t, n, m)
  PROVE  PoppedOff(u, t, n)
<1> DEFINE top   == t.stack[Len(t.stack)]
           dead  == DeadAt(top, m)
           total == m - top.start_time - dead
           self  == total - top.child_time - top.wait_time
<1>1. m \in Nat
  BY DEF PoppedAt
<1>2. top \in Frame
  BY NodesAre, LastType DEF Last
<1>3. /\ top.start_time \in Int /\ top.child_time \in Int /\ top.wait_time \in Int
      /\ top.dead_time \in Int /\ top.pause_time \in Int
  BY <1>2 DEF Frame
<1>4. dead \in Int
  BY <1>1, <1>3 DEF DeadAt
<1> HIDE DEF top, dead
<1>5. total \in Int /\ self \in Int /\ top.wait_time \in Int
  <2>1. total \in Int
    BY <1>1, <1>3, <1>4
  <2> HIDE DEF total
  <2>2. self \in Int
    BY <1>3, <2>1
  <2> QED BY <1>3, <2>1, <2>2
<1>6. /\ u \in Thread /\ SameTree(u, t) /\ StackPushed(t, u, n)
      /\ \A i \in Nodes(t) :
           u.nodes[i] = IF i = n THEN Left(t.nodes[i], total, self, top.wait_time)
                        ELSE t.nodes[i]
      /\ \A k \in Keys :
           u.method_table[k] = IF k = KeyOf(t, n)
                               THEN Left(t.method_table[k], total, self, top.wait_time)
                               ELSE t.method_table[k]
  BY DEF PoppedAt, top, dead
<1> HIDE DEF total, self
<1> QED BY <1>5, <1>6 DEF PoppedOff

(* prof_frame_push, on any node of the thread.                             *)
LEMMA PushStep ==
  ASSUME NEW t \in Thread, NEW n \in Nodes(t), NEW m \in Nat, NEW p \in BOOLEAN
  PROVE  PushedAt(prof_frame_push(t, n, m, p), t, n, m)
<1> DEFINE new    == NewFrame(n, m)
           frame  == IF p THEN prof_frame_pause(new, m) ELSE new
           rest   == UnpauseParent(t.stack, m)
           stack  == Append(rest, frame)
           node   == Visited(t.nodes[n])
           k      == KeyOf(t, n)
           method == VisitedMethod(MethodOf(t, n))
           u      == Measured(t, stack, n, node, k, method)
<1>1. /\ t.nodes[n] \in Node
      /\ k \in Keys
      /\ MethodOf(t, n) \in Method
      /\ t.stack \in Seq(Frame)
      /\ n \in Nat
  BY NodesAre
<1>2. frame \in Frame
  BY <1>1, NewFrameType, PauseType
<1>3. rest \in Seq(Frame)
  BY <1>1, UnpauseParentType
<1>4. node \in Node /\ SameLinks(node, t.nodes[n]) /\ method \in Method
  BY <1>1, VisitedNode, VisitedMethodType
<1>5. prof_frame_push(t, n, m, p) = u
  BY DEF prof_frame_push, Measured
<1>6. u \in Thread /\ SameTree(u, t) /\ StackPushed(u, t, n)
  BY <1>5, PushShape
<1>7. /\ StartsAt(frame, m)
      /\ \A i \in 1 .. Len(t.stack) : SameTimes(rest[i], t.stack[i], m)
      /\ Len(rest) = Len(t.stack)
  BY <1>1, NewFrameTimes, UnpauseParentTimes, UnpauseParentType
<1> HIDE DEF frame, rest, u
<1>8. stack \in Seq(Frame)
  BY <1>2, <1>3
<1>9. /\ Len(stack) = Len(t.stack) + 1
       /\ stack[Len(stack)] = frame
       /\ \A i \in 1 .. Len(t.stack) : stack[i] = rest[i]
  BY <1>2, <1>3, <1>7
<1> HIDE DEF stack
<1>10. /\ \A i \in Nodes(t) : u.nodes[i] = IF i = n THEN node ELSE t.nodes[i]
      /\ \A j \in Keys : u.method_table[j] = IF j = k THEN method ELSE t.method_table[j]
  <2> HIDE DEF node, method, k
  <2> QED BY <1>1, <1>4, <1>8, MeasureUpdate DEF u
<1>11. u.stack = stack
  <2> HIDE DEF node, method, k
  <2> QED BY <1>1, <1>4, <1>8, MeasureUpdate DEF u
<1>12. PushedOn(u, t, n)
  BY <1>6, <1>10 DEF PushedOn, MethodOf
<1>13. /\ \A i \in Frames(t) : SameTimes(u.stack[i], t.stack[i], m)
       /\ StartsAt(u.stack[Len(u.stack)], m)
  BY <1>7, <1>9, <1>11, NodesAre
<1> QED BY <1>5, <1>12, <1>13 DEF PushedAt

(* prof_frame_pop, on a stack that has a frame.                            *)
LEMMA PopStep ==
  ASSUME NEW t, ThreadOK(t), t.stack # <<>>, NEW m \in Nat
  PROVE  PoppedAt(prof_frame_pop(t, m), t, Last(t.stack).call_tree, m)
<1> DEFINE frame == prof_frame_unpause(Last(t.stack), m)
           total == m - frame.start_time - frame.dead_time
           self  == total - frame.child_time - frame.wait_time
           wait  == frame.wait_time
           n     == frame.call_tree
           rest  == SubSeq(t.stack, 1, Len(t.stack) - 1)
           stack == CreditParent(rest, total, frame.dead_time)
           node  == Left(t.nodes[n], total, self, wait)
           k     == KeyOf(t, n)
           method == Left(MethodOf(t, n), total, self, wait)
           u == Measured(t, stack, n, node, k, method)
<1>1. t \in Thread /\ t.stack \in Seq(Frame) /\ Len(t.stack) \in Frames(t)
  BY NodesAre DEF ThreadOK
<1>2. frame \in Frame /\ frame.call_tree = Last(t.stack).call_tree
  BY <1>1, LastType, UnpauseType
<1>3. prof_frame_pop(t, m) = u
  BY DEF prof_frame_pop, Measured
<1> DEFINE top == t.stack[Len(t.stack)]
<1>4. top \in Frame /\ Last(t.stack) = top
  BY <1>1, LastType
<1>5. /\ frame.start_time = top.start_time /\ frame.child_time = top.child_time
       /\ frame.wait_time = top.wait_time /\ frame.dead_time = DeadAt(top, m)
  BY <1>4, PauseTimes DEF SameTimes
<1> HIDE DEF frame
<1>6. total \in Int /\ self \in Int /\ frame.dead_time \in Int /\ wait \in Int
  BY <1>2 DEF Frame
<1>7. n \in Nodes(t) /\ n = Last(t.stack).call_tree
  BY <1>2, TopFrameNode
<1>8. /\ total = m - top.start_time - DeadAt(top, m)
       /\ self = total - top.child_time - top.wait_time
       /\ wait = top.wait_time
  BY <1>5
<1> HIDE DEF n, total, self, wait, top
<1>9. /\ rest \in Seq(Frame)
      /\ Len(rest) = Len(t.stack) - 1
      /\ \A i \in 1 .. Len(rest) : rest[i] = t.stack[i]
  BY <1>1
<1> HIDE DEF rest
<1>10. /\ stack \in Seq(Frame)
      /\ Len(stack) = Len(rest)
      /\ \A i \in 1 .. Len(rest) : stack[i].call_tree = rest[i].call_tree
  BY <1>6, <1>9, CreditParentType
<1>11. \A i \in 1 .. Len(stack) :
         stack[i] = IF i = Len(stack) THEN Credited(t.stack[i], total, DeadAt(top, m))
                    ELSE t.stack[i]
  <2>1. \A i \in 1 .. Len(rest) :
          stack[i] = IF i = Len(rest) THEN Credited(rest[i], total, frame.dead_time)
                     ELSE rest[i]
    BY <1>6, <1>9, CreditParentTimes
  <2> HIDE DEF stack
  <2> QED BY <1>9, <1>10, <1>5, <2>1
<1>12. t.nodes[n] \in Node /\ k \in Keys /\ MethodOf(t, n) \in Method
  BY <1>1, <1>7, NodesAre
<1>13. node \in Node /\ SameLinks(node, t.nodes[n]) /\ method \in Method
  BY <1>6, <1>12, LeftNode, LeftMethod
<1> HIDE DEF stack, node, k, method
<1>14. /\ u \in Thread /\ u.stack = stack /\ SameTree(u, t)
       /\ \A i \in Nodes(t) : u.nodes[i] = IF i = n THEN node ELSE t.nodes[i]
       /\ \A j \in Keys : u.method_table[j] = IF j = k THEN method ELSE t.method_table[j]
  BY <1>1, <1>7, <1>10, <1>12, <1>13, MeasureUpdate
<1> HIDE DEF u
<1>15. StackPushed(t, u, n)
  BY <1>1, <1>7, <1>9, <1>10, <1>14 DEF StackPushed, Last
<1>16. /\ \A i \in Nodes(t) :
            u.nodes[i] = IF i = n THEN Left(t.nodes[i], total, self, top.wait_time)
                         ELSE t.nodes[i]
       /\ \A j \in Keys :
            u.method_table[j] = IF j = KeyOf(t, n)
                                THEN Left(t.method_table[j], total, self, top.wait_time)
                                ELSE t.method_table[j]
  BY <1>14, <1>8 DEF node, method, k, MethodOf
<1>17. \A i \in Frames(u) :
         u.stack[i] = IF i = Len(u.stack) THEN Credited(t.stack[i], total, DeadAt(top, m))
                      ELSE t.stack[i]
  BY <1>14, <1>11, NodesAre
<1>18. PoppedAt(u, t, n, m)
  BY <1>14, <1>15, <1>16, <1>8, <1>17 DEF PoppedAt, top
<1> QED BY <1>3, <1>7, <1>18

-----------------------------------------------------------------------------
(* What a new node does to the records of a thread.                        *)

SameMeasure(a, b) ==
  /\ a.total_time = b.total_time
  /\ a.self_time = b.self_time
  /\ a.wait_time = b.wait_time
  /\ a.called = b.called
  /\ a.visits = b.visits

(* u is t with a node for k that has not been called, listed with its      *)
(* method. The times it starts with, if any, are the method's too.         *)
Grown(u, t, k) ==
  LET n == Len(t.nodes) + 1 IN
  /\ u \in Thread
  /\ u.stack = t.stack
  /\ Nodes(u) = Nodes(t) \cup {n}
  /\ n \notin Nodes(t)
  /\ u.nodes[n].method = k
  /\ u.nodes[n].called = 0 /\ u.nodes[n].visits = 0 /\ u.nodes[n].self_time = 0
  /\ \A i \in Nodes(t) : /\ u.nodes[i].method = t.nodes[i].method
                         /\ SameMeasure(u.nodes[i], t.nodes[i])
  /\ \A j \in Keys \ {k} : u.method_table[j] = t.method_table[j]
  /\ LET new == u.method_table[k]
         old == t.method_table[k]
     IN  /\ new.created = old.created
         /\ new.recursive = old.recursive
         /\ new.called = old.called
         /\ new.visits = old.visits
         /\ new.self_time = old.self_time
         /\ new.total_time = old.total_time + u.nodes[n].total_time
         /\ new.wait_time = old.wait_time + u.nodes[n].wait_time
         /\ new.call_trees = old.call_trees \cup {n}

(* The new node is a child of the node parent, and has measured nothing.   *)
GrownBelow(u, t, k, parent) ==
  LET n == Len(t.nodes) + 1 IN
  /\ Grown(u, t, k)
  /\ u.call_tree = t.call_tree
  /\ u.nodes[n].parent = parent
  /\ u.nodes[n].total_time = 0 /\ u.nodes[n].wait_time = 0
  /\ \A i \in Nodes(t) : u.nodes[i].parent = t.nodes[i].parent

(* The new node is the root, above the old one if there is one, whose      *)
(* total and wait time it has.                                             *)
GrownAbove(u, t, k) ==
  LET n == Len(t.nodes) + 1
      r == t.call_tree
  IN
  /\ Grown(u, t, k)
  /\ u.call_tree = n
  /\ u.nodes[n].parent = NULL
  /\ u.nodes[n].total_time = IF r = NULL THEN 0 ELSE t.nodes[r].total_time
  /\ u.nodes[n].wait_time = IF r = NULL THEN 0 ELSE t.nodes[r].wait_time
  /\ \A i \in Nodes(t) :
       u.nodes[i].parent = IF i = r THEN n ELSE t.nodes[i].parent

(* prof_call_tree_create puts one node at the end and in its method's      *)
(* call_trees.                                                             *)
LEMMA CreateStep ==
  ASSUME NEW t \in Thread, NEW k \in Keys, NEW parent \in Nat
  PROVE  LET c == prof_call_tree_create(t, k, parent)
             n == Len(t.nodes) + 1
         IN  /\ Grown(c, t, k)
             /\ NewestNode(c) = n
             /\ Len(c.nodes) = n
             /\ c.call_tree = t.call_tree
             /\ c.nodes[n] = NewNode(k, parent)
             /\ \A i \in Nodes(t) : c.nodes[i] = t.nodes[i]
<1> DEFINE new    == NewNode(k, parent)
           nodes  == Append(t.nodes, new)
           trees  == t.method_table[k].call_trees \cup {Len(t.nodes) + 1}
           method == [t.method_table[k] EXCEPT !.call_trees = trees]
           table  == [t.method_table EXCEPT ![k] = method]
           n      == Len(t.nodes) + 1
           c == [t EXCEPT !.nodes = nodes, !.method_table = table]
<1>1. /\ t.method_table \in [Keys -> Method]
      /\ t.method_table[k] \in Method
      /\ t.nodes \in Seq(Node)
      /\ Len(t.nodes) \in Nat
      /\ Nodes(t) = 1 .. Len(t.nodes)
  BY NodesAre
<1>2. prof_call_tree_create(t, k, parent) = c
  BY DEF prof_call_tree_create
<1>3. /\ c \in Thread /\ c.stack = t.stack /\ c.call_tree = t.call_tree
      /\ NewestNode(c) = n
  BY <1>2, CreateType
<1>4. c.nodes = nodes /\ c.method_table = table
  BY DEF Thread
<1>5. new \in Node /\ new.method = k
  BY NewNodeType
<1>6. /\ new.called = 0 /\ new.visits = 0 /\ new.self_time = 0
      /\ new.total_time = 0 /\ new.wait_time = 0
  BY DEF NewNode
<1> HIDE DEF new, c
<1>7. /\ Len(c.nodes) = n
      /\ c.nodes[n] = new
      /\ \A i \in 1 .. Len(t.nodes) : c.nodes[i] = t.nodes[i]
  BY <1>1, <1>4, <1>5
<1>8. Nodes(c) = Nodes(t) \cup {n} /\ n \notin Nodes(t)
  BY <1>1, <1>3, <1>7, NodesAre
<1>9. /\ \A j \in Keys \ {k} : c.method_table[j] = t.method_table[j]
      /\ c.method_table[k] = method
  BY <1>1, <1>4
<1>10. LET old == t.method_table[k]
       IN  /\ method.created = old.created
           /\ method.recursive = old.recursive
           /\ method.called = old.called
           /\ method.visits = old.visits
           /\ method.self_time = old.self_time
           /\ method.total_time = old.total_time
           /\ method.wait_time = old.wait_time
           /\ method.call_trees = trees
           /\ old.total_time \in Int /\ old.wait_time \in Int
  BY <1>1 DEF Method
<1> HIDE DEF method
<1>11. Grown(c, t, k)
  <2>1. \A i \in Nodes(t) : c.nodes[i] = t.nodes[i]
    BY <1>1, <1>7
  <2> QED BY <1>3, <1>5, <1>6, <1>7, <1>8, <1>9, <1>10, <2>1 DEF Grown, SameMeasure
<1> QED BY <1>1, <1>2, <1>3, <1>7, <1>11 DEF new

(* Linking a child or a parent changes no measurement. *)
SameMeasures(u, t) ==
  /\ u.method_table = t.method_table
  /\ Len(u.nodes) = Len(t.nodes)
  /\ \A i \in Nodes(t) : /\ u.nodes[i].method = t.nodes[i].method
                         /\ SameMeasure(u.nodes[i], t.nodes[i])

(* A new entry in a children table is no measurement. *)
LEMMA AddChildStep ==
  ASSUME NEW t \in Thread, NEW self \in Nodes(t), NEW child \in Nodes(t)
  PROVE  SameMeasures(prof_call_tree_add_child(t, self, child), t)
<1> DEFINE node == t.nodes[self]
           children == [node.children EXCEPT ![t.nodes[child].method] = child]
           new == [node EXCEPT !.children = children]
           nodes == [t.nodes EXCEPT ![self] = new]
           u == [t EXCEPT !.nodes = nodes]
<1>1. node \in Node /\ t.nodes \in Seq(Node) /\ Nodes(t) = 1 .. Len(t.nodes)
  BY NodesAre
<1>2. prof_call_tree_add_child(t, self, child) = u
  BY DEF prof_call_tree_add_child
<1> HIDE DEF children
<1>3. new.method = node.method /\ SameMeasure(new, node)
  BY <1>1 DEF Node, SameMeasure
<1> HIDE DEF new
<1>4. /\ Len(nodes) = Len(t.nodes)
      /\ \A i \in Nodes(t) : nodes[i] = IF i = self THEN new ELSE t.nodes[i]
  BY <1>1
<1> HIDE DEF nodes
<1>5. u.nodes = nodes /\ u.method_table = t.method_table
  BY DEF Thread
<1> HIDE DEF u
<1>6. \A i \in Nodes(t) : u.nodes[i].method = t.nodes[i].method
                          /\ SameMeasure(u.nodes[i], t.nodes[i])
  BY <1>3, <1>4, <1>5 DEF SameMeasure
<1> QED BY <1>2, <1>4, <1>5, <1>6 DEF SameMeasures

(* And so does setting the parent of a node. *)
LEMMA SetParentStep ==
  ASSUME NEW t \in Thread, NEW self \in Nodes(t), NEW parent \in Nat
  PROVE  SameMeasures([t EXCEPT !.nodes[self].parent = parent], t)
<1> DEFINE node == t.nodes[self]
           new == [node EXCEPT !.parent = parent]
           nodes == [t.nodes EXCEPT ![self] = new]
           u == [t EXCEPT !.nodes = nodes]
<1>1. node \in Node /\ t.nodes \in Seq(Node) /\ Nodes(t) = 1 .. Len(t.nodes)
  BY NodesAre
<1>2. [t EXCEPT !.nodes[self].parent = parent] = u
  OBVIOUS
<1>3. new.method = node.method /\ SameMeasure(new, node)
  BY <1>1 DEF Node, SameMeasure
<1> HIDE DEF new
<1>4. /\ Len(nodes) = Len(t.nodes)
      /\ \A i \in Nodes(t) : nodes[i] = IF i = self THEN new ELSE t.nodes[i]
  BY <1>1
<1> HIDE DEF nodes
<1>5. u.nodes = nodes /\ u.method_table = t.method_table
  BY DEF Thread
<1> HIDE DEF u
<1>6. \A i \in Nodes(t) : u.nodes[i].method = t.nodes[i].method
                          /\ SameMeasure(u.nodes[i], t.nodes[i])
  BY <1>3, <1>4, <1>5 DEF SameMeasure
<1> QED BY <1>2, <1>4, <1>5, <1>6 DEF SameMeasures

(* A thread that has grown has still grown when links are set.             *)
LEMMA GrownLinked ==
  ASSUME NEW t \in Thread, NEW c, NEW u \in Thread, NEW k \in Keys,
         Grown(c, t, k), SameMeasures(u, c), u.stack = c.stack
  PROVE  Grown(u, t, k)
<1>1. /\ Nodes(c) = 1 .. Len(c.nodes) /\ Nodes(u) = 1 .. Len(u.nodes)
  BY NodesAre DEF Grown
<1>2. Nodes(u) = Nodes(c) /\ u.method_table = c.method_table
  BY <1>1 DEF SameMeasures
<1> DEFINE n == Len(t.nodes) + 1
<1>3. \A i \in Nodes(c) : /\ u.nodes[i].method = c.nodes[i].method
                          /\ SameMeasure(u.nodes[i], c.nodes[i])
  BY DEF SameMeasures
<1>4. n \in Nodes(c) /\ Nodes(t) \subseteq Nodes(c)
  BY DEF Grown
<1>5. /\ u.nodes[n].method = c.nodes[n].method
      /\ SameMeasure(u.nodes[n], c.nodes[n])
  BY <1>3, <1>4
<1>6. \A i \in Nodes(t) : /\ u.nodes[i].method = t.nodes[i].method
                          /\ SameMeasure(u.nodes[i], t.nodes[i])
  <2>1. \A i \in Nodes(t) : /\ c.nodes[i].method = t.nodes[i].method
                            /\ SameMeasure(c.nodes[i], t.nodes[i])
    BY DEF Grown
  <2>2. \A i \in Nodes(t) : /\ u.nodes[i].method = c.nodes[i].method
                            /\ SameMeasure(u.nodes[i], c.nodes[i])
    BY <1>3, <1>4
  <2> QED BY <2>1, <2>2 DEF SameMeasure
<1>7. /\ u.nodes[n].total_time = c.nodes[n].total_time
      /\ u.nodes[n].self_time = c.nodes[n].self_time
      /\ u.nodes[n].wait_time = c.nodes[n].wait_time
      /\ u.nodes[n].called = c.nodes[n].called
      /\ u.nodes[n].visits = c.nodes[n].visits
      /\ u.nodes[n].method = c.nodes[n].method
  BY <1>5 DEF SameMeasure
<1> QED BY <1>2, <1>6, <1>7 DEF Grown

(* A new child of the node parent (CallChild). *)
LEMMA GrowBelow ==
  ASSUME NEW t, ThreadOK(t), NEW k \in Keys, NEW parent \in Nodes(t)
  PROVE  LET c == prof_call_tree_create(t, k, parent)
             n == NewestNode(c)
             a == prof_call_tree_add_child(c, parent, n)
         IN  GrownBelow(a, t, k, parent) /\ n = Len(t.nodes) + 1
<1> DEFINE c == prof_call_tree_create(t, k, parent)
           n == NewestNode(c)
           a == prof_call_tree_add_child(c, parent, n)
           new == NewNode(k, parent)
<1>1. t \in Thread /\ parent \in Nat
  BY NodesAre DEF ThreadOK
<1>2. /\ Grown(c, t, k)
      /\ n = Len(t.nodes) + 1
      /\ c.call_tree = t.call_tree
      /\ c.nodes[n] = new
      /\ \A i \in Nodes(t) : c.nodes[i] = t.nodes[i]
  BY <1>1, CreateStep
<1>3. new.parent = parent /\ new.total_time = 0 /\ new.wait_time = 0
  BY DEF NewNode
<1> HIDE DEF c, n, new
<1>4. c \in Thread /\ parent \in Nodes(c) /\ n \in Nodes(c) /\ Nodes(t) \subseteq Nodes(c)
  BY <1>2 DEF Grown
<1>5. ChildAdded(a, c, parent, n, c.nodes[n].method)
  BY <1>4, AddChildType
<1>6. SameMeasures(a, c)
  BY <1>4, AddChildStep
<1> HIDE DEF a
<1>7. Grown(a, t, k)
  BY <1>1, <1>2, <1>5, <1>6, GrownLinked DEF ChildAdded
<1>8. SameMeasure(a.nodes[n], new)
  BY <1>2, <1>4, <1>6 DEF SameMeasures
<1>9. a.nodes[n].total_time = 0 /\ a.nodes[n].wait_time = 0
  BY <1>3, <1>8 DEF SameMeasure
<1>10. /\ a.call_tree = t.call_tree
       /\ \A i \in Nodes(c) : a.nodes[i].parent = c.nodes[i].parent
  BY <1>2, <1>5 DEF ChildAdded
<1>11. /\ a.nodes[n].parent = parent
       /\ \A i \in Nodes(t) : a.nodes[i].parent = t.nodes[i].parent
  BY <1>2, <1>3, <1>4, <1>10
<1>12. GrownBelow(a, t, k, parent)
  BY <1>2, <1>7, <1>9, <1>10, <1>11 DEF GrownBelow
<1> QED BY <1>2, <1>12 DEF a, c, n

(* The first node of a thread (FirstFrame). *)
LEMMA GrowFirst ==
  ASSUME NEW t, ThreadOK(t), t.call_tree = NULL, NEW k \in Keys
  PROVE  LET c == prof_call_tree_create(t, k, NULL)
             n == NewestNode(c)
         IN  GrownAbove([c EXCEPT !.call_tree = n], t, k)
<1> DEFINE c == prof_call_tree_create(t, k, NULL)
           n == NewestNode(c)
           d == [c EXCEPT !.call_tree = n]
           new == NewNode(k, NULL)
<1>1. t \in Thread /\ NULL \in Nat /\ Nodes(t) = {}
  BY DEF ThreadOK, RootedTree, NULL, Nodes
<1>2. /\ Grown(c, t, k)
      /\ n = Len(t.nodes) + 1
      /\ c.nodes[n] = new
  BY <1>1, CreateStep
<1>3. new.parent = NULL /\ new.total_time = 0 /\ new.wait_time = 0
  BY DEF NewNode
<1> HIDE DEF c, n, new
<1>4. n \in Nat /\ c \in Thread
  BY <1>1, <1>2, NodesAre DEF Grown
<1>5. d \in Thread /\ d.stack = c.stack /\ d.call_tree = n /\ d.nodes = c.nodes
  BY <1>4, SetRootType
<1>6. d.method_table = c.method_table
  BY <1>4 DEF Thread
<1> HIDE DEF d
<1>7. SameMeasures(d, c)
  BY <1>5, <1>6 DEF SameMeasures, SameMeasure
<1>8. Grown(d, t, k)
  BY <1>1, <1>2, <1>5, <1>7, GrownLinked
<1>9. GrownAbove(d, t, k)
  BY <1>1, <1>2, <1>3, <1>5, <1>8 DEF GrownAbove
<1> QED BY <1>9 DEF d, c, n

(* What prof_frame_unshift does before it pushes. *)
TakenOver(t, parent, root) ==
  [t EXCEPT !.nodes[parent] = TakeOver(t.nodes[parent], t.nodes[root]),
            !.method_table[KeyOf(t, parent)] =
              TakeOverMethod(MethodOf(t, parent), t.nodes[root])]

(* It changes the new root and its method, by what the old root has. *)
LEMMA TakenOverStep ==
  ASSUME NEW t, ThreadOK(t), NEW parent \in Nodes(t), NEW root \in Nodes(t)
  PROVE  LET u == TakenOver(t, parent, root)
             node == t.nodes[root]
         IN  /\ ThreadOK(u)
             /\ u.stack = t.stack
             /\ SameTree(u, t)
             /\ \A i \in Nodes(t) : i # parent => u.nodes[i] = t.nodes[i]
             /\ u.nodes[parent].called = t.nodes[parent].called
             /\ u.nodes[parent].visits = t.nodes[parent].visits
             /\ u.nodes[parent].self_time = 0
             /\ u.nodes[parent].total_time = node.total_time
             /\ u.nodes[parent].wait_time = node.wait_time
             /\ \A j \in Keys : j # KeyOf(t, parent) => u.method_table[j] = t.method_table[j]
             /\ LET new == u.method_table[KeyOf(t, parent)]
                    old == t.method_table[KeyOf(t, parent)]
                IN  /\ new.created = old.created
                    /\ new.recursive = old.recursive
                    /\ new.called = old.called
                    /\ new.visits = old.visits
                    /\ new.self_time = old.self_time
                    /\ new.total_time = old.total_time + node.total_time
                    /\ new.wait_time = old.wait_time + node.wait_time
                    /\ new.call_trees = old.call_trees
<1> DEFINE old == t.nodes[parent]
           node == TakeOver(old, t.nodes[root])
           k == KeyOf(t, parent)
           oldm == MethodOf(t, parent)
           method == TakeOverMethod(oldm, t.nodes[root])
           u == Measured(t, t.stack, parent, node, k, method)
<1>1. /\ t \in Thread /\ old \in Node /\ t.nodes[root] \in Node
      /\ k \in Keys /\ oldm \in Method /\ t.stack \in Seq(Frame)
  BY NodesAre DEF ThreadOK
<1>2. node \in Node /\ SameLinks(node, old) /\ method \in Method
  BY <1>1, TakeOverNode, TakeOverMethodType
<1>3. TakenOver(t, parent, root) = u
  BY <1>1 DEF TakenOver, Measured, Thread
<1>4. /\ node.called = old.called /\ node.visits = old.visits
      /\ node.self_time = 0
      /\ node.total_time = t.nodes[root].total_time
      /\ node.wait_time = t.nodes[root].wait_time
  <2> HIDE DEF old
  <2> QED BY <1>1 DEF TakeOver, Node
<1>5. /\ method.created = oldm.created /\ method.recursive = oldm.recursive
      /\ method.called = oldm.called /\ method.visits = oldm.visits
      /\ method.self_time = oldm.self_time
      /\ method.total_time = oldm.total_time + t.nodes[root].total_time
      /\ method.wait_time = oldm.wait_time + t.nodes[root].wait_time
      /\ method.call_trees = oldm.call_trees
  <2> HIDE DEF oldm
  <2> QED BY <1>1 DEF TakeOverMethod, Method
<1> HIDE DEF node, method, k
<1>6. /\ u \in Thread /\ u.stack = t.stack /\ SameTree(u, t)
      /\ \A i \in Nodes(t) : u.nodes[i] = IF i = parent THEN node ELSE t.nodes[i]
      /\ \A j \in Keys : u.method_table[j] = IF j = k THEN method ELSE t.method_table[j]
  BY <1>1, <1>2, MeasureUpdate
<1> HIDE DEF u
<1>7. ThreadOK(u)
  BY <1>1, <1>6, WithinOK, NodesAre DEF StackWithin
<1>8. oldm = t.method_table[k]
  BY DEF MethodOf, k
<1> HIDE DEF oldm, old
<1> QED BY <1>1, <1>3, <1>4, <1>5, <1>6, <1>7, <1>8 DEF k, old

(* The tree that Climb has made when it pushes the frame of the new root.  *)
LEMMA ClimbStep ==
  ASSUME NEW t, ThreadOK(t), t.stack = <<>>, t.call_tree # NULL,
         NEW k \in Keys, NEW m \in Nat
  PROVE  \E v \in Thread : LET n == Len(t.nodes) + 1 IN
           /\ ThreadOK(v)
           /\ GrownAbove(v, t, k)
           /\ n \in Nodes(v)
           /\ Reachable(v, n)
           /\ Climb(t, k, m) = prof_frame_push(v, n, m, FALSE)
<1> DEFINE c == prof_call_tree_create(t, k, NULL)
           n == NewestNode(c)
           r == t.call_tree
           a == prof_call_tree_add_child(c, n, r)
           p == prof_call_tree_add_parent(c, r, n)
           d == [p EXCEPT !.call_tree = n]
           v == TakenOver(d, n, r)
<1>1. /\ t \in Thread /\ RootedTree(t) /\ NULL \in Nat /\ r \in Nodes(t)
      /\ Nodes(t) = 1 .. Len(t.nodes) /\ Len(t.nodes) \in Nat
  BY NodesAre DEF ThreadOK, NULL, RootedTree
<1>2. /\ ThreadOK(d) /\ d.stack = <<>> /\ d.call_tree = n
      /\ {n, r} \subseteq Nodes(d) /\ d.nodes[n].method = k
  BY ClimbTree
<1>3. Climb(t, k, m) = prof_frame_push(v, n, m, FALSE)
  BY DEF Climb, prof_frame_unshift, TakenOver
<1>4. /\ Grown(c, t, k) /\ n = Len(t.nodes) + 1 /\ c.nodes[n] = NewNode(k, NULL)
      /\ \A i \in Nodes(t) : c.nodes[i] = t.nodes[i]
  BY <1>1, CreateStep
<1> HIDE DEF c, n
<1>5. c \in Thread /\ n \in Nodes(c) /\ r \in Nodes(c) /\ r # n /\ n \in Nat
  BY <1>1, <1>4 DEF Grown
<1>6. ChildAdded(a, c, n, r, c.nodes[r].method)
  BY <1>5, AddChildType
<1>7. SameMeasures(a, c)
  BY <1>5, AddChildStep
<1>8. p = [a EXCEPT !.nodes[r].parent = n]
  BY DEF prof_call_tree_add_parent
<1> HIDE DEF a, p, r
<1>9. a \in Thread /\ r \in Nodes(a)
  BY <1>5, <1>6 DEF ChildAdded
<1>10. /\ p \in Thread
       /\ p.stack = a.stack
       /\ Nodes(p) = Nodes(a)
       /\ \A i \in Nodes(a) :
            /\ p.nodes[i].method = a.nodes[i].method
            /\ p.nodes[i].parent = IF i = r THEN n ELSE a.nodes[i].parent
            /\ p.nodes[i].children = a.nodes[i].children
       /\ SameMeasures(p, a)
  <2>1. SameMeasures([a EXCEPT !.nodes[r].parent = n], a)
    BY <1>5, <1>9, SetParentStep
  <2> QED BY <1>5, <1>8, <1>9, <2>1, SetParentType
<1>11. /\ d \in Thread /\ d.stack = p.stack /\ d.call_tree = n
       /\ d.nodes = p.nodes /\ d.method_table = p.method_table
  <2>1. d.method_table = p.method_table
    BY <1>10 DEF Thread
  <2> QED BY <1>5, <1>10, <2>1, SetRootType
<1> HIDE DEF d
<1>12. SameMeasures(d, c) /\ d.stack = c.stack
  BY <1>6, <1>7, <1>10, <1>11 DEF ChildAdded, SameMeasures, SameMeasure
<1>13. Grown(d, t, k)
  BY <1>1, <1>4, <1>11, <1>12, GrownLinked
<1>14. \A i \in Nodes(t) : d.nodes[i].parent = IF i = r THEN n ELSE t.nodes[i].parent
  BY <1>1, <1>4, <1>6, <1>10, <1>11 DEF ChildAdded, Grown
<1>15. d.nodes[n].parent = NULL
  BY <1>4, <1>5, <1>6, <1>10, <1>11 DEF ChildAdded, NewNode
<1>16. d.nodes[n].total_time = 0 /\ d.nodes[n].wait_time = 0
  BY <1>4, <1>5, <1>12 DEF SameMeasures, SameMeasure, NewNode
<1> HIDE DEF v
<1>17. /\ ThreadOK(v) /\ v \in Thread /\ v.stack = d.stack /\ SameTree(v, d)
       /\ \A i \in Nodes(d) : i # n => v.nodes[i] = d.nodes[i]
       /\ v.nodes[n].called = d.nodes[n].called
       /\ v.nodes[n].visits = d.nodes[n].visits
       /\ v.nodes[n].self_time = 0
       /\ v.nodes[n].total_time = d.nodes[r].total_time
       /\ v.nodes[n].wait_time = d.nodes[r].wait_time
       /\ \A j \in Keys : j # k => v.method_table[j] = d.method_table[j]
       /\ LET new == v.method_table[k]
              old == d.method_table[k]
          IN  /\ new.created = old.created
              /\ new.recursive = old.recursive
              /\ new.called = old.called
              /\ new.visits = old.visits
              /\ new.self_time = old.self_time
              /\ new.total_time = old.total_time + d.nodes[r].total_time
              /\ new.wait_time = old.wait_time + d.nodes[r].wait_time
              /\ new.call_trees = old.call_trees
  <2>1. KeyOf(d, n) = k /\ n \in Nodes(d) /\ r \in Nodes(d)
    BY <1>2 DEF KeyOf
  <2> QED BY <1>2, <2>1, TakenOverStep DEF v, ThreadOK
<1>18. Nodes(v) = Nodes(d)
  BY <1>11, <1>17, NodesAre DEF SameTree
<1>19. \A i \in Nodes(d) : v.nodes[i].method = d.nodes[i].method
                          /\ v.nodes[i].parent = d.nodes[i].parent
  BY <1>11, <1>17, NodesAre DEF SameTree, SameLinks
<1>20. /\ d.nodes[r].total_time = t.nodes[r].total_time
       /\ d.nodes[r].wait_time = t.nodes[r].wait_time
  BY <1>1, <1>13 DEF Grown, SameMeasure, r
<1>21. Grown(v, t, k)
  <2>1. \A i \in Nodes(t) : /\ v.nodes[i].method = t.nodes[i].method
                            /\ SameMeasure(v.nodes[i], t.nodes[i])
    <3>1. \A i \in Nodes(t) : i \in Nodes(d) /\ i # n
      BY <1>4, <1>13 DEF Grown
    <3>2. \A i \in Nodes(t) : v.nodes[i] = d.nodes[i]
      BY <1>17, <3>1
    <3>3. \A i \in Nodes(t) : /\ d.nodes[i].method = t.nodes[i].method
                              /\ SameMeasure(d.nodes[i], t.nodes[i])
      BY <1>13 DEF Grown
    <3> QED BY <3>2, <3>3
  <2>2. \A j \in Keys \ {k} : v.method_table[j] = t.method_table[j]
    BY <1>13, <1>17 DEF Grown
  <2>3. /\ v.nodes[n].method = k
        /\ v.nodes[n].called = 0 /\ v.nodes[n].visits = 0 /\ v.nodes[n].self_time = 0
    <3>1. n \in Nodes(d) /\ d.nodes[n].called = 0 /\ d.nodes[n].visits = 0
      BY <1>2, <1>4, <1>13 DEF Grown
    <3> QED BY <1>2, <1>17, <1>19, <3>1
  <2>4. LET new == v.method_table[k]
            old == t.method_table[k]
        IN  /\ new.created = old.created
            /\ new.recursive = old.recursive
            /\ new.called = old.called
            /\ new.visits = old.visits
            /\ new.self_time = old.self_time
            /\ new.total_time = old.total_time + v.nodes[n].total_time
            /\ new.wait_time = old.wait_time + v.nodes[n].wait_time
            /\ new.call_trees = old.call_trees \cup {n}
    <3>1. t.method_table[k].total_time \in Int /\ t.method_table[k].wait_time \in Int
      BY <1>1, NodesAre DEF Method
    <3> DEFINE new == v.method_table[k]
               mid == d.method_table[k]
               old == t.method_table[k]
    <3>2. /\ new.created = mid.created
          /\ new.recursive = mid.recursive
          /\ new.called = mid.called
          /\ new.visits = mid.visits
          /\ new.self_time = mid.self_time
          /\ new.total_time = mid.total_time + v.nodes[n].total_time
          /\ new.wait_time = mid.wait_time + v.nodes[n].wait_time
          /\ new.call_trees = mid.call_trees
      BY <1>17
    <3>3. /\ mid.created = old.created
          /\ mid.recursive = old.recursive
          /\ mid.called = old.called
          /\ mid.visits = old.visits
          /\ mid.self_time = old.self_time
          /\ mid.total_time = old.total_time + 0
          /\ mid.wait_time = old.wait_time + 0
          /\ mid.call_trees = old.call_trees \cup {n}
      BY <1>4, <1>13, <1>16 DEF Grown
    <3> HIDE DEF mid, new
    <3> QED BY <3>1, <3>2, <3>3 DEF new
  <2> QED BY <1>4, <1>13, <1>17, <1>18, <2>1, <2>2, <2>3, <2>4 DEF Grown
<1>22. GrownAbove(v, t, k)
  <2>1. v.call_tree = n /\ v.nodes[n].parent = NULL
    BY <1>2, <1>15, <1>17, <1>19 DEF SameTree
  <2>2. \A i \in Nodes(t) : v.nodes[i].parent = IF i = r THEN n ELSE t.nodes[i].parent
    BY <1>13, <1>14, <1>19 DEF Grown
  <2> QED BY <1>4, <1>17, <1>20, <1>21, <2>1, <2>2 DEF GrownAbove, r
<1>23. Reachable(v, n) /\ n \in Nodes(v)
  BY <1>2, <1>17, <1>18 DEF Reachable, SameTree
<1> QED BY <1>3, <1>4, <1>17, <1>22, <1>23

-----------------------------------------------------------------------------
(* What the other operations leave alone.                                  *)

(* u has the tree and the frames of t, and its methods with the same       *)
(* measurements.                                                           *)
Alike(u, t) ==
  /\ u \in Thread
  /\ u.nodes = t.nodes
  /\ u.call_tree = t.call_tree
  /\ Len(u.stack) = Len(t.stack)
  /\ \A i \in 1 .. Len(t.stack) : u.stack[i].call_tree = t.stack[i].call_tree
  /\ \A k \in Keys :
       LET new == u.method_table[k]
           old == t.method_table[k]
       IN  /\ SameMeasure(new, old)
           /\ new.recursive = old.recursive
           /\ new.call_trees = old.call_trees
           /\ old.created => new.created

(* The times of its frames differ by what a switch or a pause at m does.   *)
Touched(new, old, m) == SameTimes(new, old, m) \/ Switched(new, old, m)

AlikeAt(u, t, m) ==
  /\ Alike(u, t)
  /\ m \in Nat
  /\ \A i \in Frames(t) : Touched(u.stack[i], t.stack[i], m)

(* The switches and the pauses replace the top frame by one of its node.   *)
LEMMA SetCurrentStep ==
  ASSUME NEW t, ThreadOK(t), t.stack # <<>>, NEW m \in Nat,
         NEW fr \in Frame, fr.call_tree = prof_frame_current(t).call_tree,
         Touched(fr, prof_frame_current(t), m)
  PROVE  AlikeAt(SetCurrent(t, fr), t, m)
<1> DEFINE stack == SetLast(t.stack, fr)
           u == [t EXCEPT !.stack = stack]
<1>1. t \in Thread /\ t.stack \in Seq(Frame)
  BY NodesAre DEF ThreadOK
<1>2. /\ stack \in Seq(Frame)
      /\ Len(stack) = Len(t.stack)
      /\ \A i \in 1 .. Len(t.stack) :
           stack[i] = IF i = Len(t.stack) THEN fr ELSE t.stack[i]
  BY <1>1, SetLastType
<1>3. SetCurrent(t, fr) = u
  BY DEF SetCurrent
<1>4. /\ fr.call_tree = t.stack[Len(t.stack)].call_tree
      /\ Touched(fr, t.stack[Len(t.stack)], m)
  BY <1>1, LastType DEF prof_frame_current
<1> HIDE DEF stack
<1>5. /\ u \in Thread
      /\ u.stack = stack
      /\ u.nodes = t.nodes
      /\ u.call_tree = t.call_tree
      /\ u.method_table = t.method_table
  BY <1>1, <1>2 DEF Thread
<1> HIDE DEF u
<1>6. \A i \in 1 .. Len(t.stack) : u.stack[i].call_tree = t.stack[i].call_tree
  BY <1>1, <1>2, <1>4, <1>5
<1>7. \A i \in Frames(t) : Touched(u.stack[i], t.stack[i], m)
  <2>1. \A i \in 1 .. Len(t.stack) : Touched(t.stack[i], t.stack[i], m)
    BY <1>1, PauseTimes DEF Touched
  <2>2. Frames(t) = 1 .. Len(t.stack)
    BY <1>1, NodesAre
  <2> QED BY <1>2, <1>4, <1>5, <2>1, <2>2
<1> QED BY <1>2, <1>3, <1>5, <1>6, <1>7 DEF Alike, AlikeAt, SameMeasure

(* Nothing to replace, nothing changed. *)
LEMMA AlikeItself ==
  ASSUME NEW t \in Thread, NEW m \in Nat
  PROVE  AlikeAt(t, t, m)
<1>1. \A i \in Frames(t) : Touched(t.stack[i], t.stack[i], m)
  BY NodesAre, PauseTimes DEF Touched
<1> QED BY <1>1 DEF AlikeAt, Alike, SameMeasure

(* switch_thread, pause_thread and unpause_thread leave all that is        *)
(* measured alone.                                                         *)
LEMMA SwitchStep ==
  ASSUME NEW t, ThreadOK(t), NEW m \in Nat
  PROVE  /\ AlikeAt(SwitchIn(t, m), t, m)
         /\ AlikeAt(SwitchOut(t, m), t, m)
         /\ AlikeAt(pause_thread(t, m), t, m)
         /\ t.stack # <<>> => AlikeAt(unpause_thread(t, m), t, m)
<1> DEFINE top == prof_frame_current(t)
<1>1. CASE t.stack = <<>>
  BY <1>1, AlikeItself DEF SwitchIn, SwitchOut, pause_thread, ThreadOK
<1>2. CASE t.stack # <<>>
  <2>1. top \in Frame
    BY <1>2, NodesAre, LastType DEF ThreadOK, prof_frame_current
  <2> HIDE DEF top
  <2>2. /\ Touched(Resumed(top, m), top, m)
         /\ Touched([top EXCEPT !.switch_time = m], top, m)
         /\ Touched(prof_frame_pause(top, m), top, m)
         /\ Touched(prof_frame_unpause(top, m), top, m)
    BY <2>1, SwitchTimes, PauseTimes DEF Touched
  <2>3. Resumed(top, m) \in Frame /\ Resumed(top, m).call_tree = top.call_tree
    BY <2>1, ResumedType
  <2>4. /\ [top EXCEPT !.switch_time = m] \in Frame
        /\ [top EXCEPT !.switch_time = m].call_tree = top.call_tree
    BY <2>1 DEF Frame
  <2>5. /\ prof_frame_pause(top, m) \in Frame
        /\ prof_frame_pause(top, m).call_tree = top.call_tree
    BY <2>1, PauseType
  <2>6. /\ prof_frame_unpause(top, m) \in Frame
        /\ prof_frame_unpause(top, m).call_tree = top.call_tree
    BY <2>1, UnpauseType
  <2>7. AlikeAt(SetCurrent(t, Resumed(top, m)), t, m)
    BY <1>2, <2>3, <2>2, SetCurrentStep DEF top
  <2>8. AlikeAt(SetCurrent(t, [top EXCEPT !.switch_time = m]), t, m)
    BY <1>2, <2>4, <2>2, SetCurrentStep DEF top
  <2>9. AlikeAt(SetCurrent(t, prof_frame_pause(top, m)), t, m)
    BY <1>2, <2>5, <2>2, SetCurrentStep DEF top
  <2>10. AlikeAt(SetCurrent(t, prof_frame_unpause(top, m)), t, m)
    BY <1>2, <2>6, <2>2, SetCurrentStep DEF top
  <2> QED BY <1>2, <2>7, <2>8, <2>9, <2>10
          DEF SwitchIn, SwitchOut, pause_thread, unpause_thread, top
<1> QED BY <1>1, <1>2

(* check_method may only add the method. *)
LEMMA CreateMethodStep ==
  ASSUME NEW t, ThreadOK(t), NEW k \in Keys
  PROVE  LET u == create_method(t, k)
         IN  /\ Alike(u, t)
             /\ \A m \in Nat : AlikeAt(u, t, m)
             /\ u.method_table[k].created
<1> DEFINE old == t.method_table[k]
           method == [old EXCEPT !.created = TRUE]
           u == [t EXCEPT !.method_table = [t.method_table EXCEPT ![k] = method]]
<1>1. t \in Thread /\ old \in Method /\ t.method_table \in [Keys -> Method]
  BY NodesAre DEF ThreadOK
<1>2. create_method(t, k) = u
  BY DEF create_method
<1>3. ThreadOK(u) /\ u.stack = t.stack /\ u.nodes = t.nodes /\ u.call_tree = t.call_tree
  <2> HIDE DEF u
  <2> QED BY <1>2, CreateMethodOK
<1>4. SameMeasure(method, old) /\ method.created
      /\ method.recursive = old.recursive /\ method.call_trees = old.call_trees
  BY <1>1 DEF Method, SameMeasure
<1> HIDE DEF method
<1>5. \A j \in Keys : u.method_table[j] = IF j = k THEN method ELSE t.method_table[j]
  BY <1>1 DEF Thread
<1> HIDE DEF u
<1>6. Alike(u, t) /\ u.method_table[k].created
  BY <1>3, <1>4, <1>5 DEF Alike, ThreadOK, SameMeasure
<1>7. \A m \in Nat : AlikeAt(u, t, m)
  <2> SUFFICES ASSUME NEW m \in Nat PROVE AlikeAt(u, t, m)
    OBVIOUS
  <2>1. \A i \in Frames(t) : Touched(t.stack[i], t.stack[i], m)
    BY <1>1, NodesAre, PauseTimes DEF Touched
  <2> QED BY <1>3, <1>6, <2>1 DEF AlikeAt
<1> QED BY <1>2, <1>6, <1>7

-----------------------------------------------------------------------------
(* A set of thread records that all operations stay in.                    *)

KeptAlike(S) ==
  \A t \in S, u \in Thread : ThreadOK(u) /\ Alike(u, t) => u \in S

KeptByPush(S) ==
  \A t \in S, u \in Thread : \A n \in Nodes(t) :
    ThreadOK(u) /\ Reachable(t, n) /\ PushedOn(u, t, n) => u \in S

KeptByPop(S) ==
  \A t \in S, u \in Thread : \A n \in Nodes(t) :
    ThreadOK(u) /\ PoppedOff(u, t, n) => u \in S

KeptBelow(S) ==
  \A t \in S, u \in Thread, k \in Keys :
    /\ ThreadOK(u)
    /\ t.stack # <<>>
    /\ t.method_table[k].created
    /\ GrownBelow(u, t, k, Last(t.stack).call_tree)
    => u \in S

KeptAbove(S) ==
  \A t \in S, u \in Thread, k \in Keys :
    /\ ThreadOK(u)
    /\ t.stack = <<>>
    /\ t.method_table[k].created
    /\ GrownAbove(u, t, k)
    => u \in S

KeptGrowing(S) ==
  /\ \A t \in S : ThreadOK(t)
  /\ \A trace \in BOOLEAN : thread_data_create(trace) \in S
  /\ KeptBelow(S)
  /\ KeptAbove(S)

Kept(S) ==
  /\ KeptGrowing(S)
  /\ KeptAlike(S)
  /\ KeptByPush(S)
  /\ KeptByPop(S)

(* A set that the records of the running fiber stay in when all is done at *)
(* the reading m: nothing but methods are named without a push or a pop.   *)
KeptRunning(S, m) ==
  /\ \A t \in S : ThreadOK(t)
  /\ KeptBelow(S)
  /\ KeptAbove(S)
  /\ \A t \in S, u \in Thread :
       ThreadOK(u) /\ Alike(u, t) /\ u.stack = t.stack => u \in S
  /\ \A t \in S, u \in Thread : \A n \in Nodes(t) :
       ThreadOK(u) /\ Reachable(t, n) /\ PushedAt(u, t, n, m) => u \in S
  /\ \A t \in S, u \in Thread : \A n \in Nodes(t) :
       ThreadOK(u) /\ t.stack # <<>> /\ PoppedAt(u, t, n, m) => u \in S

(* A set that all records stay in, also when fibers are switched and       *)
(* paused.                                                                 *)
KeptAt(S, m) ==
  /\ KeptGrowing(S)
  /\ \A t \in S, u \in Thread : ThreadOK(u) /\ AlikeAt(u, t, m) => u \in S
  /\ \A t \in S, u \in Thread : \A n \in Nodes(t) :
       ThreadOK(u) /\ Reachable(t, n) /\ PushedAt(u, t, n, m) => u \in S
  /\ \A t \in S, u \in Thread : \A n \in Nodes(t) :
       ThreadOK(u) /\ t.stack # <<>> /\ PoppedAt(u, t, n, m) => u \in S

(* What does not depend on the times is kept whenever it happens.          *)
LEMMA KeptIsKeptAt ==
  ASSUME NEW S, Kept(S), NEW m
  PROVE  KeptAt(S, m)
<1>1. KeptGrowing(S) /\ \A t \in S : t \in Thread
  BY DEF Kept, KeptGrowing, ThreadOK
<1>2. \A t \in S, u \in Thread : ThreadOK(u) /\ AlikeAt(u, t, m) => u \in S
  BY DEF Kept, KeptAlike, AlikeAt
<1>3. \A t \in S, u \in Thread : \A n \in Nodes(t) :
        ThreadOK(u) /\ Reachable(t, n) /\ PushedAt(u, t, n, m) => u \in S
  BY DEF Kept, KeptByPush, PushedAt
<1>4. \A t \in S, u \in Thread : \A n \in Nodes(t) :
        ThreadOK(u) /\ t.stack # <<>> /\ PoppedAt(u, t, n, m) => u \in S
  BY <1>1, PoppedAtIs DEF Kept, KeptByPop
<1> QED BY <1>1, <1>2, <1>3, <1>4 DEF KeptAt

(* A record with the same stack has its times.                             *)
LEMMA KeptAtIsKeptRunning ==
  ASSUME NEW S, NEW m \in Nat, KeptAt(S, m)
  PROVE  KeptRunning(S, m)
<1>1. \A t \in S : ThreadOK(t)
  BY DEF KeptAt, KeptGrowing
<1>2. ASSUME NEW t \in S, NEW u \in Thread, ThreadOK(u), Alike(u, t), u.stack = t.stack
      PROVE  u \in S
  <2>1. \A i \in Frames(t) : Touched(t.stack[i], t.stack[i], m)
    BY <1>1, NodesAre, PauseTimes DEF Touched, ThreadOK
  <2>2. AlikeAt(u, t, m)
    BY <1>2, <2>1 DEF AlikeAt
  <2> QED BY <1>2, <2>2 DEF KeptAt
<1> QED BY <1>1, <1>2 DEF KeptAt, KeptGrowing, KeptRunning

(* check_method, prof_frame_pop and the push of a reachable node stay in   *)
(* the set.                                                                *)
LEMMA CreateMethodKept ==
  ASSUME NEW S, NEW m \in Nat, KeptRunning(S, m), NEW t \in S, NEW k \in Keys
  PROVE  create_method(t, k) \in S
<1> DEFINE u == create_method(t, k)
<1>1. ThreadOK(t)
  BY DEF KeptRunning
<1>2. ThreadOK(u) /\ Alike(u, t) /\ u.stack = t.stack
  BY <1>1, CreateMethodOK, CreateMethodStep
<1> HIDE DEF u
<1>3. u \in S
  BY <1>2 DEF KeptRunning, ThreadOK
<1> QED BY <1>3 DEF u

(* A pop from an empty stack changes nothing, any other is a PoppedOff. *)
LEMMA PopKept ==
  ASSUME NEW S, NEW m \in Nat, KeptRunning(S, m), NEW t \in S
  PROVE  prof_frame_pop(t, m) \in S
<1>1. CASE t.stack = <<>>
  BY <1>1 DEF prof_frame_pop
<1>2. CASE t.stack # <<>>
  <2> DEFINE u == prof_frame_pop(t, m)
  <2>1. ThreadOK(t)
    BY DEF KeptRunning
  <2>2. ThreadOK(u) /\ PoppedAt(u, t, Last(t.stack).call_tree, m)
        /\ Last(t.stack).call_tree \in Nodes(t)
    BY <1>2, <2>1, PopOK, PopStep, TopFrameNode
  <2> HIDE DEF u
  <2>3. u \in S
    BY <1>2, <2>2 DEF KeptRunning, ThreadOK
  <2> QED BY <2>3 DEF u
<1> QED BY <1>1, <1>2

(* A node that can be reached, so that the stack stays a path. *)
LEMMA PushKept ==
  ASSUME NEW S, NEW m \in Nat, KeptRunning(S, m), NEW t \in S,
         NEW n \in Nodes(t), Reachable(t, n), NEW p \in BOOLEAN
  PROVE  /\ prof_frame_push(t, n, m, p) \in S
         /\ PushedOn(prof_frame_push(t, n, m, p), t, n)
<1> DEFINE u == prof_frame_push(t, n, m, p)
<1>1. ThreadOK(t) /\ t \in Thread
  BY DEF KeptRunning, ThreadOK
<1>2. ThreadOK(u) /\ PushedAt(u, t, n, m)
  BY <1>1, PushOK, PushStep
<1> HIDE DEF u
<1>3. u \in S
  BY <1>2 DEF KeptRunning, ThreadOK
<1> QED BY <1>2, <1>3 DEF u, PushedAt

(* A new child of the top frame's node, and its frame (CallChild). *)
LEMMA CallChildKept ==
  ASSUME NEW S, NEW m \in Nat, KeptRunning(S, m), NEW t \in S, t.stack # <<>>,
         NEW k \in Keys, t.method_table[k].created, paused \in BOOLEAN,
         LET top == Last(t.stack).call_tree
         IN  \/ t.nodes[top].children[k] = NULL
             \/ t.nodes[top].method = InsertedParent /\ Len(t.stack) = 1
  PROVE  CallChild(t, k, Last(t.stack).call_tree, m) \in S
<1> DEFINE top == Last(t.stack).call_tree
           c == prof_call_tree_create(t, k, top)
           n == NewestNode(c)
           a == prof_call_tree_add_child(c, top, n)
<1>1. ThreadOK(t)
  BY DEF KeptRunning
<1>2. ThreadOK(a) /\ NewestNode(a) = n /\ n \in Nodes(a) /\ Reachable(a, n)
  BY <1>1, NewChildOK
<1>3. GrownBelow(a, t, k, top)
  <2>1. top \in Nodes(t)
    BY <1>1, TopFrameNode
  <2> HIDE DEF top
  <2> QED BY <1>1, <2>1, GrowBelow
<1>4. CallChild(t, k, top, m) = prof_frame_push(a, n, m, paused)
  BY <1>2 DEF CallChild
<1> HIDE DEF a, n
<1>5. a \in S
  BY <1>2, <1>3 DEF KeptRunning, KeptBelow, ThreadOK
<1>6. prof_frame_push(a, n, m, paused) \in S
  BY <1>2, <1>5, PushKept
<1> QED BY <1>4, <1>6

(* The first node of a thread and its frame. *)
LEMMA FirstFrameKept ==
  ASSUME NEW S, NEW m \in Nat, KeptRunning(S, m), NEW t \in S,
         t.stack = <<>>, t.call_tree = NULL,
         NEW k \in Keys, t.method_table[k].created, paused \in BOOLEAN
  PROVE  FirstFrame(t, k, m) \in S
<1> DEFINE c == prof_call_tree_create(t, k, NULL)
           n == NewestNode(c)
           d == [c EXCEPT !.call_tree = n]
<1>1. ThreadOK(t)
  BY DEF KeptRunning
<1>2. ThreadOK(d) /\ n \in Nodes(d) /\ Reachable(d, n) /\ GrownAbove(d, t, k)
  BY <1>1, FirstTree, GrowFirst
<1>3. FirstFrame(t, k, m) = prof_frame_push(d, n, m, paused)
  BY DEF FirstFrame
<1> HIDE DEF d, n
<1>4. d \in S
  BY <1>2 DEF KeptRunning, KeptAbove, ThreadOK
<1>5. prof_frame_push(d, n, m, paused) \in S
  BY <1>2, <1>4, PushKept
<1> QED BY <1>3, <1>5

(* A climb above the root; methods stay created in it.                     *)
LEMMA ClimbKept ==
  ASSUME NEW S, NEW m \in Nat, KeptRunning(S, m), NEW t \in S,
         t.stack = <<>>, t.call_tree # NULL,
         NEW k \in Keys, t.method_table[k].created
  PROVE  /\ Climb(t, k, m) \in S
         /\ \A j \in Keys : t.method_table[j].created => Climb(t, k, m).method_table[j].created
<1>1. ThreadOK(t)
  BY DEF KeptRunning
<1> DEFINE n == Len(t.nodes) + 1
<1>2. PICK v \in Thread :
        /\ ThreadOK(v)
        /\ GrownAbove(v, t, k)
        /\ n \in Nodes(v)
        /\ Reachable(v, n)
        /\ Climb(t, k, m) = prof_frame_push(v, n, m, FALSE)
  BY <1>1, ClimbStep
<1> HIDE DEF n
<1>3. v \in S
  BY <1>2 DEF KeptRunning, KeptAbove
<1> DEFINE u == prof_frame_push(v, n, m, FALSE)
<1>4. u \in S /\ PushedOn(u, v, n)
  BY <1>2, <1>3, PushKept
<1> HIDE DEF u
<1>5. ASSUME NEW j \in Keys, t.method_table[j].created PROVE u.method_table[j].created
  <2>1. v.method_table[j].created
    BY <1>2, <1>5 DEF GrownAbove, Grown
  <2>2. v.method_table[j] \in Method
    BY <1>2, NodesAre
  <2>3. VisitedMethod(v.method_table[j]).created
    BY <2>1, <2>2 DEF VisitedMethod, Visited, Method
  <2> QED BY <1>4, <2>1, <2>3 DEF PushedOn
<1> QED BY <1>2, <1>4, <1>5 DEF u

(* Every event. *)
LEMMA LineEventKept ==
  ASSUME NEW S, NEW m \in Nat, KeptRunning(S, m), NEW t \in S, NEW k \in Keys,
         paused \in BOOLEAN
  PROVE  LineEvent(t, k, m) \in S
<1> DEFINE u == create_method(t, k)
<1>1. ThreadOK(t)
  BY DEF KeptRunning
<1>2. u \in S /\ u.stack = t.stack /\ u.call_tree = t.call_tree /\ u.method_table[k].created
  BY <1>1, CreateMethodKept, CreateMethodOK, CreateMethodStep
<1> HIDE DEF u
<1>3. CASE t.stack # <<>>
  BY <1>3 DEF LineEvent
<1>4. CASE t.stack = <<>> /\ t.call_tree = NULL
  <2>1. FirstFrame(u, k, m) \in S
    BY <1>2, <1>4, FirstFrameKept
  <2> QED BY <1>4, <2>1 DEF LineEvent, u
<1>5. CASE t.stack = <<>> /\ t.call_tree # NULL
  <2>1. Climb(u, k, m) \in S
    BY <1>2, <1>5, ClimbKept
  <2> QED BY <1>5, <2>1 DEF LineEvent, u
<1> QED BY <1>3, <1>4, <1>5

(* A call: of a child there is, of a new one, of the first node, or of a   *)
(* new child of the dummy that a climb puts above the root.                *)
LEMMA CallEventKept ==
  ASSUME NEW S, NEW m \in Nat, KeptRunning(S, m), NEW t \in S, NEW k \in Keys,
         paused \in BOOLEAN
  PROVE  CallEvent(t, k, m) \in S
<1> DEFINE u == create_method(t, k)
<1>1. ThreadOK(t)
  BY DEF KeptRunning
<1>2. u \in S /\ u.stack = t.stack /\ u.call_tree = t.call_tree /\ u.method_table[k].created
  BY <1>1, CreateMethodKept, CreateMethodOK, CreateMethodStep
<1>3. ThreadOK(u)
  BY <1>2 DEF KeptRunning
<1> HIDE DEF u
<1>4. CASE t.stack # <<>>
  <2> DEFINE top == Last(u.stack).call_tree
             child == u.nodes[top].children[k]
  <2>1. u.stack # <<>> /\ top \in Nodes(u)
    BY <1>2, <1>3, <1>4, TopFrameNode
  <2>2. CASE child = NULL
    <3>1. CallChild(u, k, top, m) \in S
      BY <1>2, <2>1, <2>2, CallChildKept
    <3> QED BY <1>4, <2>2, <3>1 DEF CallEvent, CallFromFrame, prof_frame_current, u
  <2>3. CASE child # NULL
    <3>1. child \in Nodes(u) /\ KeyOf(u, child) = k
      BY <1>3, <2>1, <2>3 DEF ThreadOK, RootedTree, LinkedNode, KeyOf
    <3>2. Reachable(u, child)
      BY <2>1, <3>1 DEF Reachable
    <3> HIDE DEF child
    <3>3. prof_frame_push(u, child, m, paused) \in S
      BY <1>2, <3>1, <3>2, PushKept
    <3> QED BY <1>4, <2>3, <3>3 DEF CallEvent, CallFromFrame, prof_frame_current, child, u
  <2> QED BY <2>2, <2>3
<1>5. CASE t.stack = <<>> /\ t.call_tree = NULL
  <2>1. FirstFrame(u, k, m) \in S
    BY <1>2, <1>5, FirstFrameKept
  <2> QED BY <1>5, <2>1 DEF CallEvent, u
<1>6. CASE t.stack = <<>> /\ t.call_tree # NULL
  <2> DEFINE v == create_method(u, InsertedParent)
             w == Climb(v, InsertedParent, m)
  <2>1. InsertedParent \in Keys
    BY DEF Keys
  <2>2. /\ v \in S /\ ThreadOK(v) /\ v.stack = <<>> /\ v.call_tree # NULL
        /\ v.method_table[InsertedParent].created
    BY <1>2, <1>3, <1>6, <2>1, CreateMethodKept, CreateMethodOK, CreateMethodStep
  <2>3. v.method_table[k].created
    BY <1>2, <1>3, <2>1, CreateMethodStep DEF Alike
  <2> HIDE DEF v
  <2>4. /\ ThreadOK(w)
        /\ Len(w.stack) = 1
        /\ Last(w.stack).call_tree = w.call_tree
        /\ KeyOf(w, w.call_tree) = InsertedParent
    BY <2>1, <2>2, ClimbOK
  <2>5. w \in S /\ w.method_table[k].created
    BY <2>1, <2>2, <2>3, ClimbKept
  <2> HIDE DEF w
  <2>6. w.stack # <<>>
    <3>1. Len(w.stack) = 1
      BY <2>4
    <3> QED BY <3>1
  <2>7. w.nodes[w.call_tree].method = InsertedParent
    BY <2>4 DEF KeyOf
  <2>8. CallChild(w, k, w.call_tree, m) \in S
    BY <2>4, <2>5, <2>6, <2>7, CallChildKept
  <2> QED BY <1>6, <2>8 DEF CallEvent, CallAboveRoot, u, v, w
<1> QED BY <1>4, <1>5, <1>6

(* The three kinds of event. *)
LEMMA HandleKept ==
  ASSUME NEW S, NEW m \in Nat, KeptRunning(S, m), NEW t \in S, NEW k \in Methods,
         paused \in BOOLEAN, NEW event \in {"line", "call", "return"}
  PROVE  Handle(event, t, k, m) \in S
<1>1. k \in Keys
  BY DEF Keys
<1>2. ReturnEvent(t, k, m) \in S
  <2>1. create_method(t, k) \in S
    BY <1>1, CreateMethodKept
  <2> QED BY <2>1, PopKept DEF ReturnEvent
<1>3. LineEvent(t, k, m) \in S /\ CallEvent(t, k, m) \in S
  BY <1>1, LineEventKept, CallEventKept
<1> QED BY <1>2, <1>3 DEF Handle

(* And the emptying of a stack. *)
LEMMA PopAllKept ==
  ASSUME NEW S, NEW m \in Nat, KeptRunning(S, m), NEW t \in S
  PROVE  PopAll(t, m) \in S
<1>1. ThreadOK(t)
  BY DEF KeptRunning
<1>2. PICK popped : /\ popped[0] = t
                    /\ \A i \in Nat : popped[i + 1] = prof_frame_pop(popped[i], m)
                    /\ PopAll(t, m) = popped[Len(t.stack)]
  BY <1>1, PopAllIterates
<1> DEFINE B == {i \in Nat : popped[i] \in S}
<1>3. \A i \in Nat : i \in B
  <2>1. 0 \in B
    BY <1>2
  <2>2. ASSUME NEW i \in Nat, i \in B PROVE i + 1 \in B
    <3>1. popped[i] \in S
      BY <2>2
    <3>2. popped[i + 1] = prof_frame_pop(popped[i], m)
      BY <1>2
    <3>3. prof_frame_pop(popped[i], m) \in S
      BY <3>1, PopKept
    <3> QED BY <3>2, <3>3
  <2> HIDE DEF B
  <2> QED BY <2>1, <2>2, NatInd
<1>4. Len(t.stack) \in Nat
  BY <1>1, NodesAre DEF ThreadOK
<1> QED BY <1>2, <1>3, <1>4

-----------------------------------------------------------------------------
(* The threads table stays in the set.                                     *)

TableIn(S, tbl) == \A f \in DOMAIN tbl : tbl[f] \in S

(* threads_table_insert adds a new record. *)
LEMMA InsertKept ==
  ASSUME NEW S, KeptGrowing(S), NEW tbl, TableIn(S, tbl), NEW f \in Fibers
  PROVE  TableIn(S, threads_table_insert(tbl, f))
<1>1. thread_data_create(f \notin Untraced) \in S
  BY DEF KeptAt, KeptGrowing
<1> QED BY <1>1 DEF TableIn, threads_table_insert

(* The switches, the pauses and the emptying of a stack keep one record.   *)
LEMMA ThreadOpsKept ==
  ASSUME NEW S, NEW m \in Nat, KeptAt(S, m), NEW t \in S
  PROVE  /\ SwitchIn(t, m) \in S /\ SwitchOut(t, m) \in S
         /\ pause_thread(t, m) \in S
         /\ t.stack # <<>> => unpause_thread(t, m) \in S
         /\ \A switched \in BOOLEAN : pop_frames(t, switched, m) \in S
<1>1. ThreadOK(t)
  BY DEF KeptAt, KeptGrowing
<1>2. ASSUME NEW u, ThreadOK(u), AlikeAt(u, t, m) PROVE u \in S
  BY <1>2 DEF KeptAt, ThreadOK
<1>3. /\ SwitchIn(t, m) \in S /\ SwitchOut(t, m) \in S
      /\ pause_thread(t, m) \in S
      /\ t.stack # <<>> => unpause_thread(t, m) \in S
  BY <1>1, <1>2, SwitchOK, PauseOK, SwitchStep
<1>4. PopAll(t, m) \in S /\ PopAll(SwitchIn(t, m), m) \in S
  BY <1>3, KeptAtIsKeptRunning, PopAllKept
<1> QED BY <1>3, <1>4 DEF pop_frames

(* check_fiber keeps the table, while the profile runs. *)
LEMMA CheckFiberKept ==
  ASSUME NEW S, NEW m \in Nat, KeptAt(S, m), IInv, running,
         TableIn(S, threads), NEW f \in Fibers
  PROVE  TableIn(S, check_fiber(f, m))
<1>1. CASE last = f
  BY <1>1 DEF check_fiber
<1>2. CASE last # f
  <2> DEFINE tbl == threads_table_fetch(threads, f)
             u == switch_thread(tbl, f, last, m)
  <2>1. TableIn(S, tbl)
    BY InsertKept DEF threads_table_fetch, KeptAt
  <2>2. check_fiber(f, m) = u
    BY <1>2 DEF check_fiber
  <2> HIDE DEF tbl
  <2>3. /\ DOMAIN u = DOMAIN tbl
        /\ \A g \in DOMAIN tbl : \/ u[g] = tbl[g]
                                 \/ u[g] = SwitchIn(tbl[g], m)
                                 \/ u[g] = SwitchOut(tbl[g], m)
    BY <1>2 DEF switch_thread
  <2> HIDE DEF u
  <2>4. \A g \in DOMAIN tbl : SwitchIn(tbl[g], m) \in S /\ SwitchOut(tbl[g], m) \in S
    BY <2>1, ThreadOpsKept DEF TableIn
  <2> QED BY <2>1, <2>2, <2>3, <2>4 DEF TableIn
<1> QED BY <1>1, <1>2

(* So does every event. *)
LEMMA ObserveKept ==
  ASSUME NEW S, NEW m \in Nat, KeptAt(S, m), now' = m, IInv,
         TableIn(S, threads), NEW f \in Fibers, NEW k \in Methods,
         NEW event \in {"line", "call", "return"}, Observe(f, event, k)
  PROVE  TableIn(S, threads')
<1>1. CASE UNCHANGED profile
  BY <1>1 DEF profile
<1>2. ASSUME running, prof_event_hook(f, event, k, m)
      PROVE  TableIn(S, threads')
  <2> DEFINE tbl == check_fiber(f, m)
             t == Handle(event, tbl[f], k, m)
  <2>1. paused \in BOOLEAN
    BY DEF IInv, TypeOK
  <2>2. TableIn(S, tbl) /\ f \in DOMAIN tbl
    BY <1>2, <2>1, CheckFiberKept, CheckFiberOK
  <2>3. threads' = IF tbl[f].trace THEN [tbl EXCEPT ![f] = t] ELSE tbl
    BY <1>2 DEF prof_event_hook
  <2> HIDE DEF tbl
  <2>4. t \in S
    BY <2>1, <2>2, KeptAtIsKeptRunning, HandleKept DEF TableIn
  <2> HIDE DEF t
  <2> QED BY <2>2, <2>3, <2>4 DEF TableIn
<1> QED BY <1>1, <1>2 DEF Observe, prof_event_hook

(* The methods of Profile, on a table. *)
LEMMA PauseKept ==
  ASSUME NEW S, NEW m \in Nat, KeptAt(S, m), NEW tbl, TableIn(S, tbl),
         prof_pause(tbl, m) \/ prof_resume(tbl, m)
  PROVE  TableIn(S, threads')
<1>1. CASE threads' = tbl
  BY <1>1
<1>2. CASE threads' = [g \in DOMAIN tbl |-> pause_thread(tbl[g], m)]
  BY <1>2, ThreadOpsKept DEF TableIn
<1>3. CASE /\ threads' = [g \in DOMAIN tbl |-> unpause_thread(tbl[g], m)]
           /\ \A g \in DOMAIN tbl : tbl[g].stack # <<>>
  BY <1>3, ThreadOpsKept DEF TableIn
<1> QED BY <1>1, <1>2, <1>3 DEF prof_pause, prof_resume

(* A stop empties the stack of every thread. *)
LEMMA StopKept ==
  ASSUME NEW S, NEW m \in Nat, KeptAt(S, m), NEW tbl, TableIn(S, tbl), NEW g,
         prof_stop(tbl, g, m)
  PROVE  TableIn(S, threads')
<1>1. threads' = [h \in DOMAIN tbl |-> pop_frames(tbl[h], h # g, m)]
  BY DEF prof_stop
<1>2. \A h \in DOMAIN tbl : pop_frames(tbl[h], h # g, m) \in S
  BY ThreadOpsKept DEF TableIn
<1> QED BY <1>1, <1>2 DEF TableIn

(* Whatever every operation on a thread record keeps, every step of the    *)
(* profile and its program keeps: one step per action.                     *)
LEMMA NextKept ==
  ASSUME NEW S, NEW m \in Nat, KeptAt(S, m), now' = m, IInv,
         TableIn(S, threads), [Next]_vars
  PROVE  TableIn(S, threads')
<1>1. ASSUME UNCHANGED profile PROVE TableIn(S, threads')
  BY <1>1 DEF profile
<1>2. rstack \in [Fibers -> Seq(Entry)]
  BY DEF IInv, TypeOK
<1>3. ASSUME NEW f \in Fibers, rstack[f] # <<>> PROVE Top(f).method \in Methods
  BY <1>2, <1>3, TopTyped
<1>4. ASSUME running, NEW f \in Fibers PROVE TableIn(S, check_fiber(f, m))
  BY <1>4, CheckFiberKept
<1>5. CASE UNCHANGED vars
  BY <1>1, <1>5 DEF vars, profile
<1>6. ASSUME NEW f \in Fibers, NEW k \in Methods, Call(f, k) PROVE TableIn(S, threads')
  BY <1>6, ObserveKept DEF Call
<1>7. ASSUME NEW f \in Fibers, Return(f) \/ Line(f) PROVE TableIn(S, threads')
  <2>1. PICK event \in {"return", "line"} : Observe(f, event, Top(f).method)
    BY <1>7 DEF Return, Line
  <2>2. rstack[f] # <<>>
    BY <1>7 DEF Return, Line, InRuby, CanRun
  <2> QED BY <1>3, <2>1, <2>2, ObserveKept
<1>8. ASSUME NEW f \in Fibers, NEW k \in Methods, Yield(f, k) \/ EndYield(f)
      PROVE  TableIn(S, threads')
  BY <1>1, <1>8 DEF Yield, EndYield
<1>9. ASSUME NEW f \in Fibers, EndYield(f) PROVE TableIn(S, threads')
  BY <1>1, <1>9 DEF EndYield
<1>10. ASSUME NEW f \in Fibers, Start(f) \/ ProfileBlock(f) PROVE TableIn(S, threads')
  BY <1>10, InsertKept DEF Start, ProfileBlock, prof_start, KeptAt
<1>11. ASSUME NEW f \in Fibers, Pause(f) \/ Resume(f) \/ ResumeBlock(f)
       PROVE  TableIn(S, threads')
  <2>1. running
    BY <1>11 DEF Pause, Resume, ResumeBlock
  <2>2. prof_pause(check_fiber(f, m), m) \/ prof_resume(check_fiber(f, m), m)
    BY <1>11 DEF Pause, Resume, ResumeBlock, prof_event_hook_profile
  <2> QED BY <1>4, <2>1, <2>2, PauseKept
<1>12. ASSUME NEW f \in Fibers, Stop(f) PROVE TableIn(S, threads')
  <2>1. running
    BY <1>12 DEF Stop
  <2>2. prof_stop(check_fiber(f, m), f, m)
    BY <1>12 DEF Stop
  <2> QED BY <1>4, <2>1, <2>2, StopKept
<1>13. ASSUME NEW f \in Fibers, EndProfileBlock(f) PROVE TableIn(S, threads')
  <2>1. UNCHANGED profile \/ prof_stop(threads, last, m)
    BY <1>13 DEF EndProfileBlock
  <2> QED BY <1>1, <2>1, StopKept
<1>14. ASSUME NEW f \in Fibers, EndResumeBlock(f) PROVE TableIn(S, threads')
  <2>1. UNCHANGED profile \/ prof_pause(threads, m)
    BY <1>14 DEF EndResumeBlock
  <2> QED BY <1>1, <2>1, PauseKept
<1> QED BY <1>5, <1>6, <1>7, <1>8, <1>9, <1>10, <1>11, <1>12, <1>13, <1>14 DEF Next

(* The clock has a next reading, in a step of the profile or without one.  *)
LEMMA NextReading ==
  ASSUME IInv, [Next]_vars
  PROVE  now \in Nat /\ now' \in Nat /\ now <= now'
<1>1. now \in Nat /\ now' \in Nat
  <2>1. IInv'
    BY NextOK
  <2> QED BY <2>1, ProfilerAssumption DEF IInv, TypeOK
<1>2. ASSUME NEW m \in Readings PROVE m \in Nat /\ now <= m
  BY <1>1, <1>2, ProfilerAssumption DEF Readings
<1>3. ASSUME now' = now \/ \E m \in Readings : now' = m PROVE now <= now'
  <2>1. CASE now' = now
    BY <1>1, <2>1
  <2>2. ASSUME NEW m \in Readings, now' = m PROVE now <= now'
    BY <1>2, <2>2
  <2> QED BY <1>3, <2>1, <2>2
<1>4. ASSUME UNCHANGED vars PROVE now <= now'
  BY <1>3, <1>4 DEF vars, profile
<1>5. ASSUME NEW f \in Fibers, NEW k \in Methods, NEW event, Observe(f, event, k)
      PROVE  now <= now'
  BY <1>3, <1>5 DEF Observe, prof_event_hook, profile
<1>6. ASSUME NEW f \in Fibers, NEW k \in Methods, Call(f, k) PROVE now <= now'
  BY <1>5, <1>6 DEF Call
<1>7. ASSUME NEW f \in Fibers, Return(f) \/ Line(f) PROVE now <= now'
  <2>1. rstack[f] # <<>> /\ \E event : Observe(f, event, Top(f).method)
    BY <1>7 DEF Return, Line, InRuby, CanRun
  <2>2. Top(f).method \in Methods
    BY <2>1, TopTyped DEF IInv, TypeOK
  <2> QED BY <1>5, <2>1, <2>2
<1>8. ASSUME NEW f \in Fibers, \/ Start(f) \/ ProfileBlock(f) \/ EndYield(f)
                               \/ \E k \in Methods : Yield(f, k)
      PROVE  now <= now'
  BY <1>3, <1>8 DEF Start, ProfileBlock, prof_start, EndYield, Yield, profile
<1>9. ASSUME NEW f \in Fibers, Pause(f) \/ Resume(f) \/ ResumeBlock(f) \/ Stop(f)
      PROVE  now <= now'
  BY <1>3, <1>9 DEF Pause, Resume, ResumeBlock, Stop, prof_event_hook_profile
<1>10. ASSUME NEW f \in Fibers, EndProfileBlock(f) \/ EndResumeBlock(f)
       PROVE  now <= now'
  <2>1. now' = now \/ \E m \in Readings : now' = m
    BY <1>10 DEF EndProfileBlock, EndResumeBlock, profile
  <2> QED BY <1>3, <2>1
<1> QED BY <1>1, <1>4, <1>6, <1>7, <1>8, <1>9, <1>10 DEF Next

(* So what they all keep is an invariant: an inductive one, with IInv. *)
LEMMA KeptIsInductive ==
  ASSUME NEW S, Kept(S)
  PROVE  /\ Init => TableIn(S, threads)
         /\ IInv /\ TableIn(S, threads) /\ [Next]_vars => TableIn(S, threads')
<1>1. Init => TableIn(S, threads)
  BY DEF Init, TableIn
<1>2. ASSUME IInv, TableIn(S, threads), [Next]_vars PROVE TableIn(S, threads')
  <2>1. now' \in Nat
    BY <1>2, NextReading
  <2>2. PICK m \in Nat : now' = m
    BY <2>1
  <2>3. KeptAt(S, m)
    BY KeptIsKeptAt
  <2> QED BY <1>2, <2>2, <2>3, NextKept
<1> QED BY <1>1, <1>2

-----------------------------------------------------------------------------
(* The keys of the frames of a thread. *)

KeysOf(t) == [i \in 1 .. Len(t.stack) |-> FrameKey(t, i)]

(* KeysOf is a sequence of keys, one for each frame. *)
LEMMA KeysTyped ==
  ASSUME NEW t, ThreadOK(t)
  PROVE  /\ KeysOf(t) \in Seq(Keys)
         /\ Len(KeysOf(t)) = Len(t.stack)
         /\ Len(t.stack) \in Nat
         /\ \A i \in 1 .. Len(t.stack) : KeysOf(t)[i] = FrameKey(t, i)
         /\ KeysOf(t) = <<>> <=> t.stack = <<>>
<1> DEFINE n == Len(t.stack)
           keys == KeysOf(t)
<1>1. n \in Nat /\ Frames(t) = 1 .. n /\ t.stack \in Seq(Frame)
  BY NodesAre DEF ThreadOK
<1>2. \A i \in 1 .. n : FrameKey(t, i) \in Keys
  BY <1>1, NodesAre DEF ThreadOK, RootPath, FrameKey
<1>3. keys \in [1 .. n -> Keys]
  BY <1>2 DEF KeysOf
<1>4. \A i \in 1 .. n : keys[i] = FrameKey(t, i)
  BY DEF KeysOf
<1> HIDE DEF keys
<1>5. keys \in Seq(Keys)
  BY <1>1, <1>3, SeqDef
<1>6. Len(keys) = n
  <2>1. DOMAIN keys = 1 .. n /\ DOMAIN keys = 1 .. Len(keys) /\ Len(keys) \in Nat
    BY <1>3, <1>5, LenProperties
  <2> HIDE DEF n
  <2> QED BY <1>1, <2>1
<1>7. keys = <<>> <=> t.stack = <<>>
  BY <1>1, <1>5, <1>6, EmptySeq
<1> QED BY <1>1, <1>4, <1>5, <1>6, <1>7 DEF keys

(* What has the elements of Append is Append. *)
LEMMA AppendIs ==
  ASSUME NEW S, NEW u \in Seq(S), NEW s \in Seq(S), NEW x \in S,
         Len(u) = Len(s) + 1, \A i \in 1 .. Len(s) : u[i] = s[i], u[Len(u)] = x
  PROVE  u = Append(s, x)
<1>1. /\ Append(s, x) \in Seq(S) /\ Len(Append(s, x)) = Len(u) /\ Len(s) \in Nat
      /\ \A i \in 1 .. Len(s) : Append(s, x)[i] = s[i]
      /\ Append(s, x)[Len(s) + 1] = x
  OBVIOUS
<1>2. \A i \in 1 .. Len(u) : i \in 1 .. Len(s) \/ i = Len(s) + 1
  BY <1>1
<1>3. \A i \in 1 .. Len(u) : u[i] = Append(s, x)[i]
  BY <1>1, <1>2
<1> QED BY <1>1, <1>3, SeqEqual

(* They are the same when no frame comes or goes. *)
LEMMA KeysSame ==
  ASSUME NEW t, ThreadOK(t), NEW u, ThreadOK(u), Len(u.stack) = Len(t.stack),
         \A i \in 1 .. Len(t.stack) :
           /\ u.stack[i].call_tree = t.stack[i].call_tree
           /\ u.nodes[t.stack[i].call_tree].method = t.nodes[t.stack[i].call_tree].method
  PROVE  KeysOf(u) = KeysOf(t)
<1>1. /\ KeysOf(t) \in Seq(Keys) /\ KeysOf(u) \in Seq(Keys)
      /\ Len(KeysOf(u)) = Len(KeysOf(t)) /\ Len(KeysOf(t)) = Len(t.stack)
      /\ \A i \in 1 .. Len(t.stack) : KeysOf(t)[i] = FrameKey(t, i)
      /\ \A i \in 1 .. Len(u.stack) : KeysOf(u)[i] = FrameKey(u, i)
  BY KeysTyped
<1>2. \A i \in 1 .. Len(t.stack) : FrameKey(u, i) = FrameKey(t, i)
  BY DEF FrameKey, KeyOf
<1>3. \A i \in 1 .. Len(KeysOf(u)) : KeysOf(u)[i] = KeysOf(t)[i]
  BY <1>1, <1>2
<1> QED BY <1>1, <1>3, SeqEqual

(* Threads that differ in times only have the same keys. *)
LEMMA AlikeKeys ==
  ASSUME NEW t, ThreadOK(t), NEW u, ThreadOK(u), Alike(u, t)
  PROVE  KeysOf(u) = KeysOf(t)
<1>1. /\ Len(u.stack) = Len(t.stack)
      /\ \A i \in 1 .. Len(t.stack) : u.stack[i].call_tree = t.stack[i].call_tree
      /\ u.nodes = t.nodes
  BY DEF Alike
<1> QED BY <1>1, KeysSame

(* A new node is the node of no frame. *)
LEMMA GrownKeys ==
  ASSUME NEW t, ThreadOK(t), NEW u, ThreadOK(u), NEW k, Grown(u, t, k)
  PROVE  KeysOf(u) = KeysOf(t) /\ KeyOf(u, Len(t.nodes) + 1) = k
<1>1. Frames(t) = 1 .. Len(t.stack)
  BY NodesAre DEF ThreadOK
<1>2. \A i \in 1 .. Len(t.stack) : t.stack[i].call_tree \in Nodes(t)
  BY <1>1 DEF ThreadOK, RootPath
<1>3. /\ u.stack = t.stack
      /\ \A i \in Nodes(t) : u.nodes[i].method = t.nodes[i].method
      /\ u.nodes[Len(t.nodes) + 1].method = k
  BY DEF Grown
<1> QED BY <1>2, <1>3, KeysSame DEF KeyOf

(* u has one more frame than t, of node n. *)
LEMMA PushedKeys ==
  ASSUME NEW t, ThreadOK(t), NEW u, ThreadOK(u), NEW n \in Nodes(t),
         SameTree(u, t), StackPushed(u, t, n)
  PROVE  KeysOf(u) = Append(KeysOf(t), KeyOf(t, n)) /\ KeyOf(t, n) \in Keys
<1>1. /\ KeysOf(t) \in Seq(Keys) /\ KeysOf(u) \in Seq(Keys)
      /\ Len(KeysOf(u)) = Len(u.stack) /\ Len(KeysOf(t)) = Len(t.stack)
      /\ Len(u.stack) = Len(t.stack) + 1 /\ Len(t.stack) \in Nat
      /\ \A i \in 1 .. Len(t.stack) : KeysOf(t)[i] = FrameKey(t, i)
      /\ \A i \in 1 .. Len(u.stack) : KeysOf(u)[i] = FrameKey(u, i)
  BY KeysTyped DEF StackPushed
<1>2. \A c \in Nodes(t) : u.nodes[c].method = t.nodes[c].method
  BY NodesAre DEF ThreadOK, SameTree, SameLinks
<1>3. Frames(t) = 1 .. Len(t.stack)
  BY NodesAre DEF ThreadOK
<1>4. \A i \in 1 .. Len(t.stack) : FrameKey(u, i) = FrameKey(t, i)
  BY <1>2, <1>3 DEF ThreadOK, RootPath, FrameKey, KeyOf, StackPushed
<1>5. FrameKey(u, Len(u.stack)) = KeyOf(t, n)
  BY <1>2 DEF FrameKey, KeyOf, StackPushed
<1>6. KeyOf(t, n) \in Keys
  BY NodesAre DEF ThreadOK
<1> DEFINE new == KeysOf(u)
           old == KeysOf(t)
           k == KeyOf(t, n)
<1>7. Len(new) = Len(old) + 1 /\ \A i \in 1 .. Len(old) : new[i] = old[i]
  BY <1>1, <1>4
<1>8. new[Len(new)] = k
  BY <1>1, <1>5
<1>9. new \in Seq(Keys) /\ old \in Seq(Keys) /\ k \in Keys
  BY <1>1, <1>6
<1> HIDE DEF new, old, k
<1>10. new = Append(old, k)
  BY <1>7, <1>8, <1>9, AppendIs
<1> QED BY <1>6, <1>10 DEF new, old, k

(* The operations do not touch the trace flag. *)
LEMMA TraceKept ==
  ASSUME NEW t \in Thread, NEW m
  PROVE  /\ SwitchIn(t, m).trace = t.trace
         /\ SwitchOut(t, m).trace = t.trace
         /\ pause_thread(t, m).trace = t.trace
         /\ unpause_thread(t, m).trace = t.trace
         /\ prof_frame_pop(t, m).trace = t.trace
         /\ \A n, p : prof_frame_push(t, n, m, p).trace = t.trace
<1>1. DOMAIN t = {"trace", "stack", "nodes", "call_tree", "method_table"}
  BY DEF Thread
<1>2. /\ SwitchIn(t, m).trace = t.trace
      /\ SwitchOut(t, m).trace = t.trace
      /\ pause_thread(t, m).trace = t.trace
      /\ unpause_thread(t, m).trace = t.trace
  BY <1>1 DEF SwitchIn, SwitchOut, pause_thread, unpause_thread, SetCurrent
<1>3. prof_frame_pop(t, m).trace = t.trace
  BY <1>1 DEF prof_frame_pop
<1>4. \A n, p : prof_frame_push(t, n, m, p).trace = t.trace
  BY <1>1 DEF prof_frame_push
<1> QED BY <1>2, <1>3, <1>4

(* Nor do new methods and nodes. *)
LEMMA GrowTrace ==
  ASSUME NEW t \in Thread
  PROVE  /\ \A k : create_method(t, k).trace = t.trace
         /\ \A k, n : prof_call_tree_create(t, k, n).trace = t.trace
         /\ \A p, n : prof_call_tree_add_child(t, p, n).trace = t.trace
<1>1. DOMAIN t = {"trace", "stack", "nodes", "call_tree", "method_table"}
  BY DEF Thread
<1>2. \A k : create_method(t, k).trace = t.trace
  BY <1>1 DEF create_method
<1>3. \A k, n : prof_call_tree_create(t, k, n).trace = t.trace
  BY <1>1 DEF prof_call_tree_create
<1>4. \A p, n : prof_call_tree_add_child(t, p, n).trace = t.trace
  BY <1>1 DEF prof_call_tree_add_child
<1> QED BY <1>2, <1>3, <1>4

(* Neither does a climb. *)
LEMMA ClimbTrace ==
  ASSUME NEW t \in Thread, NEW k, NEW m
  PROVE  Climb(t, k, m).trace = t.trace
<1> DEFINE c == prof_call_tree_create(t, k, NULL)
           n == NewestNode(c)
           r == t.call_tree
           a == prof_call_tree_add_child(c, n, r)
           p == prof_call_tree_add_parent(c, r, n)
           d == [p EXCEPT !.call_tree = n]
           v == [d EXCEPT !.nodes[n] = TakeOver(d.nodes[n], d.nodes[r]),
                          !.method_table[KeyOf(d, n)] =
                            TakeOverMethod(MethodOf(d, n), d.nodes[r])]
           u == prof_frame_push(v, n, m, FALSE)
           F == {"trace", "stack", "nodes", "call_tree", "method_table"}
<1>1. Climb(t, k, m) = u
  BY DEF Climb, prof_frame_unshift
<1>2. DOMAIN t = F
  BY DEF Thread
<1>3. DOMAIN c = F /\ c.trace = t.trace
  BY <1>2 DEF prof_call_tree_create
<1> HIDE DEF c, n, r
<1>4. DOMAIN a = F /\ a.trace = t.trace
  BY <1>3 DEF prof_call_tree_add_child
<1>5. p = [a EXCEPT !.nodes[r].parent = n]
  BY DEF prof_call_tree_add_parent
<1> HIDE DEF a, p
<1>6. DOMAIN p = F /\ p.trace = t.trace
  BY <1>4, <1>5
<1>7. DOMAIN d = F /\ d.trace = t.trace
  BY <1>6
<1> HIDE DEF d
<1>8. DOMAIN v = F /\ v.trace = t.trace
  BY <1>7
<1> HIDE DEF v
<1>9. u.trace = t.trace
  BY <1>8 DEF prof_frame_push
<1> QED BY <1>1, <1>9

(* u is well formed and of t's fiber, and its frames are for keys.         *)
HasKeys(u, t, keys) == ThreadOK(u) /\ u.trace = t.trace /\ KeysOf(u) = keys

(* Keys of the frames before and after a return: the top one is gone.      *)
Returned(new, old) == IF old = <<>> THEN new = <<>> ELSE \E k \in Keys : old = Append(new, k)

(* What becomes of the keys in the three events. A climb puts the dummy    *)
(* below the frame of a call.                                              *)
Lined(new, old, k) == new = IF old = <<>> THEN <<k>> ELSE old

Called(new, old, k) ==
  \/ new = Append(old, k)
  \/ old = <<>> /\ new = Append(<<InsertedParent>>, k)

Handled(new, old, event, k) ==
  IF k \in Excluded THEN new = old
  ELSE CASE event = "line"   -> Lined(new, old, k)
         [] event = "call"   -> Called(new, old, k)
         [] event = "return" -> Returned(new, old)

(* A method made, by create_method, is the method of no frame yet. *)
LEMMA MethodKeys ==
  ASSUME NEW t, ThreadOK(t), NEW k \in Keys
  PROVE  HasKeys(create_method(t, k), t, KeysOf(t))
<1> DEFINE u == create_method(t, k)
<1>1. ThreadOK(u) /\ Alike(u, t) /\ u.trace = t.trace
  BY CreateMethodOK, CreateMethodStep, GrowTrace DEF ThreadOK
<1> HIDE DEF u
<1>2. HasKeys(u, t, KeysOf(t))
  BY <1>1, AlikeKeys DEF HasKeys
<1> QED BY <1>2 DEF u

(* prof_frame_pop takes the top key, if there is one. *)
LEMMA PopKeys ==
  ASSUME NEW t, ThreadOK(t), NEW m \in Nat
  PROVE  /\ HasKeys(prof_frame_pop(t, m), t, KeysOf(prof_frame_pop(t, m)))
         /\ Returned(KeysOf(prof_frame_pop(t, m)), KeysOf(t))
<1>1. CASE t.stack = <<>>
  <2>1. KeysOf(t) = <<>> /\ prof_frame_pop(t, m) = t
    BY <1>1, KeysTyped DEF prof_frame_pop
  <2> QED BY <2>1 DEF HasKeys, Returned
<1>2. CASE t.stack # <<>>
  <2> DEFINE u == prof_frame_pop(t, m)
             n == Last(t.stack).call_tree
  <2>1. ThreadOK(u) /\ PoppedAt(u, t, n, m) /\ n \in Nodes(t)
    BY <1>2, PopOK, PopStep, TopFrameNode
  <2>2. u.trace = t.trace
    BY TraceKept DEF ThreadOK
  <2> HIDE DEF u, n
  <2>3. StackPushed(t, u, n) /\ SameTree(u, t)
    BY <2>1 DEF PoppedAt
  <2>4. SameTree(t, u) /\ n \in Nodes(u)
    BY <2>1, <2>3, NodesAre DEF SameTree, SameLinks, ThreadOK
  <2>5. KeysOf(t) = Append(KeysOf(u), KeyOf(u, n)) /\ KeyOf(u, n) \in Keys
    BY <2>1, <2>3, <2>4, PushedKeys
  <2>6. KeysOf(t) # <<>>
    BY <1>2, KeysTyped
  <2>7. Returned(KeysOf(u), KeysOf(t))
    BY <2>5, <2>6 DEF Returned
  <2> QED BY <2>1, <2>2, <2>7 DEF HasKeys, u
<1> QED BY <1>1, <1>2

(* prof_frame_push puts the key of its node on top. *)
LEMMA PushKeys ==
  ASSUME NEW t, ThreadOK(t), NEW n \in Nodes(t), Reachable(t, n),
         NEW m \in Nat, NEW p \in BOOLEAN
  PROVE  HasKeys(prof_frame_push(t, n, m, p), t, Append(KeysOf(t), KeyOf(t, n)))
<1> DEFINE u == prof_frame_push(t, n, m, p)
<1>1. ThreadOK(u) /\ SameTree(u, t) /\ StackPushed(u, t, n) /\ u.trace = t.trace
  BY PushOK, TraceKept DEF ThreadOK
<1> HIDE DEF u
<1>2. HasKeys(u, t, Append(KeysOf(t), KeyOf(t, n)))
  BY <1>1, PushedKeys DEF HasKeys
<1> QED BY <1>2 DEF u

(* A call of a method that the top frame had not called. *)
LEMMA CallChildKeys ==
  ASSUME NEW t, ThreadOK(t), t.stack # <<>>, NEW k \in Keys, NEW m \in Nat,
         paused \in BOOLEAN,
         LET top == Last(t.stack).call_tree
         IN  \/ t.nodes[top].children[k] = NULL
             \/ t.nodes[top].method = InsertedParent /\ Len(t.stack) = 1
  PROVE  HasKeys(CallChild(t, k, Last(t.stack).call_tree, m), t, Append(KeysOf(t), k))
<1> DEFINE top == Last(t.stack).call_tree
           c == prof_call_tree_create(t, k, top)
           n == NewestNode(c)
           a == prof_call_tree_add_child(c, top, n)
<1>1. ThreadOK(a) /\ NewestNode(a) = n /\ n \in Nodes(a) /\ Reachable(a, n)
  BY NewChildOK
<1>2. Grown(a, t, k) /\ n = Len(t.nodes) + 1
  <2>1. top \in Nodes(t)
    BY TopFrameNode
  <2> HIDE DEF top
  <2> QED BY <2>1, GrowBelow DEF GrownBelow
<1>3. a.trace = t.trace
  <2>1. t \in Thread /\ top \in Nat
    BY TopFrameNode, NodesAre DEF ThreadOK
  <2> HIDE DEF top
  <2>2. c \in Thread
    BY <2>1, CreateStep DEF Grown
  <2>3. c.trace = t.trace
    BY <2>1, GrowTrace
  <2> HIDE DEF c
  <2> QED BY <2>2, <2>3, GrowTrace
<1>4. CallChild(t, k, top, m) = prof_frame_push(a, n, m, paused)
  BY <1>1 DEF CallChild
<1> HIDE DEF a, n
<1>5. KeysOf(a) = KeysOf(t) /\ KeyOf(a, n) = k
  BY <1>1, <1>2, GrownKeys
<1> DEFINE u == prof_frame_push(a, n, m, paused)
<1>6. HasKeys(u, a, Append(KeysOf(a), KeyOf(a, n)))
  BY <1>1, PushKeys
<1> HIDE DEF u
<1>7. HasKeys(u, t, Append(KeysOf(t), k))
  BY <1>3, <1>5, <1>6 DEF HasKeys
<1> QED BY <1>4, <1>7 DEF u

(* The first frame of a thread. *)
LEMMA FirstFrameKeys ==
  ASSUME NEW t, ThreadOK(t), t.stack = <<>>, t.call_tree = NULL,
         NEW k \in Keys, NEW m \in Nat, paused \in BOOLEAN
  PROVE  HasKeys(FirstFrame(t, k, m), t, <<k>>)
<1> DEFINE c == prof_call_tree_create(t, k, NULL)
           n == NewestNode(c)
           d == [c EXCEPT !.call_tree = n]
<1>1. ThreadOK(d) /\ n \in Nodes(d) /\ Reachable(d, n) /\ Grown(d, t, k)
  BY FirstTree, GrowFirst DEF GrownAbove
<1>2. n = Len(t.nodes) + 1 /\ d.trace = t.trace
  <2>1. t \in Thread /\ NULL \in Nat
    BY DEF ThreadOK, NULL
  <2>2. c \in Thread /\ n = Len(t.nodes) + 1
    BY <2>1, CreateStep DEF Grown
  <2>3. c.trace = t.trace
    BY <2>1, GrowTrace
  <2> HIDE DEF c, n
  <2>4. d.trace = c.trace
    BY <2>2 DEF Thread
  <2> QED BY <2>2, <2>3, <2>4
<1>3. FirstFrame(t, k, m) = prof_frame_push(d, n, m, paused)
  BY DEF FirstFrame
<1> HIDE DEF d, n
<1>4. KeysOf(d) = <<>> /\ KeyOf(d, n) = k
  BY <1>1, <1>2, GrownKeys, KeysTyped
<1> DEFINE u == prof_frame_push(d, n, m, paused)
<1>5. HasKeys(u, d, Append(KeysOf(d), KeyOf(d, n)))
  BY <1>1, PushKeys
<1> HIDE DEF u
<1>6. HasKeys(u, t, <<k>>)
  <2>1. Append(<<>>, k) = <<k>>
    OBVIOUS
  <2> QED BY <1>2, <1>4, <1>5, <2>1 DEF HasKeys
<1> QED BY <1>3, <1>6 DEF u

(* A climb starts the stack anew, with the frame of the new root. *)
LEMMA ClimbKeys ==
  ASSUME NEW t, ThreadOK(t), t.stack = <<>>, t.call_tree # NULL,
         NEW k \in Keys, NEW m \in Nat
  PROVE  HasKeys(Climb(t, k, m), t, <<k>>)
<1> DEFINE u == Climb(t, k, m)
<1>1. /\ ThreadOK(u) /\ Len(u.stack) = 1 /\ u.trace = t.trace
      /\ Last(u.stack).call_tree = u.call_tree /\ KeyOf(u, u.call_tree) = k
  BY ClimbOK, ClimbTrace DEF ThreadOK
<1> HIDE DEF u
<1>2. FrameKey(u, 1) = k
  BY <1>1 DEF FrameKey, Last
<1>3. KeysOf(u) \in Seq(Keys) /\ Len(KeysOf(u)) = 1 /\ KeysOf(u)[1] = k
  BY <1>1, <1>2, KeysTyped
<1> DEFINE keys == KeysOf(u)
<1> HIDE DEF keys
<1>4. keys \in Seq(Keys) /\ Len(keys) = 1 /\ keys[1] = k
  BY <1>3 DEF keys
<1>5. keys = <<k>>
  <2>1. <<k>> \in Seq(Keys) /\ Len(<<k>>) = 1 /\ <<k>>[1] = k
    OBVIOUS
  <2>2. \A i \in 1 .. Len(keys) : keys[i] = <<k>>[i]
    <3>1. \A i \in 1 .. 1 : i = 1
      OBVIOUS
    <3> QED BY <1>4, <2>1, <3>1
  <2> QED BY <1>4, <2>1, <2>2, SeqEqual
<1> QED BY <1>1, <1>5 DEF HasKeys, keys, u

(* A line event pushes on an empty stack only. *)
LEMMA LineKeys ==
  ASSUME NEW t, ThreadOK(t), NEW k \in Keys, NEW m \in Nat, paused \in BOOLEAN
  PROVE  /\ HasKeys(LineEvent(t, k, m), t, KeysOf(LineEvent(t, k, m)))
         /\ Lined(KeysOf(LineEvent(t, k, m)), KeysOf(t), k)
<1> DEFINE u == create_method(t, k)
<1>1. HasKeys(u, t, KeysOf(t)) /\ u.stack = t.stack /\ u.call_tree = t.call_tree
  BY MethodKeys, CreateMethodOK
<1> HIDE DEF u
<1>2. KeysOf(t) = <<>> <=> t.stack = <<>>
  BY KeysTyped
<1>3. CASE t.stack # <<>>
  BY <1>2, <1>3 DEF LineEvent, HasKeys, Lined
<1>4. CASE t.stack = <<>> /\ t.call_tree = NULL
  <2>1. HasKeys(FirstFrame(u, k, m), u, <<k>>)
    BY <1>1, <1>4, FirstFrameKeys DEF HasKeys
  <2> QED BY <1>1, <1>2, <1>4, <2>1 DEF LineEvent, HasKeys, Lined, u
<1>5. CASE t.stack = <<>> /\ t.call_tree # NULL
  <2>1. HasKeys(Climb(u, k, m), u, <<k>>)
    BY <1>1, <1>5, ClimbKeys DEF HasKeys
  <2> QED BY <1>1, <1>2, <1>5, <2>1 DEF LineEvent, HasKeys, Lined, u
<1> QED BY <1>3, <1>4, <1>5

(* A call event pushes, on an empty stack after a dummy if need be. *)
LEMMA CallKeys ==
  ASSUME NEW t, ThreadOK(t), NEW k \in Keys, NEW m \in Nat, paused \in BOOLEAN
  PROVE  /\ HasKeys(CallEvent(t, k, m), t, KeysOf(CallEvent(t, k, m)))
         /\ Called(KeysOf(CallEvent(t, k, m)), KeysOf(t), k)
<1> DEFINE u == create_method(t, k)
<1>1. HasKeys(u, t, KeysOf(t)) /\ u.stack = t.stack /\ u.call_tree = t.call_tree
  BY MethodKeys, CreateMethodOK
<1> HIDE DEF u
<1>2. ThreadOK(u) /\ u.trace = t.trace /\ KeysOf(u) = KeysOf(t)
  BY <1>1 DEF HasKeys
<1>3. KeysOf(t) = <<>> <=> t.stack = <<>>
  BY KeysTyped
<1>4. CASE t.stack # <<>>
  <2> DEFINE top == Last(u.stack).call_tree
             child == u.nodes[top].children[k]
  <2>1. u.stack # <<>> /\ top \in Nodes(u)
    BY <1>1, <1>2, <1>4, TopFrameNode
  <2>2. CASE child = NULL
    <3>1. HasKeys(CallChild(u, k, top, m), u, Append(KeysOf(u), k))
      BY <1>2, <2>1, <2>2, CallChildKeys
    <3>2. CallEvent(t, k, m) = CallChild(u, k, top, m)
      BY <1>4, <2>2 DEF CallEvent, CallFromFrame, prof_frame_current, u
    <3> QED BY <1>2, <3>1, <3>2 DEF HasKeys, Called
  <2>3. CASE child # NULL
    <3>1. child \in Nodes(u) /\ KeyOf(u, child) = k
      BY <1>2, <2>1, <2>3 DEF ThreadOK, RootedTree, LinkedNode, KeyOf
    <3>2. Reachable(u, child)
      BY <2>1, <3>1 DEF Reachable
    <3>3. CallEvent(t, k, m) = prof_frame_push(u, child, m, paused)
      BY <1>4, <2>3 DEF CallEvent, CallFromFrame, prof_frame_current, u
    <3> HIDE DEF child
    <3>4. HasKeys(prof_frame_push(u, child, m, paused), u, Append(KeysOf(u), k))
      BY <1>2, <3>1, <3>2, PushKeys
    <3> QED BY <1>2, <3>3, <3>4 DEF HasKeys, Called
  <2> QED BY <2>2, <2>3
<1>5. CASE t.stack = <<>> /\ t.call_tree = NULL
  <2>1. HasKeys(FirstFrame(u, k, m), u, <<k>>)
    BY <1>1, <1>2, <1>5, FirstFrameKeys
  <2>2. CallEvent(t, k, m) = FirstFrame(u, k, m) /\ Append(<<>>, k) = <<k>>
    BY <1>5 DEF CallEvent, u
  <2> QED BY <1>2, <1>3, <1>5, <2>1, <2>2 DEF HasKeys, Called
<1>6. CASE t.stack = <<>> /\ t.call_tree # NULL
  <2> DEFINE v == create_method(u, InsertedParent)
             w == Climb(v, InsertedParent, m)
  <2>1. InsertedParent \in Keys
    BY DEF Keys
  <2>2. HasKeys(v, u, KeysOf(u)) /\ v.stack = <<>> /\ v.call_tree # NULL
    BY <1>1, <1>2, <1>6, <2>1, MethodKeys, CreateMethodOK
  <2> HIDE DEF v
  <2>3. /\ Len(w.stack) = 1
        /\ Last(w.stack).call_tree = w.call_tree
        /\ KeyOf(w, w.call_tree) = InsertedParent
        /\ HasKeys(w, v, <<InsertedParent>>)
    BY <2>1, <2>2, ClimbOK, ClimbKeys DEF HasKeys
  <2>4. CallEvent(t, k, m) = CallChild(w, k, w.call_tree, m)
    BY <1>6 DEF CallEvent, CallAboveRoot, u, v
  <2> HIDE DEF w
  <2>5. ThreadOK(w) /\ w.trace = t.trace /\ KeysOf(w) = <<InsertedParent>>
    BY <1>2, <2>2, <2>3 DEF HasKeys
  <2>6. w.stack # <<>>
    <3>1. Len(w.stack) = 1
      BY <2>3
    <3> QED BY <3>1
  <2>7. w.nodes[w.call_tree].method = InsertedParent
    BY <2>3 DEF KeyOf
  <2>8. HasKeys(CallChild(w, k, w.call_tree, m), w, Append(KeysOf(w), k))
    BY <2>3, <2>5, <2>6, <2>7, CallChildKeys
  <2> QED BY <1>3, <1>6, <2>4, <2>5, <2>8 DEF HasKeys, Called
<1> QED BY <1>4, <1>5, <1>6

(* So this is what an event does to the frames. *)
LEMMA HandleKeys ==
  ASSUME NEW t, ThreadOK(t), NEW k \in Methods, NEW m \in Nat, paused \in BOOLEAN,
         NEW event \in {"line", "call", "return"}
  PROVE  /\ HasKeys(Handle(event, t, k, m), t, KeysOf(Handle(event, t, k, m)))
         /\ Handled(KeysOf(Handle(event, t, k, m)), KeysOf(t), event, k)
<1>1. k \in Keys
  BY DEF Keys
<1>2. CASE k \in Excluded
  BY <1>2 DEF Handle, HasKeys, Handled
<1>3. CASE k \notin Excluded /\ event = "line"
  <2>1. Handle(event, t, k, m) = LineEvent(t, k, m)
    BY <1>3 DEF Handle
  <2> QED BY <1>1, <1>3, <2>1, LineKeys DEF Handled
<1>4. CASE k \notin Excluded /\ event = "call"
  <2>1. Handle(event, t, k, m) = CallEvent(t, k, m)
    BY <1>4 DEF Handle
  <2> QED BY <1>1, <1>4, <2>1, CallKeys DEF Handled
<1>5. CASE k \notin Excluded /\ event = "return"
  <2> DEFINE u == create_method(t, k)
  <2>1. Handle(event, t, k, m) = prof_frame_pop(u, m)
    BY <1>5 DEF Handle, ReturnEvent
  <2>2. HasKeys(u, t, KeysOf(t))
    BY <1>1, MethodKeys
  <2> HIDE DEF u
  <2>3. /\ HasKeys(prof_frame_pop(u, m), u, KeysOf(prof_frame_pop(u, m)))
        /\ Returned(KeysOf(prof_frame_pop(u, m)), KeysOf(u))
    BY <2>2, PopKeys DEF HasKeys
  <2> QED BY <1>5, <2>1, <2>2, <2>3 DEF HasKeys, Handled
<1> QED BY <1>2, <1>3, <1>4, <1>5
=============================================================================
