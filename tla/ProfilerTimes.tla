---------------------------- MODULE ProfilerTimes ---------------------------
(***************************************************************************)
(* What the times of the call trees and of the methods have to do with     *)
(* each other.                                                             *)
(***************************************************************************)
EXTENDS ProfilerShape, Functions

-----------------------------------------------------------------------------
(* Times. *)

(* The child_time of a node's frame, which is not in the node yet.         *)
OpenChildTime(t, n) ==
  SumFunction([i \in FramesOf(t, n) |-> t.stack[i].child_time])

(* A node's total is its self and wait time and its children's totals. For *)
(* a node put above another one this is so up to the wait time it took     *)
(* over from that node.                                                    *)
BalancedNode(t, n) ==
  LET node == t.nodes[n]
      below == SumFunction([c \in ChildrenOf(t, n) |-> t.nodes[c].total_time])
      taken == node.self_time + node.wait_time
                 + below - OpenChildTime(t, n) - node.total_time
  IN  IF Climbed(t, n)
      THEN taken \in 0 .. SumFunction([c \in {c \in ChildrenOf(t, n) : c < n}
                                           |-> t.nodes[c].wait_time])
      ELSE taken = 0

NodeTimesBalance ==
  EveryThread(LAMBDA t : \A n \in Nodes(t) : BalancedNode(t, n))

(* What a method has measured is what its call trees have, and its         *)
(* call_trees are all of them, those dropped from the tree included.       *)
MethodsSumTheirCallTrees ==
  EveryThread(LAMBDA t : \A k \in Keys :
    LET method == t.method_table[k]
        trees  == NodesOf(t, k)
    IN  /\ method.call_trees = trees
        /\ trees # {} => method.created
        /\ method.called = SumFunction([n \in trees |-> t.nodes[n].called])
        /\ method.self_time = SumFunction([n \in trees |-> t.nodes[n].self_time])
        /\ method.wait_time = SumFunction([n \in trees |-> t.nodes[n].wait_time]))

(* A method's total counts a recursive call once: it is the sum over its   *)
(* call trees that are in no other one of it.                              *)
Outermost(t, k) ==
  {n \in NodesOf(t, k) : NodesOf(t, k) \cap ProperAncestors(t, n) = {}}

TotalIsOutermost(t) ==
  \A k \in Keys :
    t.method_table[k].total_time
      = SumFunction([n \in Outermost(t, k) |-> t.nodes[n].total_time])

(* So it is as long as the profile has not climbed above where it started; *)
(* prof_frame_unshift adds the total of the node below to the method of    *)
(* the one above whatever that method has already.                         *)
MethodTotalsCountOnceBelowStart ==
  EveryThread(LAMBDA t :
    (\A n \in Nodes(t) : ~Climbed(t, n)) => TotalIsOutermost(t))

(* A method is flagged recursive only when one of its call trees is nested *)
(* in another.                                                             *)
RecursiveMeansNested ==
  EveryThread(LAMBDA t : \A k \in Keys :
    t.method_table[k].recursive => Outermost(t, k) # NodesOf(t, k))
=============================================================================
