----------------------------- MODULE StackAudit -----------------------------
(***************************************************************************)
(* Profiler with a history of how many of the calls that a fiber is in     *)
(* the hook has been told of since the profile was started.                *)
(***************************************************************************)
EXTENDS ProfilerShape

VARIABLE seen

IsVisible(e) == e.kind = "method" /\ e.method \notin Excluded

(* seen after a step that took the stack of fiber f from old to new. *)
SeenAfter(count, old, new) ==
  CASE Len(new) > Len(old) /\ IsVisible(Last(new)) -> count + 1
    [] Len(new) < Len(old) /\ IsVisible(Last(old)) /\ count > 0 -> count - 1
    [] OTHER -> count

StackAuditInit == Init /\ seen = [f \in Fibers |-> 0]

StackAuditNext ==
  /\ Next
  /\ seen' = [f \in Fibers |->
       IF running /\ running' /\ f \notin Untraced
       THEN SeenAfter(seen[f], rstack[f], rstack'[f]) ELSE 0]

StackAuditSpec == StackAuditInit /\ [][StackAuditNext]_<<vars, seen>>

(* The calls above entry j of a stack that the hook would be told of.      *)
VisibleAbove(stack, j) == {l \in j + 1 .. Len(stack) : IsVisible(stack[l])}

(* prof_frame_pop takes the top frame, whatever method has returned, and   *)
(* prof_frame_push has no idea of blocks, of excluded methods or of what   *)
(* was entered unseen. It comes out right: a running profile has a frame   *)
(* for each call it was told of and that has not returned, in their order, *)
(* and below them at most one frame that stands for a caller.              *)
StackMirrorsProgram ==
  running => \A f \in DOMAIN threads :
    LET t == threads[f]
        stack == rstack[f]
        depth == Len(t.stack)
        above(j) == Cardinality(VisibleAbove(stack, j))
    IN  /\ depth \in {seen[f], seen[f] + 1}
        /\ seen[f] <= above(0)
        /\ \A j \in DOMAIN stack :
             IsVisible(stack[j]) /\ above(j) < seen[f]
               => FrameKey(t, depth - above(j)) = stack[j].method
        /\ depth > seen[f] => FrameKey(t, 1) \in
             {InsertedParent} \cup {stack[j].method : j \in DOMAIN stack}

=============================================================================
