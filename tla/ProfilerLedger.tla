--------------------------- MODULE ProfilerLedger ---------------------------
(***************************************************************************)
(* A profile that is never paused keeps the ledger of TimeLedger. It does  *)
(* so lazily: the times of a frame are added to its node when it is popped,*)
(* the self time of a frame below the top is known from when the next one  *)
(* started, and the wait of a fiber from when it was left.                 *)
(***************************************************************************)
EXTENDS ProfilerTimes

IsTop(t, i) == i = Len(t.stack)

(* Up to when frame i of fiber f has been running its own code. *)
SelfUntil(f, t, i) ==
  IF ~IsTop(t, i) THEN t.stack[i + 1].start_time
  ELSE IF f = last THEN now ELSE t.stack[i].switch_time

OpenSelf(f, t, i) ==
  SelfUntil(f, t, i)
    - t.stack[i].start_time - t.stack[i].child_time - t.stack[i].wait_time

OpenWait(f, t, i) ==
  t.stack[i].wait_time
    + IF IsTop(t, i) /\ f # last THEN now - t.stack[i].switch_time ELSE 0

SelfLedger(f) ==
  IF f \notin DOMAIN threads THEN <<>>
  ELSE LET t == threads[f] IN
       [n \in Nodes(t) |->
          t.nodes[n].self_time
            + SumFunction([i \in FramesOf(t, n) |-> OpenSelf(f, t, i)])]

WaitLedger(f) ==
  IF f \notin DOMAIN threads THEN <<>>
  ELSE LET t == threads[f] IN
       [n \in Nodes(t) |->
          t.nodes[n].wait_time
            + SumFunction([i \in FramesOf(t, n) |-> OpenWait(f, t, i)])]

TopNode(f) ==
  IF f \notin DOMAIN threads \/ threads[f].stack = <<>> THEN 0
  ELSE prof_frame_current(threads[f]).call_tree

Ledger == INSTANCE TimeLedger WITH
            Nobody  <- NoFiber,
            clock   <- now,
            current <- last,
            top     <- [f \in Fibers |-> TopNode(f)],
            self    <- [f \in Fibers |-> SelfLedger(f)],
            wait    <- [f \in Fibers |-> WaitLedger(f)]

(* Without pauses the profiler implements the ledger. *)
ImplementsLedger == Ledger!Spec

=============================================================================
