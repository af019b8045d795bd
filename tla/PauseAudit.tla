----------------------------- MODULE PauseAudit -----------------------------
(***************************************************************************)
(* Profiler with a history of which units of time the profile was paused   *)
(* for: unit i runs from reading i - 1 to reading i.                       *)
(***************************************************************************)
EXTENDS ProfilerTimes

VARIABLE pausedUnits

AuditInit == Init /\ pausedUnits = {}

AuditNext ==
  /\ Next
  /\ pausedUnits' =
       pausedUnits \cup (IF paused THEN (now + 1) .. now' ELSE {})

AuditSpec == AuditInit /\ [][AuditNext]_<<vars, pausedUnits>>

PausedSince(m) == {i \in pausedUnits : i > m}

(* The dead time a frame has collected: its own, what the frames above it  *)
(* will hand down, and the pause that the top frame is in.                 *)
DeadTime(t, i) ==
  LET top == Last(t.stack)
  IN  SumFunction([j \in i .. Len(t.stack) |-> t.stack[j].dead_time])
        + (IF Paused(top) THEN now - top.pause_time ELSE 0)

(* No more is left out of a frame's time than what passed while the        *)
(* profile was paused: pausing never makes live time disappear, and no     *)
(* frame's total is negative.                                              *)
LiveTimeIsKept ==
  ~crashed => \A f \in DOMAIN threads : \A i \in Frames(threads[f]) :
    LET t == threads[f]
    IN  DeadTime(t, i) <= Cardinality(PausedSince(t.stack[i].start_time))

=============================================================================
