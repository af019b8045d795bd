------------------------------ MODULE MCStack -------------------------------
(* Instances of Profiler with a history of the calls it has seen for TLC. *)
EXTENDS StackAudit, MCPrograms
=============================================================================
