------------------------------ MODULE MCPause -------------------------------
(* Instances of Profiler with pauses for TLC. *)
EXTENDS PauseAudit, MCPrograms
=============================================================================
