----------------------------- MODULE MCProfiler -----------------------------
(* Instances of Profiler for TLC, as it is and as a time ledger. *)
EXTENDS ProfilerLedger, MCPrograms
=============================================================================
