---------------------------- MODULE MCVortexRuns ---------------------------
(* Instances of VortexRuns without an agent, for TLC. *)
EXTENDS VortexRuns
============================================================================
