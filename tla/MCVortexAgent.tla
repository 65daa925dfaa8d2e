--------------------------- MODULE MCVortexAgent ---------------------------
(* Instances of VortexAgent, with the server it works with, for TLC. *)
EXTENDS VortexAgent
============================================================================
