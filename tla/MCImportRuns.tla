---------------------------- MODULE MCImportRuns ----------------------------
(* Instances of ImportRuns for TLC.                                          *)
EXTENDS ImportRuns, TLC
=============================================================================
