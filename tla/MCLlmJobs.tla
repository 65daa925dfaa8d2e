---------------------------- MODULE MCLlmJobs -----------------------------
(* Rows by number, so that pages follow the ids as in the database.        *)
EXTENDS LlmJobs

MCItems == 1 .. 3
===========================================================================
