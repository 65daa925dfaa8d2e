---------------------------- MODULE JobPromise ----------------------------
(*************************************************************************)
(* What the job runtime promises about one job id, with no queue, worker *)
(* or message in sight: a job is accepted once, its handler is let run   *)
(* at most once and never after its Stop was acknowledged, and once the  *)
(* job is over it stays over.                                            *)
(*************************************************************************)
CONSTANT Jobs

VARIABLES
  phase,  \* "new", "accepted", "executing" or "over"
  stop    \* jobs whose Stop was acknowledged

promiseVars == <<phase, stop>>

PromiseInit ==
  /\ phase = [j \in Jobs |-> "new"]
  /\ stop = {}

Become(j, from, to) ==
  /\ phase[j] \in from
  /\ phase' = [phase EXCEPT ![j] = to]
  /\ UNCHANGED stop

Accept(j)  == Become(j, {"new"}, "accepted")
Execute(j) == j \notin stop /\ Become(j, {"accepted"}, "executing")

(* Settled, skipped or taken out of the queue. *)
End(j)     == Become(j, {"accepted", "executing"}, "over")

(* The worker process dies: whatever it had claimed is over under this id. *)
EndTogether ==
  /\ \E gone \in SUBSET {j \in Jobs : phase[j] \in {"accepted", "executing"}} :
       phase' = [j \in Jobs |-> IF j \in gone THEN "over" ELSE phase[j]]
  /\ UNCHANGED stop

Acknowledge(j) ==
  /\ phase[j] # "new"
  /\ stop' = stop \cup {j}
  /\ UNCHANGED phase

PromiseNext ==
  \/ \E j \in Jobs : Accept(j) \/ Execute(j) \/ End(j) \/ Acknowledge(j)
  \/ EndTogether

PromiseSpec == PromiseInit /\ [][PromiseNext]_promiseVars

===========================================================================
