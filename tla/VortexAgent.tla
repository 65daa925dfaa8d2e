---------------------------- MODULE VortexAgent ---------------------------
(*************************************************************************)
(* The resident Vortex agent over the server: it watches the staging      *)
(* folder, plans, uploads, starts import and carry, waits, starts or      *)
(* joins TM, waits again, and remembers in its state file what it has     *)
(* synced.  Requests are retried, cycles fail, the agent is restarted.    *)
(*************************************************************************)
EXTENDS VortexRuns

VARIABLES
  staged,  \* units in the staging folder
  file,    \* state.json: the units last synced, whether ever, resyncNeeded
  agent,   \* the cycle: its step, inventory, units to upload, run it follows
  missed   \* history: units the server refused

agentVars == <<staged, file, agent, missed>>
vars == <<runsVars, agentVars>>

Phase == {"idle", "plan", "upload", "start", "wait", "tm", "waitTm"}
File  == [sig : SUBSET Units, last : BOOLEAN, resync : BOOLEAN]
Cycle == [at : Phase, inv : SUBSET Units, todo : SUBSET Units, run : Runs \cup {NoRun},
          sent : BOOLEAN, refused : BOOLEAN]
NoCycle == [at |-> "idle", inv |-> {}, todo |-> {}, run |-> NoRun,
            sent |-> FALSE, refused |-> FALSE]

(* Types, and what the steps of a cycle have in hand. *)
AgentTypeOK ==
  /\ staged \subseteq Units
  /\ file \in File
  /\ agent \in Cycle
  /\ missed \subseteq Units
  /\ agent.todo \subseteq agent.inv /\ agent.inv \subseteq staged
  /\ agent.at \in {"upload", "start", "wait"} => agent.run # NoRun

Init ==
  /\ VortexInit
  /\ staged = Synced
  /\ file = [sig |-> Synced, last |-> Synced # {}, resync |-> FALSE]
  /\ agent = NoCycle
  /\ missed = {}

GoTo(phase) == agent' = [agent EXCEPT !.at = phase]

(* Everything the server needs is there: only the signature is recorded. *)
Record(f) ==
  /\ file' = f
  /\ agent' = NoCycle
SeenBefore == file.last /\ ~file.resync

---------------------------------------------------------------------------
(* tick and runSyncCycle *)

Install(u) ==
  /\ staged' = staged \cup {u}
  /\ staged # staged'
  /\ UNCHANGED <<runsVars, file, agent, missed>>

Scan ==
  /\ agent.at = "idle"
  /\ staged # file.sig \/ ~file.last \/ file.resync
  /\ agent' = [NoCycle EXCEPT !.at = "plan", !.inv = staged]
  /\ UNCHANGED <<runsVars, staged, file, missed>>

(* POST sync/plan: what is imported is skipped, anything else is asked for, *)
(* with the import job it may have from an earlier plan.                    *)
Known(units)  == {u \in units : stored[u] # "unknown"}
Needed(units) == {u \in units : stored[u] # "imported"}

(* Mutant of Plan: the run of the answer is not kept. *)
PlanUnnamed ==
  /\ agent.at = "plan"
  /\ \E r \in Runs : NewRow(r, "range", Known(agent.inv))
  /\ agent' = [agent EXCEPT !.at = "upload", !.todo = Needed(agent.inv)]
  /\ UNCHANGED <<stored, translated, jobVars, bootVars, request, spent, staged, file, missed>>

Plan ==
  /\ agent.at = "plan"
  /\ \E r \in Runs :
       /\ NewRow(r, "range", Known(agent.inv))
       /\ IF Needed(agent.inv) = {} /\ SeenBefore
          THEN Record([file EXCEPT !.sig = agent.inv])
          ELSE /\ agent' = [agent EXCEPT !.at = "upload", !.todo = Needed(agent.inv), !.run = r]
               /\ UNCHANGED file
  /\ UNCHANGED <<stored, translated, jobVars, bootVars, request, spent, staged, missed>>

(* The answer to a plan is lost: the plan stays, and is made again. *)
PlanUnanswered ==
  /\ agent.at = "plan"
  /\ \E r \in Runs : NewRow(r, "range", Known(agent.inv))
  /\ Fault
  /\ UNCHANGED <<stored, translated, jobVars, bootVars, request, agentVars>>

(* PUT packs/:unitId registers the unit and writes its job into the plan. *)
Upload(u) ==
  /\ agent.at = "upload"
  /\ u \in agent.todo
  /\ stored' = [stored EXCEPT ![u] = IF @ = "unknown" THEN "registered" ELSE @]
  /\ run' = [run EXCEPT ![agent.run].units = @ \cup {u}]
  /\ agent' = [agent EXCEPT !.todo = @ \ {u}, !.sent = TRUE]
  /\ UNCHANGED <<translated, jobVars, bootVars, request, spent, staged, file, missed>>

(* The server answers 5xx: the unit is noted and left out. *)
Refuse(u) ==
  /\ agent.at = "upload"
  /\ u \in agent.todo
  /\ Fault
  /\ missed' = missed \cup {u}
  /\ agent' = [agent EXCEPT !.todo = @ \ {u}, !.refused = TRUE]
  /\ UNCHANGED <<rowVars, jobVars, bootVars, request, staged, file>>

EndUpload ==
  /\ agent.at = "upload"
  /\ agent.todo = {}
  /\ IF ~agent.sent /\ agent.refused /\ SeenBefore
     THEN Record([file EXCEPT !.sig = agent.inv])
     ELSE GoTo("start") /\ UNCHANGED file
  /\ UNCHANGED <<runsVars, staged, missed>>

Start ==
  /\ agent.at = "start"
  /\ StartRange("agent", agent.run)
  /\ GoTo("wait")
  /\ UNCHANGED <<spent, staged, file, missed>>

(* startOrJoinTm: the run it starts, or the active one the refusal names. *)
StartTm ==
  /\ agent.at = "tm"
  /\ CheckStage("agent", "tm")
  /\ GoTo("waitTm")
  /\ UNCHANGED <<spent, staged, file, missed>>

(* fetchWithRetry: no answer came, so the agent sends again, and the first  *)
(* request is carried out beside the second.                                *)
Resend ==
  /\ agent.at \in {"wait", "waitTm"}
  /\ request["agent"].at # "idle"
  /\ request["lost"].at = "idle"
  /\ Fault
  /\ request' = [request EXCEPT !["lost"] = request["agent"], !["agent"] = NoRequest]
  /\ GoTo(IF agent.at = "wait" THEN "start" ELSE "tm")
  /\ UNCHANGED <<rowVars, jobVars, bootVars, staged, file, missed>>

(* waitRun polls the run the answer named. *)
Waiting  == agent.at \in {"wait", "waitTm"} /\ request["agent"].at = "idle"
Followed == run[IF agent.at = "wait" THEN agent.run ELSE request["agent"].run]

(* Mutant of Waited: any end of the run will do. *)
WaitedForAnyEnd ==
  /\ Waiting
  /\ Followed.status \in Ended
  /\ IF agent.at = "wait" THEN GoTo("tm") /\ UNCHANGED file
     ELSE Record([sig |-> agent.inv, last |-> TRUE, resync |-> FALSE])
  /\ UNCHANGED <<runsVars, staged, missed>>

(* The run completed: on to TM, and after TM the sync is recorded. *)
Waited ==
  /\ Waiting
  /\ Followed.status = "completed"
  /\ IF agent.at = "wait" THEN GoTo("tm") /\ UNCHANGED file
     ELSE Record([sig |-> agent.inv, last |-> TRUE, resync |-> FALSE])
  /\ UNCHANGED <<runsVars, staged, missed>>

(* The catch of tick: the next cycle runs the stages whatever it finds. *)
FailCycle ==
  /\ file' = [file EXCEPT !.resync = TRUE]
  /\ agent' = NoCycle
  /\ UNCHANGED <<staged, missed>>

WaitFails ==
  /\ Waiting
  /\ Followed.status \in {"failed", "cancelled"}
  /\ FailCycle
  /\ UNCHANGED runsVars

(* A request that fails for good, from wherever the cycle is. *)
CycleThrows ==
  /\ agent.at # "idle" /\ request["agent"].at = "idle"
  /\ Fault
  /\ FailCycle
  /\ UNCHANGED <<rowVars, jobVars, bootVars, request>>

(* The agent's process is restarted: only the file is left of the cycle. *)
Restart ==
  /\ agent.at # "idle" /\ request["agent"].at = "idle"
  /\ Fault
  /\ agent' = NoCycle
  /\ UNCHANGED <<rowVars, jobVars, bootVars, request, staged, file, missed>>

---------------------------------------------------------------------------
(* The specification *)

AgentNext ==
  \/ \E u \in Units : Install(u) \/ Upload(u) \/ Refuse(u)
  \/ Scan \/ Plan \/ PlanUnanswered \/ EndUpload
  \/ Start \/ StartTm \/ Resend
  \/ Waited \/ WaitFails \/ CycleThrows \/ Restart

Next == (ServerNext /\ UNCHANGED agentVars) \/ AgentNext
Spec == Init /\ [][Next]_vars

---------------------------------------------------------------------------
(* Properties *)

(* What the agent remembers as synced is on the server: imported, or cut    *)
(* short or refused for a reason the journal names.  Whatever was lost,     *)
(* sent twice, stopped, stalled or restarted in between, the agent forgets  *)
(* no unit it will never upload again.                                      *)
SyncedIsStored == file.sig \subseteq CurrentMods \cup missed

===========================================================================
