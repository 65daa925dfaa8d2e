--------------------------- MODULE JobRecovery ----------------------------
(*************************************************************************)
(* The worker process as a whole: boot, shutdown, crash, and the recovery *)
(* that re-enqueues what a previous process or a stall left behind.      *)
(*************************************************************************)
EXTENDS JobState

(* A recovery step leaves these alone. *)
recKeeps == <<channelVars, worker, runVars, client, historyVars>>

---------------------------------------------------------------------------
(* The worker process: boot, control subscription, shutdown, crash.        *)

(* listActiveJobs on the served queues, once per recovery. *)
Boot ==
  /\ worker = "down"
  /\ worker' = "booting"
  /\ orphans' = {j \in JobIds : row[j] = "active" /\ job[j].kind \in LlmKinds \cup VoiceKinds}
  /\ UNCHANGED <<storeVars, channelVars, runVars, rec, client, spent, historyVars>>

(* Recovery is over: the BullMQ workers start, the subscription follows. *)
StartWorkers ==
  /\ worker = "booting"
  /\ orphans = {}
  /\ worker' = "up"
  /\ UNCHANGED <<storeVars, channelVars, runVars, recVars, client, spent, historyVars>>

Subscribe ==
  /\ worker = "up"
  /\ ~subscribed
  /\ subscribed' = TRUE
  /\ UNCHANGED <<storeVars, ctrl, worker, runVars, recVars, client, spent, historyVars>>

(* SIGTERM: cancelAllActiveRuns, then no row is claimed any more. *)
Shutdown ==
  /\ worker = "up"
  /\ spent["crashes"] < MaxCrashes
  /\ Spend("crashes")
  /\ worker' = "closing"
  /\ cancelled' = cancelled \cup {j \in JobIds : run[j] \in Registered}
  /\ UNCHANGED <<storeVars, channelVars, run, pending, outcome, recVars, client, historyVars>>

(* What lives in the process is gone; Redis and BullMQ keep theirs. *)
ProcessGone ==
  /\ worker' = "down"
  /\ subscribed' = FALSE
  /\ ctrl' = {}
  /\ run' = [j \in JobIds |-> "idle"]
  /\ cancelled' = {}
  /\ pending' = [j \in JobIds |-> <<>>]
  /\ outcome' = [j \in JobIds |-> "failed"]
  /\ orphans' = {}
  /\ rec' = [j \in JobIds |-> NoRec]
  /\ UNCHANGED <<storeVars, client, historyVars>>

(* worker.close() waits for every run, then the process exits. *)
ShutdownDone ==
  /\ worker = "closing"
  /\ \A j \in JobIds : run[j] = "idle"
  /\ ProcessGone
  /\ UNCHANGED spent

Crash ==
  /\ worker # "down"
  /\ spent["crashes"] < MaxCrashes
  /\ Spend("crashes")
  /\ ProcessGone

---------------------------------------------------------------------------
(* Recovery: recoverOrphaned{LlmJobs,VoiceGenerateJobs} at boot, one row   *)
(* after the other, and requeueStalled{LlmJob,VoiceGenerate} after BullMQ  *)
(* failed a stalled row.                                                   *)

IsLlm(j)     == job[j].kind \in LlmKinds
IsVoice(j)   == job[j].kind \in VoiceKinds
RecGoto(j, step) == rec' = [rec EXCEPT ![j].at = step]

(* LLM recovery looks at the snapshot before it drops the row, voice *)
(* recovery drops it right away.                                     *)
RecoverOrphan(j) ==
  /\ worker = "booting"
  /\ j \in orphans
  /\ \A k \in JobIds : rec[k].at = "none"
  /\ RecGoto(j, IF IsLlm(j) THEN "read" ELSE "drop")
  /\ UNCHANGED <<storeVars, orphans, spent, recKeeps>>

RecoverRead(j) ==
  /\ rec[j].at = "read"
  /\ rec' = [rec EXCEPT ![j].at = "drop", ![j].stop = (snap[j] = "cancelled")]
  /\ UNCHANGED <<storeVars, orphans, spent, recKeeps>>

(* A cancelled job ends with its row, any other one is queued again. *)
RowDropped(j) ==
  IF rec[j].stop
  THEN /\ rec' = [rec EXCEPT ![j] = NoRec]
       /\ orphans' = orphans \ {j}
  ELSE /\ RecGoto(j, "failRead")
       /\ UNCHANGED orphans

(* Mutant of RecoverDrop: the old row is left to BullMQ. *)
RecoverDropNothing(j) ==
  /\ rec[j].at = "drop"
  /\ RowDropped(j)
  /\ UNCHANGED <<storeVars, spent, recKeeps>>

(* dropActiveJob: moveToFailed, else remove, else (both refused) nothing. *)
RecoverDrop(j) ==
  /\ rec[j].at = "drop"
  /\ \/ /\ row[j] # "active"
        /\ UNCHANGED <<row, undropped>>
     \/ /\ row[j] = "active"
        /\ \E state \in {"failed", "removed"} : row' = [row EXCEPT ![j] = state]
        /\ UNCHANGED undropped
     \/ /\ row[j] = "active"
        /\ undropped' = undropped \cup {j}
        /\ UNCHANGED row
  /\ RowDropped(j)
  /\ UNCHANGED <<nextId, job, snap, flag, spent, channelVars, worker, runVars, client,
                 stopped, lost, wiped>>

RecoverFailRead(j) ==
  /\ rec[j].at = "failRead"
  /\ RecGoto(j, IF snap[j] = "running" THEN "failWrite" ELSE "mint")
  /\ UNCHANGED <<storeVars, orphans, spent, recKeeps>>

RecoverFailWrite(j) ==
  /\ rec[j].at = "failWrite"
  /\ Write(j, "failed")
  /\ RecGoto(j, "mint")
  /\ UNCHANGED <<nextId, job, row, flag, orphans, spent, recKeeps>>

(* Mutant of ResumeData: the wipe is resumed too. *)
ResumeDataWiping(data) == data

(* resumeVoiceGenerateData: a resumed voice job never wipes again. *)
ResumeData(data) == [data EXCEPT !.wipe = FALSE]

RequeueData(j) == IF IsVoice(j) THEN ResumeData(job[j]) ELSE job[j]

RequeueMint(j) ==
  /\ rec[j].at = "mint"
  /\ MintJob(RequeueData(j))
  /\ rec' = [rec EXCEPT ![j].at = "add", ![j].new = nextId + 1]
  /\ UNCHANGED <<row, flag, orphans, spent, recKeeps>>

RequeueAdd(j) ==
  /\ rec[j].at = "add"
  /\ AddRow(rec[j].new)
  /\ rec' = [rec EXCEPT ![j] = NoRec]
  /\ orphans' = orphans \ {j}
  /\ UNCHANGED <<nextId, job, snap, flag, spent, recKeeps>>

(* Mutant of StallRow: a stalled row goes back to the queue. *)
StallRowRetried(j) ==
  /\ worker = "up"
  /\ row[j] = "active"
  /\ IF run[j] = "idle"
     THEN UNCHANGED spent
     ELSE spent["stalls"] < MaxStalls /\ Spend("stalls")
  /\ row' = [row EXCEPT ![j] = "waiting"]
  /\ UNCHANGED <<nextId, job, snap, flag, recVars, recKeeps>>

(* Mutant of StallRow: nobody looks for rows whose process died. *)
StallRowUnchecked(j) ==
  /\ worker = "up"
  /\ row[j] = "active"
  /\ run[j] # "idle"
  /\ spent["stalls"] < MaxStalls
  /\ Spend("stalls")
  /\ row' = [row EXCEPT ![j] = "failed"]
  /\ UNCHANGED <<nextId, job, snap, flag, recVars, recKeeps>>

(* BullMQ's stalled check fails an active row whose lock expired: its       *)
(* process died, or (bounded) the event loop was blocked for the lock's     *)
(* five minutes and the run goes on.  The 'failed' event starts a requeue.  *)
StallRow(j) ==
  /\ worker = "up"
  /\ row[j] = "active"
  /\ IF run[j] = "idle"
     THEN UNCHANGED spent
     ELSE spent["stalls"] < MaxStalls /\ Spend("stalls")
  /\ row' = [row EXCEPT ![j] = "failed"]
  /\ RecGoto(j, IF IsLlm(j) THEN "stallRead" ELSE IF IsVoice(j) THEN "stallFind" ELSE "none")
  /\ UNCHANGED <<nextId, job, snap, flag, orphans, recKeeps>>

StallRead(j) ==
  /\ rec[j].at = "stallRead"
  /\ RecGoto(j, IF snap[j] = "cancelled" THEN "none" ELSE "stallFind")
  /\ UNCHANGED <<storeVars, orphans, spent, recKeeps>>

StallFind(j) ==
  /\ rec[j].at = "stallFind"
  /\ RecGoto(j, IF Unfinished(job[j].kind, job[j].mod) = {} THEN "mint" ELSE "none")
  /\ UNCHANGED <<storeVars, orphans, spent, recKeeps>>

ProcessNext ==
  \/ Boot
  \/ StartWorkers
  \/ Subscribe
  \/ Shutdown
  \/ ShutdownDone
  \/ Crash

RecoveryNext(j) ==
  \/ RecoverOrphan(j)
  \/ RecoverRead(j)
  \/ RecoverDrop(j)
  \/ RecoverFailRead(j)
  \/ RecoverFailWrite(j)
  \/ RequeueMint(j)
  \/ RequeueAdd(j)
  \/ StallRow(j)
  \/ StallRead(j)
  \/ StallFind(j)

===========================================================================
