---------------------------- MODULE JobRunner -----------------------------
(*************************************************************************)
(* One claimed row in the worker: processJob from the claim through the  *)
(* cancelled check, the handler and its chain of snapshot writes to the  *)
(* settled row.                                                          *)
(*************************************************************************)
EXTENDS JobState

(* A run leaves these alone. *)
runKeeps == <<subscribed, worker, recVars, client, spent, stopped, lost, undropped>>

---------------------------------------------------------------------------
(* processJob: one claimed row, from the claim to the settled row.         *)

Busy(queue) == {j \in JobIds : run[j] # "idle" /\ QueueOf[job[j].kind] = queue}

Push(j, statuses) == pending' = [pending EXCEPT ![j] = @ \o statuses]

(* BullMQ hands a waiting row to a worker with a free slot. *)
Claim(j) ==
  /\ worker = "up"
  /\ row[j] = "waiting"
  /\ Cardinality(Busy(QueueOf[job[j].kind])) < Concurrency[QueueOf[job[j].kind]]
  /\ row' = [row EXCEPT ![j] = "active"]
  /\ run' = [run EXCEPT ![j] = "claimed"]
  /\ UNCHANGED <<nextId, job, snap, flag, ctrl, cancelled, pending, outcome, runKeeps, wiped>>

(* Project settings arrived; from here on a control message finds the run. *)
Register(j) ==
  /\ run[j] = "claimed"
  /\ run' = [run EXCEPT ![j] = "registered"]
  /\ UNCHANGED <<storeVars, ctrl, cancelled, pending, outcome, runKeeps, wiped>>

(* alreadyCancelled: both cancelled writes (the branch's own and the catch  *)
(* block's) are queued and the row will fail with 'Cancelled by user'.      *)
SkipRun(j) ==
  /\ run' = [run EXCEPT ![j] = "skipping"]
  /\ cancelled' = cancelled \cup {j}
  /\ outcome' = [outcome EXCEPT ![j] = "failed"]
  /\ Push(j, <<"cancelled", "cancelled">>)

ReadSnapshot(j) ==
  /\ run[j] = "registered"
  /\ IF snap[j] = "cancelled"
     THEN SkipRun(j)
     ELSE /\ run' = [run EXCEPT ![j] = "unmarked"]
          /\ UNCHANGED <<cancelled, pending, outcome>>
  /\ UNCHANGED <<storeVars, ctrl, runKeeps, wiped>>

(* Mutant of ReadFlag: only the snapshot is looked at. *)
ReadFlagIgnored(j) ==
  /\ run[j] = "unmarked"
  /\ run' = [run EXCEPT ![j] = "cleared"]
  /\ UNCHANGED <<storeVars, ctrl, cancelled, pending, outcome, runKeeps, wiped>>

ReadFlag(j) ==
  /\ run[j] = "unmarked"
  /\ IF j \in flag
     THEN SkipRun(j)
     ELSE /\ run' = [run EXCEPT ![j] = "cleared"]
          /\ UNCHANGED <<cancelled, pending, outcome>>
  /\ UNCHANGED <<storeVars, ctrl, runKeeps, wiped>>

(* The answer reached the worker: queue the running write, call the handler. *)
StartHandler(j) ==
  /\ run[j] = "cleared"
  /\ run' = [run EXCEPT ![j] = "handling"]
  /\ Push(j, <<"running">>)
  /\ UNCHANGED <<storeVars, ctrl, cancelled, outcome, runKeeps, wiped>>

(* runModVoiceGenerateJob with resetVoice clears the mod's generated voice. *)
WipeVoice(j) ==
  /\ run[j] = "handling"
  /\ job[j].wipe
  /\ j \notin wiped
  /\ wiped' = wiped \cup {j}
  /\ UNCHANGED <<storeVars, ctrl, runVars, runKeeps>>

(* The flush timer, until `finally` clears it: also while a failure is      *)
(* being written to the system log, after the terminal write was queued.    *)
FlushProgress(j) ==
  /\ run[j] \in {"handling", "logging"}
  /\ j \notin cancelled
  /\ Len(pending[j]) < MaxPending
  /\ Push(j, <<"running">>)
  /\ UNCHANGED <<storeVars, ctrl, run, cancelled, outcome, runKeeps, wiped>>

(* The handler's result; only an aborted handler reports 'cancelled'. *)
HandlerReturns(j, status) ==
  /\ run[j] = "handling"
  /\ status = "cancelled" => j \in cancelled
  /\ (job[j].wipe /\ status = "completed") => j \in wiped
  /\ Push(j, <<status>>)
  /\ outcome' = [outcome EXCEPT ![j] = "completed"]
  /\ \/ run' = [run EXCEPT ![j] = "ending"]
     \/ /\ status = "failed"        \* with a message, which is logged
        /\ run' = [run EXCEPT ![j] = "logging"]
  /\ UNCHANGED <<storeVars, ctrl, cancelled, runKeeps, wiped>>

HandlerThrows(j) ==
  /\ run[j] = "handling"
  /\ Push(j, <<IF j \in cancelled THEN "cancelled" ELSE "failed">>)
  /\ outcome' = [outcome EXCEPT ![j] = "failed"]
  /\ run' = [run EXCEPT ![j] = IF j \in cancelled THEN "ending" ELSE "logging"]
  /\ UNCHANGED <<storeVars, ctrl, cancelled, runKeeps, wiped>>

SystemLogWritten(j) ==
  /\ run[j] = "logging"
  /\ run' = [run EXCEPT ![j] = "ending"]
  /\ UNCHANGED <<storeVars, ctrl, cancelled, pending, outcome, runKeeps, wiped>>

(* The next write of snapshotChain; a cancelled one is followed by its flag. *)
WritePending(j) ==
  /\ pending[j] # <<>>
  /\ LET next == Head(pending[j])
     IN  IF next = "mark"
         THEN /\ Mark(j)
              /\ pending' = [pending EXCEPT ![j] = Tail(@)]
              /\ UNCHANGED snap
         ELSE /\ Write(j, next)
              /\ pending' = [pending EXCEPT ![j] =
                   IF next = "cancelled" THEN <<"mark">> \o Tail(@) ELSE Tail(@)]
              /\ UNCHANGED flag
  /\ UNCHANGED <<nextId, job, row, ctrl, run, cancelled, outcome, runKeeps, wiped>>

(* Mutant of SettleRow: the chain of writes is not awaited. *)
SettleRowEarly(j) ==
  /\ run[j] \in {"ending", "skipping"}
  /\ run' = [run EXCEPT ![j] = "idle"]
  /\ cancelled' = cancelled \ {j}
  /\ row' = [row EXCEPT ![j] = IF @ = "active" THEN outcome[j] ELSE @]
  /\ outcome' = [outcome EXCEPT ![j] = "failed"]
  /\ UNCHANGED <<nextId, job, snap, flag, ctrl, pending, runKeeps, wiped>>

(* processJob settled after its writes; BullMQ moves the row if it still    *)
(* holds the lock.                                                          *)
SettleRow(j) ==
  /\ run[j] \in {"ending", "skipping"}
  /\ pending[j] = <<>>
  /\ run' = [run EXCEPT ![j] = "idle"]
  /\ cancelled' = cancelled \ {j}
  /\ row' = [row EXCEPT ![j] = IF @ = "active" THEN outcome[j] ELSE @]
  /\ outcome' = [outcome EXCEPT ![j] = "failed"]
  /\ UNCHANGED <<nextId, job, snap, flag, ctrl, pending, runKeeps, wiped>>

(* Mutant of DeliverCancel: a cancel finds a run only inside its handler. *)
DeliverCancelLate(j) ==
  /\ subscribed
  /\ j \in ctrl
  /\ ctrl' = ctrl \ {j}
  /\ cancelled' = IF run[j] = "handling" THEN cancelled \cup {j} ELSE cancelled
  /\ UNCHANGED <<storeVars, run, pending, outcome, runKeeps, wiped>>

(* controlActiveRun: ignored unless the run is registered. *)
DeliverCancel(j) ==
  /\ subscribed
  /\ j \in ctrl
  /\ ctrl' = ctrl \ {j}
  /\ cancelled' = IF run[j] \in Registered THEN cancelled \cup {j} ELSE cancelled
  /\ UNCHANGED <<storeVars, run, pending, outcome, runKeeps, wiped>>

RunNext(j) ==
  \/ Claim(j)
  \/ Register(j)
  \/ ReadSnapshot(j)
  \/ ReadFlag(j)
  \/ StartHandler(j)
  \/ WipeVoice(j)
  \/ FlushProgress(j)
  \/ \E status \in TerminalStatus : HandlerReturns(j, status)
  \/ HandlerThrows(j)
  \/ SystemLogWritten(j)
  \/ WritePending(j)
  \/ SettleRow(j)
  \/ DeliverCancel(j)

===========================================================================
