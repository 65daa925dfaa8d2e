---------------------------- MODULE JobRuntime ----------------------------
(*************************************************************************)
(* The job runtime: API requests, runs, the worker process and its       *)
(* recovery interleaved over one Redis, and what holds of them together. *)
(*************************************************************************)
EXTENDS JobApi, JobRunner, JobRecovery

(* A snapshot nobody rewrote for its TTL; the cancelled key lives longer. *)
SnapshotExpires(j) ==
  /\ snap[j] # "none"
  /\ spent["expiries"] < MaxExpiries
  /\ Spend("expiries")
  /\ snap' = [snap EXCEPT ![j] = "none"]
  /\ UNCHANGED <<nextId, job, row, flag, channelVars, worker, runVars, recVars, client, historyVars>>

---------------------------------------------------------------------------
(* The specification *)

Next ==
  \/ ClientNext
  \/ ProcessNext
  \/ \E j \in JobIds : RunNext(j) \/ RecoveryNext(j) \/ SnapshotExpires(j)

Spec == Init /\ [][Next]_vars

(* What the worker's event loop, BullMQ and the container's restart policy  *)
(* guarantee: a process that is down is started again, a started step is    *)
(* followed by the next, a handler ends (its own HTTP timeouts bound it),   *)
(* an expired lock is noticed.  Clients owe nothing.                        *)
RunStepTaken(j) ==
  \/ Register(j)
  \/ ReadSnapshot(j)
  \/ ReadFlag(j)
  \/ StartHandler(j)
  \/ SystemLogWritten(j)
  \/ SettleRow(j)

HandlerEnds(j) == HandlerThrows(j) \/ \E status \in TerminalStatus : HandlerReturns(j, status)

RecoveryStepTaken(j) ==
  \/ RecoverOrphan(j)
  \/ RecoverRead(j)
  \/ RecoverDrop(j)
  \/ RecoverFailRead(j)
  \/ RecoverFailWrite(j)
  \/ RequeueMint(j)
  \/ RequeueAdd(j)
  \/ StallRead(j)
  \/ StallFind(j)

OrphanStalls(j) == run[j] = "idle" /\ StallRow(j)

Fairness ==
  /\ WF_vars(Boot)
  /\ WF_vars(StartWorkers)
  /\ WF_vars(Subscribe)
  /\ WF_vars(ShutdownDone)
  /\ \A j \in JobIds :
       /\ WF_vars(Claim(j))
       /\ WF_vars(RunStepTaken(j))
       /\ WF_vars(HandlerEnds(j))
       /\ WF_vars(WritePending(j))
       /\ WF_vars(DeliverCancel(j))
       /\ WF_vars(RecoveryStepTaken(j))
       /\ WF_vars(OrphanStalls(j))

FairSpec == Spec /\ Fairness

---------------------------------------------------------------------------
(* Safety *)

(* A Stop that was acknowledged reaches the handler.  Once requestJobStop   *)
(* has published the cancel, a run that is let through to its handler is    *)
(* aborted, or the message is still on its way, or it was published while   *)
(* no worker was subscribed.  This rests on two orders: the API writes the  *)
(* snapshot and the flag before it publishes, the worker enters activeRuns  *)
(* before it reads them.                                                    *)
StopReachesHandler ==
  \A j \in stopped :
    run[j] \in {"cleared", "handling"} => j \in cancelled \cup ctrl \cup lost

(* Why: what is stopped, or about to be published as stopped, is on record. *)
StopOnRecord ==
  /\ stopped \subseteq flag
  /\ \A c \in Clients : client[c].at = "publish" => client[c].job \in flag
StopInv == StopOnRecord /\ StopReachesHandler

(* No run is let through to its handler after its Stop was acknowledged,    *)
(* however the claim, the removal of the row, a crash and the cancel        *)
(* message interleave.                                                      *)
ClearedUnstopped ==
  \A j \in JobIds : run[j] # "cleared" /\ run'[j] = "cleared" => j \notin stopped
NoStartAfterStop == [][ClearedUnstopped]_vars

(* The Lua rule and the write chain together: no progress flush of a late   *)
(* timer and no racing Stop puts a finished job back to running.            *)
NotBackToRunning ==
  \A j \in JobIds : snap[j] \in TerminalStatus => snap'[j] # "running"
TerminalSticks == [][NotBackToRunning]_vars

(* BullMQ calls a job completed only after its snapshot says how it ended   *)
(* (cancelled and failed jobs complete in BullMQ too).                      *)
CompletedRowHasVerdict ==
  \A j \in JobIds : row[j] = "completed" => snap[j] \in TerminalStatus \cup {"none"}

(* A queued job leaves the queue unexecuted only because someone stopped    *)
(* it: the 409 guard of another request never discards a live job.          *)
DroppedOnlyIfStopped ==
  [][\A j \in JobIds : row[j] = "waiting" /\ row'[j] = "removed" => snap[j] = "cancelled"]_vars

(* Recovery queues no request twice: of the ids a request went through, at  *)
(* most one has an unfinished row, however boots, crashes in the middle of  *)
(* a recovery, stalls of a live run and shutdowns follow each other, and    *)
(* whatever the queue's concurrency.  The one exception is a row recovery   *)
(* could neither fail nor remove: it goes on without telling anyone.        *)
QueuedOnce ==
  \A j, k \in JobIds :
    (/\ row[j] \in UnfinishedState
     /\ row[k] \in UnfinishedState
     /\ job[j].root = job[k].root)
    => j = k \/ \E i \in undropped : job[i].root = job[j].root

(* "Regenerate all" wipes once: however often its job is recovered, at most *)
(* one of the jobs that go back to the request clears the generated voice.  *)
WipedAtMostOnce ==
  \A j, k \in wiped : job[j].root = job[k].root => j = k

(* Liveness: a queued job is eventually claimed or taken out of the queue,  *)
(* and a claimed row eventually settles, across crashes and shutdowns.      *)
QueueDrains ==
  \A j \in JobIds :
    /\ row[j] = "waiting" ~> row[j] # "waiting"
    /\ row[j] = "active" ~> row[j] # "active"

(* The phase of a job in the eyes of whoever started it.  A claimed row     *)
(* whose process died stays active in BullMQ, but never runs again under    *)
(* its id.                                                                  *)
Executing(j) == run[j] \in {"cleared", "handling", "logging", "ending"}
Accepted(j) ==
  \/ run[j] \in {"claimed", "registered", "unmarked"}
  \/ run[j] = "idle" /\ row[j] \in {"absent", "waiting"}
Phase(j) ==
  IF j > nextId THEN "new"
  ELSE IF Executing(j) THEN "executing"
  ELSE IF Accepted(j) THEN "accepted" ELSE "over"

Promise == INSTANCE JobPromise WITH
  Jobs  <- JobIds,
  phase <- [j \in JobIds |-> Phase(j)],
  stop  <- stopped

(* The runtime keeps the promise. *)
KeepsPromise == Promise!PromiseSpec

===========================================================================
