------------------------------ MODULE JobApi ------------------------------
(*************************************************************************)
(* API requests on jobs: the 409 guard, starting a job, stopping one job *)
(* and its siblings, stopping all jobs of a mod.                         *)
(*************************************************************************)
EXTENDS JobState

(* An API request leaves the worker alone. *)
apiKeeps == <<subscribed, worker, runVars, recVars>>

Goto(c, step) == client' = [client EXCEPT ![c].at = step]
Leave(c)      == client' = [client EXCEPT ![c] = NoRequest]

---------------------------------------------------------------------------
(* Starting a job from a route: findActiveJobIdForMod, then                *)
(* startBackgroundJob.                                                     *)

RequestStart(c, kind, mod, wipe) ==
  /\ client[c].at = "idle"
  /\ spent["starts"] < MaxStarts
  /\ wipe => kind \in VoiceKinds
  /\ Spend("starts")
  /\ client' = [client EXCEPT ![c] =
       [NoRequest EXCEPT !.at = "guard",
                         !.data = [kind |-> kind, mod |-> mod, wipe |-> wipe, root |-> NoJob],
                         !.todo = Unfinished(kind, mod)]]
  /\ UNCHANGED <<storeVars, ctrl, apiKeeps, historyVars>>

(* One row of the guard's list: snapshot, flag and state are read together. *)
GuardCheck(c, j) ==
  /\ client[c].at = "guard"
  /\ j \in client[c].todo
  /\ LET verdict == Disposition(snap[j], j \in flag, row[j])
     IN  \/ /\ verdict = "discard"
            /\ client' = [client EXCEPT ![c].at = "discard", ![c].job = j]
         \/ /\ verdict = "skip"
            /\ client' = [client EXCEPT ![c].todo = @ \ {j}]
         \/ /\ verdict = "block"
            /\ Leave(c)
  /\ UNCHANGED <<storeVars, ctrl, apiKeeps, spent, historyVars>>

(* removeIdleQueueJob of a row the guard gave up on. *)
GuardDiscard(c) ==
  LET j == client[c].job
  IN  /\ client[c].at = "discard"
      /\ row' = [row EXCEPT ![j] = IF @ = "waiting" THEN "removed" ELSE @]
      /\ client' = [client EXCEPT ![c].at = "guard", ![c].job = NoJob, ![c].todo = @ \ {j}]
      /\ UNCHANGED <<nextId, job, snap, flag, ctrl, apiKeeps, spent, historyVars>>

StartJob(c) ==
  /\ client[c].at = "guard"
  /\ client[c].todo = {}
  /\ MintJob([client[c].data EXCEPT !.root = nextId + 1])
  /\ client' = [client EXCEPT ![c].at = "enqueue", ![c].job = nextId + 1]
  /\ UNCHANGED <<row, flag, ctrl, apiKeeps, spent, historyVars>>

EnqueueJob(c) ==
  /\ client[c].at = "enqueue"
  /\ AddRow(client[c].job)
  /\ Leave(c)
  /\ UNCHANGED <<nextId, job, snap, flag, ctrl, apiKeeps, spent, historyVars>>

---------------------------------------------------------------------------
(* Stopping: stopJobOfKind for one id (then its siblings), stopJobForMod   *)
(* for every unfinished job of the mod.                                    *)

RequestStop(c, j) ==
  /\ client[c].at = "idle"
  /\ spent["stops"] < MaxStops
  /\ j <= nextId
  /\ Spend("stops")
  /\ client' = [client EXCEPT ![c] =
       [NoRequest EXCEPT !.at = IF snap[j] = "running" THEN "mark" ELSE "look",
                         !.job = j, !.known = (snap[j] # "none")]]
  /\ UNCHANGED <<storeVars, ctrl, apiKeeps, historyVars>>

(* Mutant of RequestStopMod: the mod's jobs are not listed first. *)
RequestStopModUnlisted(c, kind, mod) ==
  /\ client[c].at = "idle"
  /\ spent["stops"] < MaxStops
  /\ Spend("stops")
  /\ client' = [client EXCEPT ![c] = [NoRequest EXCEPT !.at = "request", !.top = FALSE]]
  /\ UNCHANGED <<storeVars, ctrl, apiKeeps, historyVars>>

RequestStopMod(c, kind, mod) ==
  /\ client[c].at = "idle"
  /\ spent["stops"] < MaxStops
  /\ Spend("stops")
  /\ client' = [client EXCEPT ![c] =
       [NoRequest EXCEPT !.at = "sweep", !.todo = Unfinished(kind, mod), !.top = FALSE]]
  /\ UNCHANGED <<storeVars, ctrl, apiKeeps, historyVars>>

(* A cancelled snapshot is written, then (another command) the flag set. *)
WriteCancelled(c, from, to) ==
  /\ client[c].at = from
  /\ Write(client[c].job, "cancelled")
  /\ Goto(c, to)
  /\ UNCHANGED <<nextId, job, row, flag, ctrl, apiKeeps, spent, historyVars>>

WriteFlag(c, from, to) ==
  /\ client[c].at = from
  /\ Mark(client[c].job)
  /\ Goto(c, to)
  /\ UNCHANGED <<nextId, job, row, snap, ctrl, apiKeeps, spent, historyVars>>

MarkSnapshot(c)     == WriteCancelled(c, "mark", "markFlag")
MarkSnapshotFlag(c) == WriteFlag(c, "markFlag", "look")
CancelSnapshot(c)   == WriteCancelled(c, "cancel", "cancelFlag")
CancelFlag(c)       == WriteFlag(c, "cancelFlag", "publish")

(* stopJobOfKind looks the row up (getQueueJob and getState read together). *)
StopLook(c) ==
  LET req == client[c]  state == row[client[c].job]
  IN  /\ req.at = "look"
      /\ \/ state \in SettledState /\ Leave(c)
         \/ state \in {"absent", "removed"} /\ ~req.known /\ Leave(c)
         \/ state \in {"absent", "removed"} /\ req.known /\ Goto(c, "orphanPublish")
         \/ state \in UnfinishedState /\ Goto(c, "request")
      /\ UNCHANGED <<storeVars, ctrl, apiKeeps, spent, historyVars>>

(* requestJobStop looks it up again, for the job or for one of its siblings. *)
(* What is over by then stops nothing, and a lone Stop ends with it.         *)
StopRequest(c) ==
  LET req == client[c]  state == row[client[c].job]
  IN  /\ req.at = "request"
      /\ \/ state \in SettledState /\ req.top /\ Leave(c)
         \/ state \in SettledState /\ ~req.top /\ Goto(c, "sweep")
         \/ state \in {"absent", "removed"} /\ Goto(c, "gonePublish")
         \/ /\ state \in UnfinishedState
            /\ client' = [client EXCEPT ![c].at = "cancel", ![c].active = (state = "active")]
      /\ UNCHANGED <<storeVars, ctrl, apiKeeps, spent, historyVars>>

(* The row is unfinished and its cancellation is on record: tell the worker. *)
StopPublish(c) ==
  LET j == client[c].job
  IN  /\ client[c].at = "publish"
      /\ Publish(j)
      /\ stopped' = stopped \cup {j}
      /\ Goto(c, IF client[c].active THEN "sweep" ELSE "remove")
      /\ UNCHANGED <<storeVars, apiKeeps, spent, wiped, undropped>>

StopRemove(c) ==
  /\ client[c].at = "remove"
  /\ RemoveRow(client[c].job)
  /\ Goto(c, "sweep")
  /\ UNCHANGED <<nextId, job, snap, flag, ctrl, apiKeeps, spent, historyVars>>

(* No row under that id: publish anyway. *)
StopOrphanPublish(c) ==
  /\ client[c].at = "orphanPublish"
  /\ Publish(client[c].job)
  /\ Goto(c, "orphanFlag")
  /\ UNCHANGED <<storeVars, apiKeeps, spent, stopped, wiped, undropped>>

StopGonePublish(c) ==
  /\ client[c].at = "gonePublish"
  /\ Publish(client[c].job)
  /\ IF client[c].top THEN Leave(c) ELSE Goto(c, "sweep")
  /\ UNCHANGED <<storeVars, apiKeeps, spent, stopped, wiped, undropped>>

StopOrphanFlag(c) == WriteFlag(c, "orphanFlag", "sweep")

(* stopUnfinishedJobsForMod: list once, then one requestJobStop per sibling. *)
StopSweep(c) ==
  LET req == client[c]  data == job[client[c].job]
  IN  /\ req.at = "sweep"
      /\ \/ /\ req.top
            /\ client' = [client EXCEPT ![c].top = FALSE,
                 ![c].todo = Unfinished(data.kind, data.mod) \ {req.job}]
         \/ /\ ~req.top
            /\ req.todo = {}
            /\ Leave(c)
         \/ /\ ~req.top
            /\ \E j \in req.todo :
                 client' = [client EXCEPT ![c].at = "request", ![c].job = j, ![c].todo = @ \ {j}]
      /\ UNCHANGED <<storeVars, ctrl, apiKeeps, spent, historyVars>>

(* The API process restarts, or a Redis command of the request fails. *)
RequestAborted(c) ==
  /\ client[c].at # "idle"
  /\ Leave(c)
  /\ UNCHANGED <<storeVars, ctrl, apiKeeps, spent, historyVars>>

ClientNext ==
  \E c \in Clients :
    \/ \E k \in Kinds, m \in Mods, w \in BOOLEAN : RequestStart(c, k, m, w)
    \/ \E j \in JobIds : GuardCheck(c, j)
    \/ GuardDiscard(c)
    \/ StartJob(c)
    \/ EnqueueJob(c)
    \/ \E j \in JobIds : RequestStop(c, j)
    \/ \E k \in Kinds, m \in Mods : RequestStopMod(c, k, m)
    \/ MarkSnapshot(c)
    \/ MarkSnapshotFlag(c)
    \/ StopLook(c)
    \/ StopRequest(c)
    \/ CancelSnapshot(c)
    \/ CancelFlag(c)
    \/ StopPublish(c)
    \/ StopRemove(c)
    \/ StopOrphanPublish(c)
    \/ StopGonePublish(c)
    \/ StopOrphanFlag(c)
    \/ StopSweep(c)
    \/ RequestAborted(c)

===========================================================================
