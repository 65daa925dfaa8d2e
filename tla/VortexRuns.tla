---------------------------- MODULE VortexRuns ----------------------------
(*************************************************************************)
(* The server side of one Vortex group: the rows of vortex_sync_runs,    *)
(* the requests that start and stop them, the vortex-sync jobs that work *)
(* them off (import and carry, one fan-out stage, or export), the per-mod *)
(* jobs of a fan-out, and the hooks that close what a worker left behind. *)
(* A job here is what JobPromise says of one: it is claimed at most once  *)
(* and never after its Stop was acknowledged.                             *)
(*************************************************************************)
EXTENDS Naturals, FiniteSets

CONSTANTS
  Units,      \* units of the group's staging folder, one mod each
  Synced,     \* those an earlier sync of the group took in
  Buttons,    \* requests of the Vortex page that may be in flight together
  CpuSlots,   \* JOB_CONCURRENCY, the slots of the cpu queue
  MaxRuns,    \* bound: rows of vortex_sync_runs
  MaxJobs,    \* bound: vortex-sync jobs
  MaxStarts,  \* bound: stages started by a button, or started again
  MaxStops,   \* bound: Stop requests
  MaxFaults,  \* bound: crashes, stalls, throws, lost replies
  MaxSpent    \* bound: all of these together

ASSUME BoundsAssumption ==
  /\ Synced \subseteq Units
  /\ Buttons \cap {"agent", "lost"} = {}
  /\ CpuSlots \in Nat \ {0}
  /\ MaxRuns \in Nat
  /\ MaxJobs \in Nat

Runs  == 1 .. MaxRuns
Jobs  == 1 .. MaxJobs
NoRun == 0
NoJob == 0
(* A request of the agent whose answer was lost runs on beside its retry. *)
Callers == Buttons \cup {"agent", "lost"}

VARIABLES
  run,         \* the row of each run
  job,         \* each vortex-sync job: its row and its handler
  modJob,      \* the per-mod jobs of each job
  stored,      \* what the server holds of each unit
  translated,  \* units some tm-apply job completed for
  worker,      \* "down", "booting" or "up"
  unclosed,    \* runs, with the job they named, the booting worker has yet to look at
  request,     \* API requests
  spent        \* how much of each bound is used up

rowVars  == <<run, stored, translated>>
jobVars  == <<job, modJob>>
bootVars == <<worker, unclosed>>
runsVars == <<rowVars, jobVars, bootVars, request, spent>>

---------------------------------------------------------------------------
(* Shapes *)

ButtonStages == {"tm", "export"}
Stage   == ButtonStages \cup {"range"}
Ended   == {"completed", "failed", "cancelled"}
Active  == {"queued", "running"}
Row     == [stage : Stage \cup {"none"}, status : Active \cup Ended \cup {"planning"},
            job : Jobs \cup {NoJob}, units : SUBSET Units]
NoRow   == [stage |-> "none", status |-> "planning", job |-> NoJob, units |-> {}]

Live     == {"waiting", "active"}
QueueRow == Live \cup {"none", "removed", "completed", "failed"}
Step     == {"idle", "begin", "import", "export", "next", "guarded", "poll",
             "returned", "thrown", "dead"}
Entry    == Ended \cup {"none", "queued", "guarded", "running", "skipped"}
SyncJob  == [run : Runs \cup {NoRun}, row : QueueRow, at : Step, cut : BOOLEAN,
             hook : {"none", "failed", "closing"}, mods : [Units -> Entry]]
NoSync   == [run |-> NoRun, row |-> "none", at |-> "idle", cut |-> FALSE, hook |-> "none",
             mods |-> [u \in Units |-> "none"]]

(* "dead": active in BullMQ, its process gone. *)
ModRow  == {"none", "waiting", "active", "dead", "over"}
ModJob  == [row : ModRow, snap : Ended \cup {"none", "running"}]
NoMod   == [row |-> "none", snap |-> "none"]

Stored  == {"unknown", "registered", "cut", "imported"}
Request == [at : {"idle", "enqueue", "mark", "stopJob"},
            run : Runs \cup {NoRun}, job : Jobs \cup {NoJob}]
NoRequest == [at |-> "idle", run |-> NoRun, job |-> NoJob]
Budget  == {"starts", "stops", "faults"}

RunsType ==
  /\ run \in [Runs -> Row]
  /\ stored \in [Units -> Stored]
  /\ translated \subseteq Units
JobsType ==
  /\ job \in [Jobs -> SyncJob]
  /\ modJob \in [Jobs -> [Units -> ModJob]]
ServerType ==
  /\ worker \in {"down", "booting", "up"}
  /\ unclosed \subseteq Runs \X Jobs
  /\ request \in [Callers -> Request]
  /\ spent \in [Budget -> Nat]
VortexTypeOK == RunsType /\ JobsType /\ ServerType

---------------------------------------------------------------------------
(* What the steps share *)

Limit(b) == CASE b = "starts" -> MaxStarts [] b = "stops" -> MaxStops [] OTHER -> MaxFaults
Spend(b) ==
  /\ spent[b] < Limit(b)
  /\ spent["starts"] + spent["stops"] + spent["faults"] < MaxSpent
  /\ spent' = [spent EXCEPT ![b] = @ + 1]
Fault == Spend("faults")

SetStatus(r, status) == run' = [run EXCEPT ![r].status = status]
JobTo(j, step)       == job' = [job EXCEPT ![j].at = step]
Entering(j, u, entry, step) == job' = [job EXCEPT ![j].mods[u] = entry, ![j].at = step]
Tell(c, req)         == request' = [request EXCEPT ![c] = req]
(* Only the agent goes on with the run an answer names. *)
Answer(c, r) == Tell(c, IF c = "agent" THEN [NoRequest EXCEPT !.run = r] ELSE NoRequest)

ActiveRuns == {r \in Runs : run[r].stage # "none" /\ run[r].status \in Active}
Newest(rs) == CHOOSE r \in rs : \A s \in rs : s <= r
(* Ids are handed out in order. *)
FreshRun(r) == run[r].stage = "none" /\ \A s \in Runs : s < r => run[s].stage # "none"
FreshJob(j) == job[j].row = "none" /\ \A k \in Jobs : k < j => job[k].row # "none"
With(j, entry) == {u \in Units : job[j].mods[u] = entry}
(* Mods of the group a stage runs for: whatever an import has stored. *)
CurrentMods == {u \in Units : stored[u] \in {"cut", "imported"}}

(* Slots of the cpu queue: vortex-sync and tm-apply jobs share it. *)
Busy ==
  Cardinality({j \in Jobs : job[j].at \notin {"idle", "dead"}})
  + Cardinality({p \in Jobs \X Units : modJob[p[1]][p[2]].row = "active"})

---------------------------------------------------------------------------
(* Requests: start a stage, start a planned range, stop a run *)

NewRow(r, stage, units) ==
  /\ FreshRun(r)
  /\ run' = [run EXCEPT ![r] = [NoRow EXCEPT !.stage = stage, !.units = units]]

(* POST groups/:id/stage/:stage: refused with the newest active run, or a   *)
(* row of its own.  The two awaits are one step, for nobody looks at a row   *)
(* that is planning: until it is queued, a second request passes as well.   *)
CheckStage(c, stage) ==
  /\ request[c].at = "idle"
  /\ \/ /\ ActiveRuns = {}
        /\ \E r \in Runs : /\ NewRow(r, stage, {})
                          /\ Tell(c, [NoRequest EXCEPT !.at = "enqueue", !.run = r])
     \/ /\ ActiveRuns # {}
        /\ Answer(c, Newest(ActiveRuns))
        /\ UNCHANGED run
  /\ UNCHANGED <<stored, translated, jobVars, bootVars>>

(* POST sync/plan and a PUT packs/:unitId for each unit the plan asks for. *)
PlanRange(units) ==
  /\ \E r \in Runs : NewRow(r, "range", units)
  /\ stored' = [u \in Units |-> IF u \in units /\ stored[u] = "unknown"
                                THEN "registered" ELSE stored[u]]
  /\ UNCHANGED <<translated, jobVars, bootVars, request, spent>>

(* POST sync/:runId/start: any existing run, whatever its status. *)
StartRange(c, r) ==
  /\ request[c].at = "idle"
  /\ run[r].stage = "range"
  /\ Tell(c, [NoRequest EXCEPT !.at = "enqueue", !.run = r])
  /\ UNCHANGED <<rowVars, jobVars, bootVars>>

EnqueueJob(c) ==
  /\ request[c].at = "enqueue"
  /\ \E j \in Jobs :
       /\ FreshJob(j)
       /\ job' = [job EXCEPT ![j] = [NoSync EXCEPT !.run = request[c].run, !.row = "waiting"]]
       /\ Tell(c, [request[c] EXCEPT !.at = "mark", !.job = j])
  /\ UNCHANGED <<rowVars, modJob, bootVars, spent>>

(* The row learns its job only now, whatever the job has done meanwhile. *)
MarkQueued(c) ==
  /\ request[c].at = "mark"
  /\ run' = [run EXCEPT ![request[c].run].status = "queued",
                        ![request[c].run].job = request[c].job]
  /\ Answer(c, request[c].run)
  /\ UNCHANGED <<stored, translated, jobVars, bootVars, spent>>

(* requestJobStop of a per-mod job. *)
StopMod(m) ==
  [m EXCEPT !.row  = IF @ = "waiting" THEN "over" ELSE @,
            !.snap = IF m.row \in {"waiting", "active", "dead"} THEN "cancelled" ELSE @]

(* POST sync/:runId/stop reads the row, stops the per-mod jobs it lists as  *)
(* running, then the job it names, if it names one.                         *)
StopRun(c, r) ==
  /\ request[c].at = "idle"
  /\ Spend("stops")
  /\ run[r].stage # "none"
  /\ modJob' = [j \in Jobs |-> [u \in Units |->
       IF job[j].run = r /\ run[r].stage = "tm" /\ job[j].mods[u] = "running"
       THEN StopMod(modJob[j][u]) ELSE modJob[j][u]]]
  /\ Tell(c, IF run[r].job = NoJob THEN NoRequest
             ELSE [NoRequest EXCEPT !.at = "stopJob", !.run = r, !.job = run[r].job])
  /\ UNCHANGED <<rowVars, job, bootVars>>

(* A waiting row is removed, or was claimed in between and fails unexecuted; *)
(* an active one is aborted.                                                 *)
StopJob(c) ==
  /\ request[c].at = "stopJob"
  /\ LET j == request[c].job IN
       \/ /\ job[j].row = "waiting"
          /\ job' = [job EXCEPT ![j].row = "removed"]
       \/ /\ job[j].row = "waiting" /\ worker = "up"
          /\ job' = [job EXCEPT ![j].row = "failed", ![j].hook = "failed"]
       \/ /\ job[j].row = "active"
          /\ job' = [job EXCEPT ![j].cut = job[j].at # "dead"]
       \/ /\ job[j].row \notin Live
          /\ UNCHANGED job
  /\ Tell(c, NoRequest)
  /\ UNCHANGED <<rowVars, modJob, bootVars, spent>>

---------------------------------------------------------------------------
(* runVortexSyncJob *)

Claim(j) ==
  /\ worker = "up"
  /\ job[j].row = "waiting"
  /\ Busy < CpuSlots
  /\ job' = [job EXCEPT ![j].row = "active", ![j].at = "begin"]
  /\ UNCHANGED <<rowVars, modJob, bootVars, request, spent>>

(* A return value completes the row, an error fails it. *)
Return(j, status) ==
  /\ SetStatus(job[j].run, status)
  /\ JobTo(j, "returned")
Throw(j) ==
  /\ SetStatus(job[j].run, "failed")
  /\ JobTo(j, "thrown")

(* Reads the row with its plan, then writes running and its own id.  A     *)
(* range starts on its units, a fan-out on the mods of the group.          *)
Begin(j) ==
  /\ job[j].at = "begin"
  /\ LET r     == job[j].run
         stage == run[r].stage
         work  == CASE stage = "range" -> run[r].units
                    [] stage = "tm"    -> CurrentMods
                    [] OTHER           -> {}
         first == CASE stage = "range" -> "import"
                    [] stage = "tm"    -> "next"
                    [] OTHER           -> "export"
         mine  == [u \in Units |-> IF u \in work THEN "queued" ELSE "none"]
     IN  \/ /\ stage = "tm" => work # {}
            /\ stage = "tm" \/ ~job[j].cut
            /\ run' = [run EXCEPT ![r].status = "running", ![r].job = j]
            /\ job' = [job EXCEPT ![j].at = first, ![j].mods = mine]
         \/ /\ stage # "tm" /\ job[j].cut
            /\ run' = [run EXCEPT ![r].status = "cancelled", ![r].job = j]
            /\ JobTo(j, "returned")
         \/ /\ stage = "tm" /\ work = {}      \* No mods in Vortex group for this stage
            /\ run' = [run EXCEPT ![r].status = "failed", ![r].job = j]
            /\ JobTo(j, "thrown")
  /\ UNCHANGED <<stored, translated, modJob, bootVars, request, spent>>

(* runImportStage takes one unit after the other; one that another job of   *)
(* this process imports makes runModImport throw.                           *)
Importing(u) == \E k \in Jobs : job[k].at = "import" /\ job[k].mods[u] = "running"
StartImport(j, u) ==
  /\ job[j].at = "import"
  /\ job[j].mods[u] = "queued"
  /\ With(j, "running") = {}
  /\ \/ /\ stored[u] = "imported"
        /\ Entering(j, u, "completed", "import")
        /\ UNCHANGED run
     \/ /\ stored[u] # "imported" /\ ~Importing(u)
        /\ Entering(j, u, "running", "import")
        /\ UNCHANGED run
     \/ /\ stored[u] # "imported" /\ Importing(u)
        /\ Throw(j)
  /\ UNCHANGED <<stored, translated, modJob, bootVars, request, spent>>

EndImport(j, u) ==
  /\ job[j].at = "import"
  /\ job[j].mods[u] = "running"
  /\ Entering(j, u, "completed", "import")
  /\ \/ /\ stored' = [stored EXCEPT ![u] = "imported"]
        /\ UNCHANGED spent
     \/ /\ stored' = [stored EXCEPT ![u] = "cut"]     \* paused or cancelled on the Mods page
        /\ Fault
  /\ UNCHANGED <<run, translated, modJob, bootVars, request>>

(* Mutant of EndStage: the import is not waited for. *)
EndStageEarly(j) ==
  /\ job[j].at = "import"
  /\ Return(j, IF job[j].cut THEN "cancelled" ELSE "completed")
  /\ UNCHANGED <<stored, translated, modJob, bootVars, request, spent>>

(* All units are in: the cancel is looked at, then carry links what came in, *)
(* which nothing here depends on and no Stop interrupts.                     *)
EndStage(j) ==
  /\ job[j].at = "import"
  /\ With(j, "queued") \cup With(j, "running") = {}
  /\ Return(j, IF job[j].cut THEN "cancelled" ELSE "completed")
  /\ UNCHANGED <<stored, translated, modJob, bootVars, request, spent>>

(* runExportStage: an aborted export, or one without mods, throws. *)
Export(j) ==
  /\ job[j].at = "export"
  /\ IF job[j].cut \/ CurrentMods = {} THEN Throw(j) ELSE Return(j, "completed")
  /\ UNCHANGED <<stored, translated, modJob, bootVars, request, spent>>

StageThrows(j) ==
  /\ job[j].at \in {"import", "export", "next", "guarded", "poll"}
  /\ Throw(j)
  /\ Fault
  /\ UNCHANGED <<stored, translated, modJob, bootVars, request>>

---------------------------------------------------------------------------
(* runFanOutStage: one mod at a time *)

(* 409 guard: an unfinished, not yet settled job of this kind for the mod. *)
IsBusy(u) ==
  \E j \in Jobs : modJob[j][u].row \in {"waiting", "active", "dead"} /\ modJob[j][u].snap = "running"

(* The guard also discards a waiting row whose snapshot is gone. *)
GuardMod(j, u) ==
  /\ job[j].at = "next"
  /\ ~job[j].cut
  /\ job[j].mods[u] = "queued"
  /\ modJob' = [k \in Jobs |-> [modJob[k] EXCEPT ![u].row =
                  IF @ = "waiting" /\ modJob[k][u].snap # "running" THEN "over" ELSE @]]
  /\ IF IsBusy(u) THEN Entering(j, u, "skipped", "next") ELSE Entering(j, u, "guarded", "guarded")
  /\ UNCHANGED <<rowVars, bootVars, request, spent>>

EnqueueMod(j, u) ==
  /\ job[j].at = "guarded"
  /\ job[j].mods[u] = "guarded"
  /\ modJob' = [modJob EXCEPT ![j][u] = [row |-> "waiting", snap |-> "running"]]
  /\ \/ Entering(j, u, "running", "poll") /\ UNCHANGED <<run, spent>>
     \/ Throw(j) /\ Fault            \* enqueued, and the row could not be saved
  /\ UNCHANGED <<stored, translated, bootVars, request>>

(* Mutant of Poll: the mod's job is not told. *)
PollSilently(j, u) ==
  /\ job[j].at = "poll"
  /\ job[j].mods[u] = "running"
  /\ LET snap == modJob[j][u].snap IN
       IF job[j].cut
       THEN Entering(j, u, "cancelled", "next")
       ELSE /\ snap # "running"
            /\ Entering(j, u, IF snap = "none" THEN "failed" ELSE snap, "next")
  /\ UNCHANGED <<rowVars, modJob, bootVars, request, spent>>

(* A stopped stage stops the mod's job; a snapshot that vanished is a       *)
(* failure; otherwise the job is followed until its snapshot is final.      *)
Poll(j, u) ==
  /\ job[j].at = "poll"
  /\ job[j].mods[u] = "running"
  /\ LET snap == modJob[j][u].snap IN
       IF job[j].cut
       THEN /\ modJob' = [modJob EXCEPT ![j][u] = StopMod(@)]
            /\ Entering(j, u, "cancelled", "next")
       ELSE /\ snap # "running"
            /\ Entering(j, u, IF snap = "none" THEN "failed" ELSE snap, "next")
            /\ UNCHANGED modJob
  /\ UNCHANGED <<rowVars, bootVars, request, spent>>

(* The mods a stopped stage has not come to. *)
CancelRest(j) ==
  /\ job[j].at = "next"
  /\ job[j].cut
  /\ With(j, "queued") # {}
  /\ job' = [job EXCEPT ![j].mods = [u \in Units |-> IF @[u] = "queued" THEN "cancelled" ELSE @[u]]]
  /\ UNCHANGED <<rowVars, modJob, bootVars, request, spent>>

(* Mutant of EndFanOut: only a cancelled mod spoils the stage. *)
EndFanOutLenient(j) ==
  /\ job[j].at = "next"
  /\ With(j, "queued") = {}
  /\ Return(j, IF With(j, "cancelled") # {} THEN "cancelled" ELSE "completed")
  /\ UNCHANGED <<stored, translated, modJob, bootVars, request, spent>>

(* Mutant of EndFanOut: a stage with a skipped mod is called skipped. *)
EndFanOutSkipped(j) ==
  /\ job[j].at = "next"
  /\ With(j, "queued") = {}
  /\ Return(j, IF With(j, "cancelled") # {} THEN "cancelled"
               ELSE IF With(j, "failed") # {} THEN "failed"
               ELSE IF With(j, "skipped") # {} THEN "skipped" ELSE "completed")
  /\ UNCHANGED <<stored, translated, modJob, bootVars, request, spent>>

EndFanOut(j) ==
  /\ job[j].at = "next"
  /\ With(j, "queued") = {}
  /\ Return(j, IF With(j, "cancelled") # {} THEN "cancelled"
               ELSE IF With(j, "failed") # {} THEN "failed" ELSE "completed")
  /\ UNCHANGED <<stored, translated, modJob, bootVars, request, spent>>

---------------------------------------------------------------------------
(* The per-mod jobs, on the same queue *)

ClaimMod(j, u) ==
  /\ worker = "up"
  /\ modJob[j][u].row = "waiting"
  /\ Busy < CpuSlots
  /\ modJob' = [modJob EXCEPT ![j][u].row = "active",
                              ![j][u].snap = IF @ = "none" THEN "running" ELSE @]
  /\ UNCHANGED <<rowVars, job, bootVars, request, spent>>

(* An aborted job ends cancelled, any other completes or fails. *)
EndMod(j, u, verdict) ==
  /\ modJob[j][u].row = "active"
  /\ verdict = "cancelled" <=> modJob[j][u].snap = "cancelled"
  /\ modJob' = [modJob EXCEPT ![j][u] = [row |-> "over", snap |-> verdict]]
  /\ translated' = IF verdict = "completed" THEN translated \cup {u} ELSE translated
  /\ UNCHANGED <<run, stored, job, bootVars, request, spent>>

(* Nobody refreshes the snapshot of a job that waits for hours, as one does *)
(* only when the worker is away or its slots are held.                      *)
SnapshotExpires(j, u) ==
  /\ worker # "up" \/ Busy >= CpuSlots
  /\ modJob[j][u].row = "waiting"
  /\ modJob[j][u].snap = "running"
  /\ modJob' = [modJob EXCEPT ![j][u].snap = "none"]
  /\ UNCHANGED <<rowVars, job, bootVars, request, spent>>

---------------------------------------------------------------------------
(* How jobs end in BullMQ, and the hooks that close their runs *)

(* BullMQ moves the row if the run still holds its lock. *)
Settle(j) ==
  /\ job[j].at \in {"returned", "thrown"}
  /\ job' = [job EXCEPT ![j].at = "idle",
                        ![j].row  = IF @ # "active" THEN @
                                    ELSE IF job[j].at = "thrown" THEN "failed" ELSE "completed",
                        ![j].hook = IF job[j].at = "thrown" /\ job[j].row = "active"
                                    THEN "failed" ELSE @]
  /\ UNCHANGED <<rowVars, modJob, bootVars, request, spent>>

FailRow(j, at) == job' = [job EXCEPT ![j].row = "failed", ![j].hook = "failed", ![j].at = at]

(* The stalled check: of a dead run, or of a live one whose event loop was  *)
(* blocked for longer than the lock, and which goes on.                     *)
StallDead(j) ==
  /\ worker = "up"
  /\ job[j].row = "active" /\ job[j].at = "dead"
  /\ FailRow(j, "idle")
  /\ UNCHANGED <<rowVars, modJob, bootVars, request, spent>>

StallLive(j) ==
  /\ job[j].row = "active" /\ job[j].at \notin {"idle", "dead"}
  /\ FailRow(j, job[j].at)
  /\ Fault
  /\ UNCHANGED <<rowVars, modJob, bootVars, request>>

StallMod(j, u) ==
  /\ worker = "up"
  /\ modJob[j][u].row = "dead"
  /\ modJob' = [modJob EXCEPT ![j][u].row = "over"]
  /\ UNCHANGED <<rowVars, job, bootVars, request, spent>>

(* Mutant of HookReads: only a run that is queued is closed. *)
HookReadsQueued(j) ==
  /\ job[j].hook = "failed"
  /\ job' = [job EXCEPT ![j].hook =
               IF run[job[j].run].status = "queued" THEN "closing" ELSE "none"]
  /\ UNCHANGED <<rowVars, modJob, bootVars, request, spent>>

(* failVortexRunForJob: reads the run, then fails it. *)
HookReads(j) ==
  /\ job[j].hook = "failed"
  /\ job' = [job EXCEPT ![j].hook =
               IF run[job[j].run].status \in Active THEN "closing" ELSE "none"]
  /\ UNCHANGED <<rowVars, modJob, bootVars, request, spent>>

HookCloses(j) ==
  /\ job[j].hook = "closing"
  /\ SetStatus(job[j].run, "failed")
  /\ job' = [job EXCEPT ![j].hook = "none"]
  /\ UNCHANGED <<stored, translated, modJob, bootVars, request, spent>>

Crash ==
  /\ worker # "down"
  /\ Fault
  /\ worker' = "down"
  /\ unclosed' = {}
  /\ job' = [j \in Jobs |->
       [job[j] EXCEPT !.at   = IF @ = "idle" \/ job[j].row # "active" THEN "idle" ELSE "dead",
                      !.hook = "none", !.cut = FALSE]]
  /\ modJob' = [j \in Jobs |-> [u \in Units |->
       [modJob[j][u] EXCEPT !.row = IF @ = "active" THEN "dead" ELSE @]]]
  /\ UNCHANGED <<rowVars, request>>

(* recoverInterruptedVortexRuns: the unfinished runs that name a job. *)
Boot ==
  /\ worker = "down"
  /\ worker' = "booting"
  /\ unclosed' = {<<r, run[r].job>> : r \in {r \in ActiveRuns : run[r].job # NoJob}}
  /\ UNCHANGED <<rowVars, jobVars, request, spent>>

(* Mutant of CloseOrSpare: only an active row counts as live. *)
CloseOrSpareActive(p) ==
  /\ worker = "booting"
  /\ p \in unclosed
  /\ unclosed' = unclosed \ {p}
  /\ IF job[p[2]].row = "active" THEN UNCHANGED run ELSE SetStatus(p[1], "failed")
  /\ UNCHANGED <<stored, translated, jobVars, worker, request, spent>>

(* A run whose job is still queued or active is left alone. *)
CloseOrSpare(p) ==
  /\ worker = "booting"
  /\ p \in unclosed
  /\ unclosed' = unclosed \ {p}
  /\ IF job[p[2]].row \in Live THEN UNCHANGED run ELSE SetStatus(p[1], "failed")
  /\ UNCHANGED <<stored, translated, jobVars, worker, request, spent>>

Serve ==
  /\ worker = "booting"
  /\ unclosed = {}
  /\ worker' = "up"
  /\ UNCHANGED <<rowVars, jobVars, unclosed, request, spent>>

---------------------------------------------------------------------------
(* The server as a whole *)

(* A group that was synced with some units before, or a new one. *)
VortexInit ==
  /\ run = [r \in Runs |-> NoRow]
  /\ job = [j \in Jobs |-> NoSync]
  /\ modJob = [j \in Jobs |-> [u \in Units |-> NoMod]]
  /\ stored = [u \in Units |-> IF u \in Synced THEN "imported" ELSE "unknown"]
  /\ translated = Synced
  /\ worker = "up"
  /\ unclosed = {}
  /\ request = [c \in Callers |-> NoRequest]
  /\ spent = [b \in Budget |-> 0]

Press(c, stage) == Spend("starts") /\ CheckStage(c, stage)

RequestStep(c) == EnqueueJob(c) \/ MarkQueued(c) \/ StopJob(c)
StageStep(j) ==
  \/ Begin(j)
  \/ \E u \in Units : StartImport(j, u) \/ EndImport(j, u)
  \/ EndStage(j)
  \/ Export(j)
  \/ \E u \in Units : GuardMod(j, u) \/ EnqueueMod(j, u) \/ Poll(j, u)
  \/ CancelRest(j)
  \/ EndFanOut(j)
  \/ Settle(j)
ModEnds(j, u) == \E verdict \in Ended : EndMod(j, u, verdict)
HookStep(j) == HookReads(j) \/ HookCloses(j)
BootStep == Boot \/ Serve \/ \E p \in Runs \X Jobs : CloseOrSpare(p)

ServerNext ==
  \/ \E c \in Buttons, stage \in ButtonStages : Press(c, stage)
  \/ \E c \in Buttons, r \in Runs : StopRun(c, r)
  \/ \E c \in Callers : RequestStep(c)
  \/ \E j \in Jobs :
       \/ Claim(j) \/ StageStep(j) \/ StageThrows(j)
       \/ HookStep(j) \/ StallDead(j) \/ StallLive(j)
       \/ \E u \in Units : ClaimMod(j, u) \/ ModEnds(j, u) \/ SnapshotExpires(j, u) \/ StallMod(j, u)
  \/ BootStep
  \/ Crash

(* Without the agent's cycle: ranges are planned and started, once or more  *)
(* often, and TM is, in any order.                                          *)
ClientNext ==
  \/ PlanRange(Units)
  \/ \E r \in Runs : Spend("starts") /\ StartRange("agent", r)
  \/ Press("agent", "tm")

(* The API and the worker's event loop take their next step, the container  *)
(* is restarted, an expired lock is noticed, a handler ends, and a snapshot *)
(* nobody refreshes expires.  Nobody has to press a button.                 *)
ServerFairness ==
  /\ \A c \in Callers : WF_runsVars(RequestStep(c))
  /\ WF_runsVars(BootStep)
  /\ \A j \in Jobs :
       /\ WF_runsVars(Claim(j)) /\ WF_runsVars(StageStep(j)) /\ WF_runsVars(HookStep(j)) /\ WF_runsVars(StallDead(j))
       /\ \A u \in Units :
            /\ WF_runsVars(ClaimMod(j, u)) /\ WF_runsVars(ModEnds(j, u))
            /\ WF_runsVars(SnapshotExpires(j, u)) /\ WF_runsVars(StallMod(j, u))

StagesSpec == VortexInit /\ [][ServerNext \/ ClientNext]_runsVars /\ ServerFairness

---------------------------------------------------------------------------
(* Properties *)

(* What a completed run says is so.  A range has taken in every unit its    *)
(* plan names, or the Mods page cut the import short: a stopped, failed,     *)
(* stalled or doubly started run may not pass for it.                        *)
RangesImported ==
  \A r \in Runs :
    (run[r].stage = "range" /\ run[r].status = "completed") => run[r].units \subseteq CurrentMods

(* And a fan-out has an end for every mod: completed in truth, or left to a  *)
(* job that was there before.                                                *)
FanOutsDone ==
  \A r \in Runs, u \in Units :
    (run[r].stage = "tm" /\ run[r].status = "completed") =>
      \/ job[run[r].job].mods[u] \in {"none", "skipped"}
      \/ job[run[r].job].mods[u] = "completed" /\ u \in translated

(* Stop reaches the mods: once a stopped fan-out job has returned, none of  *)
(* its per-mod jobs runs on with a live snapshot, whichever mod it was at   *)
(* when the Stop came in between its awaits; but for the jobs it had lost   *)
(* sight of when their snapshot expired.                                    *)
StopReachesMods ==
  \A j \in Jobs :
    (job[j].at = "returned" /\ With(j, "cancelled") # {}) =>
      \A u \in Units :
        job[j].mods[u] \in {"completed", "cancelled"} =>
          ~(modJob[j][u].row \in Live /\ modJob[j][u].snap = "running")

(* Recovery at boot fails no run whose job is still to be run, as long as   *)
(* the run was started once: its list is older than what it finds.          *)
StartedOnce(r) == \A j, k \in Jobs : (job[j].run = r /\ job[k].run = r) => j = k
RecoverySparesLive ==
  [][\A r \in Runs :
       (worker = "booting" /\ run[r].status # "failed" /\ run'[r].status = "failed"
        /\ StartedOnce(r)) =>
          job[run[r].job].row \notin Live]_run

(* A run that is running, or queued for a live job, ends or loses its job:  *)
(* across crashes, stalls and throws, and with every slot of the queue held *)
(* by stages that wait for jobs behind them.                                *)
InHand(r) ==
  \/ run[r].status = "running"
  \/ run[r].status = "queued" /\ \E j \in Jobs : run[r].job = j /\ job[j].row \in Live
RunsEnd == \A r \in Runs : InHand(r) ~> ~InHand(r)

(* "stop a run" (vortexStages.ts:2): a run that is stopped ends.            *)
StopEndsRun ==
  \A r \in Runs, c \in Buttons :
    (request[c].at = "stopJob" /\ request[c].run = r) ~> run[r].status \in Ended

===========================================================================
