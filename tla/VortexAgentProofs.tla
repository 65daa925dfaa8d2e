-------------------------- MODULE VortexAgentProofs -------------------------
(*************************************************************************)
(* Proofs about VortexAgent with the server it works with, for every     *)
(* group, every number of requests, runs, jobs and slots, and as many    *)
(* starts, Stops and faults as there may be.                             *)
(*************************************************************************)
EXTENDS VortexAgent, WellFoundedInduction, TLAPS

---------------------------------------------------------------------------
(* The invariant *)

RunsTyped     == run \in [Runs -> Row]
JobsTyped     == job \in [Jobs -> SyncJob]
StoredTyped   == stored \in [Units -> Stored]
RequestsTyped == request \in [Callers -> Request]
ModsTyped     == modJob \in [Jobs -> [Units -> ModJob]]
Typed == RunsTyped /\ JobsTyped /\ StoredTyped /\ RequestsTyped

Status   == Active \cup Ended \cup {"planning"}
In       == {"cut", "imported"}
Pending  == {"queued", "running"}
Asking   == {"enqueue", "mark"}
Elsewhere == {"next", "guarded", "poll", "export"}

(* A job that exists names a run that exists; while it imports, every unit  *)
(* of the run's plan is still to be done or is in; no other stage of a job   *)
(* works on a range.                                                         *)
JobOK(j) ==
  /\ job[j].row = "none" => job[j].at = "idle" /\ job[j].run = NoRun
  /\ job[j].row # "none" => job[j].run \in Runs /\ run[job[j].run].stage # "none"
  /\ job[j].at = "import" =>
       /\ run[job[j].run].stage = "range"
       /\ \A u \in run[job[j].run].units : job[j].mods[u] \in Pending \/ stored[u] \in In
  /\ job[j].at \in Elsewhere => run[job[j].run].stage # "range"
JobsOK == \A j \in Jobs : JobOK(j)

(* So does a request that is about to give a run its job. *)
RequestsOK ==
  \A c \in Callers :
    request[c].at \in Asking => request[c].run \in Runs /\ run[request[c].run].stage # "none"

(* The run that is being uploaded is the agent's own: nobody asked for it to  *)
(* be started, and no job names it.                                           *)
UploadApart ==
  agent.at = "upload" =>
    /\ agent.run \in Runs
    /\ run[agent.run].stage = "range" /\ run[agent.run].status # "completed"
    /\ \A j \in Jobs : job[j].run # agent.run
    /\ \A c \in Callers : request[c].at \in Asking => request[c].run # agent.run

(* What a cycle found is in its plan, is to be uploaded or was refused, until *)
(* the completed range has brought it in.                                     *)
CycleCovered ==
  /\ agent.at = "upload" =>
       /\ agent.inv \subseteq run[agent.run].units \cup agent.todo \cup missed
       /\ ~agent.sent => agent.inv \subseteq CurrentMods \cup agent.todo \cup missed
  /\ agent.at \in {"start", "wait"} =>
       /\ agent.run \in Runs /\ run[agent.run].stage = "range"
       /\ agent.inv \subseteq run[agent.run].units \cup missed
  /\ agent.at \in {"tm", "waitTm"} => agent.inv \subseteq CurrentMods \cup missed

ServerInv == JobsOK /\ RequestsOK /\ RangesImported
CycleInv  == UploadApart /\ CycleCovered /\ SyncedIsStored
IInv == Typed /\ ModsTyped /\ AgentTypeOK /\ ServerInv /\ CycleInv

---------------------------------------------------------------------------
(* What most steps of the server leave alone *)

JobKeeps(j) ==
  /\ job'[j].run = job[j].run
  /\ job'[j].row = "none" <=> job[j].row = "none"
  /\ job[j].row = "none" /\ job[j].at = "idle" => job'[j].at = "idle"
  /\ job'[j].at = "import" =>
       /\ job[j].at = "import"
       /\ \A u \in Units : job[j].mods[u] \in Pending =>
            job'[j].mods[u] \in Pending \/ stored'[u] \in In
  /\ job'[j].at \in Elsewhere => job[j].at \in Elsewhere
RunKeeps(r) ==
  /\ run'[r].stage = run[r].stage
  /\ run'[r].units = run[r].units
  /\ run'[r].status = "completed" => run[r].status = "completed"
RequestKeeps(c) ==
  request'[c].at \in Asking => request[c].at \in Asking /\ request'[c].run = request[c].run
StoredKeeps == \A u \in Units : stored[u] \in In => stored'[u] \in In
Keeps ==
  /\ \A j \in Jobs : JobKeeps(j)
  /\ \A r \in Runs : RunKeeps(r)
  /\ \A c \in Callers : RequestKeeps(c)
  /\ StoredKeeps

(* A step that sets the status of one run leaves stage and plan of every run. *)
LEMMA StatusStep ==
  ASSUME RunsTyped, NEW r, NEW s \in Status, SetStatus(r, s)
  PROVE  /\ RunsTyped'
         /\ \A q \in Runs : /\ run'[q].stage = run[q].stage
                            /\ run'[q].units = run[q].units
                            /\ run'[q].status = IF q = r THEN s ELSE run[q].status
  BY DEF RunsTyped, SetStatus, Row, Status

(* Where a job is after a step that says where it goes. *)
Hook == {"none", "failed", "closing"}
JobAt(j, row, step, mods) ==
  \A k \in Jobs :
    /\ job'[k].run  = job[k].run
    /\ job'[k].row  = IF k = j THEN row ELSE job[k].row
    /\ job'[k].at   = IF k = j THEN step ELSE job[k].at
    /\ job'[k].mods = IF k = j THEN mods ELSE job[k].mods

(* The constants a job's fields are set to are in their types.               *)
LEMMA EntriesAndSteps ==
  /\ Ended \cup {"running", "skipped", "guarded"} \subseteq Entry
  /\ {"begin", "import", "next", "guarded", "poll", "returned", "thrown"} \subseteq Step
  BY DEF Entry, Ended, Step

(* JobTo moves one job to another step of its handler.                       *)
LEMMA JobToStep ==
  ASSUME JobsTyped, NEW j \in Jobs, NEW s \in Step, JobTo(j, s)
  PROVE  JobsTyped' /\ JobAt(j, job[j].row, s, job[j].mods)
  BY DEF JobsTyped, JobTo, SyncJob, JobAt

(* Entering writes one unit's entry and moves the job on.                    *)
LEMMA EnteringStep ==
  ASSUME JobsTyped, NEW j \in Jobs, NEW u \in Units, NEW e \in Entry, NEW s \in Step,
         Entering(j, u, e, s)
  PROVE  /\ JobsTyped'
         /\ JobAt(j, job[j].row, s, [job[j].mods EXCEPT ![u] = e])
         /\ \A v \in Units : job'[j].mods[v] = IF v = u THEN e ELSE job[j].mods[v]
  BY DEF JobsTyped, Entering, SyncJob, JobAt

(* The queue row, the hook and the step of one job change together.          *)
LEMMA RowStep ==
  ASSUME JobsTyped, NEW j \in Jobs, NEW row \in QueueRow, NEW s \in Step, NEW hook \in Hook,
         job' = [job EXCEPT ![j].row = row, ![j].hook = hook, ![j].at = s]
  PROVE  JobsTyped' /\ JobAt(j, row, s, job[j].mods)
  BY DEF JobsTyped, SyncJob, JobAt, Hook

(* A claim changes the row and the step of one job.                          *)
LEMMA ClaimStep ==
  ASSUME JobsTyped, NEW j \in Jobs, NEW row \in QueueRow, NEW s \in Step,
         job' = [job EXCEPT ![j].row = row, ![j].at = s]
  PROVE  JobsTyped' /\ JobAt(j, row, s, job[j].mods)
  BY DEF JobsTyped, SyncJob, JobAt

(* Settling a job changes its row, its hook and its step.                    *)
LEMMA SettleStep ==
  ASSUME JobsTyped, NEW j \in Jobs, NEW row \in QueueRow, NEW s \in Step, NEW hook \in Hook,
         job' = [job EXCEPT ![j].at = s, ![j].row = row, ![j].hook = hook]
  PROVE  JobsTyped' /\ JobAt(j, row, s, job[j].mods)
  BY DEF JobsTyped, SyncJob, JobAt, Hook

(* Steps that only move a job on. *)
LEMMA JobMoves ==
  ASSUME Typed, ModsTyped, NEW j \in Jobs,
         \/ Claim(j) \/ CancelRest(j) \/ Settle(j) \/ HookReads(j) \/ StallDead(j) \/ StallLive(j)
         \/ \E u \in Units : GuardMod(j, u) \/ Poll(j, u)
  PROVE  Typed' /\ Keeps
  <1>a. ASSUME UNCHANGED <<rowVars, request>>, \A k \in Jobs : JobKeeps(k), JobsTyped'
        PROVE  Typed' /\ Keeps
    BY <1>a DEF Typed, rowVars, RunsTyped, StoredTyped, RequestsTyped, Keeps, RunKeeps,
                RequestKeeps, StoredKeeps
  <1>b. JobsTyped
    BY DEF Typed
  <1>c. ASSUME NEW row, NEW step, JobAt(j, row, step, job[j].mods), row = "none" <=> job[j].row = "none",
               job[j].row = "none" /\ job[j].at = "idle" => step = "idle",
               step # "import", step \notin Elsewhere
        PROVE  \A k \in Jobs : JobKeeps(k)
    BY <1>c DEF JobAt, JobKeeps, Pending
  <1>1. CASE Claim(j)
    <2>1. JobsTyped' /\ JobAt(j, "active", "begin", job[j].mods)
      BY <1>1, <1>b, ClaimStep DEF Claim, QueueRow, Live, Step
    <2> QED
      BY <1>1, <1>a, <1>c, <2>1 DEF Claim, Elsewhere
  <1>2. CASE CancelRest(j)
    <2>1. JobsTyped'
      BY <1>2, <1>b DEF JobsTyped, CancelRest, SyncJob, Entry, Ended
    <2>2. \A k \in Jobs : JobKeeps(k)
      BY <1>2, <1>b DEF JobsTyped, CancelRest, SyncJob, JobKeeps, Pending, Elsewhere
    <2> QED
      BY <1>2, <1>a, <2>1, <2>2 DEF CancelRest
  <1>3. CASE Settle(j)
    <2> DEFINE row  == IF job[j].row # "active" THEN job[j].row
                       ELSE IF job[j].at = "thrown" THEN "failed" ELSE "completed"
               hook == IF job[j].at = "thrown" /\ job[j].row = "active" THEN "failed"
                       ELSE job[j].hook
    <2>1. row \in QueueRow /\ hook \in Hook /\ (row = "none" <=> job[j].row = "none")
      BY <1>b DEF JobsTyped, SyncJob, QueueRow, Live, Hook
    <2>2. job' = [job EXCEPT ![j].at = "idle", ![j].row = row, ![j].hook = hook]
      BY <1>3 DEF Settle
    <2> HIDE DEF row, hook
    <2>3. JobsTyped' /\ JobAt(j, row, "idle", job[j].mods)
      BY <1>b, <2>1, <2>2, SettleStep DEF Step
    <2> QED
      BY <1>3, <1>a, <1>c, <2>1, <2>3 DEF Settle, Elsewhere
  <1>4. CASE HookReads(j)
    <2>1. JobsTyped'
      BY <1>4, <1>b DEF JobsTyped, HookReads, SyncJob
    <2>2. \A k \in Jobs : JobKeeps(k)
      BY <1>4, <1>b DEF JobsTyped, HookReads, SyncJob, JobKeeps
    <2> QED
      BY <1>4, <1>a, <2>1, <2>2 DEF HookReads
  <1>5. CASE StallDead(j)
    <2>1. JobsTyped' /\ JobAt(j, "failed", "idle", job[j].mods)
      BY <1>5, <1>b, RowStep DEF StallDead, FailRow, QueueRow, Step, Hook
    <2> QED
      BY <1>5, <1>a, <1>c, <2>1 DEF StallDead, Elsewhere
  <1>6. CASE StallLive(j)
    <2>1. job[j].at \in Step
      BY <1>b DEF JobsTyped, SyncJob
    <2>2. JobsTyped' /\ JobAt(j, "failed", job[j].at, job[j].mods)
      BY <1>6, <1>b, <2>1, RowStep DEF StallLive, FailRow, QueueRow, Hook
    <2>3. \A k \in Jobs : JobKeeps(k)
      BY <1>6, <2>2 DEF StallLive, JobAt, JobKeeps
    <2> QED
      BY <1>6, <1>a, <2>2, <2>3 DEF StallLive
  <1>7. ASSUME NEW u \in Units, GuardMod(j, u)
        PROVE  Typed' /\ Keeps
    <2>1. PICK e \in {"skipped", "guarded"}, s \in {"next", "guarded"} : Entering(j, u, e, s)
      BY <1>7 DEF GuardMod
    <2>2. JobsTyped' /\ JobAt(j, job[j].row, s, [job[j].mods EXCEPT ![u] = e])
      BY <1>b, <2>1, EnteringStep, EntriesAndSteps
    <2>3. \A k \in Jobs : JobKeeps(k)
      BY <1>7, <2>2 DEF GuardMod, JobAt, JobKeeps, Elsewhere
    <2> QED
      BY <1>7, <1>a, <2>2, <2>3 DEF GuardMod
  <1>8. ASSUME NEW u \in Units, Poll(j, u)
        PROVE  Typed' /\ Keeps
    <2>a. modJob[j][u].snap \in Ended \cup {"none", "running"}
      BY DEF ModsTyped, ModJob
    <2>1. PICK e \in Ended : Entering(j, u, e, "next")
      BY <1>8, <2>a DEF Poll, Ended
    <2>2. JobsTyped' /\ JobAt(j, job[j].row, "next", [job[j].mods EXCEPT ![u] = e])
      BY <1>b, <2>1, EnteringStep, EntriesAndSteps
    <2>3. \A k \in Jobs : JobKeeps(k)
      BY <1>8, <2>2 DEF Poll, JobAt, JobKeeps, Elsewhere
    <2> QED
      BY <1>8, <1>a, <2>2, <2>3 DEF Poll
  <1> QED
    BY <1>1, <1>2, <1>3, <1>4, <1>5, <1>6, <1>7, <1>8


(* The worker's crash: handlers are gone, rows and runs stay.                *)
LEMMA CrashMoves ==
  ASSUME Typed, Crash
  PROVE  Typed' /\ Keeps
  <1> DEFINE step(k) == IF job[k].at = "idle" \/ job[k].row # "active" THEN "idle" ELSE "dead"
  <1>1. job' = [k \in Jobs |-> [job[k] EXCEPT !.at = step(k), !.hook = "none", !.cut = FALSE]]
    BY DEF Crash
  <1>2. \A k \in Jobs : step(k) \in {"idle", "dead"} /\ (job[k].at = "idle" => step(k) = "idle")
    OBVIOUS
  <1> HIDE DEF step
  <1>3. JobsTyped'
    <2>1. \A k \in Jobs : step(k) \in Step
      BY <1>2 DEF Step
    <2> QED
      BY <1>1, <2>1 DEF Typed, JobsTyped, SyncJob
  <1>4. \A k \in Jobs : JobKeeps(k)
    BY <1>1, <1>2 DEF Typed, JobsTyped, SyncJob, JobKeeps, Elsewhere
  <1> QED
    BY <1>3, <1>4 DEF Crash, Typed, rowVars, RunsTyped, StoredTyped, RequestsTyped,
                      Keeps, RunKeeps, RequestKeeps, StoredKeeps
(* Steps that also write the run, or what is stored: no run is completed.   *)
LEMMA RunMoves ==
  ASSUME Typed, NEW j \in Jobs,
         \/ HookCloses(j) \/ StageThrows(j)
         \/ \E u \in Units : StartImport(j, u) \/ EndImport(j, u) \/ EnqueueMod(j, u)
  PROVE  Typed' /\ Keeps
  <1>a. RunsTyped /\ JobsTyped /\ StoredTyped /\ RequestsTyped
    BY DEF Typed
  <1>b. ASSUME RunsTyped', \A r \in Runs : RunKeeps(r), JobsTyped', \A k \in Jobs : JobKeeps(k),
               UNCHANGED <<stored, request>>
        PROVE  Typed' /\ Keeps
    BY <1>a, <1>b DEF Typed, StoredTyped, RequestsTyped, Keeps, RequestKeeps, StoredKeeps
  <1>c. ASSUME Throw(j), UNCHANGED <<stored, request>>, job[j].at # "idle"
        PROVE  Typed' /\ Keeps
    <2>1. RunsTyped' /\ \A r \in Runs : RunKeeps(r)
      BY <1>a, <1>c, StatusStep DEF Throw, RunKeeps, Status, Ended
    <2>2. JobsTyped' /\ JobAt(j, job[j].row, "thrown", job[j].mods)
      BY <1>a, <1>c, JobToStep, EntriesAndSteps DEF Throw
    <2>3. \A k \in Jobs : JobKeeps(k)
      BY <1>c, <2>2 DEF JobAt, JobKeeps, Elsewhere
    <2> QED
      BY <1>b, <1>c, <2>1, <2>2, <2>3
  <1>1. CASE HookCloses(j)
    <2>1. RunsTyped' /\ \A r \in Runs : RunKeeps(r)
      BY <1>a, <1>1, StatusStep DEF HookCloses, RunKeeps, Status, Ended
    <2>2. JobsTyped' /\ \A k \in Jobs : JobKeeps(k)
      BY <1>a, <1>1 DEF HookCloses, JobsTyped, SyncJob, JobKeeps
    <2> QED
      BY <1>1, <1>b, <2>1, <2>2 DEF HookCloses
  <1>2. CASE StageThrows(j)
    BY <1>2, <1>c DEF StageThrows
  <1>3. ASSUME NEW u \in Units, StartImport(j, u)
        PROVE  Typed' /\ Keeps
    <2>1. CASE Throw(j)
      BY <1>3, <1>c, <2>1 DEF StartImport
    <2>2. CASE UNCHANGED run /\ Entering(j, u, "running", "import")
      <3>1. /\ JobsTyped'
            /\ JobAt(j, job[j].row, "import", [job[j].mods EXCEPT ![u] = "running"])
            /\ \A v \in Units : job'[j].mods[v] = IF v = u THEN "running" ELSE job[j].mods[v]
        BY <1>a, <2>2, EnteringStep, EntriesAndSteps
      <3>2. \A k \in Jobs : JobKeeps(k)
        BY <1>a, <1>3, <3>1 DEF StartImport, JobAt, JobKeeps, Pending, Elsewhere
      <3> QED
        BY <1>3, <1>a, <1>b, <2>2, <3>1, <3>2 DEF StartImport, RunsTyped, RunKeeps
    <2>3. CASE UNCHANGED run /\ Entering(j, u, "completed", "import") /\ stored[u] = "imported"
      <3>1. /\ JobsTyped'
            /\ JobAt(j, job[j].row, "import", [job[j].mods EXCEPT ![u] = "completed"])
            /\ \A v \in Units : job'[j].mods[v] = IF v = u THEN "completed" ELSE job[j].mods[v]
        BY <1>a, <2>3, EnteringStep, EntriesAndSteps DEF Ended
      <3>2. \A k \in Jobs : JobKeeps(k)
        BY <1>a, <1>3, <2>3, <3>1
           DEF StartImport, JobAt, JobKeeps, Pending, Elsewhere, In
      <3> QED
        BY <1>3, <1>a, <1>b, <2>3, <3>1, <3>2 DEF StartImport, RunsTyped, RunKeeps
    <2> QED
      BY <1>3, <2>1, <2>2, <2>3 DEF StartImport
  <1>4. ASSUME NEW u \in Units, EndImport(j, u)
        PROVE  Typed' /\ Keeps
    <2>1. /\ JobsTyped'
          /\ JobAt(j, job[j].row, "import", [job[j].mods EXCEPT ![u] = "completed"])
          /\ \A v \in Units : job'[j].mods[v] = IF v = u THEN "completed" ELSE job[j].mods[v]
      BY <1>a, <1>4, EnteringStep, EntriesAndSteps DEF EndImport, Ended
    <2>2. PICK s \in In : stored' = [stored EXCEPT ![u] = s]
      BY <1>4 DEF EndImport, In
    <2>3. StoredTyped' /\ StoredKeeps /\ stored'[u] \in In
      BY <1>a, <2>2 DEF StoredTyped, StoredKeeps, Stored, In
    <2>4. \A k \in Jobs : JobKeeps(k)
      BY <1>a, <1>4, <2>1, <2>3
         DEF EndImport, JobAt, JobKeeps, Pending, Elsewhere
    <2> QED
      BY <1>4, <1>a, <2>1, <2>3, <2>4
         DEF EndImport, Typed, RunsTyped, RequestsTyped, Keeps, RunKeeps, RequestKeeps
  <1>5. ASSUME NEW u \in Units, EnqueueMod(j, u)
        PROVE  Typed' /\ Keeps
    <2>1. CASE Throw(j)
      BY <1>5, <1>c, <2>1 DEF EnqueueMod
    <2>2. CASE UNCHANGED run /\ Entering(j, u, "running", "poll")
      <3>1. JobsTyped' /\ JobAt(j, job[j].row, "poll", [job[j].mods EXCEPT ![u] = "running"])
        BY <1>a, <2>2, EnteringStep, EntriesAndSteps
      <3>2. \A k \in Jobs : JobKeeps(k)
        BY <1>5, <3>1 DEF EnqueueMod, JobAt, JobKeeps, Elsewhere
      <3> QED
        BY <1>5, <1>a, <1>b, <2>2, <3>1, <3>2 DEF EnqueueMod, RunsTyped, RunKeeps
    <2> QED
      BY <1>5, <2>1, <2>2 DEF EnqueueMod
  <1> QED
    BY <1>1, <1>2, <1>3, <1>4, <1>5

(* Requests and recovery. *)
LEMMA OtherMoves ==
  ASSUME Typed, BoundsAssumption,
         \/ \E c \in Callers : MarkQueued(c) \/ StopJob(c)
         \/ \E c \in Buttons, r \in Runs : StopRun(c, r)
         \/ \E p \in Runs \X Jobs : CloseOrSpare(p)
         \/ Boot \/ Serve
         \/ \E j \in Jobs, u \in Units :
              ClaimMod(j, u) \/ ModEnds(j, u) \/ SnapshotExpires(j, u) \/ StallMod(j, u)
  PROVE  Typed' /\ Keeps
  <1>a. RunsTyped /\ JobsTyped /\ StoredTyped /\ RequestsTyped
    BY DEF Typed
  <1>b. ASSUME RunsTyped', \A r \in Runs : RunKeeps(r), UNCHANGED <<stored, job>>,
               RequestsTyped', \A c \in Callers : RequestKeeps(c)
        PROVE  Typed' /\ Keeps
    BY <1>a, <1>b DEF Typed, StoredTyped, JobsTyped, Keeps, JobKeeps, StoredKeeps
  <1>c. ASSUME UNCHANGED <<run, job, stored, request>>
        PROVE  Typed' /\ Keeps
    BY <1>a, <1>b, <1>c DEF RunsTyped, RequestsTyped, RunKeeps, RequestKeeps
  <1>1. ASSUME NEW c \in Callers, MarkQueued(c)
        PROVE  Typed' /\ Keeps
    <2>1. request[c].job \in Jobs \cup {NoJob}
      BY <1>a DEF RequestsTyped, Request
    <2>a. PICK r, j : j \in Jobs \cup {NoJob}
                      /\ run' = [run EXCEPT ![r].status = "queued", ![r].job = j]
      BY <1>1, <2>1 DEF MarkQueued
    <2>c. /\ RunsTyped'
          /\ \A q \in Runs : /\ run'[q].stage = run[q].stage
                             /\ run'[q].units = run[q].units
                             /\ run'[q].status = IF q = r THEN "queued" ELSE run[q].status
      BY <1>a, <2>a DEF RunsTyped, Row, Active
    <2>2. RunsTyped' /\ \A q \in Runs : RunKeeps(q)
      BY <2>c DEF RunKeeps
    <2>3. RequestsTyped' /\ \A d \in Callers : RequestKeeps(d)
      BY <1>1, <1>a DEF MarkQueued, Answer, Tell, RequestsTyped, Request, NoRequest, NoJob,
                        RequestKeeps, Asking
    <2> QED
      BY <1>1, <1>b, <2>2, <2>3 DEF MarkQueued, jobVars
  <1>2. ASSUME NEW c \in Callers, StopJob(c)
        PROVE  Typed' /\ Keeps
    <2> DEFINE j == request[c].job
    <2>1. RequestsTyped' /\ \A d \in Callers : RequestKeeps(d)
      BY <1>2, <1>a DEF StopJob, Tell, RequestsTyped, Request, NoRequest, NoJob, NoRun,
                        RequestKeeps, Asking
    <2>2. RunsTyped' /\ (\A r \in Runs : RunKeeps(r)) /\ UNCHANGED stored
      BY <1>2, <1>a DEF StopJob, rowVars, RunsTyped, RunKeeps
    <2>3. JobsTyped' /\ \A k \in Jobs : JobKeeps(k)
      <3> HIDE DEF j
      <3>1. CASE job' = [job EXCEPT ![j].row = "removed"] /\ job[j].row = "waiting"
        BY <1>a, <3>1 DEF JobsTyped, SyncJob, QueueRow, JobKeeps
      <3>2. CASE job' = [job EXCEPT ![j].row = "failed", ![j].hook = "failed"] /\ job[j].row = "waiting"
        BY <1>a, <3>2 DEF JobsTyped, SyncJob, QueueRow, JobKeeps
      <3>3. CASE job' = [job EXCEPT ![j].cut = job[j].at # "dead"]
        <4>1. PICK b \in BOOLEAN : job' = [job EXCEPT ![j].cut = b]
          BY <3>3
        <4> QED
          BY <1>a, <4>1 DEF JobsTyped, SyncJob, JobKeeps
      <3>4. CASE UNCHANGED job
        BY <1>a, <3>4 DEF JobsTyped, JobKeeps
      <3> QED
        BY <1>2, <3>1, <3>2, <3>3, <3>4 DEF StopJob, j
    <2> QED
      BY <1>a, <2>1, <2>2, <2>3 DEF Typed, StoredTyped, Keeps, StoredKeeps
  <1>3. ASSUME NEW c \in Buttons, NEW r \in Runs, StopRun(c, r)
        PROVE  Typed' /\ Keeps
    <2>1. run[r].job \in Jobs \cup {NoJob}
      BY <1>a DEF RunsTyped, Row
    <2>2. RequestsTyped' /\ \A d \in Callers : RequestKeeps(d)
      BY <1>3, <1>a, <2>1 DEF StopRun, Tell, RequestsTyped, Request, NoRequest, NoJob, NoRun,
                              RequestKeeps, Asking
    <2> QED
      BY <1>3, <1>a, <1>b, <2>2 DEF StopRun, rowVars, RunsTyped, RunKeeps
  <1>4. ASSUME NEW p \in Runs \X Jobs, CloseOrSpare(p)
        PROVE  Typed' /\ Keeps
    <2>1. RunsTyped' /\ \A r \in Runs : RunKeeps(r)
      BY <1>4, <1>a, StatusStep DEF CloseOrSpare, RunsTyped, RunKeeps, Status, Ended
    <2> QED
      BY <1>4, <1>a, <1>b, <2>1 DEF CloseOrSpare, jobVars, RequestsTyped, RequestKeeps
  <1>5. CASE Boot
    BY <1>5, <1>c DEF Boot, rowVars, jobVars
  <1>6. CASE Serve
    BY <1>6, <1>c DEF Serve, rowVars, jobVars
  <1>7. ASSUME NEW j \in Jobs, NEW u \in Units,
               ClaimMod(j, u) \/ ModEnds(j, u) \/ SnapshotExpires(j, u) \/ StallMod(j, u)
        PROVE  Typed' /\ Keeps
    BY <1>7, <1>c DEF ClaimMod, ModEnds, EndMod, SnapshotExpires, StallMod, rowVars
  <1> QED
    BY <1>1, <1>2, <1>3, <1>4, <1>5, <1>6, <1>7


---------------------------------------------------------------------------
(* What any step of the server does to the invariant *)

Uploading(r) == agent.at = "upload" /\ agent.run = r

RunEnters(r) == run[r].stage = "none" /\ run'[r].stage # "none" /\ run'[r].status = "planning"
RunEnds(r) ==
  /\ run'[r].stage = run[r].stage /\ run'[r].units = run[r].units
  /\ \E j \in Jobs : job[j].run = r
  /\ run[r].stage = "range" => run[r].units \subseteq CurrentMods
JobEnters(j) ==
  /\ job[j].row = "none" /\ job'[j].row # "none" /\ job'[j].at = "idle"
  /\ \E c \in Callers : request[c].at \in Asking /\ job'[j].run = request[c].run
JobBegins(j) ==
  /\ job[j].row # "none" /\ job'[j].row # "none" /\ job'[j].run = job[j].run
  /\ job'[j].at = "import" =>
       /\ run[job[j].run].stage = "range"
       /\ \A u \in run[job[j].run].units : job'[j].mods[u] \in Pending
  /\ job'[j].at \in Elsewhere => run[job[j].run].stage # "range"
RequestEnters(c) ==
  request'[c].at \in Asking =>
    /\ request'[c].run \in Runs /\ run'[request'[c].run].stage # "none"
    /\ ~Uploading(request'[c].run)

Moves ==
  /\ \A j \in Jobs : JobKeeps(j) \/ JobEnters(j) \/ JobBegins(j)
  /\ \A r \in Runs : RunKeeps(r) \/ RunEnters(r) \/ RunEnds(r)
  /\ \A c \in Callers : RequestKeeps(c) \/ RequestEnters(c)
  /\ StoredKeeps

(* Leaving the shared facts alone is the simplest of moves.                  *)
LEMMA KeepsMoves == Keeps => Moves
  BY DEF Keeps, Moves

(* What is in the catalog stays there.                                       *)
LEMMA StoredIn ==
  ASSUME StoredKeeps PROVE CurrentMods \subseteq CurrentMods'
  BY DEF StoredKeeps, CurrentMods, In

(* Moves preserve what is known of runs, jobs and requests.                  *)
LEMMA MovesServer ==
  ASSUME Typed, ServerInv, Moves
  PROVE  ServerInv'
  <1>a. RunsTyped /\ StoredKeeps /\ CurrentMods \subseteq CurrentMods'
    BY StoredIn DEF Typed, Moves
  <1>b. \A r \in Runs : run[r].units \subseteq Units
    BY <1>a DEF RunsTyped, Row
  <1>c. \A r \in Runs : run[r].stage # "none" => run'[r].stage = run[r].stage /\ run'[r].units = run[r].units
    BY DEF Moves, RunKeeps, RunEnters, RunEnds
  <1>1. JobsOK'
    <2> SUFFICES ASSUME NEW j \in Jobs PROVE JobOK(j)'
      BY DEF JobsOK
    <2>1. JobOK(j)
      BY DEF ServerInv, JobsOK
    <2>2. CASE JobKeeps(j)
      <3>1. job'[j].row = "none" => job'[j].at = "idle" /\ job'[j].run = NoRun
        BY <2>1, <2>2 DEF JobOK, JobKeeps
      <3>2. job'[j].row # "none" => job'[j].run \in Runs /\ run'[job'[j].run].stage # "none"
        BY <1>c, <2>1, <2>2 DEF JobOK, JobKeeps
      <3>3. ASSUME job'[j].at = "import"
            PROVE  /\ run'[job'[j].run].stage = "range"
                   /\ \A u \in run'[job'[j].run].units : job'[j].mods[u] \in Pending \/ stored'[u] \in In
        <4>1. /\ job[j].at = "import" /\ job'[j].run = job[j].run
              /\ job[j].run \in Runs /\ run[job[j].run].stage = "range"
          BY <2>1, <2>2, <3>3 DEF JobOK, JobKeeps
        <4>2. run'[job[j].run].stage = "range" /\ run'[job[j].run].units = run[job[j].run].units
          BY <1>c, <4>1
        <4>3. \A u \in run[job[j].run].units : job'[j].mods[u] \in Pending \/ stored'[u] \in In
          BY <1>a, <1>b, <2>1, <2>2, <3>3, <4>1 DEF JobOK, JobKeeps, StoredKeeps
        <4> QED
          BY <4>1, <4>2, <4>3
      <3>4. job'[j].at \in Elsewhere => run'[job'[j].run].stage # "range"
        BY <1>c, <2>1, <2>2 DEF JobOK, JobKeeps, Elsewhere
      <3> QED
        BY <3>1, <3>2, <3>3, <3>4 DEF JobOK
    <2>3. CASE JobEnters(j)
      <3>1. job'[j].run \in Runs /\ run[job'[j].run].stage # "none"
        BY <2>3 DEF JobEnters, ServerInv, RequestsOK
      <3> QED
        BY <1>c, <2>3, <3>1 DEF JobOK, JobEnters, Elsewhere
    <2>4. CASE JobBegins(j)
      <3>1. job[j].run \in Runs /\ run[job[j].run].stage # "none" /\ job'[j].run = job[j].run
        BY <2>1, <2>4 DEF JobOK, JobBegins
      <3>2. run'[job[j].run].stage = run[job[j].run].stage /\ run'[job[j].run].units = run[job[j].run].units
        BY <1>c, <3>1
      <3> QED
        BY <2>4, <3>1, <3>2 DEF JobOK, JobBegins
    <2> QED
      BY <2>2, <2>3, <2>4 DEF Moves
  <1>2. RequestsOK'
    <2> SUFFICES ASSUME NEW c \in Callers, request'[c].at \in Asking
                 PROVE  request'[c].run \in Runs /\ run'[request'[c].run].stage # "none"
      BY DEF RequestsOK
    <2>1. CASE RequestKeeps(c)
      BY <1>c, <2>1 DEF RequestKeeps, ServerInv, RequestsOK
    <2>2. CASE RequestEnters(c)
      BY <2>2 DEF RequestEnters
    <2> QED
      BY <2>1, <2>2 DEF Moves
  <1>3. RangesImported'
    <2> SUFFICES ASSUME NEW r \in Runs, run'[r].stage = "range", run'[r].status = "completed"
                 PROVE  run'[r].units \subseteq CurrentMods'
      BY DEF RangesImported
    <2>1. CASE RunKeeps(r)
      BY <1>a, <2>1 DEF RunKeeps, ServerInv, RangesImported
    <2>2. CASE RunEnters(r)
      BY <2>2 DEF RunEnters
    <2>3. CASE RunEnds(r)
      BY <1>a, <2>3 DEF RunEnds
    <2> QED
      BY <2>1, <2>2, <2>3 DEF Moves
  <1> QED
    BY <1>1, <1>2, <1>3 DEF ServerInv

(* Moves of the server preserve what is known of the agent's cycle.          *)
LEMMA MovesCycle ==
  ASSUME Typed, ServerInv, CycleInv, Moves, UNCHANGED <<file, agent, missed>>
  PROVE  CycleInv'
  <1>a. CurrentMods \subseteq CurrentMods'
    BY StoredIn DEF Moves
  <1>c. \A r \in Runs : run[r].stage # "none" => run'[r].stage = run[r].stage /\ run'[r].units = run[r].units
    BY DEF Moves, RunKeeps, RunEnters, RunEnds
  <1>1. UploadApart'
    <2> SUFFICES ASSUME agent.at = "upload"
                 PROVE  /\ agent.run \in Runs
                        /\ run'[agent.run].stage = "range" /\ run'[agent.run].status # "completed"
                        /\ \A j \in Jobs : job'[j].run # agent.run
                        /\ \A c \in Callers : request'[c].at \in Asking => request'[c].run # agent.run
      BY DEF UploadApart
    <2>1. /\ agent.run \in Runs
          /\ run[agent.run].stage = "range" /\ run[agent.run].status # "completed"
          /\ \A j \in Jobs : job[j].run # agent.run
          /\ \A c \in Callers : request[c].at \in Asking => request[c].run # agent.run
      BY DEF CycleInv, UploadApart
    <2>2. run'[agent.run].stage = "range" /\ run'[agent.run].status # "completed"
      BY <1>c, <2>1 DEF Moves, RunKeeps, RunEnters, RunEnds
    <2>3. \A j \in Jobs : job'[j].run # agent.run
      BY <2>1 DEF Moves, JobKeeps, JobEnters, JobBegins
    <2>4. \A c \in Callers : request'[c].at \in Asking => request'[c].run # agent.run
      BY <2>1 DEF Moves, RequestKeeps, RequestEnters, Uploading
    <2> QED
      BY <2>1, <2>2, <2>3, <2>4
  <1>2. CycleCovered'
    <2>1. agent.at \in {"upload", "start", "wait"} =>
            agent.run \in Runs /\ run'[agent.run].units = run[agent.run].units
            /\ run'[agent.run].stage = run[agent.run].stage
      BY <1>c DEF CycleInv, UploadApart, CycleCovered
    <2> QED
      BY <1>a, <2>1 DEF CycleInv, CycleCovered
  <1>3. SyncedIsStored'
    BY <1>a DEF CycleInv, SyncedIsStored
  <1> QED
    BY <1>1, <1>2, <1>3 DEF CycleInv

---------------------------------------------------------------------------
(* The steps of the server that do more *)

(* A nonempty set of ids has a largest. *)
LEMMA NewestIn ==
  ASSUME BoundsAssumption, NEW rs \in SUBSET Runs, rs # {}
  PROVE  Newest(rs) \in Runs
  <1> DEFINE T == {n \in Nat : \E r \in rs : n = MaxRuns - r}
  <1>1. \A r \in rs : r \in Nat /\ MaxRuns - r \in T
    BY DEF BoundsAssumption, Runs
  <1>2. T \subseteq Nat /\ T # {}
    BY <1>1
  <1>3. PICK x \in T : \A y \in T : <<y, x>> \notin OpToRel(<, Nat)
    BY <1>2, WFMin, NatLessThanWellFounded, Zenon
  <1>4. \A y \in T : ~(y < x)
    BY <1>2, <1>3 DEF OpToRel
  <1>5. PICK r \in rs : x = MaxRuns - r
    OBVIOUS
  <1> HIDE DEF T
  <1>6. \A s \in rs : s <= r
    <2> TAKE s \in rs
    <2>1. ~(MaxRuns - s < MaxRuns - r)
      BY <1>1, <1>4, <1>5
    <2> QED
      BY <1>1, <2>1 DEF BoundsAssumption, Runs
  <1> QED
    BY <1>6 DEF Newest

(* A new row is planning, and no other run changes.                          *)
LEMMA NewRowStep ==
  ASSUME Typed, NEW stage \in Stage, NEW units \in SUBSET Units,
         NEW r \in Runs, NewRow(r, stage, units)
  PROVE  /\ RunsTyped'
         /\ RunEnters(r) /\ run'[r].stage = stage /\ run'[r].units = units
         /\ \A q \in Runs : q # r => RunKeeps(q)
  <1>1. RunsTyped
    BY DEF Typed
  <1>2. stage # "none" /\ stage \in Stage \cup {"none"}
    BY DEF Stage, ButtonStages
  <1> QED
    BY <1>1, <1>2 DEF NewRow, NoRow, FreshRun, RunsTyped, Row, RunEnters, RunKeeps

(* POST stage/:stage gives the caller a row of its own or an active one.     *)
LEMMA CheckMoves ==
  ASSUME Typed, UploadApart, BoundsAssumption,
         NEW c \in Callers, NEW stage \in ButtonStages, CheckStage(c, stage)
  PROVE  Typed' /\ Moves
  <1>a. RunsTyped /\ JobsTyped /\ StoredTyped /\ RequestsTyped
    BY DEF Typed
  <1>b. JobsTyped' /\ StoredTyped' /\ StoredKeeps /\ \A j \in Jobs : JobKeeps(j)
    BY <1>a DEF CheckStage, jobVars, JobsTyped, StoredTyped, StoredKeeps, JobKeeps
  <1>1. ASSUME NEW r \in Runs, NewRow(r, stage, {}),
               Tell(c, [NoRequest EXCEPT !.at = "enqueue", !.run = r])
        PROVE  Typed' /\ Moves
    <2>1. /\ RunsTyped'
          /\ RunEnters(r) /\ run'[r].stage = stage
          /\ \A q \in Runs : q # r => RunKeeps(q)
      BY <1>1, NewRowStep DEF Stage
    <2>2. RequestsTyped'
      BY <1>a, <1>1 DEF Tell, RequestsTyped, Request, NoRequest
    <2>3. ~Uploading(r)
      BY <2>1 DEF UploadApart, Uploading, RunEnters
    <2>4. \A d \in Callers : RequestKeeps(d) \/ RequestEnters(d)
      BY <1>a, <1>1, <2>1, <2>3
         DEF Tell, RequestsTyped, NoRequest, RequestKeeps, RequestEnters, RunEnters
    <2> QED
      BY <1>b, <2>1, <2>2, <2>4 DEF Typed, Moves
  <1>2. CASE ActiveRuns # {} /\ Answer(c, Newest(ActiveRuns)) /\ UNCHANGED run
    <2>1. Newest(ActiveRuns) \in Runs
      BY <1>2, NewestIn DEF ActiveRuns
    <2>2. PICK r \in Runs \cup {NoRun} : Tell(c, [NoRequest EXCEPT !.run = r])
      <3>1. [NoRequest EXCEPT !.run = NoRun] = NoRequest
        BY DEF NoRequest
      <3>2. CASE c = "agent"
        BY <1>2, <2>1, <3>2 DEF Answer
      <3>3. CASE c # "agent"
        BY <1>2, <3>1, <3>3 DEF Answer
      <3> QED
        BY <3>2, <3>3
    <2>3. RequestsTyped' /\ \A d \in Callers : RequestKeeps(d)
      BY <1>a, <2>2 DEF Tell, RequestsTyped, Request, NoRequest, RequestKeeps, Asking
    <2> QED
      BY <1>a, <1>b, <1>2, <2>3 DEF Typed, Moves, RunsTyped, RunKeeps
  <1> QED
    BY <1>1, <1>2 DEF CheckStage

(* A job enters for the run its request is about to name.                    *)
LEMMA EnqueueMoves ==
  ASSUME Typed, ServerInv, NEW c \in Callers, EnqueueJob(c)
  PROVE  Typed' /\ Moves
  <1>a. RunsTyped /\ JobsTyped /\ StoredTyped /\ RequestsTyped
    BY DEF Typed
  <1>1. request[c].at \in Asking /\ request[c].run \in Runs
    BY DEF EnqueueJob, Asking, ServerInv, RequestsOK
  <1>2. PICK j \in Jobs :
          /\ job[j].row = "none"
          /\ job' = [job EXCEPT ![j] = [NoSync EXCEPT !.run = request[c].run, !.row = "waiting"]]
          /\ Tell(c, [request[c] EXCEPT !.at = "mark", !.job = j])
    BY DEF EnqueueJob, FreshJob
  <1>3. JobsTyped' /\ \A k \in Jobs : JobKeeps(k) \/ JobEnters(k)
    <2>1. [NoSync EXCEPT !.run = request[c].run, !.row = "waiting"] \in SyncJob
      BY <1>1 DEF NoSync, SyncJob, QueueRow, Live, Step, Entry
    <2>2. JobsTyped'
      BY <1>a, <1>2, <2>1 DEF JobsTyped
    <2>3. JobEnters(j)
      BY <1>a, <1>1, <1>2 DEF JobEnters, NoSync, JobsTyped
    <2>4. \A k \in Jobs : k # j => JobKeeps(k)
      BY <1>a, <1>2 DEF JobKeeps, JobsTyped
    <2> QED
      BY <2>2, <2>3, <2>4
  <1>4. RequestsTyped' /\ \A d \in Callers : RequestKeeps(d)
    BY <1>a, <1>1, <1>2 DEF Tell, RequestsTyped, Request, RequestKeeps, Asking
  <1>5. RunsTyped' /\ StoredTyped' /\ StoredKeeps /\ \A r \in Runs : RunKeeps(r)
    BY <1>a DEF EnqueueJob, rowVars, RunsTyped, StoredTyped, StoredKeeps, RunKeeps
  <1> QED
    BY <1>3, <1>4, <1>5 DEF Typed, Moves

(* A job begins with every unit of its plan still to be done.                *)
LEMMA BeginMoves ==
  ASSUME Typed, ServerInv, NEW j \in Jobs, Begin(j)
  PROVE  Typed' /\ Moves
  <1>a. RunsTyped /\ JobsTyped /\ StoredTyped /\ RequestsTyped
    BY DEF Typed
  <1> DEFINE r     == job[j].run
             work  == CASE run[r].stage = "range" -> run[r].units
                        [] run[r].stage = "tm"    -> CurrentMods
                        [] OTHER                  -> {}
             first == CASE run[r].stage = "range" -> "import"
                        [] run[r].stage = "tm"    -> "next"
                        [] OTHER                  -> "export"
             mine  == [u \in Units |-> IF u \in work THEN "queued" ELSE "none"]
  <1>1. job[j].row # "none" /\ r \in Runs
    BY DEF Begin, ServerInv, JobsOK, JobOK
  <1>2. run[r].units \subseteq Units
    BY <1>a, <1>1 DEF RunsTyped, Row
  <1>b. ASSUME NEW s \in {"running", "cancelled", "failed"},
               run' = [run EXCEPT ![r].status = s, ![r].job = j]
        PROVE  RunsTyped' /\ \A q \in Runs : RunKeeps(q)
    <2>1. s \in Status /\ s # "completed"
      BY DEF Status, Active, Ended
    <2>2. j \in Jobs \cup {NoJob}
      OBVIOUS
    <2> HIDE DEF r
    <2>3. RunsTyped'
      BY <1>a, <1>b, <2>1, <2>2 DEF RunsTyped, Row, Status
    <2>4. \A q \in Runs : /\ run'[q].stage = run[q].stage
                          /\ run'[q].units = run[q].units
                          /\ run'[q].status = IF q = r THEN s ELSE run[q].status
      BY <1>a, <1>b DEF RunsTyped, Row
    <2> QED
      BY <2>1, <2>4, <2>3 DEF RunKeeps
  <1>c. ASSUME NEW s \in {"returned", "thrown"}, JobTo(j, s)
        PROVE  JobsTyped' /\ \A k \in Jobs : JobKeeps(k)
    <2>1. JobsTyped' /\ JobAt(j, job[j].row, s, job[j].mods)
      BY <1>a, <1>c, JobToStep, EntriesAndSteps
    <2> QED
      BY <1>1, <2>1 DEF JobAt, JobKeeps, Elsewhere
  <1>d. ASSUME job' = [job EXCEPT ![j].at = first, ![j].mods = mine]
        PROVE  JobsTyped' /\ \A k \in Jobs : JobKeeps(k) \/ JobBegins(k)
    <2>1. first \in Step /\ mine \in [Units -> Entry]
      BY DEF Step, Entry
    <2>2. first = "import" => run[r].stage = "range" /\ \A u \in run[r].units : mine[u] = "queued"
      BY <1>2
    <2>3. first \in Elsewhere => run[r].stage # "range"
      BY DEF Elsewhere
    <2> HIDE DEF first, mine, work
    <2>4. JobsTyped'
      BY <1>a, <1>d, <2>1 DEF JobsTyped, SyncJob
    <2>5. /\ \A k \in Jobs : k # j => job'[k] = job[k]
          /\ job'[j].run = job[j].run /\ job'[j].row = job[j].row
          /\ job'[j].at = first /\ job'[j].mods = mine
      BY <1>a, <1>d DEF JobsTyped, SyncJob
    <2>6. JobBegins(j)
      BY <1>1, <2>2, <2>3, <2>5 DEF JobBegins, Pending
    <2>7. \A k \in Jobs : k # j => JobKeeps(k)
      BY <2>5 DEF JobKeeps
    <2> QED
      BY <2>4, <2>6, <2>7
  <1>3. /\ \E s \in {"running", "cancelled", "failed"} : run' = [run EXCEPT ![r].status = s, ![r].job = j]
        /\ \/ job' = [job EXCEPT ![j].at = first, ![j].mods = mine]
           \/ \E s \in {"returned", "thrown"} : JobTo(j, s)
        /\ UNCHANGED <<stored, request>>
    BY DEF Begin
  <1>4. RunsTyped' /\ \A q \in Runs : RunKeeps(q)
    BY <1>b, <1>3
  <1>5. JobsTyped' /\ \A k \in Jobs : JobKeeps(k) \/ JobBegins(k)
    BY <1>c, <1>d, <1>3
  <1>6. StoredTyped' /\ RequestsTyped' /\ StoredKeeps /\ \A c \in Callers : RequestKeeps(c)
    BY <1>a, <1>3 DEF StoredTyped, RequestsTyped, StoredKeeps, RequestKeeps
  <1> QED
    BY <1>4, <1>5, <1>6 DEF Typed, Moves

(* A run is completed by a job whose plan is in, or that does not import.     *)
LEMMA ReturnMoves ==
  ASSUME Typed, ServerInv, NEW j \in Jobs, EndStage(j) \/ Export(j) \/ EndFanOut(j)
  PROVE  Typed' /\ Moves
  <1>a. RunsTyped /\ JobsTyped /\ StoredTyped /\ RequestsTyped
    BY DEF Typed
  <1> DEFINE r == job[j].run
  <1>1. job[j].row # "none" /\ r \in Runs /\ JobOK(j)
    BY DEF EndStage, Export, EndFanOut, ServerInv, JobsOK, JobOK
  <1>2. run[r].stage = "range" => run[r].units \subseteq CurrentMods
    <2>1. CASE EndStage(j)
      <3>1. run[r].units \subseteq Units
        BY <1>a, <1>1 DEF RunsTyped, Row
      <3>2. \A u \in Units : job[j].mods[u] \notin Pending
        BY <2>1 DEF EndStage, With, Pending
      <3> QED
        BY <1>1, <2>1, <3>1, <3>2 DEF EndStage, JobOK, CurrentMods, In
    <2>2. CASE Export(j) \/ EndFanOut(j)
      BY <1>1, <2>2 DEF Export, EndFanOut, JobOK, Elsewhere
    <2> QED
      BY <2>1, <2>2
  <1>3. PICK s \in Ended, t \in {"returned", "thrown"} :
          SetStatus(r, s) /\ JobTo(j, t) /\ UNCHANGED <<stored, request>>
    BY DEF EndStage, Export, EndFanOut, Return, Throw, Ended
  <1>4. RunsTyped' /\ \A q \in Runs : RunKeeps(q) \/ RunEnds(q)
    <2>1. s \in Status
      BY DEF Status
    <2>2. /\ RunsTyped'
          /\ \A q \in Runs : /\ run'[q].stage = run[q].stage
                             /\ run'[q].units = run[q].units
                             /\ run'[q].status = IF q = r THEN s ELSE run[q].status
      BY <1>a, <1>3, <2>1, StatusStep
    <2> QED
      BY <1>1, <1>2, <2>2 DEF RunKeeps, RunEnds
  <1>5. JobsTyped' /\ \A k \in Jobs : JobKeeps(k)
    <2>1. JobsTyped' /\ JobAt(j, job[j].row, t, job[j].mods)
      BY <1>a, <1>3, JobToStep, EntriesAndSteps
    <2> QED
      BY <1>1, <2>1 DEF JobAt, JobKeeps, Elsewhere
  <1>6. StoredTyped' /\ RequestsTyped' /\ StoredKeeps /\ \A c \in Callers : RequestKeeps(c)
    BY <1>a, <1>3 DEF StoredTyped, RequestsTyped, StoredKeeps, RequestKeeps
  <1> QED
    BY <1>4, <1>5, <1>6 DEF Typed, Moves

(* The per-mod jobs keep their shape. *)
LEMMA StopModTyped ==
  ASSUME NEW m \in ModJob PROVE StopMod(m) \in ModJob
  BY DEF ModJob, ModRow, StopMod, Ended

(* Every step of the server keeps the per-mod jobs typed.                    *)
LEMMA ModsStep ==
  ASSUME ModsTyped, ServerNext
  PROVE  ModsTyped'
  <1>a. ASSUME NEW j \in Jobs, NEW u \in Units, NEW e \in ModJob, modJob' = [modJob EXCEPT ![j][u] = e]
        PROVE  ModsTyped'
    BY <1>a DEF ModsTyped
  <1>d. \A j \in Jobs, u \in Units : modJob[j][u] \in ModJob
    BY DEF ModsTyped
  <1>b. ASSUME NEW j \in Jobs, NEW u \in Units, NEW w \in ModRow, modJob' = [modJob EXCEPT ![j][u].row = w]
        PROVE  ModsTyped'
    <2>1. [modJob[j][u] EXCEPT !.row = w] \in ModJob
      BY <1>d DEF ModJob
    <2>2. modJob' = [modJob EXCEPT ![j][u] = [modJob[j][u] EXCEPT !.row = w]]
      BY <1>b DEF ModsTyped
    <2> QED
      BY <1>a, <2>1, <2>2
  <1>0. CASE UNCHANGED modJob
    BY <1>0 DEF ModsTyped
  <1>1. ASSUME NEW c \in Buttons, NEW r \in Runs, StopRun(c, r)
        PROVE  ModsTyped'
    <2>1. modJob' = [j \in Jobs |-> [u \in Units |->
            IF job[j].run = r /\ run[r].stage = "tm" /\ job[j].mods[u] = "running"
            THEN StopMod(modJob[j][u]) ELSE modJob[j][u]]]
      BY <1>1 DEF StopRun
    <2>2. \A j \in Jobs, u \in Units : StopMod(modJob[j][u]) \in ModJob
      BY <1>d, StopModTyped
    <2> QED
      BY <1>d, <2>1, <2>2 DEF ModsTyped
  <1>2. CASE Crash
    <2>1. modJob' = [j \in Jobs |-> [u \in Units |->
            [modJob[j][u] EXCEPT !.row = IF @ = "active" THEN "dead" ELSE @]]]
      BY <1>2 DEF Crash
    <2>2. \A j \in Jobs, u \in Units :
            [modJob[j][u] EXCEPT !.row = IF @ = "active" THEN "dead" ELSE @] \in ModJob
      BY <1>d DEF ModJob, ModRow
    <2> QED
      BY <2>1, <2>2 DEF ModsTyped
  <1>3. ASSUME NEW j \in Jobs, NEW u \in Units, GuardMod(j, u)
        PROVE  ModsTyped'
    <2>1. modJob' = [k \in Jobs |-> [modJob[k] EXCEPT ![u].row =
                       IF @ = "waiting" /\ modJob[k][u].snap # "running" THEN "over" ELSE @]]
      BY <1>3 DEF GuardMod
    <2>2. \A k \in Jobs :
            [modJob[k] EXCEPT ![u].row =
               IF @ = "waiting" /\ modJob[k][u].snap # "running" THEN "over" ELSE @] \in [Units -> ModJob]
      BY DEF ModsTyped, ModJob, ModRow
    <2> QED
      BY <2>1, <2>2 DEF ModsTyped
  <1>4. ASSUME NEW j \in Jobs, NEW u \in Units, EnqueueMod(j, u)
        PROVE  ModsTyped'
    <2>1. [row |-> "waiting", snap |-> "running"] \in ModJob
      BY DEF ModJob, ModRow
    <2> QED
      BY <1>4, <1>a, <2>1 DEF EnqueueMod
  <1>5. ASSUME NEW j \in Jobs, NEW u \in Units, Poll(j, u)
        PROVE  ModsTyped'
    <2>1. CASE modJob' = [modJob EXCEPT ![j][u] = StopMod(@)]
      BY <1>a, <1>d, <2>1, StopModTyped DEF ModsTyped
    <2> QED
      BY <1>5, <1>0, <2>1 DEF Poll
  <1>6. ASSUME NEW j \in Jobs, NEW u \in Units, ClaimMod(j, u)
        PROVE  ModsTyped'
    <2>1. [modJob[j][u] EXCEPT !.row = "active", !.snap = IF @ = "none" THEN "running" ELSE @] \in ModJob
      BY <1>d DEF ModJob, ModRow
    <2>2. modJob' = [modJob EXCEPT ![j][u] =
            [modJob[j][u] EXCEPT !.row = "active", !.snap = IF @ = "none" THEN "running" ELSE @]]
      BY <1>6 DEF ClaimMod, ModsTyped
    <2> QED
      BY <1>a, <2>1, <2>2
  <1>7. ASSUME NEW j \in Jobs, NEW u \in Units, ModEnds(j, u)
        PROVE  ModsTyped'
    <2>1. PICK v \in Ended : modJob' = [modJob EXCEPT ![j][u] = [row |-> "over", snap |-> v]]
      BY <1>7 DEF ModEnds, EndMod
    <2>2. [row |-> "over", snap |-> v] \in ModJob
      BY DEF ModJob, ModRow
    <2> QED
      BY <1>a, <2>1, <2>2
  <1>8. ASSUME NEW j \in Jobs, NEW u \in Units, SnapshotExpires(j, u)
        PROVE  ModsTyped'
    <2>1. [modJob[j][u] EXCEPT !.snap = "none"] \in ModJob
      BY <1>d DEF ModJob
    <2>2. modJob' = [modJob EXCEPT ![j][u] = [modJob[j][u] EXCEPT !.snap = "none"]]
      BY <1>8 DEF SnapshotExpires, ModsTyped
    <2> QED
      BY <1>a, <2>1, <2>2
  <1>9. ASSUME NEW j \in Jobs, NEW u \in Units, StallMod(j, u)
        PROVE  ModsTyped'
    BY <1>9, <1>b DEF StallMod, ModRow
  <1>10. ASSUME NEW c \in Callers,
                (c \in Buttons /\ \E stage \in ButtonStages : Press(c, stage)) \/ RequestStep(c)
         PROVE  ModsTyped'
    BY <1>0, <1>10 DEF Press, CheckStage, RequestStep, EnqueueJob, MarkQueued, StopJob, jobVars
  <1>11. ASSUME NEW j \in Jobs,
                \/ Claim(j) \/ StageThrows(j) \/ HookStep(j) \/ StallDead(j) \/ StallLive(j)
                \/ Begin(j) \/ EndStage(j) \/ Export(j) \/ CancelRest(j) \/ EndFanOut(j) \/ Settle(j)
                \/ \E u \in Units : StartImport(j, u) \/ EndImport(j, u)
         PROVE  ModsTyped'
    BY <1>0, <1>11 DEF Claim, StageThrows, HookStep, HookReads, HookCloses, StallDead, StallLive,
       Begin, EndStage, Export, CancelRest, EndFanOut, Settle, StartImport, EndImport
  <1>12. CASE BootStep
    BY <1>0, <1>12 DEF BootStep, Boot, Serve, CloseOrSpare, jobVars
  <1> QED
    BY <1>1, <1>2, <1>3, <1>4, <1>5, <1>6, <1>7, <1>8, <1>9, <1>10, <1>11, <1>12
       DEF ServerNext, StageStep, Callers

---------------------------------------------------------------------------
(* Every step of the server *)

(* No step of the server does more than a move.                              *)
LEMMA ServerMoves ==
  ASSUME Typed, ModsTyped, ServerInv, UploadApart, BoundsAssumption, ServerNext
  PROVE  Typed' /\ Moves
  <1>1. ASSUME NEW c \in Buttons, NEW stage \in ButtonStages, Press(c, stage)
        PROVE  Typed' /\ Moves
    BY <1>1, CheckMoves DEF Press, Callers
  <1>2. ASSUME NEW c \in Callers, EnqueueJob(c)
        PROVE  Typed' /\ Moves
    BY <1>2, EnqueueMoves
  <1>3. ASSUME \/ \E c \in Callers : MarkQueued(c) \/ StopJob(c)
               \/ \E c \in Buttons, r \in Runs : StopRun(c, r)
               \/ BootStep
               \/ \E j \in Jobs, u \in Units :
                    ClaimMod(j, u) \/ ModEnds(j, u) \/ SnapshotExpires(j, u) \/ StallMod(j, u)
        PROVE  Typed' /\ Moves
    BY <1>3, OtherMoves, KeepsMoves DEF BootStep
  <1>4. ASSUME NEW j \in Jobs, Begin(j)
        PROVE  Typed' /\ Moves
    BY <1>4, BeginMoves
  <1>5. ASSUME NEW j \in Jobs, EndStage(j) \/ Export(j) \/ EndFanOut(j)
        PROVE  Typed' /\ Moves
    BY <1>5, ReturnMoves
  <1>6. ASSUME NEW j \in Jobs,
               \/ Claim(j) \/ CancelRest(j) \/ Settle(j) \/ HookReads(j) \/ StallDead(j) \/ StallLive(j)
               \/ \E u \in Units : GuardMod(j, u) \/ Poll(j, u)
        PROVE  Typed' /\ Moves
    BY <1>6, JobMoves, KeepsMoves
  <1>7. ASSUME NEW j \in Jobs,
               \/ HookCloses(j) \/ StageThrows(j)
               \/ \E u \in Units : StartImport(j, u) \/ EndImport(j, u) \/ EnqueueMod(j, u)
        PROVE  Typed' /\ Moves
    BY <1>7, RunMoves, KeepsMoves
  <1>8. CASE Crash
    BY <1>8, CrashMoves, KeepsMoves
  <1> QED
    BY <1>1, <1>2, <1>3, <1>4, <1>5, <1>6, <1>7, <1>8
       DEF ServerNext, RequestStep, StageStep, HookStep

---------------------------------------------------------------------------
(* The steps of the agent *)

(* Those that leave the server alone. *)
LEMMA StillStep ==
  ASSUME IInv, UNCHANGED <<rowVars, jobVars, request>>
  PROVE  Typed' /\ ModsTyped' /\ ServerInv' /\ CurrentMods' = CurrentMods
  <1>1. run' = run /\ job' = job /\ modJob' = modJob /\ stored' = stored /\ request' = request
    BY DEF rowVars, jobVars
  <1>2. Typed' /\ ModsTyped' /\ CurrentMods' = CurrentMods
    BY <1>1 DEF IInv, Typed, RunsTyped, JobsTyped, StoredTyped, RequestsTyped, ModsTyped, CurrentMods
  <1>3. JobsOK' /\ RequestsOK' /\ RangesImported'
    BY <1>1, <1>2 DEF IInv, ServerInv, JobsOK, JobOK, RequestsOK, RangesImported
  <1> QED
    BY <1>2, <1>3 DEF ServerInv

(* A cycle that is over, or has only begun, has nothing in hand. *)
LEMMA IdleStep ==
  ASSUME IInv, UNCHANGED <<rowVars, jobVars, request, missed>>,
         AgentTypeOK', agent'.at \in {"idle", "plan"},
         file'.sig = file.sig \/ file'.sig \subseteq CurrentMods \cup missed
  PROVE  IInv'
  <1>1. Typed' /\ ModsTyped' /\ ServerInv' /\ CurrentMods' = CurrentMods
    BY StillStep
  <1>2. UploadApart' /\ CycleCovered'
    BY DEF UploadApart, CycleCovered
  <1>3. SyncedIsStored'
    BY <1>1 DEF IInv, CycleInv, SyncedIsStored
  <1> QED
    BY <1>1, <1>2, <1>3 DEF IInv, CycleInv

(* The state file's fields, and that a recorded signature is one.            *)
LEMMA FileFields ==
  ASSUME AgentTypeOK
  PROVE  /\ \A s \in SUBSET Units : [file EXCEPT !.sig = s] \in File /\ [file EXCEPT !.sig = s].sig = s
         /\ [file EXCEPT !.resync = TRUE] \in File /\ [file EXCEPT !.resync = TRUE].sig = file.sig
         /\ \A s \in SUBSET Units : [sig |-> s, last |-> TRUE, resync |-> FALSE] \in File
         /\ agent.inv \in SUBSET Units
  BY DEF AgentTypeOK, File

(* Dropping the cycle keeps the agent's types.                               *)
LEMMA NoCycleTyped ==
  ASSUME AgentTypeOK, UNCHANGED <<staged, missed>>, agent' = NoCycle, file' \in File
  PROVE  AgentTypeOK'
  BY DEF AgentTypeOK, NoCycle, Cycle, Phase

(* A unit appears in the staging folder.                                     *)
LEMMA InstallStep ==
  ASSUME IInv, NEW u \in Units, Install(u)
  PROVE  IInv'
  <1>1. Typed' /\ ModsTyped' /\ ServerInv' /\ CurrentMods' = CurrentMods
    BY StillStep DEF Install, runsVars, rowVars, jobVars
  <1>2. AgentTypeOK'
    BY DEF IInv, AgentTypeOK, Install
  <1>3. UploadApart' /\ CycleCovered' /\ SyncedIsStored'
    BY <1>1 DEF IInv, CycleInv, Install, UploadApart, CycleCovered, SyncedIsStored, runsVars, rowVars, jobVars
  <1> QED
    BY <1>1, <1>2, <1>3 DEF IInv, CycleInv

(* A cycle begins.                                                           *)
LEMMA ScanStep ==
  ASSUME IInv, Scan
  PROVE  IInv'
  <1>1. AgentTypeOK' /\ agent'.at = "plan"
    BY DEF IInv, AgentTypeOK, Scan, NoCycle, Cycle, Phase
  <1> QED
    BY <1>1, IdleStep DEF Scan, runsVars

(* A unit the server refuses is noted.                                       *)
LEMMA RefuseStep ==
  ASSUME IInv, NEW u \in Units, Refuse(u)
  PROVE  IInv'
  <1>1. Typed' /\ ModsTyped' /\ ServerInv' /\ CurrentMods' = CurrentMods
    BY StillStep DEF Refuse
  <1>2. /\ agent \in Cycle
        /\ agent' = [agent EXCEPT !.todo = @ \ {u}, !.refused = TRUE]
        /\ agent.at = "upload" /\ missed' = missed \cup {u}
        /\ UNCHANGED <<run, job, request, staged, file>>
    BY DEF IInv, AgentTypeOK, Refuse, rowVars, jobVars
  <1>3. /\ agent' \in Cycle /\ agent'.at = "upload" /\ agent'.todo = agent.todo \ {u}
        /\ agent'.inv = agent.inv /\ agent'.run = agent.run /\ agent'.sent = agent.sent
    BY <1>2 DEF Cycle
  <1>4. AgentTypeOK'
    BY <1>2, <1>3 DEF IInv, AgentTypeOK
  <1>5. UploadApart'
    BY <1>2, <1>3 DEF IInv, CycleInv, UploadApart
  <1>6. CycleCovered' /\ SyncedIsStored'
    BY <1>1, <1>2, <1>3 DEF IInv, CycleInv, CycleCovered, SyncedIsStored
  <1> QED
    BY <1>1, <1>4, <1>5, <1>6 DEF IInv, CycleInv

(* All uploads are over: nothing was sent and all is there, or the range starts. *)
LEMMA EndUploadStep ==
  ASSUME IInv, EndUpload
  PROVE  IInv'
  <1>1. /\ UNCHANGED <<rowVars, jobVars, request, missed, staged>>
        /\ AgentTypeOK /\ UploadApart /\ CycleCovered /\ SyncedIsStored
        /\ agent.at = "upload" /\ agent.todo = {}
    BY DEF EndUpload, runsVars, IInv, CycleInv
  <1>2. CASE ~agent.sent /\ Record([file EXCEPT !.sig = agent.inv])
    <2>1. file'.sig = agent.inv /\ file' \in File /\ agent' = NoCycle
      BY <1>1, <1>2, FileFields DEF Record
    <2>2. agent.inv \subseteq CurrentMods \cup missed
      BY <1>1, <1>2 DEF CycleCovered
    <2>3. AgentTypeOK'
      BY <1>1, <2>1, NoCycleTyped
    <2> QED
      BY <1>1, <2>1, <2>2, <2>3, IdleStep DEF NoCycle
  <1>3. CASE GoTo("start") /\ UNCHANGED file
    <2>1. Typed' /\ ModsTyped' /\ ServerInv' /\ CurrentMods' = CurrentMods
      BY <1>1, StillStep
    <2>2. /\ agent' \in Cycle /\ agent'.at = "start" /\ agent'.todo = agent.todo
          /\ agent'.inv = agent.inv /\ agent'.run = agent.run
      BY <1>1, <1>3 DEF GoTo, AgentTypeOK, Cycle, Phase
    <2>3. AgentTypeOK'
      BY <1>1, <1>3, <2>2 DEF AgentTypeOK
    <2>4. UploadApart' /\ CycleCovered' /\ SyncedIsStored'
      BY <1>1, <1>3, <2>1, <2>2 DEF UploadApart, CycleCovered, SyncedIsStored, rowVars
    <2> QED
      BY <2>1, <2>3, <2>4 DEF IInv, CycleInv
  <1> QED
    BY <1>2, <1>3 DEF EndUpload

(* The range a cycle waits for has completed, so its plan is in. *)
LEMMA WaitedStep ==
  ASSUME IInv, Waited
  PROVE  IInv'
  <1>1. /\ UNCHANGED <<rowVars, jobVars, request, missed, staged>>
        /\ AgentTypeOK /\ CycleCovered /\ SyncedIsStored /\ RangesImported
    BY DEF Waited, runsVars, IInv, CycleInv, ServerInv
  <1>2. CASE agent.at = "wait"
    <2>1. Typed' /\ ModsTyped' /\ ServerInv' /\ CurrentMods' = CurrentMods
      BY <1>1, StillStep
    <2>2. /\ agent' \in Cycle /\ agent'.at = "tm" /\ agent'.todo = agent.todo
          /\ agent'.inv = agent.inv /\ agent'.run = agent.run /\ file' = file
      BY <1>1, <1>2 DEF Waited, GoTo, AgentTypeOK, Cycle, Phase
    <2>3. AgentTypeOK'
      BY <1>1, <2>2 DEF AgentTypeOK
    <2>4. agent.inv \subseteq CurrentMods \cup missed
      BY <1>1, <1>2 DEF Waited, Followed, CycleCovered, RangesImported
    <2>5. UploadApart' /\ CycleCovered' /\ SyncedIsStored'
      BY <1>1, <2>1, <2>2, <2>4 DEF UploadApart, CycleCovered, SyncedIsStored
    <2> QED
      BY <2>1, <2>3, <2>5 DEF IInv, CycleInv
  <1>3. CASE agent.at = "waitTm"
    <2>1. Record([sig |-> agent.inv, last |-> TRUE, resync |-> FALSE])
      BY <1>3 DEF Waited
    <2>2. file'.sig = agent.inv /\ file' \in File /\ agent' = NoCycle
      BY <1>1, <2>1, FileFields DEF Record
    <2>3. AgentTypeOK'
      BY <1>1, <2>2, NoCycleTyped
    <2>4. agent.inv \subseteq CurrentMods \cup missed
      BY <1>1, <1>3 DEF CycleCovered
    <2> QED
      BY <1>1, <2>2, <2>3, <2>4, IdleStep DEF NoCycle
  <1> QED
    BY <1>2, <1>3 DEF Waited, Waiting

(* A cycle is given up: it fails or the agent restarts.                      *)
LEMMA AbandonStep ==
  ASSUME IInv, WaitFails \/ CycleThrows \/ Restart
  PROVE  IInv'
  <1>1. /\ UNCHANGED <<rowVars, jobVars, request, missed, staged>>
        /\ AgentTypeOK /\ agent' = NoCycle
        /\ file' = file \/ file' = [file EXCEPT !.resync = TRUE]
    BY DEF WaitFails, CycleThrows, Restart, FailCycle, runsVars, rowVars, jobVars, IInv
  <1>2. file' \in File /\ file'.sig = file.sig
    BY <1>1, FileFields DEF AgentTypeOK
  <1>3. AgentTypeOK'
    BY <1>1, <1>2, NoCycleTyped
  <1> QED
    BY <1>1, <1>2, <1>3, IdleStep DEF NoCycle

(* Those that change the server: a plan is a row nobody else knows of. *)
LEMMA PlanMoves ==
  ASSUME IInv, NEW r \in Runs, NewRow(r, "range", Known(agent.inv)),
         UNCHANGED <<stored, translated, jobVars, request>>
  PROVE  /\ Typed' /\ ModsTyped' /\ ServerInv' /\ Moves
         /\ run'[r].stage = "range" /\ run'[r].units = Known(agent.inv)
         /\ run'[r].status = "planning" /\ run[r].stage = "none"
         /\ CurrentMods' = CurrentMods
  <1>1. Typed /\ ModsTyped /\ ServerInv /\ AgentTypeOK
    BY DEF IInv
  <1>2. agent.inv \subseteq Units
    BY <1>1 DEF AgentTypeOK
  <1>3. "range" \in Stage /\ Known(agent.inv) \in SUBSET Units
    BY <1>2 DEF Stage, Known
  <1>4. /\ RunsTyped' /\ RunEnters(r)
        /\ run'[r].stage = "range" /\ run'[r].units = Known(agent.inv)
        /\ \A q \in Runs : q # r => RunKeeps(q)
    BY <1>1, <1>3, NewRowStep
  <1>5. Typed' /\ ModsTyped'
    BY <1>1, <1>4 DEF Typed, JobsTyped, StoredTyped, RequestsTyped, ModsTyped, jobVars
  <1>6. /\ \A j \in Jobs : JobKeeps(j)
        /\ \A c \in Callers : RequestKeeps(c)
        /\ StoredKeeps
    BY DEF JobKeeps, RequestKeeps, StoredKeeps, jobVars
  <1>7. Moves
    BY <1>4, <1>6 DEF Moves
  <1>8. ServerInv' /\ CurrentMods' = CurrentMods
    BY <1>1, <1>7, MovesServer DEF CurrentMods
  <1> QED
    BY <1>4, <1>5, <1>7, <1>8 DEF RunEnters

(* The plan's row is new, so no job and no request names it.                 *)
LEMMA PlanStep ==
  ASSUME IInv, BoundsAssumption, Plan
  PROVE  IInv'
  <1>1. /\ AgentTypeOK /\ SyncedIsStored /\ JobsOK /\ RequestsOK /\ Typed
        /\ UNCHANGED <<stored, translated, jobVars, request, staged, missed>>
    BY DEF Plan, IInv, CycleInv, ServerInv
  <1>2. PICK r \in Runs :
          /\ NewRow(r, "range", Known(agent.inv))
          /\ \/ Needed(agent.inv) = {} /\ Record([file EXCEPT !.sig = agent.inv])
             \/ /\ agent' = [agent EXCEPT !.at = "upload", !.todo = Needed(agent.inv), !.run = r]
                /\ UNCHANGED file
    BY DEF Plan
  <1>3. /\ Typed' /\ ModsTyped' /\ ServerInv'
        /\ run'[r].stage = "range" /\ run'[r].units = Known(agent.inv)
        /\ run'[r].status = "planning" /\ run[r].stage = "none"
        /\ CurrentMods' = CurrentMods
    BY <1>1, <1>2, PlanMoves
  <1>4. agent.inv \subseteq Units
    BY <1>1 DEF AgentTypeOK
  <1>5. CASE Needed(agent.inv) = {} /\ Record([file EXCEPT !.sig = agent.inv])
    <2>1. file'.sig = agent.inv /\ file' \in File /\ agent' = NoCycle
      BY <1>1, <1>5, FileFields DEF Record
    <2>2. agent.inv \subseteq CurrentMods
      BY <1>4, <1>5 DEF Needed, CurrentMods
    <2>3. AgentTypeOK'
      BY <1>1, <2>1, NoCycleTyped
    <2>4. UploadApart' /\ CycleCovered'
      BY <2>1 DEF UploadApart, CycleCovered, NoCycle
    <2>5. SyncedIsStored'
      BY <1>1, <1>3, <2>1, <2>2 DEF SyncedIsStored
    <2> QED
      BY <1>3, <2>3, <2>4, <2>5 DEF IInv, CycleInv
  <1>6. CASE /\ agent' = [agent EXCEPT !.at = "upload", !.todo = Needed(agent.inv), !.run = r]
             /\ UNCHANGED file
    <2>1. r # NoRun
      BY DEF BoundsAssumption, Runs, NoRun
    <2>2. /\ agent' \in Cycle /\ agent'.at = "upload" /\ agent'.todo = Needed(agent.inv)
          /\ agent'.inv = agent.inv /\ agent'.run = r
      BY <1>1, <1>4, <1>6 DEF AgentTypeOK, Cycle, Phase, Needed
    <2>3. AgentTypeOK'
      BY <1>1, <1>6, <2>1, <2>2 DEF AgentTypeOK, Needed
    <2>4. UploadApart'
      <3>1. \A j \in Jobs : job'[j].run # r
        BY <1>1, <1>3, <2>1 DEF JobsOK, JobOK, jobVars
      <3>2. \A c \in Callers : request'[c].at \in Asking => request'[c].run # r
        BY <1>1, <1>3 DEF RequestsOK
      <3> QED
        BY <1>3, <2>2, <3>1, <3>2 DEF UploadApart
    <2>5. CycleCovered'
      <3>1. agent.inv \subseteq Known(agent.inv) \cup Needed(agent.inv)
        BY <1>4 DEF Known, Needed
      <3>2. agent.inv \subseteq CurrentMods \cup Needed(agent.inv)
        BY <1>4 DEF CurrentMods, Needed
      <3> QED
        BY <1>3, <2>2, <3>1, <3>2 DEF CycleCovered
    <2>6. SyncedIsStored'
      BY <1>1, <1>3, <1>6 DEF SyncedIsStored
    <2> QED
      BY <1>3, <2>3, <2>4, <2>5, <2>6 DEF IInv, CycleInv
  <1> QED
    BY <1>2, <1>5, <1>6

(* A plan whose answer is lost leaves a row nobody follows.                  *)
LEMMA PlanLostStep ==
  ASSUME IInv, PlanUnanswered
  PROVE  IInv'
  <1>1. /\ UNCHANGED <<stored, translated, jobVars, request>> /\ UNCHANGED <<file, agent, missed>>
        /\ staged' = staged
    BY DEF PlanUnanswered, agentVars
  <1>2. PICK r \in Runs : NewRow(r, "range", Known(agent.inv))
    BY DEF PlanUnanswered
  <1>3. Typed' /\ ModsTyped' /\ ServerInv' /\ Moves
    BY <1>1, <1>2, PlanMoves
  <1>4. CycleInv'
    BY <1>1, <1>3, MovesCycle DEF IInv
  <1>5. AgentTypeOK'
    BY <1>1 DEF IInv, AgentTypeOK
  <1> QED
    BY <1>3, <1>4, <1>5 DEF IInv

(* A unit may be written into a plan because nobody was asked to start it. *)
LEMMA UploadStep ==
  ASSUME IInv, NEW u \in Units, Upload(u)
  PROVE  IInv'
  <1> DEFINE a == agent.run
  <1>1. /\ RunsTyped /\ JobsTyped /\ StoredTyped /\ RequestsTyped /\ ModsTyped /\ AgentTypeOK
        /\ JobsOK /\ RequestsOK /\ RangesImported
        /\ CycleCovered /\ SyncedIsStored
    BY DEF IInv, Typed, ServerInv, CycleInv
  <1>2. /\ agent.at = "upload" /\ u \in agent.todo
        /\ stored' = [stored EXCEPT ![u] = IF @ = "unknown" THEN "registered" ELSE @]
        /\ run' = [run EXCEPT ![a].units = @ \cup {u}]
        /\ agent' = [agent EXCEPT !.todo = @ \ {u}, !.sent = TRUE]
        /\ UNCHANGED <<job, modJob, request, staged, file, missed>>
    BY DEF Upload, jobVars
  <1>3. /\ a \in Runs /\ run[a].stage = "range" /\ run[a].status # "completed"
        /\ \A j \in Jobs : job[j].run # a
        /\ \A c \in Callers : request[c].at \in Asking => request[c].run # a
    BY <1>2 DEF IInv, CycleInv, UploadApart
  <1>4. /\ agent' \in Cycle /\ agent'.at = "upload" /\ agent'.todo = agent.todo \ {u}
        /\ agent'.inv = agent.inv /\ agent'.run = a /\ agent'.sent
    BY <1>1, <1>2 DEF AgentTypeOK, Cycle
  <1>5. /\ \A q \in Runs : run'[q].stage = run[q].stage /\ run'[q].status = run[q].status
        /\ \A q \in Runs : run'[q].units = IF q = a THEN run[q].units \cup {u} ELSE run[q].units
        /\ RunsTyped'
    <2> HIDE DEF a
    <2> QED
      BY <1>1, <1>2 DEF RunsTyped, Row
  <1>6. StoredTyped' /\ CurrentMods' = CurrentMods /\ StoredKeeps
    <2>1. \A v \in Units : stored'[v] = IF v = u /\ stored[v] = "unknown" THEN "registered" ELSE stored[v]
      BY <1>1, <1>2 DEF StoredTyped
    <2>2. StoredTyped'
      BY <1>1, <1>2 DEF StoredTyped, Stored
    <2> QED
      BY <2>1, <2>2 DEF CurrentMods, StoredKeeps, In
  <1>7. Typed' /\ ModsTyped'
    BY <1>1, <1>2, <1>5, <1>6 DEF Typed, JobsTyped, RequestsTyped, ModsTyped
  <1>8. JobsOK'
    <2> SUFFICES ASSUME NEW j \in Jobs PROVE JobOK(j)'
      BY DEF JobsOK
    <2>1. JobOK(j) /\ job'[j] = job[j] /\ job[j].run # a
      BY <1>1, <1>2, <1>3 DEF JobsOK
    <2>2. job[j].row # "none" =>
            /\ job[j].run \in Runs
            /\ run'[job[j].run].stage = run[job[j].run].stage
            /\ run'[job[j].run].units = run[job[j].run].units
      BY <1>5, <2>1 DEF JobOK
    <2>3. job[j].run \in Runs => run[job[j].run].units \subseteq Units
      BY <1>1 DEF RunsTyped, Row
    <2> HIDE DEF a
    <2> QED
      BY <1>6, <2>1, <2>2, <2>3 DEF JobOK, StoredKeeps, Elsewhere
  <1>9. RequestsOK' /\ RangesImported'
    BY <1>1, <1>2, <1>3, <1>5, <1>6 DEF RequestsOK, RangesImported
  <1>10. UploadApart'
    BY <1>2, <1>3, <1>4, <1>5 DEF UploadApart
  <1>11. CycleCovered' /\ SyncedIsStored' /\ AgentTypeOK'
    BY <1>1, <1>2, <1>3, <1>4, <1>5, <1>6 DEF CycleCovered, SyncedIsStored, AgentTypeOK
  <1> QED
    BY <1>7, <1>8, <1>9, <1>10, <1>11 DEF IInv, ServerInv, CycleInv

(* The agent's requests are requests like any other's. *)
LEMMA StartStep ==
  ASSUME IInv, Start
  PROVE  IInv'
  <1>1. /\ Typed /\ ModsTyped /\ ServerInv /\ AgentTypeOK /\ CycleCovered /\ SyncedIsStored
        /\ agent.at = "start" /\ agent' = [agent EXCEPT !.at = "wait"]
        /\ run[agent.run].stage = "range" /\ agent.run \in Runs
        /\ request' = [request EXCEPT !["agent"] = [NoRequest EXCEPT !.at = "enqueue", !.run = agent.run]]
        /\ UNCHANGED <<run, job, modJob, stored, staged, file, missed>>
    BY DEF IInv, CycleInv, CycleCovered, Start, StartRange, Tell, GoTo, rowVars, jobVars
  <1>2. Typed' /\ ModsTyped'
    BY <1>1 DEF Typed, RunsTyped, JobsTyped, StoredTyped, RequestsTyped, ModsTyped, Request, NoRequest
  <1>3. \A c \in Callers : RequestKeeps(c) \/ RequestEnters(c)
    BY <1>1 DEF Typed, RequestsTyped, RequestKeeps, RequestEnters, NoRequest, Uploading
  <1>4. Moves
    BY <1>1, <1>3 DEF Moves, JobKeeps, RunKeeps, StoredKeeps
  <1>5. ServerInv'
    BY <1>1, <1>4, MovesServer
  <1>6. /\ agent' \in Cycle /\ agent'.at = "wait" /\ agent'.todo = agent.todo
        /\ agent'.inv = agent.inv /\ agent'.run = agent.run
    BY <1>1 DEF AgentTypeOK, Cycle, Phase
  <1>7. AgentTypeOK'
    BY <1>1, <1>6 DEF AgentTypeOK
  <1>8. UploadApart' /\ CycleCovered' /\ SyncedIsStored'
    BY <1>1, <1>6 DEF UploadApart, CycleCovered, SyncedIsStored, CurrentMods
  <1> QED
    BY <1>2, <1>5, <1>7, <1>8 DEF IInv, CycleInv

(* TM is started or an active run joined: what was imported stays in.        *)
LEMMA StartTmStep ==
  ASSUME IInv, BoundsAssumption, StartTm
  PROVE  IInv'
  <1>1. /\ Typed /\ ModsTyped /\ ServerInv /\ AgentTypeOK
        /\ UploadApart /\ CycleCovered /\ SyncedIsStored
        /\ agent.at = "tm" /\ agent' = [agent EXCEPT !.at = "waitTm"]
        /\ CheckStage("agent", "tm")
        /\ UNCHANGED <<staged, file, missed>>
    BY DEF IInv, CycleInv, StartTm, GoTo
  <1>2. Typed' /\ Moves
    BY <1>1, CheckMoves DEF Callers, ButtonStages
  <1>3. ModsTyped'
    BY <1>1 DEF CheckStage, jobVars, ModsTyped
  <1>4. ServerInv'
    BY <1>1, <1>2, MovesServer
  <1>5. CurrentMods \subseteq CurrentMods'
    BY <1>2, StoredIn DEF Moves
  <1>6. /\ agent' \in Cycle /\ agent'.at = "waitTm" /\ agent'.todo = agent.todo
        /\ agent'.inv = agent.inv
    BY <1>1 DEF AgentTypeOK, Cycle, Phase
  <1>7. AgentTypeOK'
    BY <1>1, <1>6 DEF AgentTypeOK
  <1>8. UploadApart' /\ CycleCovered' /\ SyncedIsStored'
    BY <1>1, <1>5, <1>6 DEF UploadApart, CycleCovered, SyncedIsStored
  <1> QED
    BY <1>2, <1>3, <1>4, <1>7, <1>8 DEF IInv, CycleInv

(* A request sent twice asks for the same run twice.                         *)
LEMMA ResendStep ==
  ASSUME IInv, Resend
  PROVE  IInv'
  <1>1. PICK phase \in {"start", "tm"} :
          /\ phase = IF agent.at = "wait" THEN "start" ELSE "tm"
          /\ agent' = [agent EXCEPT !.at = phase]
    BY DEF Resend, GoTo
  <1>2. /\ Typed /\ ModsTyped /\ ServerInv /\ AgentTypeOK /\ CycleCovered /\ SyncedIsStored
        /\ agent.at \in {"wait", "waitTm"}
        /\ request' = [request EXCEPT !["lost"] = request["agent"], !["agent"] = NoRequest]
        /\ UNCHANGED <<run, job, modJob, stored, staged, file, missed>>
    BY DEF IInv, CycleInv, Resend, rowVars, jobVars
  <1>3. Typed' /\ ModsTyped'
    BY <1>2 DEF Typed, RunsTyped, JobsTyped, StoredTyped, RequestsTyped, ModsTyped, Callers, Request, NoRequest
  <1>4. \A c \in Callers : RequestKeeps(c) \/ RequestEnters(c)
    <2>1. /\ request'["agent"] = NoRequest /\ request'["lost"] = request["agent"]
          /\ \A c \in Callers : c \notin {"agent", "lost"} => request'[c] = request[c]
      BY <1>2 DEF Typed, RequestsTyped, Callers
    <2>2. RequestKeeps("agent")
      BY <2>1 DEF RequestKeeps, NoRequest, Asking
    <2>3. RequestEnters("lost")
      BY <1>2, <2>1 DEF RequestEnters, ServerInv, RequestsOK, Callers, Uploading
    <2>4. \A c \in Callers : c \notin {"agent", "lost"} => RequestKeeps(c)
      BY <2>1 DEF RequestKeeps
    <2> QED
      BY <2>2, <2>3, <2>4
  <1>5. Moves
    BY <1>2, <1>4 DEF Moves, JobKeeps, RunKeeps, StoredKeeps
  <1>6. ServerInv'
    BY <1>2, <1>5, MovesServer
  <1>7. /\ agent' \in Cycle /\ agent'.at = phase /\ agent'.todo = agent.todo
        /\ agent'.inv = agent.inv /\ agent'.run = agent.run
    BY <1>1, <1>2 DEF AgentTypeOK, Cycle, Phase
  <1>8. AgentTypeOK'
    BY <1>1, <1>2, <1>7 DEF AgentTypeOK
  <1>9. UploadApart' /\ CycleCovered' /\ SyncedIsStored'
    BY <1>1, <1>2, <1>7 DEF UploadApart, CycleCovered, SyncedIsStored, CurrentMods
  <1> QED
    BY <1>3, <1>6, <1>8, <1>9 DEF IInv, CycleInv

---------------------------------------------------------------------------
(* The invariant holds *)

(* The initial states satisfy the invariant.                                 *)
LEMMA InitInv ==
  ASSUME BoundsAssumption, Init
  PROVE  IInv
  <1>1. /\ run = [r \in Runs |-> NoRow] /\ job = [j \in Jobs |-> NoSync]
        /\ modJob = [j \in Jobs |-> [u \in Units |-> NoMod]]
        /\ stored = [u \in Units |-> IF u \in Synced THEN "imported" ELSE "unknown"]
        /\ request = [c \in Callers |-> NoRequest]
        /\ staged = Synced /\ agent = NoCycle /\ missed = {}
        /\ file = [sig |-> Synced, last |-> Synced # {}, resync |-> FALSE]
    BY DEF Init, VortexInit
  <1>2. Typed /\ ModsTyped
    <2>1. NoRow \in Row /\ NoRequest \in Request /\ NoMod \in ModJob
      BY DEF NoRow, Row, NoRequest, Request, NoMod, ModJob, ModRow
    <2>2. NoSync \in SyncJob
      BY DEF NoSync, SyncJob, QueueRow, Step, Entry
    <2> QED
      BY <1>1, <2>1, <2>2 DEF Typed, RunsTyped, JobsTyped, StoredTyped, RequestsTyped, ModsTyped, Stored
  <1>3. AgentTypeOK
    <2>1. NoCycle \in Cycle /\ NoCycle.todo = {} /\ NoCycle.inv = {} /\ NoCycle.at = "idle"
      BY DEF NoCycle, Cycle, Phase
    <2>2. file \in File
      BY <1>1 DEF File, BoundsAssumption
    <2> QED
      BY <1>1, <2>1, <2>2 DEF AgentTypeOK, BoundsAssumption
  <1>4. ServerInv
    BY <1>1 DEF ServerInv, JobsOK, JobOK, RequestsOK, RangesImported, NoSync, NoRequest, NoRow,
       Asking, Elsewhere
  <1>5. UploadApart /\ CycleCovered
    BY <1>1 DEF UploadApart, CycleCovered, NoCycle
  <1>6. SyncedIsStored
    BY <1>1 DEF SyncedIsStored, CurrentMods, BoundsAssumption
  <1> QED
    BY <1>2, <1>3, <1>4, <1>5, <1>6 DEF IInv, CycleInv

(* Every step of server and agent preserves the invariant.                   *)
LEMMA NextInv ==
  ASSUME BoundsAssumption, IInv, [Next]_vars
  PROVE  IInv'
  <1>1. CASE ServerNext /\ UNCHANGED agentVars
    <2>1. Typed' /\ Moves
      BY <1>1, ServerMoves DEF IInv, CycleInv
    <2>2. ModsTyped'
      BY <1>1, ModsStep DEF IInv
    <2>3. ServerInv'
      BY <2>1, MovesServer DEF IInv
    <2>4. CycleInv'
      BY <1>1, <2>1, MovesCycle DEF IInv, agentVars
    <2>5. AgentTypeOK'
      BY <1>1 DEF IInv, AgentTypeOK, agentVars
    <2> QED
      BY <2>1, <2>2, <2>3, <2>4, <2>5 DEF IInv
  <1>2. CASE AgentNext
    BY <1>2, InstallStep, UploadStep, RefuseStep, ScanStep, PlanStep, PlanLostStep, EndUploadStep,
       StartStep, StartTmStep, ResendStep, WaitedStep, AbandonStep DEF AgentNext
  <1>3. CASE UNCHANGED vars
    <2>1. UNCHANGED <<rowVars, jobVars, request>> /\ UNCHANGED agentVars
      BY <1>3 DEF vars, runsVars
    <2>2. Typed' /\ ModsTyped' /\ ServerInv' /\ CurrentMods' = CurrentMods
      BY <2>1, StillStep
    <2>3. AgentTypeOK' /\ UploadApart' /\ CycleCovered' /\ SyncedIsStored'
      BY <2>1, <2>2
         DEF IInv, CycleInv, AgentTypeOK, UploadApart, CycleCovered, SyncedIsStored, agentVars, rowVars, jobVars
    <2> QED
      BY <2>2, <2>3 DEF IInv, CycleInv
  <1> QED
    BY <1>1, <1>2, <1>3 DEF Next

(* The invariant holds in every reachable state of server and agent together. *)
THEOREM CycleInvariant == Spec => []IInv
  BY BoundsAssumption, InitInv, NextInv, PTL DEF Spec

---------------------------------------------------------------------------
(* What it is for *)

(* The rows, jobs, requests and per-mod jobs, and the cycle and the state    *)
(* file of the agent, keep their types.                                      *)
THEOREM AgentTypes == Spec => []AgentTypeOK
  <1>1. IInv => AgentTypeOK
    BY DEF IInv
  <1> QED
    BY <1>1, CycleInvariant, PTL

(* A completed range has every unit of its plan in the catalog, however its  *)
(* requests, jobs, Stops, crashes and the hooks of recovery interleave.      *)
THEOREM RangesWhole == Spec => []RangesImported
  <1>1. IInv => RangesImported
    BY DEF IInv, ServerInv
  <1> QED
    BY <1>1, CycleInvariant, PTL

(* The state file of the agent names no unit the server does not hold and    *)
(* did not refuse: whatever is lost, sent twice, stopped, stalled or         *)
(* restarted in between, the agent forgets nothing it will not upload again. *)
THEOREM SyncKept == Spec => []SyncedIsStored
  <1>1. IInv => SyncedIsStored
    BY DEF IInv, CycleInv
  <1> QED
    BY <1>1, CycleInvariant, PTL
=============================================================================
