------------------------- MODULE VortexStageProofs ------------------------
(*************************************************************************)
(* Proofs about the stages of the Vortex server with the agent at work on *)
(* it: a Stop reaches the per-mod jobs of a fan-out, a completed fan-out   *)
(* has an end for every mod, recovery at boot spares what is still to run. *)
(*************************************************************************)
EXTENDS VortexAgentProofs

---------------------------------------------------------------------------
(* Stop reaches the mods *)

Done       == {"completed", "cancelled"}
Settled(m) == m.row \notin Live \/ m.snap \in Ended
Fresh(j)   == job[j].row \in {"none", "waiting"}
Early(j)   == Fresh(j) \/ job[j].at \in {"begin", "import"}

(* A job that has not come to a mod, or is not at mods yet, has no per-mod  *)
(* job; of the per-mod jobs it is done with none runs on unstopped.         *)
ModsInv ==
  \A j \in Jobs :
    /\ Fresh(j) => job[j].at = "idle"
    /\ \A u \in Units :
         /\ Early(j) \/ job[j].mods[u] = "queued" => modJob[j][u].row = "none"
         /\ job[j].mods[u] \in Done => Settled(modJob[j][u])

JobStays(j) ==
  /\ Fresh(j)' => job'[j].at = "idle"
  /\ Early(j)' => Early(j)
  /\ \A u \in Units :
       job'[j].mods[u] # job[j].mods[u] =>
         /\ job'[j].mods[u] # "queued"
         /\ job'[j].mods[u] \in Done => Settled(modJob'[j][u])
ModStays(j, u) ==
  /\ modJob[j][u].row = "none" => modJob'[j][u].row = "none"
  /\ Settled(modJob[j][u]) => Settled(modJob'[j][u])

LEMMA ModsFrame ==
  ASSUME ModsInv, \A j \in Jobs : JobStays(j), \A j \in Jobs, u \in Units : ModStays(j, u)
  PROVE  ModsInv'
  BY DEF ModsInv, JobStays, ModStays

(* Most steps move one job and no per-mod job, or the other way round. *)
LEMMA OneJobFrame ==
  ASSUME ModsInv, NEW j \in Jobs, JobStays(j), \A k \in Jobs \ {j} : job'[k] = job[k],
         \A k \in Jobs, u \in Units : ModStays(k, u)
  PROVE  ModsInv'
  <1>1. \A k \in Jobs \ {j} : JobStays(k)
    BY DEF ModsInv, JobStays, Fresh, Early
  <1>2. QED
    BY <1>1, ModsFrame

LEMMA JobsSame ==
  ASSUME ModsInv, job' = job
  PROVE  \A j \in Jobs : JobStays(j)
  BY DEF ModsInv, JobStays, Fresh, Early

LEMMA ModsSame ==
  ASSUME modJob' = modJob
  PROVE  \A j \in Jobs, u \in Units : ModStays(j, u)
  BY DEF ModStays

(* A stopped per-mod job is settled. *)
LEMMA StopSettles ==
  ASSUME NEW m \in ModJob
  PROVE  /\ Settled(StopMod(m))
         /\ m.row = "none" => StopMod(m).row = "none"
  BY DEF Settled, StopMod, Live, Ended, ModJob, ModRow

(* The per-mod jobs on their queue. *)
LEMMA QueueStays ==
  ASSUME ModsTyped, NEW j \in Jobs, NEW u \in Units,
         ClaimMod(j, u) \/ ModEnds(j, u) \/ SnapshotExpires(j, u) \/ StallMod(j, u)
  PROVE  job' = job /\ \A k \in Jobs, v \in Units : ModStays(k, v)
  <1>1. \A k \in Jobs, v \in Units : modJob[k][v] \in ModJob
    BY DEF ModsTyped
  <1>2. job' = job
    BY DEF ClaimMod, ModEnds, EndMod, SnapshotExpires, StallMod
  <1>3. CASE ClaimMod(j, u)
    <2>1. /\ modJob'[j][u].snap = IF modJob[j][u].snap = "none" THEN "running" ELSE modJob[j][u].snap
          /\ modJob[j][u].row = "waiting"
          /\ \A k \in Jobs, v \in Units : <<k, v>> # <<j, u>> => modJob'[k][v] = modJob[k][v]
      BY <1>1, <1>3 DEF ClaimMod, ModsTyped, ModJob
    <2>2. QED
      BY <1>2, <2>1 DEF ModStays, Settled, Live, Ended
  <1>4. CASE ModEnds(j, u)
    <2>1. /\ modJob[j][u].row = "active"
          /\ modJob'[j][u].row = "over"
          /\ \A k \in Jobs, v \in Units : <<k, v>> # <<j, u>> => modJob'[k][v] = modJob[k][v]
      BY <1>1, <1>4 DEF ModEnds, EndMod, ModsTyped, ModJob
    <2>2. QED
      BY <1>2, <2>1 DEF ModStays, Settled, Live
  <1>5. CASE SnapshotExpires(j, u)
    <2>1. /\ modJob[j][u].row = "waiting" /\ modJob[j][u].snap = "running"
          /\ \A k \in Jobs, v \in Units : <<k, v>> # <<j, u>> => modJob'[k][v] = modJob[k][v]
      BY <1>1, <1>5 DEF SnapshotExpires, ModsTyped, ModJob
    <2>2. QED
      BY <1>2, <2>1 DEF ModStays, Settled, Live, Ended
  <1>6. CASE StallMod(j, u)
    <2>1. /\ modJob[j][u].row = "dead" /\ modJob'[j][u].row = "over"
          /\ \A k \in Jobs, v \in Units : <<k, v>> # <<j, u>> => modJob'[k][v] = modJob[k][v]
      BY <1>1, <1>6 DEF StallMod, ModsTyped, ModJob
    <2>2. QED
      BY <1>2, <2>1 DEF ModStays, Settled, Live
  <1>7. QED
    BY <1>3, <1>4, <1>5, <1>6

(* Requests of a button or of the agent. *)
LEMMA RequestMods ==
  ASSUME Typed, ModsTyped, ModsInv,
         \/ \E c \in Callers : EnqueueJob(c) \/ MarkQueued(c) \/ StopJob(c)
         \/ \E c \in Callers, stage \in ButtonStages : CheckStage(c, stage)
         \/ \E c \in Buttons, r \in Runs : StopRun(c, r)
  PROVE  ModsInv'
  <1>0. JobsTyped
    BY DEF Typed
  <1>1. ASSUME NEW c \in Callers, EnqueueJob(c)
        PROVE  ModsInv'
    <2>1. PICK j \in Jobs :
            /\ job[j].row = "none"
            /\ job' = [job EXCEPT ![j] = [NoSync EXCEPT !.run = request[c].run, !.row = "waiting"]]
      BY <1>1 DEF EnqueueJob, FreshJob
    <2>2. /\ \A k \in Jobs \ {j} : job'[k] = job[k]
          /\ job'[j].row = "waiting" /\ job'[j].at = "idle"
          /\ \A u \in Units : job'[j].mods[u] = "none"
      BY <1>0, <2>1 DEF JobsTyped, NoSync
    <2>3. JobStays(j)
      BY <2>1, <2>2 DEF JobStays, Fresh, Early, Done
    <2>4. modJob' = modJob
      BY <1>1 DEF EnqueueJob
    <2>5. QED
      BY <2>2, <2>3, <2>4, ModsSame, OneJobFrame
  <1>2. ASSUME NEW c \in Callers, MarkQueued(c) \/ \E stage \in ButtonStages : CheckStage(c, stage)
        PROVE  ModsInv'
    <2>1. job' = job /\ modJob' = modJob
      BY <1>2 DEF MarkQueued, CheckStage, jobVars
    <2>2. QED
      BY <2>1, JobsSame, ModsSame, ModsFrame
  <1>3. ASSUME NEW c \in Callers, StopJob(c)
        PROVE  ModsInv'
    <2>1. modJob' = modJob
      BY <1>3 DEF StopJob
    <2>2. ASSUME NEW j \in Jobs, j = request[c].job
          PROVE  ModsInv'
      <3>1. /\ \A k \in Jobs \ {j} : job'[k] = job[k]
            /\ job'[j].at = job[j].at
            /\ job'[j].mods = job[j].mods
            /\ job'[j].row \in {job[j].row, "removed", "failed"}
        <4>1. CASE job' = [job EXCEPT ![j].row = "removed"]
          BY <1>0, <2>2, <4>1 DEF JobsTyped, SyncJob
        <4>2. CASE job' = [job EXCEPT ![j].row = "failed", ![j].hook = "failed"]
          BY <1>0, <2>2, <4>2 DEF JobsTyped, SyncJob
        <4>3. CASE job' = [job EXCEPT ![j].cut = job[j].at # "dead"]
          BY <1>0, <2>2, <4>3 DEF JobsTyped, SyncJob
        <4>4. CASE UNCHANGED job
          BY <4>4
        <4>5. QED
          BY <1>3, <2>2, <4>1, <4>2, <4>3, <4>4 DEF StopJob
      <3>2. JobStays(j)
        BY <2>2, <3>1 DEF JobStays, Fresh, Early, ModsInv
      <3>3. QED
        BY <2>1, <2>2, <3>1, <3>2, ModsSame, OneJobFrame
    <2>3. CASE request[c].job \notin Jobs
      <3>1. \A k \in Jobs : job'[k] = job[k]
        BY <1>0, <1>3, <2>3 DEF StopJob, JobsTyped
      <3>2. \A k \in Jobs : JobStays(k)
        BY <3>1 DEF ModsInv, JobStays, Fresh, Early
      <3>3. QED
        BY <2>1, <3>2, ModsSame, ModsFrame
    <2>4. QED
      BY <2>2, <2>3
  <1>4. ASSUME NEW c \in Buttons, NEW r \in Runs, StopRun(c, r)
        PROVE  ModsInv'
    <2>1. /\ job' = job
          /\ \A j \in Jobs, u \in Units : modJob'[j][u] \in {modJob[j][u], StopMod(modJob[j][u])}
      BY <1>4 DEF StopRun
    <2>2. \A j \in Jobs, u \in Units : ModStays(j, u)
      BY <2>1, StopSettles DEF ModStays, ModsTyped
    <2>3. QED
      BY <2>1, <2>2, JobsSame, ModsFrame
  <1>5. QED
    BY <1>1, <1>2, <1>3, <1>4

(* A job that leaves its per-mod jobs and its entries alone. *)
LEMMA JobSteps ==
  ASSUME Typed, ModsInv, NEW j \in Jobs, modJob' = modJob,
         \A k \in Jobs \ {j} : job'[k] = job[k],
         job'[j].mods = job[j].mods,
         job'[j].row \notin {"none", "waiting"} \/ (job'[j].row = job[j].row /\ job'[j].at = job[j].at),
         job'[j].at \in {"begin", "import"} => Early(j)
  PROVE  ModsInv'
  <1>1. JobStays(j)
    BY DEF JobStays, Fresh, Early, ModsInv
  <1>2. QED
    BY <1>1, ModsSame, OneJobFrame

(* Who is at work has left the queue. *)
LEMMA AtWork ==
  ASSUME ModsInv, NEW j \in Jobs, job[j].at # "idle"
  PROVE  job[j].row \notin {"none", "waiting"}
  BY DEF ModsInv, Fresh

LEMMA JobMods ==
  ASSUME Typed, ModsTyped, ModsInv, NEW j \in Jobs,
         \/ Claim(j) \/ Begin(j) \/ EndStage(j) \/ Export(j) \/ CancelRest(j) \/ EndFanOut(j) \/ Settle(j)
         \/ StageThrows(j) \/ HookReads(j) \/ HookCloses(j) \/ StallDead(j) \/ StallLive(j)
  PROVE  ModsInv'
  <1>0. JobsTyped
    BY DEF Typed
  (* What the steps of a handler that only move it on have in common. *)
  <1>a. ASSUME NEW s \in {"returned", "thrown"}, JobTo(j, s), job[j].at # "idle", modJob' = modJob
        PROVE  ModsInv'
    <2>1. /\ \A k \in Jobs \ {j} : job'[k] = job[k]
          /\ job'[j].mods = job[j].mods /\ job'[j].at = s /\ job'[j].row = job[j].row
      BY <1>0, <1>a DEF JobTo, JobsTyped, SyncJob
    <2>2. QED
      BY <1>a, <2>1, AtWork, JobSteps
  <1>1. CASE Claim(j)
    <2>1. /\ modJob' = modJob /\ Fresh(j)
          /\ job' = [job EXCEPT ![j].row = "active", ![j].at = "begin"]
      BY <1>1 DEF Claim, Fresh
    <2>2. /\ \A k \in Jobs \ {j} : job'[k] = job[k]
          /\ job'[j].row = "active" /\ job'[j].at = "begin" /\ job'[j].mods = job[j].mods
      BY <1>0, <2>1 DEF JobsTyped, SyncJob
    <2>3. QED
      BY <2>1, <2>2, JobSteps DEF Early
  <1>2. CASE Begin(j)
    <2>1. job[j].at = "begin" /\ modJob' = modJob /\ job[j].row \notin {"none", "waiting"}
      BY <1>2, AtWork DEF Begin
    <2>2. CASE \E s \in {"returned", "thrown"} : JobTo(j, s)
      BY <1>a, <2>1, <2>2
    <2>3. CASE \E first \in {"import", "next", "export"} : \E mine :
                 job' = [job EXCEPT ![j].at = first, ![j].mods = mine]
      <3>0. PICK first \in {"import", "next", "export"} : \E mine :
              job' = [job EXCEPT ![j].at = first, ![j].mods = mine]
        BY <2>3
      <3>1. PICK mine : job' = [job EXCEPT ![j].at = first, ![j].mods = mine]
        BY <3>0
      <3>2. \A u \in Units : modJob[j][u].row = "none"
        BY <2>1 DEF ModsInv, Early
      <3>3. /\ \A k \in Jobs \ {j} : job'[k] = job[k]
            /\ job'[j].row = job[j].row
            /\ \A u \in Units : modJob'[j][u].row = "none"
        BY <1>0, <2>1, <3>1, <3>2 DEF JobsTyped, SyncJob
      <3>4. QED
        BY <2>1, <3>3 DEF ModsInv, Fresh, Early, Settled, Live
    <2>4. QED
      BY <1>2, <2>2, <2>3 DEF Begin
  <1>3. CASE EndStage(j) \/ Export(j) \/ EndFanOut(j) \/ StageThrows(j)
    <2>1. job[j].at # "idle" /\ modJob' = modJob
      BY <1>3 DEF EndStage, Export, EndFanOut, StageThrows
    <2>2. \E s \in {"returned", "thrown"} : JobTo(j, s)
      BY <1>3 DEF EndStage, Export, EndFanOut, StageThrows, Return, Throw
    <2>3. QED
      BY <1>a, <2>1, <2>2
  <1>4. CASE CancelRest(j)
    <2>1. modJob' = modJob /\ job[j].at = "next"
      BY <1>4 DEF CancelRest
    <2>2. /\ \A k \in Jobs \ {j} : job'[k] = job[k]
          /\ job'[j].row = job[j].row /\ job'[j].at = job[j].at
          /\ \A u \in Units : job'[j].mods[u] = IF job[j].mods[u] = "queued" THEN "cancelled" ELSE job[j].mods[u]
      BY <1>0, <1>4 DEF CancelRest, JobsTyped, SyncJob
    <2>3. JobStays(j)
      BY <2>1, <2>2 DEF JobStays, ModsInv, Fresh, Early, Settled, Live
    <2>4. QED
      BY <2>1, <2>2, <2>3, ModsSame, OneJobFrame
  <1>5. CASE Settle(j)
    <2>1. modJob' = modJob /\ job[j].at # "idle"
      BY <1>5 DEF Settle
    <2>2. /\ \A k \in Jobs \ {j} : job'[k] = job[k]
          /\ job'[j].mods = job[j].mods /\ job'[j].at = "idle"
          /\ job'[j].row \in {job[j].row, "failed", "completed"}
      BY <1>0, <1>5 DEF Settle, JobsTyped, SyncJob
    <2>3. QED
      BY <2>1, <2>2, AtWork, JobSteps
  <1>6. CASE HookReads(j) \/ HookCloses(j)
    <2>1. modJob' = modJob
      BY <1>6 DEF HookReads, HookCloses
    <2>2. PICK hook : job' = [job EXCEPT ![j].hook = hook]
      BY <1>6 DEF HookReads, HookCloses
    <2>3. /\ \A k \in Jobs \ {j} : job'[k] = job[k]
          /\ job'[j].mods = job[j].mods /\ job'[j].at = job[j].at /\ job'[j].row = job[j].row
      BY <1>0, <2>2 DEF JobsTyped, SyncJob
    <2>4. QED
      BY <2>1, <2>3, JobSteps DEF Early
  <1>7. CASE StallDead(j) \/ StallLive(j)
    <2>1. modJob' = modJob
      BY <1>7 DEF StallDead, StallLive
    <2>2. PICK at \in {"idle", job[j].at} : FailRow(j, at)
      BY <1>7 DEF StallDead, StallLive
    <2>3. /\ \A k \in Jobs \ {j} : job'[k] = job[k]
          /\ job'[j].mods = job[j].mods /\ job'[j].at = at /\ job'[j].row = "failed"
      BY <1>0, <2>2 DEF FailRow, JobsTyped, SyncJob
    <2>4. QED
      BY <2>1, <2>3, JobSteps DEF Early
  <1>8. QED
    BY <1>1, <1>2, <1>3, <1>4, <1>5, <1>6, <1>7

(* The steps of a fan-out that touch one mod, and of an import. *)
LEMMA UnitMods ==
  ASSUME Typed, ModsTyped, ModsInv, NEW j \in Jobs, NEW u \in Units,
         \/ StartImport(j, u) \/ EndImport(j, u)
         \/ GuardMod(j, u) \/ EnqueueMod(j, u) \/ Poll(j, u)
  PROVE  ModsInv'
  <1>0. JobsTyped /\ \A k \in Jobs, v \in Units : modJob[k][v] \in ModJob
    BY DEF Typed, ModsTyped
  <1>a. ASSUME Throw(j), job[j].at # "idle", modJob' = modJob
        PROVE  ModsInv'
    <2>1. /\ \A k \in Jobs \ {j} : job'[k] = job[k]
          /\ job'[j].mods = job[j].mods /\ job'[j].at = "thrown" /\ job'[j].row = job[j].row
      BY <1>0, <1>a DEF Throw, JobTo, JobsTyped, SyncJob
    <2>2. QED
      BY <1>a, <2>1, AtWork, JobSteps
  <1>e. ASSUME NEW entry, NEW step, Entering(j, u, entry, step)
        PROVE  /\ \A k \in Jobs \ {j} : job'[k] = job[k]
               /\ job'[j].row = job[j].row /\ job'[j].at = step
               /\ \A v \in Units : job'[j].mods[v] = IF v = u THEN entry ELSE job[j].mods[v]
    BY <1>0, <1>e DEF Entering, JobsTyped, SyncJob
  <1>1. CASE StartImport(j, u) \/ EndImport(j, u)
    <2>1. job[j].at = "import" /\ modJob' = modJob
      BY <1>1 DEF StartImport, EndImport
    <2>2. CASE \E entry \in {"running", "completed"} : Entering(j, u, entry, "import")
      <3>1. PICK entry \in {"running", "completed"} : Entering(j, u, entry, "import")
        BY <2>2
      <3>2. modJob[j][u].row = "none"
        BY <2>1 DEF ModsInv, Early
      <3>3. JobStays(j)
        BY <1>e, <2>1, <3>1, <3>2, AtWork DEF JobStays, Fresh, Early, Settled, Live
      <3>4. QED
        BY <1>e, <2>1, <3>1, <3>3, ModsSame, OneJobFrame
    <2>3. QED
      BY <1>1, <1>a, <2>1, <2>2 DEF StartImport, EndImport
  <1>2. CASE GuardMod(j, u)
    <2>1. job[j].at = "next" /\ job[j].row \notin {"none", "waiting"}
      BY <1>2, AtWork DEF GuardMod
    <2>2. PICK entry \in {"skipped", "guarded"}, step \in {"next", "guarded"} : Entering(j, u, entry, step)
      BY <1>2 DEF GuardMod
    <2>3. JobStays(j)
      BY <1>e, <2>1, <2>2 DEF JobStays, Fresh, Early, Done
    <2>4. \A k \in Jobs, v \in Units : ModStays(k, v)
      <3>1. \A k \in Jobs, v \in Units :
              /\ modJob'[k][v].row \in {modJob[k][v].row, "over"}
              /\ modJob'[k][v].row = "over" \/ modJob'[k][v] = modJob[k][v]
              /\ modJob'[k][v].row # modJob[k][v].row => modJob[k][v].row = "waiting"
        BY <1>0, <1>2 DEF GuardMod, ModsTyped, ModJob
      <3>2. QED
        BY <3>1 DEF ModStays, Settled, Live
    <2>5. QED
      BY <1>e, <2>2, <2>3, <2>4, OneJobFrame
  <1>3. CASE EnqueueMod(j, u)
    <2>1. /\ job[j].at = "guarded" /\ job[j].mods[u] = "guarded"
          /\ job[j].row \notin {"none", "waiting"}
      BY <1>3, AtWork DEF EnqueueMod
    <2>2. \A k \in Jobs, v \in Units : <<k, v>> # <<j, u>> => modJob'[k][v] = modJob[k][v]
      BY <1>3 DEF EnqueueMod, ModsTyped
    <2>3. /\ \A k \in Jobs \ {j} : job'[k] = job[k]
          /\ job'[j].row = job[j].row
          /\ job'[j].at \in {"poll", "thrown"}
          /\ \A v \in Units : v # u => job'[j].mods[v] = job[j].mods[v]
          /\ job'[j].mods[u] \in {"guarded", "running"}
      <3>1. CASE Entering(j, u, "running", "poll")
        BY <1>e, <3>1
      <3>2. CASE Throw(j)
        BY <1>0, <2>1, <3>2 DEF Throw, JobTo, JobsTyped, SyncJob
      <3>3. QED
        BY <1>3, <3>1, <3>2 DEF EnqueueMod
    <2>4. QED
      BY <2>1, <2>2, <2>3 DEF ModsInv, Fresh, Early, Done
  <1>4. CASE Poll(j, u)
    <2>1. job[j].at = "poll" /\ job[j].row \notin {"none", "waiting"}
      BY <1>4, AtWork DEF Poll
    <2>2. PICK entry : Entering(j, u, entry, "next") /\ entry \in Ended
      BY <1>0, <1>4 DEF Poll, ModJob, Ended
    <2>3. CASE job[j].cut
      <3>1. modJob' = [modJob EXCEPT ![j][u] = StopMod(@)]
        BY <1>4, <2>3 DEF Poll
      <3>2. /\ \A k \in Jobs, v \in Units : modJob'[k][v] \in {modJob[k][v], StopMod(modJob[k][v])}
            /\ modJob'[j][u] = StopMod(modJob[j][u])
        BY <3>1 DEF ModsTyped
      <3>3. \A k \in Jobs, v \in Units : ModStays(k, v)
        BY <1>0, <3>2, StopSettles DEF ModStays
      <3>4. JobStays(j)
        BY <1>0, <1>e, <2>1, <2>2, <3>2, StopSettles DEF JobStays, Fresh, Early, Ended
      <3>5. QED
        BY <1>e, <2>2, <3>3, <3>4, OneJobFrame
    <2>4. CASE ~job[j].cut
      <3>1. modJob' = modJob
        BY <1>4, <2>4 DEF Poll
      <3>2. Entering(j, u, IF modJob[j][u].snap = "none" THEN "failed" ELSE modJob[j][u].snap, "next")
        BY <1>4, <2>4 DEF Poll
      <3>3. job'[j].mods[u] \in Done => modJob[j][u].snap \in Ended
        BY <1>e, <3>2 DEF Done, Ended
      <3>4. JobStays(j)
        BY <1>e, <2>1, <2>2, <3>1, <3>3 DEF JobStays, Fresh, Early, Ended, Settled
      <3>5. QED
        BY <1>e, <2>2, <3>1, <3>4, ModsSame, OneJobFrame
    <2>5. QED
      BY <2>3, <2>4
  <1>5. QED
    BY <1>1, <1>2, <1>3, <1>4

LEMMA BootMods ==
  ASSUME Typed, ModsTyped, ModsInv, BootStep \/ Crash
  PROVE  ModsInv'
  <1>1. CASE BootStep
    <2>1. job' = job /\ modJob' = modJob
      BY <1>1 DEF BootStep, Boot, Serve, CloseOrSpare, jobVars
    <2>2. QED
      BY <2>1, JobsSame, ModsSame, ModsFrame
  <1>2. CASE Crash
    <2>1. ASSUME NEW j \in Jobs, NEW u \in Units
          PROVE  ModStays(j, u)
      <3>1. modJob[j][u] \in ModJob
        BY DEF ModsTyped
      <3>2. modJob'[j][u] = [modJob[j][u] EXCEPT !.row = IF @ = "active" THEN "dead" ELSE @]
        BY <1>2 DEF Crash
      <3>3. /\ modJob'[j][u].row = IF modJob[j][u].row = "active" THEN "dead" ELSE modJob[j][u].row
            /\ modJob'[j][u].snap = modJob[j][u].snap
        BY <3>1, <3>2 DEF ModJob
      <3>4. QED
        BY <3>3 DEF ModStays, Settled, Live
    <2> DEFINE step(k) == IF job[k].at = "idle" \/ job[k].row # "active" THEN "idle" ELSE "dead"
    <2>2. job' = [k \in Jobs |-> [job[k] EXCEPT !.at = step(k), !.hook = "none", !.cut = FALSE]]
      BY <1>2 DEF Crash
    <2>3. \A k \in Jobs : step(k) \in {"idle", "dead"} /\ (job[k].row # "active" => step(k) = "idle")
      OBVIOUS
    <2> HIDE DEF step
    <2>4. \A k \in Jobs : /\ job'[k].row = job[k].row /\ job'[k].mods = job[k].mods
                          /\ job'[k].at = step(k)
      BY <2>2 DEF Typed, JobsTyped, SyncJob
    <2>5. \A k \in Jobs : JobStays(k)
      BY <2>3, <2>4 DEF JobStays, Fresh, Early, ModsInv
    <2>6. QED
      BY <2>1, <2>5, ModsFrame
  <1>3. QED
    BY <1>1, <1>2

LEMMA ServerMods ==
  ASSUME Typed, ModsTyped, ModsInv, ServerNext
  PROVE  ModsInv'
  <1>1. ASSUME \/ \E c \in Buttons, stage \in ButtonStages : Press(c, stage)
               \/ \E c \in Buttons, r \in Runs : StopRun(c, r)
               \/ \E c \in Callers : RequestStep(c)
        PROVE  ModsInv'
    BY <1>1, RequestMods DEF Press, RequestStep, Callers
  <1>2. ASSUME NEW j \in Jobs,
               Claim(j) \/ StageStep(j) \/ StageThrows(j) \/ HookStep(j) \/ StallDead(j) \/ StallLive(j)
        PROVE  ModsInv'
    BY <1>2, JobMods, UnitMods DEF StageStep, HookStep
  <1>3. ASSUME NEW j \in Jobs, NEW u \in Units,
               ClaimMod(j, u) \/ ModEnds(j, u) \/ SnapshotExpires(j, u) \/ StallMod(j, u)
        PROVE  ModsInv'
    BY <1>3, QueueStays, JobsSame, ModsFrame
  <1>4. QED
    BY <1>1, <1>2, <1>3, BootMods DEF ServerNext

LEMMA AgentMods ==
  ASSUME Typed, ModsTyped, ModsInv, AgentNext
  PROVE  ModsInv'
  <1>1. CASE StartTm
    BY <1>1, RequestMods DEF StartTm, Callers, ButtonStages
  <1>2. CASE ~StartTm
    <2>1. job' = job /\ modJob' = modJob
      BY <1>2 DEF AgentNext, Install, Upload, Refuse, Scan, Plan, PlanUnanswered, EndUpload, Start, StartRange,
         Resend, Waited, WaitFails, CycleThrows, Restart, runsVars, jobVars
    <2>2. QED
      BY <2>1, JobsSame, ModsSame, ModsFrame
  <1>3. QED
    BY <1>1, <1>2

LEMMA ModsNext ==
  ASSUME IInv, ModsInv, [Next]_vars
  PROVE  ModsInv'
  <1>1. Typed /\ ModsTyped
    BY DEF IInv
  <1>2. CASE UNCHANGED vars
    <2>1. job' = job /\ modJob' = modJob
      BY <1>2 DEF vars, runsVars, jobVars
    <2>2. QED
      BY <2>1, JobsSame, ModsSame, ModsFrame
  <1>3. QED
    BY <1>1, <1>2, ServerMods, AgentMods DEF Next

LEMMA ModsInit ==
  ASSUME Init
  PROVE  ModsInv
  BY DEF Init, VortexInit, ModsInv, NoSync, NoMod, Fresh, Early, Done

(* A Stop reaches the mods of a fan-out: once a stopped stage has returned, *)
(* no per-mod job it is done with runs on with a live snapshot, wherever    *)
(* the Stop, a crash, a stall or an expiry came in between its steps.       *)
THEOREM StopsReachMods == Spec => []StopReachesMods
  <1>1. ModsInv => StopReachesMods
    BY DEF ModsInv, StopReachesMods, Settled, Done, Ended
  <1>2. IInv /\ ModsInv /\ [Next]_vars => ModsInv'
    BY ModsNext
  <1>3. Init => ModsInv
    BY ModsInit
  <1>4. QED
    BY <1>1, <1>2, <1>3, CycleInvariant, PTL DEF Spec

---------------------------------------------------------------------------
(* Runs and their jobs: a run names a job of its own, and only a range is   *)
(* started again                                                            *)

Belongs(j, r) == j \in Jobs /\ job[j].run = r
Asks(c, r)    == request[c].at = "enqueue" /\ request[c].run = r

RowsLinked  == \A r \in Runs : run[r].job = NoJob \/ Belongs(run[r].job, r)
MarksLinked == \A c \in Callers :
                 request[c].at = "mark" => Belongs(request[c].job, request[c].run)
BootLinked  == \A p \in unclosed :
                 /\ p \in Runs \X Jobs /\ Belongs(p[2], p[1])
                 /\ run[p[1]].job # NoJob
OnlyOnce(r) ==
  /\ \A j, k \in Jobs : job[j].run = r /\ job[k].run = r => j = k
  /\ \A c \in Callers : Asks(c, r) =>
       /\ \A j \in Jobs : job[j].run # r
       /\ \A d \in Callers : Asks(d, r) => d = c
OnceInv  == \A r \in Runs : run[r].stage # "range" => OnlyOnce(r)
LinksInv == RowsLinked /\ MarksLinked /\ BootLinked /\ OnceInv

(* What all steps do to a row, and most steps to requests and the list of   *)
(* recovery.                                                                *)
RowOn(r) ==
  run[r].stage # "none" =>
    /\ run'[r].stage = run[r].stage
    /\ run[r].job # NoJob => run'[r].job # NoJob
RowsOn == \A r \in Runs : RowOn(r)

LinkStep ==
  /\ \A j \in Jobs : job'[j].run = job[j].run
  /\ \A r \in Runs :
       /\ run'[r].stage = run[r].stage \/ run'[r].stage = "range"
       /\ run'[r].job \in {run[r].job, NoJob} \/ Belongs(run'[r].job, r)
       /\ RowOn(r)
  /\ \A c \in Callers : request'[c].at \in Asking =>
       \/ request'[c] = request[c]
       \/ request'[c].at = "enqueue" /\ run'[request'[c].run].stage = "range"
  /\ \A p \in unclosed' :
       p \in unclosed \/ (p \in Runs \X Jobs /\ Belongs(p[2], p[1]) /\ run[p[1]].job # NoJob)

(* A job belongs to a run that exists. *)
LEMMA JobRunExists ==
  ASSUME ServerInv, NEW j \in Jobs, NEW r \in Runs, Belongs(j, r)
  PROVE  run[r].stage # "none" /\ job[j].row # "none"
  BY DEF ServerInv, JobsOK, JobOK, Belongs, Runs, NoRun

LEMMA LinkFrame ==
  ASSUME ServerInv, LinksInv, LinkStep
  PROVE  LinksInv'
  <1>1. \A j \in Jobs : \A r : Belongs(j, r)' <=> Belongs(j, r)
    BY DEF LinkStep, Belongs
  <1>2. RowsLinked'
    <2> SUFFICES ASSUME NEW r \in Runs, run'[r].job # NoJob
                 PROVE  run'[r].job \in Jobs /\ job'[run'[r].job].run = r
      BY DEF RowsLinked, Belongs
    <2>1. Belongs(run'[r].job, r)
      BY DEF LinkStep, LinksInv, RowsLinked
    <2>2. QED
      BY <2>1 DEF LinkStep, Belongs
  <1>3. MarksLinked'
    <2> SUFFICES ASSUME NEW c \in Callers, request'[c].at = "mark"
                 PROVE  request'[c].job \in Jobs /\ job'[request'[c].job].run = request'[c].run
      BY DEF MarksLinked, Belongs
    <2>1. request'[c] = request[c]
      BY DEF LinkStep, Asking
    <2>2. QED
      BY <2>1 DEF LinkStep, LinksInv, MarksLinked, Belongs
  <1>4. BootLinked'
    <2> SUFFICES ASSUME NEW p \in unclosed'
                 PROVE  /\ p \in Runs \X Jobs /\ job'[p[2]].run = p[1]
                        /\ run'[p[1]].job # NoJob
      BY DEF BootLinked, Belongs
    <2>1. p \in Runs \X Jobs /\ Belongs(p[2], p[1]) /\ run[p[1]].job # NoJob
      BY DEF LinkStep, LinksInv, BootLinked
    <2>2. run[p[1]].stage # "none"
      BY <2>1, JobRunExists
    <2>3. QED
      BY <2>1, <2>2 DEF LinkStep, Belongs, RowOn
  <1>5. OnceInv'
    <2> SUFFICES ASSUME NEW r \in Runs, run'[r].stage # "range"
                 PROVE  OnlyOnce(r)'
      BY DEF OnceInv
    <2>1. OnlyOnce(r)
      BY DEF LinkStep, LinksInv, OnceInv
    <2>2. \A c \in Callers : Asks(c, r)' => Asks(c, r)
      BY DEF LinkStep, Asks, Asking
    <2>3. QED
      BY <2>1, <2>2 DEF OnlyOnce, LinkStep
  <1>6. QED
    BY <1>2, <1>3, <1>4, <1>5 DEF LinksInv

(* A step that leaves run, requests and recovery's list alone. *)
LEMMA LinkQuiet ==
  ASSUME \A j \in Jobs : job'[j].run = job[j].run, UNCHANGED <<run, request, unclosed>>
  PROVE  LinkStep
  BY DEF LinkStep, RowOn

(* A step that gives one run a status and perhaps a job of its own. *)
LEMMA LinkStatus ==
  ASSUME RunsTyped, \A j \in Jobs : job'[j].run = job[j].run,
         NEW r, NEW s, NEW j \in Jobs, Belongs(j, r),
         SetStatus(r, s) \/ run' = [run EXCEPT ![r].status = s, ![r].job = j],
         \A c \in Callers : request'[c].at \in Asking => request'[c] = request[c],
         unclosed' \subseteq unclosed
  PROVE  LinkStep
  <1>1. \A q \in Runs : /\ run'[q].stage = run[q].stage
                        /\ run'[q].job = run[q].job \/ (q = r /\ run'[q].job = j)
    BY DEF RunsTyped, Row, SetStatus
  <1>2. j # NoJob
    BY DEF Jobs, NoJob
  <1>3. QED
    BY <1>1, <1>2 DEF LinkStep, RowOn, Belongs

(* The requests that give a run its job. *)
LEMMA LinkRequests ==
  ASSUME Typed, ServerInv, LinksInv, NEW c \in Callers, MarkQueued(c) \/ StopJob(c)
  PROVE  LinkStep
  <1>0. RunsTyped /\ JobsTyped /\ RequestsTyped
    BY DEF Typed
  <1>1. CASE MarkQueued(c)
    <2> DEFINE r == request[c].run
               j == request[c].job
    <2>1. j \in Jobs /\ Belongs(j, r)
      BY <1>1 DEF MarkQueued, LinksInv, MarksLinked, Belongs
    <2>2. run' = [run EXCEPT ![r].status = "queued", ![r].job = j]
      BY <1>1 DEF MarkQueued
    <2>3. \A d \in Callers : request'[d].at \in Asking => request'[d] = request[d]
      BY <1>0, <1>1 DEF MarkQueued, Answer, Tell, NoRequest, Asking, RequestsTyped
    <2>4. UNCHANGED <<job, unclosed>>
      BY <1>1 DEF MarkQueued, jobVars, bootVars
    <2> HIDE DEF r, j
    <2>5. QED
      BY <1>0, <2>1, <2>2, <2>3, <2>4, LinkStatus
  <1>2. CASE StopJob(c)
    <2>1. run' = run /\ unclosed' = unclosed
      BY <1>2 DEF StopJob, rowVars, bootVars
    <2>2. \A k \in Jobs : job'[k].run = job[k].run
      BY <1>2, OtherMoves, BoundsAssumption DEF Keeps, JobKeeps
    <2>3. \A d \in Callers : request'[d].at \in Asking => request'[d] = request[d]
      BY <1>0, <1>2 DEF StopJob, Tell, NoRequest, Asking, RequestsTyped
    <2>4. QED
      BY <2>1, <2>2, <2>3 DEF LinkStep, RowOn
  <1>3. QED
    BY <1>1, <1>2

LEMMA LinkStop ==
  ASSUME Typed, NEW c \in Buttons, NEW r \in Runs, StopRun(c, r)
  PROVE  LinkStep
  <1>1. run' = run /\ job' = job /\ unclosed' = unclosed
    BY DEF StopRun, rowVars, bootVars
  <1>2. \A d \in Callers : request'[d].at \in Asking => request'[d] = request[d]
    BY DEF StopRun, Tell, NoRequest, Asking, Typed, RequestsTyped
  <1>3. QED
    BY <1>1, <1>2 DEF LinkStep, RowOn

(* The handler of a job, its hook, and the stalled check. *)
LEMMA LinkJob ==
  ASSUME Typed, ModsTyped, ServerInv, NEW j \in Jobs,
         \/ Claim(j) \/ StageStep(j) \/ StageThrows(j) \/ HookStep(j) \/ StallDead(j) \/ StallLive(j)
  PROVE  LinkStep
  <1>0. RunsTyped /\ JobsTyped /\ Belongs(j, job[j].run)
    BY DEF Typed, Belongs
  <1>1. UNCHANGED <<request, unclosed>>
    BY DEF Claim, StageStep, Begin, StartImport, EndImport, EndStage, Export, GuardMod, EnqueueMod, Poll,
       CancelRest, EndFanOut, Settle, StageThrows, HookStep, HookReads, HookCloses, StallDead, StallLive,
       bootVars
  <1>2. \A k \in Jobs : job'[k].run = job[k].run
    <2>1. CASE \/ Claim(j) \/ CancelRest(j) \/ Settle(j) \/ HookReads(j) \/ StallDead(j) \/ StallLive(j)
               \/ \E u \in Units : GuardMod(j, u) \/ Poll(j, u)
      BY <2>1, JobMoves DEF Keeps, JobKeeps
    <2>2. CASE \/ HookCloses(j) \/ StageThrows(j)
               \/ \E u \in Units : StartImport(j, u) \/ EndImport(j, u) \/ EnqueueMod(j, u)
      BY <2>2, RunMoves DEF Keeps, JobKeeps
    <2>3. CASE EndStage(j) \/ Export(j) \/ EndFanOut(j)
      BY <1>0, <2>3 DEF EndStage, Export, EndFanOut, Return, Throw, JobTo, JobsTyped, SyncJob
    <2>4. CASE Begin(j)
      <3>1. \/ \E s : JobTo(j, s)
            \/ \E s, m : job' = [job EXCEPT ![j].at = s, ![j].mods = m]
        BY <2>4 DEF Begin
      <3>2. ASSUME NEW s, JobTo(j, s)
            PROVE  \A k \in Jobs : job'[k].run = job[k].run
        BY <1>0, <3>2 DEF JobTo, JobsTyped, SyncJob
      <3>3. ASSUME NEW s, NEW m, job' = [job EXCEPT ![j].at = s, ![j].mods = m]
            PROVE  \A k \in Jobs : job'[k].run = job[k].run
        BY <1>0, <3>3 DEF JobsTyped, SyncJob
      <3>4. QED
        BY <3>1, <3>2, <3>3
    <2>5. QED
      BY <2>1, <2>2, <2>3, <2>4 DEF StageStep, HookStep
  <1>3. \/ run' = run
        \/ \E s : SetStatus(job[j].run, s)
        \/ \E s : run' = [run EXCEPT ![job[j].run].status = s, ![job[j].run].job = j]
    <2>1. CASE Begin(j)
      BY <2>1 DEF Begin
    <2>2. CASE ~Begin(j)
      BY <2>2 DEF Claim, StageStep, StartImport, EndImport, EndStage, Export, GuardMod, EnqueueMod, Poll,
         CancelRest, EndFanOut, Settle, StageThrows, HookStep, HookReads, HookCloses, StallDead, StallLive,
         Return, Throw, rowVars
    <2>3. QED
      BY <2>1, <2>2
  <1>4. QED
    BY <1>0, <1>1, <1>2, <1>3, LinkQuiet, LinkStatus

(* The queue of the per-mod jobs, crash and boot. *)
LEMMA LinkBoot ==
  ASSUME Typed, LinksInv,
         \/ BootStep \/ Crash
         \/ \E j \in Jobs, u \in Units :
              ClaimMod(j, u) \/ ModEnds(j, u) \/ SnapshotExpires(j, u) \/ StallMod(j, u)
  PROVE  LinkStep
  <1>0. RunsTyped
    BY DEF Typed
  <1>1. CASE Boot
    <2>1. UNCHANGED <<run, job, request>>
      BY <1>1 DEF Boot, rowVars, jobVars
    <2>2. ASSUME NEW p \in unclosed'
          PROVE  p \in Runs \X Jobs /\ Belongs(p[2], p[1]) /\ run[p[1]].job # NoJob
      <3>1. PICK r \in ActiveRuns : run[r].job # NoJob /\ p = <<r, run[r].job>>
        BY <1>1 DEF Boot
      <3>2. r \in Runs
        BY DEF ActiveRuns
      <3>3. Belongs(run[r].job, r)
        BY <3>1, <3>2 DEF LinksInv, RowsLinked
      <3>4. QED
        BY <3>1, <3>2, <3>3 DEF Belongs
    <2>3. QED
      BY <2>1, <2>2 DEF LinkStep, RowOn
  <1>2. CASE Serve
    BY <1>2, LinkQuiet DEF Serve, rowVars, jobVars
  <1>3. ASSUME NEW p \in Runs \X Jobs, CloseOrSpare(p)
        PROVE  LinkStep
    <2>1. UNCHANGED <<job, request>> /\ unclosed' \subseteq unclosed /\ p \in unclosed
      BY <1>3 DEF CloseOrSpare, jobVars
    <2>2. p[2] \in Jobs /\ Belongs(p[2], p[1])
      BY <2>1 DEF LinksInv, BootLinked, Belongs
    <2>3. CASE UNCHANGED run
      BY <2>1, <2>3 DEF LinkStep, RowOn
    <2>4. CASE SetStatus(p[1], "failed")
      BY <1>0, <2>1, <2>2, <2>4, LinkStatus
    <2>5. QED
      BY <1>3, <2>3, <2>4 DEF CloseOrSpare
  <1>4. CASE Crash
    <2>1. \A k \in Jobs : job'[k].run = job[k].run
      BY <1>4, CrashMoves DEF Keeps, JobKeeps
    <2>2. UNCHANGED <<run, request>> /\ unclosed' = {}
      BY <1>4 DEF Crash, rowVars
    <2>3. QED
      BY <2>1, <2>2 DEF LinkStep, RowOn
  <1>5. ASSUME NEW j \in Jobs, NEW u \in Units,
               ClaimMod(j, u) \/ ModEnds(j, u) \/ SnapshotExpires(j, u) \/ StallMod(j, u)
        PROVE  LinkStep
    BY <1>5, LinkQuiet DEF ClaimMod, ModEnds, EndMod, SnapshotExpires, StallMod, rowVars, bootVars
  <1>6. QED
    BY <1>1, <1>2, <1>3, <1>4, <1>5 DEF BootStep

(* A new row, of a stage or of a plan: nothing belongs to it yet. *)
LEMMA LinkCheck ==
  ASSUME Typed, ServerInv, LinksInv, NEW c \in Callers, NEW stage \in ButtonStages, CheckStage(c, stage)
  PROVE  LinksInv' /\ RowsOn
  <1>0. RunsTyped /\ RequestsTyped /\ UNCHANGED <<job, unclosed>>
    BY DEF Typed, CheckStage, jobVars, bootVars
  <1>1. CASE run' = run /\ Answer(c, Newest(ActiveRuns))
    <2>1. \A d \in Callers : request'[d].at \in Asking => request'[d] = request[d]
      BY <1>0, <1>1 DEF Answer, Tell, NoRequest, Asking, RequestsTyped
    <2>2. LinkStep
      BY <1>0, <1>1, <2>1 DEF LinkStep, RowOn
    <2>3. QED
      BY <2>2, LinkFrame DEF LinkStep, RowsOn
  <1>2. ASSUME NEW r \in Runs, NewRow(r, stage, {}),
               Tell(c, [NoRequest EXCEPT !.at = "enqueue", !.run = r])
        PROVE  LinksInv' /\ RowsOn
    <2>1. /\ run[r].stage = "none" /\ run'[r].job = NoJob
          /\ \A q \in Runs \ {r} : run'[q] = run[q]
      BY <1>0, <1>2 DEF NewRow, FreshRun, NoRow, RunsTyped, Row
    <2>2. /\ request'[c].at = "enqueue" /\ request'[c].run = r
          /\ \A d \in Callers \ {c} : request'[d] = request[d]
      BY <1>0, <1>2 DEF Tell, NoRequest, RequestsTyped
    <2>3. /\ \A j \in Jobs : ~Belongs(j, r)
          /\ \A d \in Callers : request[d].at \in Asking => request[d].run # r
      BY <2>1, JobRunExists DEF ServerInv, RequestsOK
    <2>4. RowsOn
      BY <2>1 DEF RowsOn, RowOn
    <2>5. RowsLinked' /\ BootLinked'
      BY <1>0, <2>1, <2>3 DEF LinksInv, RowsLinked, BootLinked, Belongs
    <2>6. MarksLinked'
      BY <1>0, <2>2 DEF LinksInv, MarksLinked, Belongs
    <2>7. OnceInv'
      <3> SUFFICES ASSUME NEW q \in Runs, run'[q].stage # "range"
                   PROVE  OnlyOnce(q)'
        BY DEF OnceInv
      <3>1. CASE q = r
        BY <1>0, <2>2, <2>3, <3>1 DEF OnlyOnce, Asks, Asking, Belongs
      <3>2. CASE q # r
        <4>1. OnlyOnce(q)
          BY <2>1, <3>2 DEF LinksInv, OnceInv
        <4>2. \A d \in Callers : Asks(d, q)' => Asks(d, q)
          BY <2>2, <3>2 DEF Asks
        <4>3. QED
          BY <1>0, <4>1, <4>2 DEF OnlyOnce
      <3>3. QED
        BY <3>1, <3>2
    <2>8. QED
      BY <2>4, <2>5, <2>6, <2>7 DEF LinksInv
  <1>3. QED
    BY <1>1, <1>2 DEF CheckStage

LEMMA LinkEnqueue ==
  ASSUME Typed, ServerInv, LinksInv, NEW c \in Callers, EnqueueJob(c)
  PROVE  LinksInv' /\ RowsOn
  <1>0. RunsTyped /\ JobsTyped /\ RequestsTyped /\ UNCHANGED <<run, unclosed>>
    BY DEF Typed, EnqueueJob, rowVars, bootVars
  <1> DEFINE r == request[c].run
  <1>1. r \in Runs /\ request[c].at = "enqueue" /\ Asks(c, r)
    BY DEF EnqueueJob, ServerInv, RequestsOK, Asking, Asks
  <1>2. PICK j \in Jobs :
          /\ job[j].row = "none"
          /\ job' = [job EXCEPT ![j] = [NoSync EXCEPT !.run = r, !.row = "waiting"]]
          /\ Tell(c, [request[c] EXCEPT !.at = "mark", !.job = j])
    BY DEF EnqueueJob, FreshJob
  <1> HIDE DEF r
  <1>3. /\ job'[j].run = r
        /\ \A k \in Jobs \ {j} : job'[k] = job[k]
    BY <1>0, <1>2 DEF JobsTyped, NoSync
  <1>4. /\ request'[c].at = "mark" /\ request'[c].job = j /\ request'[c].run = r
        /\ \A d \in Callers \ {c} : request'[d] = request[d]
    BY <1>0, <1>2 DEF Tell, RequestsTyped, Request, r
  <1>5. \A q \in Runs : ~Belongs(j, q)
    BY <1>2, JobRunExists
  <1>6. \A q \in Runs, k \in Jobs : Belongs(k, q) => k # j /\ job'[k].run = q
    BY <1>3, <1>5 DEF Belongs
  <1>7. RowsLinked' /\ BootLinked'
    BY <1>0, <1>6 DEF LinksInv, RowsLinked, BootLinked, Belongs
  <1>8. MarksLinked'
    <2> SUFFICES ASSUME NEW d \in Callers, request'[d].at = "mark"
                 PROVE  request'[d].job \in Jobs /\ job'[request'[d].job].run = request'[d].run
      BY DEF MarksLinked, Belongs
    <2>1. CASE d = c
      BY <1>2, <1>3, <1>4, <2>1
    <2>2. CASE d # c
      <3>1. request[d].run \in Runs /\ Belongs(request[d].job, request[d].run)
        BY <1>4, <2>2 DEF LinksInv, MarksLinked, ServerInv, RequestsOK, Asking
      <3>2. QED
        BY <1>4, <1>6, <2>2, <3>1 DEF Belongs
    <2>3. QED
      BY <2>1, <2>2
  <1>9. OnceInv'
    <2> SUFFICES ASSUME NEW q \in Runs, run'[q].stage # "range"
                 PROVE  OnlyOnce(q)'
      BY DEF OnceInv
    <2>1. OnlyOnce(q)
      BY <1>0 DEF LinksInv, OnceInv
    <2>2. \A d \in Callers : Asks(d, q)' => d # c /\ Asks(d, q)
      BY <1>4 DEF Asks
    <2>3. CASE q = r
      BY <1>1, <1>3, <2>1, <2>2, <2>3 DEF OnlyOnce
    <2>4. CASE q # r
      BY <1>3, <2>1, <2>2, <2>4 DEF OnlyOnce
    <2>5. QED
      BY <2>3, <2>4
  <1>10. QED
    BY <1>0, <1>7, <1>8, <1>9 DEF LinksInv, RowsOn, RowOn

LEMMA LinkServer ==
  ASSUME IInv, LinksInv, ServerNext
  PROVE  LinksInv' /\ RowsOn
  <1>0. Typed /\ ModsTyped /\ ServerInv
    BY DEF IInv
  <1>1. LinkStep => LinksInv' /\ RowsOn
    BY <1>0, LinkFrame DEF LinkStep, RowsOn
  <1>2. ASSUME NEW c \in Buttons, NEW stage \in ButtonStages, Press(c, stage)
        PROVE  LinksInv' /\ RowsOn
    BY <1>0, <1>2, LinkCheck DEF Press, Callers
  <1>3. ASSUME NEW c \in Callers, RequestStep(c)
        PROVE  LinksInv' /\ RowsOn
    BY <1>0, <1>1, <1>3, LinkEnqueue, LinkRequests DEF RequestStep
  <1>4. CASE \/ \E c \in Buttons, r \in Runs : StopRun(c, r)
             \/ BootStep \/ Crash
             \/ \E j \in Jobs, u \in Units :
                  ClaimMod(j, u) \/ ModEnds(j, u) \/ SnapshotExpires(j, u) \/ StallMod(j, u)
    BY <1>0, <1>1, <1>4, LinkStop, LinkBoot
  <1>5. ASSUME NEW j \in Jobs,
               Claim(j) \/ StageStep(j) \/ StageThrows(j) \/ HookStep(j) \/ StallDead(j) \/ StallLive(j)
        PROVE  LinksInv' /\ RowsOn
    BY <1>0, <1>1, <1>5, LinkJob
  <1>6. QED
    BY <1>2, <1>3, <1>4, <1>5 DEF ServerNext

LEMMA LinkResend ==
  ASSUME Typed, LinksInv, Resend
  PROVE  LinksInv' /\ RowsOn
  <1>1. /\ UNCHANGED <<run, job, unclosed>>
        /\ request["lost"].at = "idle"
        /\ request'["lost"] = request["agent"] /\ request'["agent"] = NoRequest
        /\ \A c \in Callers \ {"agent", "lost"} : request'[c] = request[c]
    BY DEF Resend, Typed, RequestsTyped, Callers, rowVars, jobVars, bootVars
  <1>2. NoRequest.at = "idle"
    BY DEF NoRequest
  <1>3. RowsLinked' /\ BootLinked' /\ RowsOn
    BY <1>1 DEF LinksInv, RowsLinked, BootLinked, Belongs, RowsOn, RowOn
  <1>4. MarksLinked'
    BY <1>1, <1>2 DEF LinksInv, MarksLinked, Belongs, Callers
  <1>5. OnceInv'
    <2> SUFFICES ASSUME NEW r \in Runs, run[r].stage # "range"
                 PROVE  OnlyOnce(r)'
      BY <1>1 DEF OnceInv
    <2>1. OnlyOnce(r)
      BY DEF LinksInv, OnceInv
    <2>2. \A c \in Callers : Asks(c, r)' =>
            \/ c \notin {"agent", "lost"} /\ Asks(c, r)
            \/ c = "lost" /\ Asks("agent", r)
      BY <1>1, <1>2 DEF Asks
    <2>3. "agent" \in Callers /\ "lost" \in Callers
      BY DEF Callers
    <2>4. QED
      BY <1>1, <2>1, <2>2, <2>3 DEF OnlyOnce
  <1>6. QED
    BY <1>3, <1>4, <1>5 DEF LinksInv

LEMMA LinkAgent ==
  ASSUME IInv, LinksInv, AgentNext
  PROVE  LinksInv' /\ RowsOn
  <1>0. Typed /\ ServerInv /\ RunsTyped /\ RequestsTyped
    BY DEF IInv, Typed
  <1>1. LinkStep => LinksInv' /\ RowsOn
    BY <1>0, LinkFrame DEF LinkStep, RowsOn
  <1>2. CASE StartTm
    BY <1>0, <1>2, LinkCheck DEF StartTm, Callers, ButtonStages
  <1>3. CASE Resend
    BY <1>0, <1>3, LinkResend
  <1>4. CASE Plan \/ PlanUnanswered
    <2>1. UNCHANGED <<job, request, unclosed>>
      BY <1>4 DEF Plan, PlanUnanswered, jobVars, bootVars
    <2>2. PICK r \in Runs : NewRow(r, "range", Known(agent.inv))
      BY <1>4 DEF Plan, PlanUnanswered
    <2>3. /\ run[r].stage = "none" /\ run'[r].job = NoJob /\ run'[r].stage = "range"
          /\ \A q \in Runs \ {r} : run'[q] = run[q]
      BY <1>0, <2>2 DEF NewRow, FreshRun, NoRow, RunsTyped, Row
    <2>4. LinkStep
      BY <2>1, <2>3 DEF LinkStep, RowOn
    <2>5. QED
      BY <1>1, <2>4
  <1>5. CASE Start
    <2>1. /\ UNCHANGED <<run, job, unclosed>>
          /\ run[agent.run].stage = "range"
          /\ request' = [request EXCEPT !["agent"] = [NoRequest EXCEPT !.at = "enqueue", !.run = agent.run]]
      BY <1>5 DEF Start, StartRange, Tell, rowVars, jobVars, bootVars
    <2>2. /\ request'["agent"].at = "enqueue" /\ request'["agent"].run = agent.run
          /\ \A c \in Callers \ {"agent"} : request'[c] = request[c]
      BY <1>0, <2>1 DEF RequestsTyped, NoRequest, Callers
    <2>3. LinkStep
      BY <2>1, <2>2 DEF LinkStep, RowOn
    <2>4. QED
      BY <1>1, <2>3
  <1>6. ASSUME NEW u \in Units, Upload(u)
        PROVE  LinksInv' /\ RowsOn
    <2>1. UNCHANGED <<job, request, unclosed>>
      BY <1>6 DEF Upload, jobVars, bootVars
    <2>2. PICK units : run' = [run EXCEPT ![agent.run].units = units]
      BY <1>6 DEF Upload
    <2>3. \A r \in Runs : run'[r].stage = run[r].stage /\ run'[r].job = run[r].job
      BY <1>0, <2>2 DEF RunsTyped, Row
    <2>4. LinkStep
      BY <2>1, <2>3 DEF LinkStep, RowOn
    <2>5. QED
      BY <1>1, <2>4
  <1>7. CASE \/ \E u \in Units : Install(u) \/ Refuse(u)
             \/ Scan \/ EndUpload \/ Waited \/ WaitFails \/ CycleThrows \/ Restart
    <2>1. UNCHANGED <<run, job, request, unclosed>>
      BY <1>7 DEF Install, Refuse, Scan, EndUpload, Waited, WaitFails, CycleThrows, Restart,
         runsVars, rowVars, jobVars, bootVars
    <2>2. QED
      BY <1>1, <2>1, LinkQuiet
  <1>8. QED
    BY <1>2, <1>3, <1>4, <1>5, <1>6, <1>7 DEF AgentNext

LEMMA LinkNext ==
  ASSUME IInv, LinksInv, [Next]_vars
  PROVE  LinksInv' /\ RowsOn
  <1>1. CASE UNCHANGED vars
    <2>1. UNCHANGED <<run, job, request, unclosed>>
      BY <1>1 DEF vars, runsVars, rowVars, jobVars, bootVars
    <2>2. LinkStep
      BY <2>1, LinkQuiet
    <2>3. QED
      BY <2>2, LinkFrame DEF IInv, LinkStep, RowsOn
  <1>2. QED
    BY <1>1, LinkServer, LinkAgent DEF Next

LEMMA LinkInit ==
  ASSUME Init
  PROVE  LinksInv
  BY DEF Init, VortexInit, LinksInv, RowsLinked, MarksLinked, BootLinked, OnceInv, OnlyOnce, Asks,
     NoRow, NoSync, NoRequest, Runs, NoRun

---------------------------------------------------------------------------
(* Recovery at boot: while the worker is away no handler and no hook is at   *)
(* work, and what recovery fails it fails for the job the row names         *)

Away(j) == job[j].at \in {"idle", "dead"} /\ job[j].hook = "none"
DownInv == worker # "up" => \A j \in Jobs : Away(j)

(* No job takes a step of its own in a worker that does not serve. *)
LEMMA AwayStays ==
  ASSUME NEW j \in Jobs, Away(j), worker # "up"
  PROVE  ~(Claim(j) \/ StageStep(j) \/ StageThrows(j) \/ HookStep(j) \/ StallDead(j) \/ StallLive(j))
  BY DEF Away, Claim, StageStep, Begin, StartImport, EndImport, EndStage, Export, GuardMod, EnqueueMod, Poll,
     CancelRest, EndFanOut, Settle, StageThrows, HookStep, HookReads, HookCloses, StallDead, StallLive

LEMMA DownServer ==
  ASSUME Typed, DownInv, ServerNext
  PROVE  DownInv'
  <1>0. JobsTyped
    BY DEF Typed
  <1>1. CASE Crash
    <2> DEFINE step(k) == IF job[k].at = "idle" \/ job[k].row # "active" THEN "idle" ELSE "dead"
    <2>1. job' = [k \in Jobs |-> [job[k] EXCEPT !.at = step(k), !.hook = "none", !.cut = FALSE]]
      BY <1>1 DEF Crash
    <2>2. \A k \in Jobs : step(k) \in {"idle", "dead"}
      OBVIOUS
    <2> HIDE DEF step
    <2>3. \A k \in Jobs : job'[k].at = step(k) /\ job'[k].hook = "none"
      BY <1>0, <2>1 DEF JobsTyped, SyncJob
    <2>4. QED
      BY <2>2, <2>3 DEF DownInv, Away
  <1>2. CASE BootStep
    <2>1. job' = job /\ (worker' # "up" => worker # "up")
      BY <1>2 DEF BootStep, Boot, Serve, CloseOrSpare, jobVars
    <2>2. QED
      BY <2>1 DEF DownInv, Away
  <1>3. CASE ~Crash /\ ~BootStep /\ worker = "up"
    <2>1. worker' = worker
      <3>1. ASSUME NEW c \in Callers, (\E stage \in ButtonStages : CheckStage(c, stage)) \/ RequestStep(c)
            PROVE  worker' = worker
        BY <3>1 DEF CheckStage, RequestStep, EnqueueJob, MarkQueued, StopJob, bootVars
      <3>2. ASSUME NEW j \in Jobs,
                   Claim(j) \/ StageStep(j) \/ StageThrows(j) \/ HookStep(j) \/ StallDead(j) \/ StallLive(j)
            PROVE  worker' = worker
        BY <3>2 DEF Claim, StageStep, Begin, StartImport, EndImport, EndStage, Export, GuardMod, EnqueueMod,
           Poll, CancelRest, EndFanOut, Settle, StageThrows, HookStep, HookReads, HookCloses, StallDead,
           StallLive, bootVars
      <3>3. CASE \/ \E c \in Buttons, r \in Runs : StopRun(c, r)
                 \/ \E j \in Jobs, u \in Units :
                      ClaimMod(j, u) \/ ModEnds(j, u) \/ SnapshotExpires(j, u) \/ StallMod(j, u)
        BY <3>3 DEF StopRun, ClaimMod, ModEnds, EndMod, SnapshotExpires, StallMod, bootVars
      <3>4. QED
        BY <1>3, <3>1, <3>2, <3>3 DEF ServerNext, Press, Callers
    <2>2. QED
      BY <1>3, <2>1 DEF DownInv
  <1>4. CASE ~Crash /\ ~BootStep /\ worker # "up"
    <2> SUFFICES \A j \in Jobs : Away(j)'
      BY DEF DownInv
    <2>0. \A j \in Jobs : Away(j)
      BY <1>4 DEF DownInv
    <2>1. CASE job' = job
      BY <2>0, <2>1 DEF Away
    <2>2. ASSUME NEW c \in Callers, EnqueueJob(c)
          PROVE  \A j \in Jobs : Away(j)'
      <3>1. PICK j \in Jobs :
              job' = [job EXCEPT ![j] = [NoSync EXCEPT !.run = request[c].run, !.row = "waiting"]]
        BY <2>2 DEF EnqueueJob
      <3>2. /\ job'[j].at = "idle" /\ job'[j].hook = "none"
            /\ \A k \in Jobs \ {j} : job'[k] = job[k]
        BY <1>0, <3>1 DEF JobsTyped, NoSync
      <3>3. QED
        BY <2>0, <3>2 DEF Away
    <2>3. ASSUME NEW c \in Callers, StopJob(c)
          PROVE  \A j \in Jobs : Away(j)'
      <3>1. PICK k : \/ job' = [job EXCEPT ![k].row = "removed"]
                     \/ job' = [job EXCEPT ![k].cut = job[k].at # "dead"]
                     \/ job' = job
        BY <1>4, <2>3 DEF StopJob
      <3>2. \A j \in Jobs : job'[j].at = job[j].at /\ job'[j].hook = job[j].hook
        BY <1>0, <3>1 DEF JobsTyped, SyncJob
      <3>3. QED
        BY <2>0, <3>2 DEF Away
    <2>4. CASE \/ \E c \in Buttons, stage \in ButtonStages : Press(c, stage)
               \/ \E c \in Buttons, r \in Runs : StopRun(c, r)
               \/ \E c \in Callers : MarkQueued(c)
               \/ \E j \in Jobs, u \in Units :
                    ClaimMod(j, u) \/ ModEnds(j, u) \/ SnapshotExpires(j, u) \/ StallMod(j, u)
      BY <2>1, <2>4 DEF Press, CheckStage, StopRun, MarkQueued, ClaimMod, ModEnds, EndMod,
         SnapshotExpires, StallMod, jobVars
    <2>5. QED
      BY <1>4, <2>0, <2>2, <2>3, <2>4, AwayStays DEF ServerNext, RequestStep
  <1>5. QED
    BY <1>1, <1>2, <1>3, <1>4

LEMMA DownNext ==
  ASSUME Typed, DownInv, [Next]_vars
  PROVE  DownInv'
  <1>1. CASE ServerNext
    BY <1>1, DownServer
  <1>2. CASE AgentNext \/ UNCHANGED vars
    <2>1. UNCHANGED <<jobVars, bootVars>>
      <3>1. CASE AgentNext
        BY <3>1 DEF AgentNext, Install, Upload, Refuse, Scan, Plan, PlanUnanswered, EndUpload, Start, StartRange,
           StartTm, CheckStage, Resend, Waited, WaitFails, CycleThrows, Restart, runsVars
      <3>2. QED
        BY <1>2, <3>1 DEF vars, runsVars
    <2>2. QED
      BY <2>1 DEF DownInv, Away, jobVars, bootVars
  <1>3. QED
    BY <1>1, <1>2 DEF Next

(* Who fails a run while the worker boots: recovery, and nobody else. *)
LEMMA FailsAtBoot ==
  ASSUME Typed, DownInv, [Next]_vars, worker = "booting",
         NEW r \in Runs, run[r].status # "failed", run'[r].status = "failed"
  PROVE  \E p \in unclosed : p[1] = r /\ job[p[2]].row \notin Live
  <1>0. RunsTyped
    BY DEF Typed
  <1>1. run' # run
    OBVIOUS
  <1>2. ASSUME NEW q \in Runs, NEW stage, NEW units, NewRow(q, stage, units)
        PROVE  FALSE
    BY <1>0, <1>2 DEF NewRow, NoRow, RunsTyped, Row
  <1>3. ASSUME NEW c \in Callers, MarkQueued(c)
        PROVE  FALSE
    BY <1>0, <1>3 DEF MarkQueued, RunsTyped, Row
  <1>4. ASSUME NEW u \in Units, Upload(u)
        PROVE  FALSE
    <2>1. PICK units : run' = [run EXCEPT ![agent.run].units = units]
      BY <1>4 DEF Upload
    <2>2. QED
      BY <1>0, <2>1 DEF RunsTyped, Row
  <1>5. ASSUME NEW p \in Runs \X Jobs, CloseOrSpare(p)
        PROVE  \E q \in unclosed : q[1] = r /\ job[q[2]].row \notin Live
    <2>1. p \in unclosed /\ job[p[2]].row \notin Live /\ SetStatus(p[1], "failed")
      BY <1>1, <1>5 DEF CloseOrSpare
    <2>2. p[1] = r
      BY <1>0, <2>1 DEF SetStatus, RunsTyped, Row
    <2>3. QED
      BY <2>1, <2>2
  <1>6. CASE ServerNext
    <2>1. \A c \in Callers, stage \in ButtonStages : ~CheckStage(c, stage)
      BY <1>1, <1>2 DEF CheckStage
    <2>2. ~\E c \in Buttons, stage \in ButtonStages : Press(c, stage)
      BY <2>1 DEF Press, Callers
    <2>3. ~\E c \in Callers : RequestStep(c)
      BY <1>1, <1>3 DEF RequestStep, EnqueueJob, StopJob, rowVars
    <2>4. \A j \in Jobs :
            ~(Claim(j) \/ StageStep(j) \/ StageThrows(j) \/ HookStep(j) \/ StallDead(j) \/ StallLive(j))
      BY AwayStays DEF DownInv
    <2>5. ~\E j \in Jobs, u \in Units :
             ClaimMod(j, u) \/ ModEnds(j, u) \/ SnapshotExpires(j, u) \/ StallMod(j, u)
      BY <1>1 DEF ClaimMod, ModEnds, EndMod, SnapshotExpires, StallMod, rowVars
    <2>6. ~Crash /\ ~Boot /\ ~Serve /\ ~\E c \in Buttons, q \in Runs : StopRun(c, q)
      BY <1>1 DEF Crash, Boot, Serve, StopRun, rowVars
    <2>7. QED
      BY <1>5, <1>6, <2>2, <2>3, <2>4, <2>5, <2>6 DEF ServerNext, BootStep
  <1>7. CASE AgentNext
    <2>1. ~CheckStage("agent", "tm")
      BY <1>1, <1>2 DEF CheckStage
    <2>2. QED
      BY <1>1, <1>2, <1>4, <1>7, <2>1 DEF AgentNext, Install, Refuse, Scan, Plan, PlanUnanswered, EndUpload,
         Start, StartRange, StartTm, Resend, Waited, WaitFails, CycleThrows, Restart, runsVars, rowVars
  <1>8. QED
    BY <1>1, <1>6, <1>7 DEF Next, vars, runsVars, rowVars

LEMMA StageInit ==
  ASSUME Init
  PROVE  LinksInv /\ DownInv
  BY LinkInit DEF Init, VortexInit, DownInv

(* Recovery fails no run whose job is still to be run, if the run was        *)
(* started once, however old the list is that it works off, and whatever     *)
(* page and agent do while the worker boots.                                 *)
THEOREM SparesLive == Spec => RecoverySparesLive
  <1>1. IInv /\ LinksInv /\ DownInv /\ [Next]_vars => LinksInv' /\ DownInv'
    BY LinkNext, DownNext DEF IInv
  <1>2. ASSUME IInv, LinksInv, DownInv, [Next]_vars
        PROVE  [\A r \in Runs :
                  (worker = "booting" /\ run[r].status # "failed" /\ run'[r].status = "failed"
                   /\ StartedOnce(r)) => job[run[r].job].row \notin Live]_run
    <2> SUFFICES ASSUME NEW r \in Runs, worker = "booting", run[r].status # "failed",
                        run'[r].status = "failed", StartedOnce(r)
                 PROVE  job[run[r].job].row \notin Live
      OBVIOUS
    <2>1. PICK p \in unclosed : p[1] = r /\ job[p[2]].row \notin Live
      BY <1>2, FailsAtBoot DEF IInv
    <2>2. p[2] \in Jobs /\ job[p[2]].run = r /\ run[r].job # NoJob
      BY <1>2, <2>1 DEF LinksInv, BootLinked, Belongs
    <2>3. run[r].job \in Jobs /\ job[run[r].job].run = r
      BY <1>2, <2>2 DEF LinksInv, RowsLinked, Belongs
    <2>4. run[r].job = p[2]
      BY <2>2, <2>3 DEF StartedOnce
    <2>5. QED
      BY <2>1, <2>4
  <1>3. QED
    BY <1>1, <1>2, StageInit, CycleInvariant, PTL DEF Spec, RecoverySparesLive

---------------------------------------------------------------------------
(* A completed fan-out stage has an end for every mod                       *)

FanSteps == {"next", "guarded", "poll"}
InFlight == {"guarded", "running"}
Over     == {"returned", "idle", "dead"}

(* A fan-out at work is at one mod at most, and what it calls completed is   *)
(* translated.                                                               *)
FanOK(j) ==
  /\ job[j].at = "export" => run[job[j].run].stage # "tm"
  /\ job[j].at \in FanSteps =>
       /\ run[job[j].run].job # NoJob
       /\ \A u \in Units : job[j].mods[u] = "completed" => u \in translated
       /\ \A u, v \in Units : (job[j].mods[u] \in InFlight /\ job[j].mods[v] \in InFlight) => u = v
  /\ job[j].at = "next" => \A u \in Units : job[j].mods[u] \notin InFlight
(* The jobs of a run that says it is completed have nothing left to do.      *)
Closed(j) ==
  /\ job[j].at \in Over /\ ~Fresh(j)
  /\ \A u \in Units :
       \/ job[j].mods[u] \in {"none", "skipped"}
       \/ job[j].mods[u] = "completed" /\ u \in translated
Finished(r) ==
  (run[r].stage = "tm" /\ run[r].status = "completed") =>
    /\ run[r].job # NoJob
    /\ \A j \in Jobs : job[j].run = r => Closed(j)
Translated == \A j \in Jobs, u \in Units : modJob[j][u].snap = "completed" => u \in translated
FanInv == (\A j \in Jobs : FanOK(j)) /\ (\A r \in Runs : Finished(r)) /\ Translated

JobQuiet(j) ==
  /\ job'[j].run = job[j].run
  /\ job'[j].mods = job[j].mods
  /\ job'[j].at \in FanSteps \cup {"export"} => job'[j].at = job[j].at
  /\ job[j].at \in Over /\ ~Fresh(j) => job'[j].at \in Over /\ ~Fresh(j)'
JobFan(j) ==
  /\ job'[j].run = job[j].run
  /\ FanOK(j)'
  /\ Closed(j) => Closed(j)'
RunFan(r) ==
  (run'[r].stage = "tm" /\ run'[r].status = "completed") =>
    (run[r].stage = "tm" /\ run[r].status = "completed") \/ Finished(r)'
ModsTrue ==
  /\ translated \subseteq translated'
  /\ \A j \in Jobs, u \in Units :
       modJob'[j][u].snap = "completed" => modJob[j][u].snap = "completed" \/ u \in translated'

LEMMA FanFrame ==
  ASSUME ServerInv, FanInv, RowsOn, ModsTrue, \A j \in Jobs : JobFan(j), \A r \in Runs : RunFan(r)
  PROVE  FanInv'
  <1>1. \A j \in Jobs : FanOK(j)'
    BY DEF JobFan
  <1>2. \A r \in Runs : Finished(r)'
    <2> SUFFICES ASSUME NEW r \in Runs, run[r].stage = "tm", run[r].status = "completed"
                 PROVE  run'[r].job # NoJob /\ \A j \in Jobs : job'[j].run = r => Closed(j)'
      BY DEF RunFan, Finished
    <2>1. run[r].job # NoJob /\ \A j \in Jobs : job[j].run = r => Closed(j)
      BY DEF FanInv, Finished
    <2>2. QED
      BY <2>1 DEF JobFan, RowsOn, RowOn
  <1>3. Translated'
    BY DEF FanInv, Translated, ModsTrue
  <1>4. QED
    BY <1>1, <1>2, <1>3 DEF FanInv

LEMMA QuietFan ==
  ASSUME ServerInv, FanInv, RowsOn, ModsTrue, NEW j \in Jobs, JobQuiet(j)
  PROVE  JobFan(j)
  <1>1. Closed(j) => Closed(j)'
    BY DEF Closed, JobQuiet, ModsTrue
  <1>2. CASE job'[j].at \notin FanSteps \cup {"export"}
    BY <1>1, <1>2 DEF JobFan, JobQuiet, FanOK, FanSteps
  <1>3. CASE job'[j].at \in FanSteps \cup {"export"}
    <2>1. job'[j].at = job[j].at /\ job'[j].run = job[j].run /\ job'[j].mods = job[j].mods
      BY <1>3 DEF JobQuiet
    <2>2. job[j].run \in Runs /\ run[job[j].run].stage # "none"
      BY <1>3, <2>1 DEF ServerInv, JobsOK, JobOK, FanSteps
    <2>3. /\ run'[job[j].run].stage = run[job[j].run].stage
          /\ run[job[j].run].job # NoJob => run'[job[j].run].job # NoJob
      BY <2>2 DEF RowsOn, RowOn
    <2>4. FanOK(j)'
      BY <2>1, <2>3 DEF FanInv, FanOK, ModsTrue
    <2>5. QED
      BY <1>1, <2>1, <2>4 DEF JobFan
  <1>4. QED
    BY <1>2, <1>3

(* Steps that move one job, and steps that move none. *)
LEMMA FanOne ==
  ASSUME ServerInv, FanInv, RowsOn, ModsTrue, NEW j \in Jobs, JobFan(j) \/ JobQuiet(j),
         \A k \in Jobs \ {j} : job'[k] = job[k], \A r \in Runs : RunFan(r)
  PROVE  FanInv'
  <1>1. \A k \in Jobs \ {j} : JobQuiet(k)
    BY DEF JobQuiet, Fresh
  <1>2. QED
    BY <1>1, QuietFan, FanFrame

LEMMA FanNone ==
  ASSUME ServerInv, FanInv, RowsOn, ModsTrue, job' = job, \A r \in Runs : RunFan(r)
  PROVE  FanInv'
  <1>1. \A k \in Jobs : JobQuiet(k)
    BY DEF JobQuiet, Fresh
  <1>2. QED
    BY <1>1, QuietFan, FanFrame

LEMMA KeepsFan ==
  ASSUME Keeps
  PROVE  \A r \in Runs : RunFan(r)
  BY DEF Keeps, RunKeeps, RunFan

LEMMA ModsSameTrue ==
  ASSUME modJob' = modJob, translated' = translated
  PROVE  ModsTrue
  BY DEF ModsTrue

LEMMA StatusFan ==
  ASSUME RunsTyped, NEW q, NEW s, s # "completed",
         SetStatus(q, s) \/ \E x : run' = [run EXCEPT ![q].status = s, ![q].job = x]
  PROVE  \A r \in Runs : RunFan(r)
  <1>1. CASE SetStatus(q, s)
    BY <1>1 DEF SetStatus, RunsTyped, Row, RunFan
  <1>2. ASSUME NEW x, run' = [run EXCEPT ![q].status = s, ![q].job = x]
        PROVE  \A r \in Runs : RunFan(r)
    BY <1>2 DEF RunsTyped, Row, RunFan
  <1>3. QED
    BY <1>1, <1>2

(* Requests. *)
LEMMA FanRequests ==
  ASSUME Typed, ModsTyped, ServerInv, LinksInv, FanInv, RowsOn,
         \/ \E c \in Callers : RequestStep(c)
         \/ \E c \in Callers, stage \in ButtonStages : CheckStage(c, stage)
         \/ \E c \in Buttons, r \in Runs : StopRun(c, r)
  PROVE  FanInv'
  <1>0. JobsTyped /\ RunsTyped
    BY DEF Typed
  <1>1. ASSUME NEW c \in Callers, EnqueueJob(c)
        PROVE  FanInv'
    <2> DEFINE r == request[c].run
    <2>1. r \in Runs /\ run[r].stage # "none" /\ Asks(c, r)
      BY <1>1 DEF EnqueueJob, ServerInv, RequestsOK, Asking, Asks
    <2>2. PICK j \in Jobs :
            /\ job[j].row = "none"
            /\ job' = [job EXCEPT ![j] = [NoSync EXCEPT !.run = r, !.row = "waiting"]]
      BY <1>1 DEF EnqueueJob, FreshJob
    <2> HIDE DEF r
    <2>3. /\ job'[j].run = r /\ job'[j].at = "idle"
          /\ \A k \in Jobs \ {j} : job'[k] = job[k]
      BY <1>0, <2>2 DEF JobsTyped, NoSync
    <2>4. ModsTrue /\ run' = run
      BY <1>1 DEF EnqueueJob, ModsTrue, rowVars
    <2>5. \A k \in Jobs \ {j} : JobFan(k)
      <3>1. \A k \in Jobs \ {j} : JobQuiet(k)
        BY <2>3 DEF JobQuiet, Fresh
      <3>2. QED
        BY <2>4, <3>1, QuietFan
    <2>6. \A k \in Jobs : FanOK(k)'
      BY <2>3, <2>5 DEF JobFan, FanOK, FanSteps
    <2>7. \A q \in Runs : Finished(q)'
      <3> SUFFICES ASSUME NEW q \in Runs, run[q].stage = "tm", run[q].status = "completed"
                   PROVE  run[q].job # NoJob /\ \A k \in Jobs : job'[k].run = q => Closed(k)'
        BY <2>4 DEF Finished
      <3>1. run[q].job # NoJob /\ \A k \in Jobs : job[k].run = q => Closed(k)
        BY DEF FanInv, Finished
      <3>2. q # r
        <4>1. Belongs(run[q].job, q)
          BY <3>1 DEF LinksInv, RowsLinked
        <4>2. ~Asks(c, q)
          BY <4>1 DEF LinksInv, OnceInv, OnlyOnce, Belongs
        <4>3. QED
          BY <2>1, <4>2
      <3>3. QED
        BY <2>3, <2>5, <3>1, <3>2 DEF JobFan
    <2>8. Translated'
      BY <2>4 DEF FanInv, Translated, ModsTrue
    <2>9. QED
      BY <2>6, <2>7, <2>8 DEF FanInv
  <1>2. ASSUME NEW c \in Callers, MarkQueued(c)
        PROVE  FanInv'
    <2>1. job' = job /\ ModsTrue
      BY <1>2, ModsSameTrue DEF MarkQueued, jobVars
    <2>2. Keeps
      BY <1>2, OtherMoves, BoundsAssumption
    <2>3. QED
      BY <2>1, <2>2, KeepsFan, FanNone
  <1>3. ASSUME NEW c \in Callers, StopJob(c)
        PROVE  FanInv'
    <2>1. /\ \A r \in Runs : RunFan(r)
          /\ ModsTrue
      BY <1>3, OtherMoves, KeepsFan, ModsSameTrue, BoundsAssumption DEF StopJob, rowVars
    <2>2. ASSUME NEW j \in Jobs, j = request[c].job
          PROVE  FanInv'
      <3>1. /\ \A k \in Jobs \ {j} : job'[k] = job[k]
            /\ job'[j].at = job[j].at /\ job'[j].mods = job[j].mods /\ job'[j].run = job[j].run
            /\ job'[j].row \in {job[j].row, "removed", "failed"}
        <4>1. CASE job' = [job EXCEPT ![j].row = "removed"]
          BY <1>0, <2>2, <4>1 DEF JobsTyped, SyncJob
        <4>2. CASE job' = [job EXCEPT ![j].row = "failed", ![j].hook = "failed"]
          BY <1>0, <2>2, <4>2 DEF JobsTyped, SyncJob
        <4>3. CASE job' = [job EXCEPT ![j].cut = job[j].at # "dead"]
          BY <1>0, <2>2, <4>3 DEF JobsTyped, SyncJob
        <4>4. CASE UNCHANGED job
          BY <4>4
        <4>5. QED
          BY <1>3, <2>2, <4>1, <4>2, <4>3, <4>4 DEF StopJob
      <3>2. JobQuiet(j)
        BY <3>1 DEF JobQuiet, Fresh
      <3>3. QED
        BY <2>1, <3>1, <3>2, FanOne
    <2>3. CASE request[c].job \notin Jobs
      <3>1. \A k \in Jobs : job'[k] = job[k]
        BY <1>0, <1>3, <2>3 DEF StopJob, JobsTyped
      <3>2. \A k \in Jobs : JobQuiet(k)
        BY <3>1 DEF JobQuiet, Fresh
      <3>3. QED
        BY <2>1, <3>2, QuietFan, FanFrame
    <2>4. QED
      BY <2>2, <2>3
  <1>4. ASSUME NEW c \in Buttons, NEW r \in Runs, StopRun(c, r)
        PROVE  FanInv'
    <2>1. /\ job' = job /\ translated' = translated
          /\ \A j \in Jobs, u \in Units : modJob'[j][u] \in {modJob[j][u], StopMod(modJob[j][u])}
      BY <1>4 DEF StopRun, rowVars
    <2>2. \A m \in ModJob : StopMod(m).snap = "completed" => m.snap = "completed"
      BY DEF StopMod, ModJob
    <2>3. ModsTrue
      BY <2>1, <2>2 DEF ModsTrue, ModsTyped
    <2>4. QED
      BY <1>4, <2>1, <2>3, OtherMoves, KeepsFan, FanNone, BoundsAssumption
  <1>5. ASSUME NEW c \in Callers, NEW stage \in ButtonStages, CheckStage(c, stage)
        PROVE  FanInv'
    <2>1. job' = job /\ ModsTrue
      BY <1>5, ModsSameTrue DEF CheckStage, jobVars
    <2>2. run' = run \/ \E r \in Runs : NewRow(r, stage, {})
      BY <1>5 DEF CheckStage
    <2>3. \A r \in Runs : RunFan(r)
      BY <1>0, <2>2 DEF NewRow, NoRow, RunsTyped, Row, RunFan
    <2>4. QED
      BY <2>1, <2>3, FanNone
  <1>6. QED
    BY <1>1, <1>2, <1>3, <1>4, <1>5 DEF RequestStep

(* A handler's way from claim to settled row, and the stalled check. *)
LEMMA FanJob ==
  ASSUME Typed, ModsTyped, ServerInv, LinksInv, FanInv, RowsOn, NEW j \in Jobs,
         \/ Claim(j) \/ Settle(j) \/ StageThrows(j) \/ HookStep(j) \/ StallDead(j) \/ StallLive(j)
         \/ EndStage(j) \/ Export(j)
  PROVE  FanInv'
  <1>0. JobsTyped /\ RunsTyped
    BY DEF Typed
  <1>1. ModsTrue
    BY ModsSameTrue DEF Claim, Settle, StageThrows, HookStep, HookReads, HookCloses, StallDead, StallLive,
       EndStage, Export, rowVars
  <1>2. CASE Claim(j) \/ Settle(j) \/ HookStep(j) \/ StallDead(j) \/ StallLive(j)
    <2>1. \A r \in Runs : RunFan(r)
      <3>1. Keeps
        BY <1>2, JobMoves, RunMoves DEF HookStep
      <3>2. QED
        BY <3>1, KeepsFan
    <2>2. /\ \A k \in Jobs \ {j} : job'[k] = job[k]
          /\ JobQuiet(j)
      <3>1. CASE Claim(j)
        <4>1. job' = [job EXCEPT ![j].row = "active", ![j].at = "begin"] /\ Fresh(j)
          BY <3>1 DEF Claim, Fresh
        <4>2. QED
          BY <1>0, <4>1 DEF JobsTyped, SyncJob, JobQuiet, FanSteps
      <3>2. CASE Settle(j)
        <4>1. /\ \A k \in Jobs \ {j} : job'[k] = job[k]
              /\ job'[j].mods = job[j].mods /\ job'[j].at = "idle" /\ job'[j].run = job[j].run
              /\ job'[j].row \in {job[j].row, "failed", "completed"}
          BY <1>0, <3>2 DEF Settle, JobsTyped, SyncJob
        <4>2. QED
          BY <4>1 DEF JobQuiet, FanSteps, Over, Fresh
      <3>3. CASE HookStep(j)
        <4>1. PICK hook : job' = [job EXCEPT ![j].hook = hook]
          BY <3>3 DEF HookStep, HookReads, HookCloses
        <4>2. QED
          BY <1>0, <4>1 DEF JobsTyped, SyncJob, JobQuiet, Fresh
      <3>4. CASE StallDead(j) \/ StallLive(j)
        <4>1. PICK at : FailRow(j, at) /\ (at = job[j].at \/ at = "idle")
          BY <3>4 DEF StallDead, StallLive
        <4>2. /\ \A k \in Jobs \ {j} : job'[k] = job[k]
              /\ job'[j].mods = job[j].mods /\ job'[j].at = at /\ job'[j].run = job[j].run
              /\ job'[j].row = "failed"
          BY <1>0, <4>1 DEF FailRow, JobsTyped, SyncJob
        <4>3. QED
          BY <4>1, <4>2 DEF JobQuiet, FanSteps, Over, Fresh
      <3>5. QED
        BY <1>2, <3>1, <3>2, <3>3, <3>4
    <2>3. QED
      BY <1>1, <2>1, <2>2, FanOne
  <1>3. CASE StageThrows(j) \/ EndStage(j) \/ Export(j)
    <2>1. PICK s \in {"returned", "thrown"} : JobTo(j, s)
      BY <1>3 DEF StageThrows, EndStage, Export, Return, Throw
    <2>2. job[j].at \notin Over
      BY <1>3 DEF StageThrows, EndStage, Export, Over
    <2>3. JobQuiet(j) /\ \A k \in Jobs \ {j} : job'[k] = job[k]
      BY <1>0, <2>1, <2>2 DEF JobTo, JobsTyped, SyncJob, JobQuiet, FanSteps
    <2>4. \A r \in Runs : RunFan(r)
      <3>1. CASE StageThrows(j) \/ (Export(j) /\ Throw(j))
        BY <1>0, <3>1, StatusFan DEF StageThrows, Throw
      <3>2. CASE EndStage(j) \/ (Export(j) /\ ~Throw(j))
        <4>1. PICK status : SetStatus(job[j].run, status)
          BY <3>2 DEF EndStage, Export, Return, Throw
        <4>2. run[job[j].run].stage # "tm"
          BY <3>2 DEF EndStage, Export, FanInv, FanOK, ServerInv, JobsOK, JobOK
        <4>3. \A r \in Runs : /\ run'[r].stage = run[r].stage
                              /\ r # job[j].run => run'[r].status = run[r].status
          BY <1>0, <4>1 DEF SetStatus, RunsTyped, Row
        <4>4. QED
          BY <4>2, <4>3 DEF RunFan
      <3>3. QED
        BY <1>3, <3>1, <3>2
    <2>5. QED
      BY <1>1, <2>3, <2>4, FanOne
  <1>4. QED
    BY <1>2, <1>3

(* The start of a stage. *)
LEMMA FanBegin ==
  ASSUME Typed, ServerInv, FanInv, RowsOn, NEW j \in Jobs, Begin(j)
  PROVE  FanInv'
  <1>0. JobsTyped /\ RunsTyped /\ ModsTrue /\ job[j].at = "begin"
    BY ModsSameTrue DEF Typed, Begin
  <1> DEFINE r == job[j].run
  <1>1. r \in Runs
    BY <1>0 DEF ServerInv, JobsOK, JobOK
  <1>2. PICK status \in {"running", "cancelled", "failed"} :
          run' = [run EXCEPT ![r].status = status, ![r].job = j]
    BY DEF Begin
  <1>3. run'[r].job = j /\ run'[r].stage = run[r].stage
    BY <1>0, <1>1, <1>2 DEF RunsTyped, Row
  <1>4. \A q \in Runs : RunFan(q)
    BY <1>0, <1>2, StatusFan
  <1>5. CASE \E s \in {"returned", "thrown"} : JobTo(j, s)
    <2>1. JobQuiet(j) /\ \A k \in Jobs \ {j} : job'[k] = job[k]
      BY <1>0, <1>5 DEF JobTo, JobsTyped, SyncJob, JobQuiet, FanSteps, Over
    <2>2. QED
      BY <1>0, <1>4, <2>1, FanOne
  <1>6. ASSUME NEW first \in {"import", "next", "export"}, NEW work,
               job' = [job EXCEPT ![j].at = first,
                                  ![j].mods = [u \in Units |-> IF u \in work THEN "queued" ELSE "none"]],
               first = "export" => run[r].stage # "tm"
        PROVE  FanInv'
    <2>1. /\ job'[j].at = first /\ job'[j].run = job[j].run
          /\ \A u \in Units : job'[j].mods[u] \in {"queued", "none"}
          /\ \A k \in Jobs \ {j} : job'[k] = job[k]
      BY <1>0, <1>6 DEF JobsTyped, SyncJob
    <2>2. run'[job'[j].run].job # NoJob /\ (first = "export" => run'[job'[j].run].stage # "tm")
      <3>1. j # NoJob
        BY DEF Jobs, NoJob
      <3>2. QED
        BY <1>3, <1>6, <2>1, <3>1
    <2>3. FanOK(j)'
      BY <2>1, <2>2 DEF FanOK, FanSteps, InFlight
    <2>4. JobFan(j)
      BY <1>0, <2>1, <2>3 DEF JobFan, Closed, Over
    <2>5. QED
      BY <1>0, <1>4, <2>1, <2>4, FanOne
  <1>7. \/ \E s \in {"returned", "thrown"} : JobTo(j, s)
        \/ \E first \in {"import", "next", "export"} : \E work :
             /\ job' = [job EXCEPT ![j].at = first,
                                   ![j].mods = [u \in Units |-> IF u \in work THEN "queued" ELSE "none"]]
             /\ first = "export" => run[r].stage # "tm"
    BY DEF Begin
  <1>8. QED
    BY <1>5, <1>6, <1>7

(* The steps at one unit. *)
LEMMA FanUnit ==
  ASSUME Typed, ModsTyped, ServerInv, LinksInv, FanInv, RowsOn, NEW j \in Jobs, NEW u \in Units,
         \/ StartImport(j, u) \/ EndImport(j, u)
         \/ GuardMod(j, u) \/ EnqueueMod(j, u) \/ Poll(j, u)
  PROVE  FanInv'
  <1>0. JobsTyped /\ RunsTyped /\ \A k \in Jobs, v \in Units : modJob[k][v] \in ModJob
    BY DEF Typed, ModsTyped
  <1>1. \A r \in Runs : RunFan(r)
    <2>1. Keeps
      BY JobMoves, RunMoves
    <2>2. QED
      BY <2>1, KeepsFan
  <1>2. job[j].at \notin Over
    BY DEF StartImport, EndImport, GuardMod, EnqueueMod, Poll, Over
  <1>e. ASSUME NEW entry, NEW step, Entering(j, u, entry, step)
        PROVE  /\ \A k \in Jobs \ {j} : job'[k] = job[k]
               /\ job'[j].at = step /\ job'[j].run = job[j].run
               /\ \A v \in Units : job'[j].mods[v] = IF v = u THEN entry ELSE job[j].mods[v]
    BY <1>0, <1>e DEF Entering, JobsTyped, SyncJob
  <1>t. ASSUME Throw(j), ModsTrue
        PROVE  FanInv'
    <2>1. JobQuiet(j) /\ \A k \in Jobs \ {j} : job'[k] = job[k]
      BY <1>0, <1>2, <1>t DEF Throw, JobTo, JobsTyped, SyncJob, JobQuiet, FanSteps
    <2>2. QED
      BY <1>1, <1>t, <2>1, FanOne
  <1>3. CASE StartImport(j, u) \/ EndImport(j, u)
    <2>1. ModsTrue
      BY <1>3, ModsSameTrue DEF StartImport, EndImport
    <2>2. CASE \E entry \in {"running", "completed"} : Entering(j, u, entry, "import")
      <3>1. /\ \A k \in Jobs \ {j} : job'[k] = job[k]
            /\ job'[j].at = "import" /\ job'[j].run = job[j].run
        BY <1>e, <2>2
      <3>2. JobFan(j)
        BY <1>2, <3>1 DEF JobFan, FanOK, FanSteps, Closed
      <3>3. QED
        BY <1>1, <2>1, <3>1, <3>2, FanOne
    <2>3. QED
      BY <1>3, <1>t, <2>1, <2>2 DEF StartImport, EndImport
  (* What a step of the fan-out at one mod has to see to. *)
  <1>f. ASSUME job[j].at \in FanSteps, ModsTrue, NEW entry, NEW step \in FanSteps,
               Entering(j, u, entry, step),
               entry = "completed" => u \in translated',
               \A v \in Units : v # u => job[j].mods[v] \notin InFlight,
               step = "next" => entry \notin InFlight
        PROVE  FanInv'
    <2>1. /\ \A k \in Jobs \ {j} : job'[k] = job[k]
          /\ job'[j].at = step /\ job'[j].run = job[j].run
          /\ \A v \in Units : job'[j].mods[v] = IF v = u THEN entry ELSE job[j].mods[v]
      BY <1>e, <1>f
    <2>2. job[j].run \in Runs /\ run[job[j].run].stage # "none" /\ run[job[j].run].job # NoJob
      BY <1>f DEF ServerInv, JobsOK, JobOK, FanInv, FanOK, FanSteps
    <2>3. run'[job[j].run].job # NoJob
      BY <2>2 DEF RowsOn, RowOn
    <2>4. \A v \in Units : job'[j].mods[v] = "completed" => v \in translated'
      BY <1>f, <2>1 DEF FanInv, FanOK, ModsTrue
    <2>5. \A v, w \in Units : (job'[j].mods[v] \in InFlight /\ job'[j].mods[w] \in InFlight) => v = w
      BY <1>f, <2>1
    <2>6. FanOK(j)'
      BY <1>f, <2>1, <2>3, <2>4, <2>5 DEF FanOK, FanSteps
    <2>7. JobFan(j)
      BY <1>2, <2>1, <2>6 DEF JobFan, Closed
    <2>8. QED
      BY <1>1, <1>f, <2>1, <2>7, FanOne
  <1>4. CASE GuardMod(j, u)
    <2>1. job[j].at = "next" /\ \A v \in Units : job[j].mods[v] \notin InFlight
      BY <1>4 DEF GuardMod, FanInv, FanOK
    <2>2. ModsTrue
      <3>1. \A k \in Jobs, v \in Units : modJob'[k][v].snap = modJob[k][v].snap
        BY <1>0, <1>4 DEF GuardMod, ModsTyped, ModJob
      <3>2. QED
        BY <1>4, <3>1 DEF GuardMod, ModsTrue, rowVars
    <2>3. Entering(j, u, "skipped", "next") \/ Entering(j, u, "guarded", "guarded")
      BY <1>4 DEF GuardMod
    <2>4. QED
      BY <1>f, <2>1, <2>2, <2>3 DEF FanSteps, InFlight
  <1>5. CASE EnqueueMod(j, u)
    <2>1. /\ job[j].at = "guarded" /\ job[j].mods[u] = "guarded"
          /\ \A v \in Units : v # u => job[j].mods[v] \notin InFlight
      BY <1>5 DEF EnqueueMod, FanInv, FanOK, FanSteps, InFlight
    <2>2. ModsTrue
      <3>1. modJob' = [modJob EXCEPT ![j][u] = [row |-> "waiting", snap |-> "running"]]
        BY <1>5 DEF EnqueueMod
      <3>2. \A k \in Jobs, v \in Units : modJob'[k][v].snap = "completed" => modJob[k][v].snap = "completed"
        BY <3>1 DEF ModsTyped
      <3>3. QED
        BY <1>5, <3>2 DEF EnqueueMod, ModsTrue
    <2>3. CASE Entering(j, u, "running", "poll")
      BY <1>f, <2>1, <2>2, <2>3 DEF FanSteps
    <2>4. QED
      BY <1>5, <1>t, <2>2, <2>3 DEF EnqueueMod
  <1>6. CASE Poll(j, u)
    <2>1. /\ job[j].at = "poll" /\ job[j].mods[u] = "running"
          /\ \A v \in Units : v # u => job[j].mods[v] \notin InFlight
      BY <1>6 DEF Poll, FanInv, FanOK, FanSteps, InFlight
    <2>2. ModsTrue
      <3>1. \A m \in ModJob : StopMod(m).snap = "completed" => m.snap = "completed"
        BY DEF StopMod, ModJob
      <3>2. \A k \in Jobs, v \in Units : modJob'[k][v] \in {modJob[k][v], StopMod(modJob[k][v])}
        <4>1. CASE modJob' = [modJob EXCEPT ![j][u] = StopMod(@)]
          BY <4>1 DEF ModsTyped
        <4>2. CASE UNCHANGED modJob
          BY <4>2
        <4>3. QED
          BY <1>6, <4>1, <4>2 DEF Poll
      <3>3. QED
        BY <1>0, <1>6, <3>1, <3>2 DEF Poll, ModsTrue, rowVars
    <2>3. PICK entry : /\ Entering(j, u, entry, "next") /\ entry \in Ended
                       /\ entry = "completed" => modJob[j][u].snap = "completed"
      BY <1>0, <1>6 DEF Poll, ModJob, Ended
    <2>4. entry = "completed" => u \in translated'
      BY <2>2, <2>3 DEF FanInv, Translated, ModsTrue
    <2>5. QED
      BY <1>f, <2>1, <2>2, <2>3, <2>4 DEF FanSteps, InFlight, Ended
  <1>7. QED
    BY <1>3, <1>4, <1>5, <1>6

(* The end of a fan-out. *)
LEMMA FanEnd ==
  ASSUME Typed, ModsTyped, ServerInv, LinksInv, LinksInv', ModsInv, FanInv, RowsOn, NEW j \in Jobs,
         CancelRest(j) \/ EndFanOut(j)
  PROVE  FanInv'
  <1>0. JobsTyped /\ RunsTyped /\ ModsTrue /\ job[j].at = "next" /\ ~Fresh(j)
    <2>1. job[j].at = "next" /\ modJob' = modJob /\ translated' = translated
      BY DEF CancelRest, EndFanOut, rowVars
    <2>2. QED
      BY <2>1, ModsSameTrue DEF Typed, ModsInv
  <1>1. /\ job[j].run \in Runs /\ run[job[j].run].job # NoJob /\ run[job[j].run].stage # "range"
        /\ \A u \in Units : job[j].mods[u] = "completed" => u \in translated
        /\ \A u \in Units : job[j].mods[u] \notin InFlight
    BY <1>0 DEF ServerInv, JobsOK, JobOK, Elsewhere, FanInv, FanOK, FanSteps
  <1>2. CASE CancelRest(j)
    <2>1. /\ \A k \in Jobs \ {j} : job'[k] = job[k]
          /\ job'[j].run = job[j].run /\ job'[j].at = job[j].at
          /\ \A u \in Units : job'[j].mods[u] = IF job[j].mods[u] = "queued" THEN "cancelled" ELSE job[j].mods[u]
          /\ run' = run /\ translated' = translated
      BY <1>0, <1>2 DEF CancelRest, JobsTyped, SyncJob, rowVars
    <2>2. FanOK(j)'
      BY <1>0, <1>1, <2>1 DEF FanOK, InFlight, FanSteps
    <2>3. JobFan(j)
      BY <1>0, <2>1, <2>2 DEF JobFan, Closed, Over
    <2>4. \A r \in Runs : RunFan(r)
      BY <2>1 DEF RunFan
    <2>5. QED
      BY <1>0, <2>1, <2>3, <2>4, FanOne
  <1>3. CASE EndFanOut(j)
    <2>1. PICK s : /\ Return(j, s)
                   /\ s = "completed" => \A u \in Units : job[j].mods[u] \notin {"queued", "cancelled", "failed"}
      BY <1>3 DEF EndFanOut, With
    <2>2. /\ \A k \in Jobs \ {j} : job'[k] = job[k]
          /\ job'[j].run = job[j].run /\ job'[j].at = "returned" /\ job'[j].mods = job[j].mods
          /\ job'[j].row = job[j].row
          /\ \A r \in Runs : /\ run'[r].stage = run[r].stage /\ run'[r].job = run[r].job
                             /\ run'[r].status = IF r = job[j].run THEN s ELSE run[r].status
          /\ translated' = translated
      BY <1>0, <1>3, <2>1 DEF Return, SetStatus, JobTo, JobsTyped, SyncJob, RunsTyped, Row, EndFanOut
    <2>3. JobQuiet(j)
      BY <1>0, <2>2 DEF JobQuiet, FanSteps, Over
    <2>4. \A r \in Runs : RunFan(r)
      <3> SUFFICES ASSUME s = "completed" PROVE Finished(job[j].run)'
        BY <2>2 DEF RunFan
      <3>1. \A u \in Units : job[j].mods[u] \in Entry
        BY <1>0 DEF JobsTyped, SyncJob
      <3>2. Closed(j)'
        BY <1>0, <1>1, <2>1, <2>2, <3>1 DEF Closed, Over, Fresh, Entry, Ended, InFlight
      <3>3. \A k \in Jobs : job'[k].run = job[j].run => k = j
        BY <1>1, <2>2 DEF LinksInv, OnceInv, OnlyOnce
      <3>4. QED
        BY <1>1, <2>2, <3>2, <3>3 DEF Finished
    <2>5. QED
      BY <1>0, <2>2, <2>3, <2>4, FanOne
  <1>4. QED
    BY <1>2, <1>3

(* The queue of the per-mod jobs, crash and boot. *)
LEMMA FanBoot ==
  ASSUME Typed, ModsTyped, ServerInv, FanInv, RowsOn,
         \/ BootStep \/ Crash
         \/ \E j \in Jobs, u \in Units :
              ClaimMod(j, u) \/ ModEnds(j, u) \/ SnapshotExpires(j, u) \/ StallMod(j, u)
  PROVE  FanInv'
  <1>0. JobsTyped /\ \A k \in Jobs, v \in Units : modJob[k][v] \in ModJob
    BY DEF Typed, ModsTyped
  <1>1. \A r \in Runs : RunFan(r)
    <2>1. Keeps
      BY OtherMoves, CrashMoves, BoundsAssumption DEF BootStep
    <2>2. QED
      BY <2>1, KeepsFan
  <1>2. CASE BootStep
    <2>1. job' = job /\ ModsTrue
      BY <1>2, ModsSameTrue DEF BootStep, Boot, Serve, CloseOrSpare, jobVars, rowVars
    <2>2. QED
      BY <1>1, <2>1, FanNone
  <1>3. CASE Crash
    <2>1. ModsTrue
      <3>1. ASSUME NEW k \in Jobs, NEW v \in Units
            PROVE  modJob'[k][v].snap = modJob[k][v].snap
        <4>1. modJob'[k][v] = [modJob[k][v] EXCEPT !.row = IF @ = "active" THEN "dead" ELSE @]
          BY <1>3 DEF Crash
        <4>2. QED
          BY <1>0, <4>1 DEF ModJob
      <3>2. QED
        BY <1>3, <3>1 DEF Crash, ModsTrue, rowVars
    <2> DEFINE step(k) == IF job[k].at = "idle" \/ job[k].row # "active" THEN "idle" ELSE "dead"
    <2>2. job' = [k \in Jobs |-> [job[k] EXCEPT !.at = step(k), !.hook = "none", !.cut = FALSE]]
      BY <1>3 DEF Crash
    <2>3. \A k \in Jobs : step(k) \in {"idle", "dead"}
      OBVIOUS
    <2> HIDE DEF step
    <2>4. \A k \in Jobs : /\ job'[k].row = job[k].row /\ job'[k].mods = job[k].mods
                          /\ job'[k].at = step(k) /\ job'[k].run = job[k].run
      BY <1>0, <2>2 DEF JobsTyped, SyncJob
    <2>5. \A k \in Jobs : JobQuiet(k)
      BY <2>3, <2>4 DEF JobQuiet, FanSteps, Over, Fresh
    <2>6. QED
      BY <1>1, <2>1, <2>5, QuietFan, FanFrame
  <1>4. ASSUME NEW j \in Jobs, NEW u \in Units,
               ClaimMod(j, u) \/ ModEnds(j, u) \/ SnapshotExpires(j, u) \/ StallMod(j, u)
        PROVE  FanInv'
    <2>1. job' = job
      BY <1>4 DEF ClaimMod, ModEnds, EndMod, SnapshotExpires, StallMod
    <2>2. ModsTrue
      <3>1. CASE ModEnds(j, u)
        <4>1. PICK verdict \in Ended : EndMod(j, u, verdict)
          BY <3>1 DEF ModEnds
        <4>2. /\ modJob'[j][u].snap = verdict
              /\ \A k \in Jobs, v \in Units : <<k, v>> # <<j, u>> => modJob'[k][v] = modJob[k][v]
              /\ translated' = IF verdict = "completed" THEN translated \cup {u} ELSE translated
          BY <4>1 DEF EndMod, ModsTyped
        <4>3. QED
          BY <4>2 DEF ModsTrue
      <3>2. CASE ClaimMod(j, u) \/ SnapshotExpires(j, u) \/ StallMod(j, u)
        <4>1. PICK snap \in {modJob[j][u].snap, "running", "none"} :
                modJob'[j][u].snap = snap
          BY <1>0, <3>2 DEF ClaimMod, SnapshotExpires, StallMod, ModsTyped, ModJob
        <4>2. /\ \A k \in Jobs, v \in Units : <<k, v>> # <<j, u>> => modJob'[k][v] = modJob[k][v]
              /\ translated' = translated
          BY <3>2 DEF ClaimMod, SnapshotExpires, StallMod, ModsTyped, rowVars
        <4>3. QED
          BY <4>1, <4>2 DEF ModsTrue
      <3>3. QED
        BY <1>4, <3>1, <3>2
    <2>3. QED
      BY <1>1, <2>1, <2>2, FanNone
  <1>5. QED
    BY <1>2, <1>3, <1>4

LEMMA FanAgent ==
  ASSUME Typed, ModsTyped, ServerInv, LinksInv, FanInv, RowsOn, AgentNext
  PROVE  FanInv'
  <1>0. RunsTyped
    BY DEF Typed
  <1>1. CASE StartTm
    BY <1>1, FanRequests DEF StartTm, Callers, ButtonStages
  <1>2. CASE ~StartTm
    <2>1. job' = job /\ ModsTrue
      <3>1. UNCHANGED <<job, modJob, translated>>
        BY <1>2 DEF AgentNext, Install, Upload, Refuse, Scan, Plan, PlanUnanswered, EndUpload, Start, StartRange,
           Resend, Waited, WaitFails, CycleThrows, Restart, runsVars, rowVars, jobVars
      <3>2. QED
        BY <3>1, ModsSameTrue
    <2>2. \/ run' = run
          \/ \E r \in Runs : \E units : NewRow(r, "range", units)
          \/ \E units : run' = [run EXCEPT ![agent.run].units = units]
      BY <1>2 DEF AgentNext, Install, Upload, Refuse, Scan, Plan, PlanUnanswered, EndUpload, Start, StartRange,
         Resend, Waited, WaitFails, CycleThrows, Restart, runsVars, rowVars
    <2>3. \A r \in Runs : RunFan(r)
      <3>1. ASSUME NEW q \in Runs, NEW units, NewRow(q, "range", units)
            PROVE  \A r \in Runs : RunFan(r)
        BY <1>0, <3>1 DEF NewRow, NoRow, RunsTyped, Row, RunFan
      <3>2. ASSUME NEW units, run' = [run EXCEPT ![agent.run].units = units]
            PROVE  \A r \in Runs : RunFan(r)
        BY <1>0, <3>2 DEF RunsTyped, Row, RunFan
      <3>3. QED
        BY <2>2, <3>1, <3>2 DEF RunFan
    <2>4. QED
      BY <2>1, <2>3, FanNone
  <1>3. QED
    BY <1>1, <1>2

LEMMA FanNext ==
  ASSUME IInv, ModsInv, LinksInv, FanInv, [Next]_vars
  PROVE  FanInv'
  <1>0. Typed /\ ModsTyped /\ ServerInv /\ LinksInv' /\ RowsOn
    BY LinkNext DEF IInv
  <1>1. CASE UNCHANGED vars
    <2>1. job' = job /\ run' = run /\ ModsTrue
      BY <1>1, ModsSameTrue DEF vars, runsVars, rowVars, jobVars
    <2>2. QED
      BY <1>0, <2>1, FanNone DEF RunFan
  <1>2. CASE AgentNext
    BY <1>0, <1>2, FanAgent
  <1>3. CASE ServerNext
    <2>1. ASSUME \/ \E c \in Buttons, stage \in ButtonStages : Press(c, stage)
                 \/ \E c \in Buttons, r \in Runs : StopRun(c, r)
                 \/ \E c \in Callers : RequestStep(c)
          PROVE  FanInv'
      BY <1>0, <2>1, FanRequests DEF Press, Callers
    <2>2. ASSUME NEW j \in Jobs,
                 Claim(j) \/ StageStep(j) \/ StageThrows(j) \/ HookStep(j) \/ StallDead(j) \/ StallLive(j)
          PROVE  FanInv'
      BY <1>0, <2>2, FanJob, FanBegin, FanUnit, FanEnd DEF StageStep
    <2>3. QED
      BY <1>0, <1>3, <2>1, <2>2, FanBoot DEF ServerNext
  <1>4. QED
    BY <1>1, <1>2, <1>3 DEF Next

LEMMA FanInit ==
  ASSUME Init
  PROVE  FanInv
  BY DEF Init, VortexInit, FanInv, FanOK, Finished, Translated, NoRow, NoSync, NoMod, FanSteps

(* A fan-out that says it completed has an end for every mod: a job that     *)
(* completed in truth, or none because another was there, whatever Stops,    *)
(* crashes, stalls, expiries and repeated requests did to it on the way.     *)
THEOREM FanOutsEnd == Spec => []FanOutsDone
  <1>1. ASSUME LinksInv, FanInv
        PROVE  FanOutsDone
    <2> SUFFICES ASSUME NEW r \in Runs, NEW u \in Units, run[r].stage = "tm", run[r].status = "completed"
                 PROVE  \/ job[run[r].job].mods[u] \in {"none", "skipped"}
                        \/ job[run[r].job].mods[u] = "completed" /\ u \in translated
      BY DEF FanOutsDone
    <2>1. run[r].job # NoJob /\ \A j \in Jobs : job[j].run = r => Closed(j)
      BY <1>1 DEF FanInv, Finished
    <2>2. run[r].job \in Jobs /\ job[run[r].job].run = r
      BY <1>1, <2>1 DEF LinksInv, RowsLinked, Belongs
    <2>3. QED
      BY <2>1, <2>2 DEF Closed
  <1>2. IInv /\ ModsInv /\ LinksInv /\ FanInv /\ [Next]_vars => ModsInv' /\ LinksInv' /\ FanInv'
    BY ModsNext, LinkNext, FanNext
  <1>3. Init => ModsInv /\ LinksInv /\ FanInv
    BY ModsInit, LinkInit, FanInit
  <1>4. QED
    BY <1>1, <1>2, <1>3, CycleInvariant, PTL DEF Spec

---------------------------------------------------------------------------
(* Types                                                                    *)

RestTyped ==
  /\ translated \subseteq Units
  /\ worker \in {"down", "booting", "up"}
  /\ spent \in [Budget -> Nat]
RestStep ==
  /\ translated' \subseteq translated \cup Units
  /\ worker' \in {worker, "down", "booting", "up"}
  /\ spent' = spent \/ \E b \in Budget : Spend(b)

LEMMA RestFrame ==
  ASSUME RestTyped, RestStep
  PROVE  RestTyped'
  <1>1. spent' \in [Budget -> Nat]
    BY DEF RestTyped, RestStep, Spend
  <1>2. QED
    BY <1>1 DEF RestTyped, RestStep

LEMMA RestServer ==
  ASSUME ServerNext
  PROVE  RestStep
  <1>0. "starts" \in Budget /\ "stops" \in Budget /\ "faults" \in Budget
    BY DEF Budget
  <1>1. ASSUME \/ \E c \in Buttons, stage \in ButtonStages : Press(c, stage)
               \/ \E c \in Buttons, r \in Runs : StopRun(c, r)
               \/ \E c \in Callers : RequestStep(c)
        PROVE  RestStep
    BY <1>0, <1>1 DEF RestStep, Press, CheckStage, StopRun, RequestStep, EnqueueJob, MarkQueued, StopJob,
       rowVars, bootVars
  <1>2. ASSUME NEW j \in Jobs,
               Claim(j) \/ StageStep(j) \/ StageThrows(j) \/ HookStep(j) \/ StallDead(j) \/ StallLive(j)
        PROVE  RestStep
    BY <1>0, <1>2 DEF RestStep, Fault, Claim, StageStep, Begin, StartImport, EndImport, EndStage, Export, GuardMod,
       EnqueueMod, Poll, CancelRest, EndFanOut, Settle, StageThrows, HookStep, HookReads, HookCloses,
       StallDead, StallLive, rowVars, bootVars
  <1>3. ASSUME NEW j \in Jobs, NEW u \in Units,
               ClaimMod(j, u) \/ ModEnds(j, u) \/ SnapshotExpires(j, u) \/ StallMod(j, u)
        PROVE  RestStep
    BY <1>3 DEF RestStep, ClaimMod, ModEnds, EndMod, SnapshotExpires, StallMod, rowVars, bootVars
  <1>4. CASE BootStep \/ Crash
    BY <1>0, <1>4 DEF RestStep, BootStep, Boot, Serve, CloseOrSpare, Crash, Fault, rowVars, bootVars
  <1>5. QED
    BY <1>1, <1>2, <1>3, <1>4 DEF ServerNext

LEMMA RestAgent ==
  ASSUME AgentNext
  PROVE  RestStep
  <1>0. "faults" \in Budget
    BY DEF Budget
  <1>1. CASE \/ \E u \in Units : Install(u) \/ Upload(u) \/ Refuse(u)
             \/ Scan \/ Plan \/ PlanUnanswered \/ EndUpload
    BY <1>0, <1>1 DEF RestStep, Fault, Install, Upload, Refuse, Scan, Plan, PlanUnanswered, EndUpload,
       runsVars, rowVars, bootVars
  <1>2. CASE Start \/ StartTm \/ Resend \/ Waited \/ WaitFails \/ CycleThrows \/ Restart
    BY <1>0, <1>2 DEF RestStep, Fault, Start, StartRange, StartTm, CheckStage, Resend, Waited, WaitFails,
       CycleThrows, Restart, runsVars, rowVars, bootVars
  <1>3. QED
    BY <1>1, <1>2 DEF AgentNext

LEMMA RestNext ==
  ASSUME RestTyped, [Next]_vars
  PROVE  RestTyped'
  <1>1. CASE UNCHANGED vars
    BY <1>1 DEF RestTyped, vars, runsVars, rowVars, bootVars
  <1>2. QED
    BY <1>1, RestServer, RestAgent, RestFrame DEF Next

(* Every variable of the server keeps its type, also with the agent at work  *)
(* on it; the list of recovery holds pairs of a run and a job there is.      *)
THEOREM VortexTypes == Spec => []VortexTypeOK
  <1>1. IInv /\ LinksInv /\ RestTyped => VortexTypeOK
    BY DEF IInv, Typed, RunsTyped, JobsTyped, StoredTyped, RequestsTyped, ModsTyped, LinksInv, BootLinked,
       RestTyped, VortexTypeOK, RunsType, JobsType, ServerType
  <1>2. IInv /\ LinksInv /\ RestTyped /\ [Next]_vars => LinksInv' /\ RestTyped'
    BY LinkNext, RestNext
  <1>3. Init => LinksInv /\ RestTyped
    BY LinkInit, BoundsAssumption DEF Init, VortexInit, RestTyped, Budget
  <1>4. QED
    BY <1>1, <1>2, <1>3, CycleInvariant, PTL DEF Spec

===========================================================================
