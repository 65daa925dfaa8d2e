------------------------- MODULE JobRuntimeProofs -------------------------
(*************************************************************************)
(* Proofs about JobRuntime for every set of clients, mods, kinds and     *)
(* every bound.                                                          *)
(*************************************************************************)
EXTENDS JobRuntime, TLAPS, SequenceTheorems

---------------------------------------------------------------------------
(* Operators and shared steps *)

(* The Lua script stores a snapshot status whatever was there. *)
LEMMA SnapshotAfterType ==
  ASSUME NEW old \in SnapshotStatus, NEW new \in SnapshotStatus
  PROVE  SnapshotAfter(old, new) \in SnapshotStatus
  BY DEF SnapshotAfter

LEMMA WriteType ==
  ASSUME snap \in [JobIds -> SnapshotStatus], NEW j, NEW status \in SnapshotStatus,
         Write(j, status)
  PROVE  snap' \in [JobIds -> SnapshotStatus]
  BY SnapshotAfterType DEF Write

LEMMA SpendType ==
  ASSUME SpentType, NEW b \in Budget, Spend(b)
  PROVE  SpentType'
  BY DEF SpentType, Spend

LEMMA NoRequestType == NoRequest \in Request
  BY DEF NoRequest, Request, ClientStep

LEMMA NoRecType == NoRec \in Recovery
  BY DEF NoRec, Recovery, RecStep

LEMMA MintType ==
  ASSUME StoreType, NEW data \in JobData \cup {NoData}, MintJob(data)
  PROVE  /\ nextId' \in 0 .. MaxJobs
         /\ job' \in [JobIds -> JobData \cup {NoData}]
         /\ snap' \in [JobIds -> SnapshotStatus]
         /\ nextId + 1 \in JobIds
  <1>1. nextId + 1 \in JobIds /\ nextId' \in 0 .. MaxJobs
    BY BoundsAssumption DEF StoreType, MintJob, JobIds
  <1>2. job' \in [JobIds -> JobData \cup {NoData}]
    BY <1>1 DEF StoreType, MintJob
  <1>3. snap' \in [JobIds -> SnapshotStatus]
    BY WriteType DEF StoreType, MintJob, SnapshotStatus
  <1>4. QED
    BY <1>1, <1>2, <1>3

(* Every change of one request goes through one of these three. *)
LEMMA SetRequest ==
  ASSUME RequestType, NEW c \in Clients, NEW r \in Request,
         client' = [client EXCEPT ![c] = r],
         r.at \notin {"idle", "guard", "sweep"} => r.job \in JobIds,
         r.at \in {"guard", "discard"} => r.data \in JobData
  PROVE  RequestType'
  BY DEF RequestType

LEMMA LeaveType ==
  ASSUME RequestType, NEW c \in Clients, Leave(c)
  PROVE  RequestType'
  <1>1. NoRequest \in Request /\ NoRequest.at = "idle"
    BY NoRequestType DEF NoRequest
  <1>2. QED
    BY <1>1, SetRequest DEF Leave

LEMMA GotoType ==
  ASSUME RequestType, NEW c \in Clients, NEW step \in ClientStep, Goto(c, step),
         step = "sweep" \/ client[c].job \in JobIds,
         step \notin {"guard", "discard"}
  PROVE  RequestType'
  <1> DEFINE r == [client[c] EXCEPT !.at = step]
  <1>1. client[c] \in Request
    BY DEF RequestType
  <1>2. r \in Request /\ r.at = step /\ r.job = client[c].job
    BY <1>1 DEF Request
  <1>3. client' = [client EXCEPT ![c] = r]
    BY DEF Goto
  <1> HIDE DEF r
  <1>4. QED
    BY <1>2, <1>3, SetRequest

---------------------------------------------------------------------------
(* API requests keep the types *)

(* A step that changes nothing but its request. *)
LEMMA OnlyRequest ==
  ASSUME TypeOK, RequestType',
         UNCHANGED <<storeVars, ctrl, apiKeeps, spent, historyVars>>
  PROVE  TypeOK'
  BY DEF TypeOK, StoreType, ProcessType, RunType, RecoveryType, SpentType, HistoryType,
         storeVars, apiKeeps, runVars, recVars, historyVars

(* A step that changes its request and the store. *)
LEMMA StoreAndRequest ==
  ASSUME TypeOK, RequestType', StoreType',
         UNCHANGED <<ctrl, apiKeeps, spent, historyVars>>
  PROVE  TypeOK'
  BY DEF TypeOK, ProcessType, RunType, RecoveryType, SpentType, HistoryType,
         apiKeeps, runVars, recVars, historyVars

(* A step that changes its request and one budget. *)
LEMMA SpendAndRequest ==
  ASSUME TypeOK, RequestType', NEW b \in Budget, Spend(b),
         UNCHANGED <<storeVars, ctrl, apiKeeps, historyVars>>
  PROVE  TypeOK'
  <1>1. SpentType'
    BY DEF TypeOK, SpentType, Spend
  <1>2. QED
    BY <1>1 DEF TypeOK, StoreType, ProcessType, RunType, RecoveryType, HistoryType,
         storeVars, apiKeeps, runVars, recVars, historyVars

(* A step that changes its request and publishes a cancel. *)
LEMMA PublishAndRequest ==
  ASSUME TypeOK, RequestType', NEW j \in JobIds, Publish(j), stopped' \subseteq JobIds,
         UNCHANGED <<storeVars, apiKeeps, spent, wiped, undropped>>
  PROVE  TypeOK'
  <1>1. ctrl' \subseteq JobIds /\ lost' \subseteq JobIds
    BY DEF TypeOK, ProcessType, HistoryType, Publish
  <1>2. ProcessType' /\ HistoryType'
    BY <1>1 DEF TypeOK, ProcessType, HistoryType, apiKeeps
  <1>3. QED
    BY <1>2 DEF TypeOK, StoreType, RunType, RecoveryType, SpentType,
         storeVars, apiKeeps, runVars, recVars

LEMMA UnfinishedType == \A kind, mod : Unfinished(kind, mod) \subseteq JobIds
  BY DEF Unfinished

LEMMA WriteCancelledType ==
  ASSUME TypeOK, NEW c \in Clients, NEW from \in {"mark", "cancel"},
         NEW to \in {"markFlag", "cancelFlag"}, WriteCancelled(c, from, to)
  PROVE  TypeOK'
  <1>1. client[c].job \in JobIds
    BY DEF TypeOK, RequestType, WriteCancelled
  <1>2. RequestType'
    BY <1>1, GotoType DEF TypeOK, WriteCancelled, ClientStep
  <1>3. snap' \in [JobIds -> SnapshotStatus]
    BY WriteType DEF TypeOK, StoreType, WriteCancelled, SnapshotStatus, TerminalStatus
  <1>4. StoreType'
    BY <1>3 DEF TypeOK, StoreType, WriteCancelled
  <1>5. QED
    BY <1>2, <1>4, StoreAndRequest DEF WriteCancelled

LEMMA WriteFlagType ==
  ASSUME TypeOK, NEW c \in Clients, NEW from \in {"markFlag", "cancelFlag", "orphanFlag"},
         NEW to \in {"look", "publish", "sweep"}, WriteFlag(c, from, to)
  PROVE  TypeOK'
  <1>1. client[c].job \in JobIds
    BY DEF TypeOK, RequestType, WriteFlag
  <1>2. RequestType'
    BY <1>1, GotoType DEF TypeOK, WriteFlag, ClientStep
  <1>3. StoreType'
    BY <1>1 DEF TypeOK, StoreType, WriteFlag, Mark
  <1>4. QED
    BY <1>2, <1>3, StoreAndRequest DEF WriteFlag

LEMMA StartTypes ==
  ASSUME TypeOK, NEW c \in Clients,
         \/ \E k \in Kinds, m \in Mods, w \in BOOLEAN : RequestStart(c, k, m, w)
         \/ \E j \in JobIds : GuardCheck(c, j)
         \/ GuardDiscard(c)
         \/ StartJob(c)
         \/ EnqueueJob(c)
  PROVE  TypeOK'
  <1>0. client[c] \in Request
    BY DEF TypeOK, RequestType
  <1>1. ASSUME NEW k \in Kinds, NEW m \in Mods, NEW w \in BOOLEAN, RequestStart(c, k, m, w)
        PROVE  TypeOK'
    <2> DEFINE data == [kind |-> k, mod |-> m, wipe |-> w, root |-> NoJob]
               r == [NoRequest EXCEPT !.at = "guard", !.data = data, !.todo = Unfinished(k, m)]
    <2>1. data \in JobData
      BY DEF JobData
    <2>2. r \in Request /\ r.at = "guard" /\ r.data = data
      BY <2>1, UnfinishedType, NoRequestType DEF Request, NoRequest, ClientStep
    <2>3. client' = [client EXCEPT ![c] = r]
      BY <1>1 DEF RequestStart
    <2> HIDE DEF r, data
    <2>4. RequestType'
      BY <2>1, <2>2, <2>3, SetRequest DEF TypeOK
    <2>5. QED
      BY <1>1, <2>4, SpendAndRequest DEF RequestStart, Budget
  <1>2. ASSUME NEW j \in JobIds, GuardCheck(c, j)
        PROVE  TypeOK'
    <2>1. CASE client' = [client EXCEPT ![c].at = "discard", ![c].job = j]
      <3> DEFINE r == [client[c] EXCEPT !.at = "discard", !.job = j]
      <3>1. r \in Request /\ r.at = "discard" /\ r.job = j /\ r.data = client[c].data
        BY <1>0 DEF Request, ClientStep
      <3>2. client[c].data \in JobData
        BY <1>2 DEF GuardCheck, TypeOK, RequestType
      <3>3. client' = [client EXCEPT ![c] = r]
        BY <2>1 DEF TypeOK, RequestType
      <3> HIDE DEF r
      <3>4. RequestType'
        BY <3>1, <3>2, <3>3, SetRequest DEF TypeOK
      <3>5. QED
        BY <1>2, <3>4, OnlyRequest DEF GuardCheck
    <2>2. CASE client' = [client EXCEPT ![c].todo = @ \ {j}]
      <3> DEFINE r == [client[c] EXCEPT !.todo = @ \ {j}]
      <3>1. r \in Request /\ r.at = client[c].at /\ r.data = client[c].data
        BY <1>0 DEF Request
      <3>2. client[c].at = "guard" /\ client[c].data \in JobData
        BY <1>2 DEF GuardCheck, TypeOK, RequestType
      <3>3. client' = [client EXCEPT ![c] = r]
        BY <1>0, <2>2 DEF TypeOK, RequestType
      <3> HIDE DEF r
      <3>4. RequestType'
        BY <3>1, <3>2, <3>3, SetRequest DEF TypeOK
      <3>5. QED
        BY <1>2, <3>4, OnlyRequest DEF GuardCheck
    <2>3. CASE Leave(c)
      BY <1>2, <2>3, LeaveType, OnlyRequest DEF GuardCheck, TypeOK
    <2>4. QED
      BY <1>2, <2>1, <2>2, <2>3 DEF GuardCheck
  <1>3. CASE GuardDiscard(c)
    <2> DEFINE r == [client[c] EXCEPT !.at = "guard", !.job = NoJob, !.todo = @ \ {client[c].job}]
    <2>1. r \in Request /\ r.at = "guard" /\ r.data = client[c].data
      BY <1>0 DEF Request, ClientStep
    <2>2. client[c].data \in JobData
      BY <1>3 DEF GuardDiscard, TypeOK, RequestType
    <2>3. client' = [client EXCEPT ![c] = r]
      BY <1>3 DEF GuardDiscard, TypeOK, RequestType
    <2> HIDE DEF r
    <2>4. RequestType'
      BY <2>1, <2>2, <2>3, SetRequest DEF TypeOK
    <2>5. StoreType'
      BY <1>3 DEF GuardDiscard, TypeOK, StoreType, RowState
    <2>6. QED
      BY <1>3, <2>4, <2>5, StoreAndRequest DEF GuardDiscard
  <1>4. CASE StartJob(c)
    <2> DEFINE data == [client[c].data EXCEPT !.root = nextId + 1]
               r == [client[c] EXCEPT !.at = "enqueue", !.job = nextId + 1]
    <2>1. nextId + 1 \in JobIds
      BY <1>4, BoundsAssumption DEF StartJob, MintJob, TypeOK, StoreType, JobIds
    <2>2. client[c].data \in JobData
      BY <1>4 DEF StartJob, TypeOK, RequestType
    <2>3. data \in JobData
      BY <2>1, <2>2 DEF JobData
    <2>4. r \in Request /\ r.at = "enqueue" /\ r.job = nextId + 1
      BY <1>0, <2>1 DEF Request, ClientStep
    <2>5. client' = [client EXCEPT ![c] = r] /\ MintJob(data)
      BY <1>4 DEF StartJob, TypeOK, RequestType
    <2> HIDE DEF r, data
    <2>6. RequestType'
      BY <2>1, <2>4, <2>5, SetRequest DEF TypeOK
    <2>7. StoreType'
      BY <1>4, <2>3, <2>5, MintType DEF StartJob, TypeOK, StoreType
    <2>8. QED
      BY <1>4, <2>6, <2>7, StoreAndRequest DEF StartJob
  <1>5. CASE EnqueueJob(c)
    <2>1. RequestType'
      BY <1>5, LeaveType DEF EnqueueJob, TypeOK
    <2>2. StoreType'
      BY <1>5 DEF EnqueueJob, AddRow, TypeOK, StoreType, RowState, UnfinishedState
    <2>3. QED
      BY <1>5, <2>1, <2>2, StoreAndRequest DEF EnqueueJob
  <1>6. QED
    BY <1>1, <1>2, <1>3, <1>4, <1>5

LEMMA StopTypes ==
  ASSUME TypeOK, NEW c \in Clients,
         \/ \E j \in JobIds : RequestStop(c, j)
         \/ \E k \in Kinds, m \in Mods : RequestStopMod(c, k, m)
         \/ MarkSnapshot(c)
         \/ MarkSnapshotFlag(c)
         \/ StopLook(c)
         \/ StopRequest(c)
         \/ CancelSnapshot(c)
         \/ CancelFlag(c)
         \/ StopPublish(c)
         \/ StopRemove(c)
         \/ StopOrphanPublish(c)
         \/ StopGonePublish(c)
         \/ StopOrphanFlag(c)
         \/ StopSweep(c)
         \/ RequestAborted(c)
  PROVE  TypeOK'
  <1>0. client[c] \in Request /\ client \in [Clients -> Request]
    BY DEF TypeOK, RequestType
  <1>1. ASSUME NEW j \in JobIds, RequestStop(c, j)
        PROVE  TypeOK'
    <2> DEFINE r == [NoRequest EXCEPT !.at = IF snap[j] = "running" THEN "mark" ELSE "look",
                                      !.job = j, !.known = (snap[j] # "none")]
    <2>1. r \in Request /\ r.at \in {"mark", "look"} /\ r.job = j
      BY NoRequestType DEF Request, NoRequest, ClientStep
    <2>2. client' = [client EXCEPT ![c] = r]
      BY <1>1 DEF RequestStop
    <2> HIDE DEF r
    <2>3. RequestType'
      BY <2>1, <2>2, SetRequest DEF TypeOK
    <2>4. QED
      BY <1>1, <2>3, SpendAndRequest DEF RequestStop, Budget
  <1>2. ASSUME NEW k \in Kinds, NEW m \in Mods, RequestStopMod(c, k, m)
        PROVE  TypeOK'
    <2> DEFINE r == [NoRequest EXCEPT !.at = "sweep", !.todo = Unfinished(k, m), !.top = FALSE]
    <2>1. r \in Request /\ r.at = "sweep"
      BY UnfinishedType, NoRequestType DEF Request, NoRequest, ClientStep
    <2>2. client' = [client EXCEPT ![c] = r]
      BY <1>2 DEF RequestStopMod
    <2> HIDE DEF r
    <2>3. RequestType'
      BY <2>1, <2>2, SetRequest DEF TypeOK
    <2>4. QED
      BY <1>2, <2>3, SpendAndRequest DEF RequestStopMod, Budget
  <1>3. CASE MarkSnapshot(c) \/ CancelSnapshot(c)
    BY <1>3, WriteCancelledType DEF MarkSnapshot, CancelSnapshot
  <1>4. CASE MarkSnapshotFlag(c) \/ CancelFlag(c) \/ StopOrphanFlag(c)
    BY <1>4, WriteFlagType DEF MarkSnapshotFlag, CancelFlag, StopOrphanFlag
  <1>5. CASE StopLook(c) \/ StopRequest(c)
    <2>1. client[c].job \in JobIds
      BY <1>5 DEF StopLook, StopRequest, TypeOK, RequestType
    <2>2. RequestType'
      <3>1. CASE Leave(c)
        BY <3>1, LeaveType DEF TypeOK
      <3>2. ASSUME NEW step \in {"orphanPublish", "gonePublish", "request", "sweep"}, Goto(c, step)
            PROVE  RequestType'
        BY <2>1, <3>2, GotoType DEF TypeOK, ClientStep
      <3>3. CASE client' = [client EXCEPT ![c].at = "cancel",
                                          ![c].active = (row[client[c].job] = "active")]
        <4> DEFINE r == [client[c] EXCEPT !.at = "cancel",
                                          !.active = (row[client[c].job] = "active")]
        <4>1. r \in Request /\ r.at = "cancel" /\ r.job = client[c].job
          BY <1>0 DEF Request, ClientStep
        <4>2. client' = [client EXCEPT ![c] = r]
          BY <1>0, <3>3
        <4> HIDE DEF r
        <4>3. QED
          BY <2>1, <4>1, <4>2, SetRequest DEF TypeOK
      <3>4. QED
        BY <1>5, <3>1, <3>2, <3>3 DEF StopLook, StopRequest
    <2>3. QED
      BY <1>5, <2>2, OnlyRequest DEF StopLook, StopRequest
  <1>6. CASE StopPublish(c)
    <2>1. client[c].job \in JobIds
      BY <1>6 DEF StopPublish, TypeOK, RequestType
    <2>2. RequestType'
      BY <1>6, <2>1, GotoType DEF StopPublish, TypeOK, ClientStep
    <2>3. stopped' \subseteq JobIds
      BY <1>6, <2>1 DEF StopPublish, TypeOK, HistoryType
    <2>4. QED
      BY <1>6, <2>1, <2>2, <2>3, PublishAndRequest DEF StopPublish
  <1>7. CASE StopRemove(c)
    <2>1. RequestType'
      BY <1>7, GotoType DEF StopRemove, TypeOK, ClientStep
    <2>2. StoreType'
      BY <1>7 DEF StopRemove, RemoveRow, TypeOK, StoreType, RowState
    <2>3. QED
      BY <1>7, <2>1, <2>2, StoreAndRequest DEF StopRemove
  <1>8. CASE StopOrphanPublish(c) \/ StopGonePublish(c)
    <2>1. client[c].job \in JobIds
      BY <1>8 DEF StopOrphanPublish, StopGonePublish, TypeOK, RequestType
    <2>2. RequestType'
      BY <1>8, <2>1, GotoType, LeaveType DEF StopOrphanPublish, StopGonePublish, TypeOK, ClientStep
    <2>3. stopped' \subseteq JobIds
      BY <1>8 DEF StopOrphanPublish, StopGonePublish, TypeOK, HistoryType
    <2>4. QED
      BY <1>8, <2>1, <2>2, <2>3, PublishAndRequest DEF StopOrphanPublish, StopGonePublish
  <1>9. CASE StopSweep(c)
    <2>1. RequestType'
      <3>1. CASE Leave(c)
        BY <3>1, LeaveType DEF TypeOK
      <3>2. ASSUME NEW todo \in SUBSET JobIds,
                   client' = [client EXCEPT ![c].top = FALSE, ![c].todo = todo]
            PROVE  RequestType'
        <4> DEFINE r == [client[c] EXCEPT !.top = FALSE, !.todo = todo]
        <4>1. r \in Request /\ r.at = client[c].at
          BY <1>0 DEF Request
        <4>2. client' = [client EXCEPT ![c] = r] /\ client[c].at = "sweep"
          BY <1>0, <1>9, <3>2 DEF StopSweep
        <4> HIDE DEF r
        <4>3. QED
          BY <4>1, <4>2, SetRequest DEF TypeOK
      <3>3. ASSUME NEW j \in client[c].todo,
                   client' = [client EXCEPT ![c].at = "request", ![c].job = j, ![c].todo = @ \ {j}]
            PROVE  RequestType'
        <4> DEFINE r == [client[c] EXCEPT !.at = "request", !.job = j, !.todo = @ \ {j}]
        <4>0. j \in JobIds
          BY <1>0 DEF Request
        <4>1. r \in Request /\ r.at = "request" /\ r.job = j
          BY <1>0, <4>0 DEF Request, ClientStep
        <4>2. client' = [client EXCEPT ![c] = r]
          BY <1>0, <3>3
        <4> HIDE DEF r
        <4>3. QED
          BY <4>0, <4>1, <4>2, SetRequest DEF TypeOK
      <3>4. Unfinished(job[client[c].job].kind, job[client[c].job].mod) \ {client[c].job}
              \in SUBSET JobIds
        BY UnfinishedType
      <3>5. QED
        BY <1>9, <3>1, <3>2, <3>3, <3>4, Zenon DEF StopSweep
    <2>2. QED
      BY <1>9, <2>1, OnlyRequest DEF StopSweep
  <1>10. CASE RequestAborted(c)
    <2>1. RequestType'
      BY <1>10, LeaveType DEF RequestAborted, TypeOK
    <2>2. QED
      BY <1>10, <2>1, OnlyRequest DEF RequestAborted
  <1>11. QED
    BY <1>1, <1>2, <1>3, <1>4, <1>5, <1>6, <1>7, <1>8, <1>9, <1>10

LEMMA ClientTypes == TypeOK /\ ClientNext => TypeOK'
  BY StartTypes, StopTypes DEF ClientNext

---------------------------------------------------------------------------
(* Runs keep the types *)

(* A step of a run that leaves the store and the channel alone. *)
LEMMA OnlyRun ==
  ASSUME TypeOK, RunType', UNCHANGED <<storeVars, ctrl, runKeeps, wiped>>
  PROVE  TypeOK'
  BY DEF TypeOK, StoreType, ProcessType, RecoveryType, RequestType, SpentType, HistoryType,
         storeVars, runKeeps, recVars

(* A step of a run that also writes the store. *)
LEMMA StoreAndRun ==
  ASSUME TypeOK, RunType', StoreType', UNCHANGED <<ctrl, runKeeps, wiped>>
  PROVE  TypeOK'
  BY DEF TypeOK, ProcessType, RecoveryType, RequestType, SpentType, HistoryType,
         runKeeps, recVars

LEMMA PushType ==
  ASSUME RunType, NEW j \in JobIds, NEW statuses \in Seq(PendingWrite), Push(j, statuses)
  PROVE  pending' \in [JobIds -> Seq(PendingWrite)]
  <1>1. pending[j] \o statuses \in Seq(PendingWrite)
    BY ConcatProperties DEF RunType
  <1>2. QED
    BY <1>1 DEF RunType, Push

LEMMA SkipRunType ==
  ASSUME RunType, NEW j \in JobIds, SkipRun(j)
  PROVE  RunType'
  <1>1. <<"cancelled", "cancelled">> \in Seq(PendingWrite)
    BY DEF PendingWrite, TerminalStatus
  <1>2. pending' \in [JobIds -> Seq(PendingWrite)]
    BY <1>1, PushType DEF SkipRun
  <1>3. QED
    BY <1>2 DEF SkipRun, RunType, RunStep, SettledState

LEMMA RunTypes ==
  ASSUME TypeOK, NEW j \in JobIds, RunNext(j)
  PROVE  TypeOK'
  <1>0. RunType
    BY DEF TypeOK
  <1>1. CASE Claim(j)
    <2>1. RunType'
      BY <1>0, <1>1 DEF Claim, RunType, RunStep
    <2>2. StoreType'
      BY <1>1 DEF Claim, TypeOK, StoreType, RowState, UnfinishedState
    <2>3. QED
      BY <1>1, <2>1, <2>2, StoreAndRun DEF Claim
  <1>2. CASE Register(j)
    <2>1. RunType'
      BY <1>0, <1>2 DEF Register, RunType, RunStep
    <2>2. QED
      BY <1>2, <2>1, OnlyRun DEF Register
  <1>3. CASE ReadSnapshot(j)
    <2>1. RunType'
      <3>1. CASE SkipRun(j)
        BY <1>0, <3>1, SkipRunType
      <3>2. CASE ~SkipRun(j)
        BY <1>0, <1>3, <3>2 DEF ReadSnapshot, RunType, RunStep
      <3>3. QED
        BY <3>1, <3>2
    <2>2. QED
      BY <1>3, <2>1, OnlyRun DEF ReadSnapshot
  <1>4. CASE ReadFlag(j)
    <2>1. RunType'
      <3>1. CASE SkipRun(j)
        BY <1>0, <3>1, SkipRunType
      <3>2. CASE ~SkipRun(j)
        BY <1>0, <1>4, <3>2 DEF ReadFlag, RunType, RunStep
      <3>3. QED
        BY <3>1, <3>2
    <2>2. QED
      BY <1>4, <2>1, OnlyRun DEF ReadFlag
  <1>5. CASE StartHandler(j)
    <2>1. <<"running">> \in Seq(PendingWrite)
      BY DEF PendingWrite
    <2>2. pending' \in [JobIds -> Seq(PendingWrite)]
      BY <1>0, <1>5, <2>1, PushType DEF StartHandler
    <2>3. RunType'
      BY <1>0, <1>5, <2>2 DEF StartHandler, RunType, RunStep
    <2>4. QED
      BY <1>5, <2>3, OnlyRun DEF StartHandler
  <1>6. CASE WipeVoice(j)
    <2>1. wiped' \subseteq JobIds
      BY <1>6 DEF WipeVoice, TypeOK, HistoryType
    <2>2. QED
      BY <1>6, <2>1 DEF WipeVoice, TypeOK, StoreType, ProcessType, RunType, RecoveryType,
         RequestType, SpentType, HistoryType, storeVars, runVars, runKeeps, recVars
  <1>7. CASE FlushProgress(j)
    <2>1. <<"running">> \in Seq(PendingWrite)
      BY DEF PendingWrite
    <2>2. pending' \in [JobIds -> Seq(PendingWrite)]
      BY <1>0, <1>7, <2>1, PushType DEF FlushProgress
    <2>3. RunType'
      BY <1>0, <1>7, <2>2 DEF FlushProgress, RunType
    <2>4. QED
      BY <1>7, <2>3, OnlyRun DEF FlushProgress
  <1>8. ASSUME NEW status \in TerminalStatus, HandlerReturns(j, status)
        PROVE  TypeOK'
    <2>1. <<status>> \in Seq(PendingWrite)
      BY DEF PendingWrite
    <2>2. pending' \in [JobIds -> Seq(PendingWrite)]
      BY <1>0, <1>8, <2>1, PushType DEF HandlerReturns
    <2>3. RunType'
      BY <1>0, <1>8, <2>2 DEF HandlerReturns, RunType, RunStep, SettledState
    <2>4. QED
      BY <1>8, <2>3, OnlyRun DEF HandlerReturns
  <1>9. CASE HandlerThrows(j)
    <2> DEFINE last == IF j \in cancelled THEN "cancelled" ELSE "failed"
    <2>1. <<last>> \in Seq(PendingWrite)
      BY DEF PendingWrite, TerminalStatus
    <2>2. pending' \in [JobIds -> Seq(PendingWrite)]
      BY <1>0, <1>9, <2>1, PushType DEF HandlerThrows
    <2>3. RunType'
      BY <1>0, <1>9, <2>2 DEF HandlerThrows, RunType, RunStep, SettledState
    <2>4. QED
      BY <1>9, <2>3, OnlyRun DEF HandlerThrows
  <1>10. CASE SystemLogWritten(j)
    <2>1. RunType'
      BY <1>0, <1>10 DEF SystemLogWritten, RunType, RunStep
    <2>2. QED
      BY <1>10, <2>1, OnlyRun DEF SystemLogWritten
  <1>11. CASE WritePending(j)
    <2> DEFINE next == Head(pending[j])
               rest == Tail(pending[j])
    <2>1. next \in PendingWrite /\ rest \in Seq(PendingWrite)
      BY <1>0, <1>11, HeadTailProperties DEF WritePending, RunType
    <2>2. <<"mark">> \o rest \in Seq(PendingWrite)
      <3>1. <<"mark">> \in Seq(PendingWrite)
        BY DEF PendingWrite
      <3>2. QED
        BY <2>1, <3>1, ConcatProperties
    <2>3. pending' \in [JobIds -> Seq(PendingWrite)]
      <3>1. pending' = [pending EXCEPT ![j] = rest] \/ pending' = [pending EXCEPT ![j] = <<"mark">> \o rest]
        BY <1>11 DEF WritePending
      <3> HIDE DEF rest
      <3>2. QED
        BY <1>0, <2>1, <2>2, <3>1 DEF RunType
    <2>4. RunType'
      BY <1>0, <1>11, <2>3 DEF WritePending, RunType
    <2>5. snap' \in [JobIds -> SnapshotStatus] /\ flag' \subseteq JobIds
      <3>1. CASE next = "mark"
        BY <1>11, <3>1 DEF WritePending, Mark, TypeOK, StoreType
      <3>2. CASE next # "mark"
        <4>1. next \in SnapshotStatus
          BY <2>1, <3>2 DEF PendingWrite, SnapshotStatus
        <4>2. Write(j, next) /\ flag' = flag
          BY <1>11, <3>2 DEF WritePending
        <4> HIDE DEF next
        <4>3. QED
          BY <4>1, <4>2, WriteType DEF TypeOK, StoreType
      <3>3. QED
        BY <3>1, <3>2
    <2>6. StoreType'
      BY <1>11, <2>5 DEF WritePending, TypeOK, StoreType
    <2>7. QED
      BY <1>11, <2>4, <2>6, StoreAndRun DEF WritePending
  <1>12. CASE SettleRow(j)
    <2>1. RunType'
      BY <1>0, <1>12 DEF SettleRow, RunType, RunStep, SettledState
    <2>2. StoreType'
      BY <1>0, <1>12 DEF SettleRow, TypeOK, StoreType, RunType, RowState
    <2>3. QED
      BY <1>12, <2>1, <2>2, StoreAndRun DEF SettleRow
  <1>13. CASE DeliverCancel(j)
    <2>1. RunType' /\ ctrl' \subseteq JobIds
      BY <1>0, <1>13 DEF DeliverCancel, RunType, TypeOK, ProcessType
    <2>2. QED
      BY <1>13, <2>1 DEF DeliverCancel, TypeOK, StoreType, ProcessType, RecoveryType,
         RequestType, SpentType, HistoryType, storeVars, runKeeps, recVars
  <1>14. QED
    BY <1>1, <1>2, <1>3, <1>4, <1>5, <1>6, <1>7, <1>8, <1>9, <1>10, <1>11, <1>12, <1>13
       DEF RunNext

---------------------------------------------------------------------------
(* The process and recovery keep the types *)

LEMMA ProcessGoneType ==
  ASSUME TypeOK, ProcessGone, SpentType'
  PROVE  TypeOK'
  <1>1. RunType'
    BY EmptySeq DEF ProcessGone, RunType, RunStep, SettledState
  <1>2. RecoveryType'
    BY NoRecType DEF ProcessGone, RecoveryType
  <1>3. QED
    BY <1>1, <1>2 DEF ProcessGone, TypeOK, StoreType, ProcessType, RequestType, HistoryType,
       storeVars, historyVars

LEMMA ProcessTypes == TypeOK /\ ProcessNext => TypeOK'
  <1> SUFFICES ASSUME TypeOK, ProcessNext PROVE TypeOK'
    OBVIOUS
  <1>1. CASE Boot
    BY <1>1 DEF Boot, TypeOK, StoreType, ProcessType, RunType, RecoveryType, RequestType,
       SpentType, HistoryType, storeVars, channelVars, runVars, historyVars
  <1>2. CASE StartWorkers
    BY <1>2 DEF StartWorkers, TypeOK, StoreType, ProcessType, RunType, RecoveryType, RequestType,
       SpentType, HistoryType, storeVars, channelVars, runVars, recVars, historyVars
  <1>3. CASE Subscribe
    BY <1>3 DEF Subscribe, TypeOK, StoreType, ProcessType, RunType, RecoveryType, RequestType,
       SpentType, HistoryType, storeVars, runVars, recVars, historyVars
  <1>4. CASE Shutdown
    <2>1. SpentType'
      BY <1>4, SpendType DEF Shutdown, TypeOK, Budget
    <2>2. QED
      BY <1>4, <2>1 DEF Shutdown, TypeOK, StoreType, ProcessType, RunType, RecoveryType,
         RequestType, HistoryType, storeVars, channelVars, recVars, historyVars
  <1>5. CASE ShutdownDone
    BY <1>5, ProcessGoneType DEF ShutdownDone, TypeOK, SpentType
  <1>6. CASE Crash
    <2>1. SpentType'
      BY <1>6, SpendType DEF Crash, TypeOK, Budget
    <2>2. QED
      BY <1>6, <2>1, ProcessGoneType DEF Crash
  <1>7. QED
    BY <1>1, <1>2, <1>3, <1>4, <1>5, <1>6 DEF ProcessNext

(* A recovery step, whatever it does to the store and the budget. *)
LEMMA RecoveryStep ==
  ASSUME TypeOK, StoreType', RecoveryType', SpentType', UNCHANGED recKeeps
  PROVE  TypeOK'
  BY DEF TypeOK, ProcessType, RunType, RequestType, HistoryType,
         recKeeps, channelVars, runVars, historyVars

LEMMA RecGotoType ==
  ASSUME RecoveryType, NEW j \in JobIds, NEW step \in RecStep, RecGoto(j, step)
  PROVE  rec' \in [JobIds -> Recovery]
  BY DEF RecoveryType, RecGoto, Recovery

LEMMA RecoveryTypes ==
  ASSUME TypeOK, NEW j \in JobIds, RecoveryNext(j)
  PROVE  TypeOK'
  <1>0. RecoveryType /\ StoreType /\ SpentType
    BY DEF TypeOK
  <1>a. UNCHANGED storeVars => StoreType'
    BY <1>0 DEF storeVars, StoreType
  <1>b. UNCHANGED spent => SpentType'
    BY <1>0 DEF SpentType
  <1>1. CASE RecoverOrphan(j)
    <2>1. rec' \in [JobIds -> Recovery]
      BY <1>0, <1>1, RecGotoType DEF RecoverOrphan, RecStep
    <2>2. RecoveryType'
      BY <1>0, <1>1, <2>1 DEF RecoverOrphan, RecoveryType
    <2>3. QED
      BY <1>1, <1>a, <1>b, <2>2, RecoveryStep DEF RecoverOrphan
  <1>2. CASE RecoverRead(j)
    <2> DEFINE r == [rec[j] EXCEPT !.at = "drop", !.stop = (snap[j] = "cancelled")]
    <2>1. rec[j] \in Recovery
      BY <1>0 DEF RecoveryType
    <2>2. r \in Recovery
      BY <2>1 DEF Recovery, RecStep
    <2>3. rec' = [rec EXCEPT ![j] = r]
      BY <1>0, <1>2 DEF RecoverRead, RecoveryType
    <2> HIDE DEF r
    <2>4. RecoveryType'
      BY <1>0, <1>2, <2>2, <2>3 DEF RecoverRead, RecoveryType
    <2>5. QED
      BY <1>2, <1>a, <1>b, <2>4, RecoveryStep DEF RecoverRead
  <1>3. CASE RecoverDrop(j)
    <2>1. RecoveryType'
      <3>1. CASE rec[j].stop
        BY <1>0, <1>3, <3>1, NoRecType DEF RecoverDrop, RowDropped, RecoveryType
      <3>2. CASE ~rec[j].stop
        BY <1>0, <1>3, <3>2, RecGotoType DEF RecoverDrop, RowDropped, RecoveryType, RecStep
      <3>3. QED
        BY <3>1, <3>2
    <2>2. StoreType'
      BY <1>0, <1>3 DEF RecoverDrop, StoreType, RowState, UnfinishedState, SettledState
    <2>3. QED
      BY <1>3, <1>b, <2>1, <2>2 DEF RecoverDrop, TypeOK, ProcessType, RunType, RequestType, SpentType,
         HistoryType, channelVars, runVars
  <1>4. CASE RecoverFailRead(j)
    <2>1. rec' \in [JobIds -> Recovery]
      BY <1>0, <1>4, RecGotoType DEF RecoverFailRead, RecStep
    <2>2. RecoveryType'
      BY <1>0, <1>4, <2>1 DEF RecoverFailRead, RecoveryType
    <2>3. QED
      BY <1>4, <1>a, <1>b, <2>2, RecoveryStep DEF RecoverFailRead
  <1>5. CASE RecoverFailWrite(j)
    <2>1. rec' \in [JobIds -> Recovery]
      BY <1>0, <1>5, RecGotoType DEF RecoverFailWrite, RecStep
    <2>2. RecoveryType'
      BY <1>0, <1>5, <2>1 DEF RecoverFailWrite, RecoveryType
    <2>3. snap' \in [JobIds -> SnapshotStatus]
      BY <1>0, <1>5, WriteType DEF RecoverFailWrite, StoreType, SnapshotStatus, TerminalStatus
    <2>4. StoreType'
      BY <1>0, <1>5, <2>3 DEF RecoverFailWrite, StoreType
    <2>5. QED
      BY <1>5, <1>b, <2>2, <2>4, RecoveryStep DEF RecoverFailWrite
  <1>6. CASE RequeueMint(j)
    <2>1. RequeueData(j) \in JobData \cup {NoData}
      <3>1. job[j] \in JobData \cup {NoData}
        BY <1>0 DEF StoreType
      <3>2. CASE job[j] \in JobData
        BY <3>2 DEF RequeueData, ResumeData, JobData
      <3>3. CASE job[j] = NoData
        <4>1. ResumeData(NoData) = NoData
          <5>1. NoData \in [kind : {"none"}, mod : {"none"}, wipe : {FALSE}, root : {NoJob}]
            BY DEF NoData
          <5> HIDE DEF NoData
          <5>2. QED
            BY <5>1 DEF ResumeData
        <4>2. QED
          BY <3>3, <4>1 DEF RequeueData
      <3>4. QED
        BY <3>1, <3>2, <3>3
    <2>2. StoreType' /\ nextId + 1 \in JobIds
      BY <1>0, <1>6, <2>1, MintType DEF RequeueMint, StoreType
    <2>3. RecoveryType'
      <3> DEFINE r == [rec[j] EXCEPT !.at = "add", !.new = nextId + 1]
      <3>1. rec[j] \in Recovery
        BY <1>0 DEF RecoveryType
      <3>2. r \in Recovery
        BY <2>2, <3>1 DEF Recovery, RecStep
      <3>3. rec' = [rec EXCEPT ![j] = r] /\ orphans' = orphans
        BY <1>0, <1>6 DEF RequeueMint, RecoveryType
      <3> HIDE DEF r
      <3>4. QED
        BY <1>0, <3>2, <3>3 DEF RecoveryType
    <2>4. QED
      BY <1>6, <1>b, <2>2, <2>3, RecoveryStep DEF RequeueMint
  <1>7. CASE RequeueAdd(j)
    <2>1. RecoveryType'
      BY <1>0, <1>7, NoRecType DEF RequeueAdd, RecoveryType
    <2>2. StoreType'
      BY <1>0, <1>7 DEF RequeueAdd, AddRow, StoreType, RowState, UnfinishedState
    <2>3. QED
      BY <1>7, <1>b, <2>1, <2>2, RecoveryStep DEF RequeueAdd
  <1>8. CASE StallRow(j)
    <2>1. rec' \in [JobIds -> Recovery]
      BY <1>0, <1>8, RecGotoType DEF StallRow, RecStep
    <2>2. RecoveryType'
      BY <1>0, <1>8, <2>1 DEF StallRow, RecoveryType
    <2>3. StoreType'
      BY <1>0, <1>8 DEF StallRow, StoreType, RowState, SettledState
    <2>4. SpentType'
      BY <1>0, <1>8, SpendType DEF StallRow, SpentType, Budget
    <2>5. QED
      BY <1>8, <2>2, <2>3, <2>4, RecoveryStep DEF StallRow
  <1>9. CASE StallRead(j)
    <2>1. rec' \in [JobIds -> Recovery]
      BY <1>0, <1>9, RecGotoType DEF StallRead, RecStep
    <2>2. RecoveryType'
      BY <1>0, <1>9, <2>1 DEF StallRead, RecoveryType
    <2>3. QED
      BY <1>9, <1>a, <1>b, <2>2, RecoveryStep DEF StallRead
  <1>10. CASE StallFind(j)
    <2>1. rec' \in [JobIds -> Recovery]
      BY <1>0, <1>10, RecGotoType DEF StallFind, RecStep
    <2>2. RecoveryType'
      BY <1>0, <1>10, <2>1 DEF StallFind, RecoveryType
    <2>3. QED
      BY <1>10, <1>a, <1>b, <2>2, RecoveryStep DEF StallFind
  <1>11. QED
    BY <1>1, <1>2, <1>3, <1>4, <1>5, <1>6, <1>7, <1>8, <1>9, <1>10 DEF RecoveryNext

LEMMA ExpiryTypes ==
  ASSUME TypeOK, NEW j \in JobIds, SnapshotExpires(j)
  PROVE  TypeOK'
  <1>1. StoreType'
    BY DEF SnapshotExpires, TypeOK, StoreType, SnapshotStatus
  <1>2. SpentType'
    BY SpendType DEF SnapshotExpires, TypeOK, Budget
  <1>3. QED
    BY <1>1, <1>2 DEF SnapshotExpires, TypeOK, ProcessType, RunType, RecoveryType, RequestType,
       HistoryType, channelVars, runVars, recVars, historyVars

---------------------------------------------------------------------------
(* Type correctness *)

LEMMA TypeInit == Init => TypeOK
  <1> SUFFICES ASSUME Init PROVE TypeOK
    OBVIOUS
  <1>1. StoreType
    BY BoundsAssumption DEF Init, StoreType, RowState, SnapshotStatus
  <1>2. RunType
    BY EmptySeq DEF Init, RunType, RunStep, SettledState
  <1>3. RecoveryType
    BY NoRecType DEF Init, RecoveryType
  <1>4. RequestType
    <2>1. NoRequest.at = "idle"
      BY DEF NoRequest
    <2>2. QED
      BY <2>1, NoRequestType DEF Init, RequestType
  <1>5. QED
    BY <1>1, <1>2, <1>3, <1>4 DEF Init, TypeOK, ProcessType, SpentType, HistoryType

LEMMA TypeNext == TypeOK /\ [Next]_vars => TypeOK'
  <1> SUFFICES ASSUME TypeOK, [Next]_vars PROVE TypeOK'
    OBVIOUS
  <1>1. CASE Next
    BY <1>1, ClientTypes, ProcessTypes, RunTypes, RecoveryTypes, ExpiryTypes DEF Next
  <1>2. CASE UNCHANGED vars
    BY <1>2 DEF vars, TypeOK, StoreType, ProcessType, RunType, RecoveryType, RequestType,
       SpentType, HistoryType, storeVars, channelVars, runVars, recVars, historyVars
  <1>3. QED
    BY <1>1, <1>2

(* Every variable keeps its shape: in particular each step of a Stop and of *)
(* a recovery finds the job it acts on among the ids that can exist, and    *)
(* the chain of snapshot writes holds nothing but statuses.                 *)
THEOREM TypeCorrect == Spec => []TypeOK
  <1>1. QED
    BY TypeInit, TypeNext, PTL DEF Spec

---------------------------------------------------------------------------
(* An acknowledged Stop reaches the handler *)

(* A step that moves no run and no cancel, and keeps the record. *)
LEMMA StopFrame ==
  ASSUME StopInv, flag \subseteq flag', stopped' = stopped,
         UNCHANGED <<run, cancelled, ctrl, lost>>,
         \A c \in Clients : client'[c].at = "publish" => client'[c].job \in flag'
  PROVE  StopInv'
  BY DEF StopInv, StopOnRecord, StopReachesHandler

LEMMA ClientKeepsRuns ==
  ASSUME ClientNext
  PROVE  UNCHANGED <<run, cancelled, pending, outcome>>
  <1>1. PICK c \in Clients :
          \/ UNCHANGED apiKeeps
          \/ StopPublish(c)
          \/ MarkSnapshot(c) \/ CancelSnapshot(c)
          \/ MarkSnapshotFlag(c) \/ CancelFlag(c) \/ StopOrphanFlag(c)
    <2>1. ASSUME NEW c \in Clients, NEW k \in Kinds, NEW m \in Mods, NEW w \in BOOLEAN,
                 RequestStart(c, k, m, w) \/ RequestStopMod(c, k, m)
          PROVE  UNCHANGED apiKeeps
      BY <2>1 DEF RequestStart, RequestStopMod
    <2>2. ASSUME NEW c \in Clients, NEW j \in JobIds, GuardCheck(c, j) \/ RequestStop(c, j)
          PROVE  UNCHANGED apiKeeps
      BY <2>2 DEF GuardCheck, RequestStop
    <2>3. ASSUME NEW c \in Clients, GuardDiscard(c) \/ StartJob(c) \/ EnqueueJob(c)
          PROVE  UNCHANGED apiKeeps
      BY <2>3 DEF GuardDiscard, StartJob, EnqueueJob
    <2>4. ASSUME NEW c \in Clients,
                 \/ StopLook(c) \/ StopRequest(c) \/ StopRemove(c) \/ StopOrphanPublish(c)
                 \/ StopGonePublish(c) \/ StopSweep(c) \/ RequestAborted(c)
          PROVE  UNCHANGED apiKeeps
      BY <2>4 DEF StopLook, StopRequest, StopRemove, StopOrphanPublish, StopGonePublish, StopSweep,
         RequestAborted
    <2>5. QED
      BY <2>1, <2>2, <2>3, <2>4 DEF ClientNext
  <1>2. UNCHANGED apiKeeps
    BY <1>1 DEF StopPublish, MarkSnapshot, CancelSnapshot, WriteCancelled,
       MarkSnapshotFlag, CancelFlag, StopOrphanFlag, WriteFlag
  <1>3. QED
    BY <1>2 DEF apiKeeps, runVars

LEMMA StopInvClient ==
  ASSUME TypeOK, StopInv, NEW c \in Clients,
         \/ \E k \in Kinds, m \in Mods, w \in BOOLEAN : RequestStart(c, k, m, w)
         \/ \E j \in JobIds : GuardCheck(c, j)
         \/ GuardDiscard(c)
         \/ StartJob(c)
         \/ EnqueueJob(c)
         \/ \E j \in JobIds : RequestStop(c, j)
         \/ \E k \in Kinds, m \in Mods : RequestStopMod(c, k, m)
         \/ MarkSnapshot(c)
         \/ MarkSnapshotFlag(c)
         \/ StopLook(c)
         \/ StopRequest(c)
         \/ CancelSnapshot(c)
         \/ CancelFlag(c)
         \/ StopPublish(c)
         \/ StopRemove(c)
         \/ StopOrphanPublish(c)
         \/ StopGonePublish(c)
         \/ StopOrphanFlag(c)
         \/ StopSweep(c)
         \/ RequestAborted(c)
  PROVE  StopInv'
  <1>0. client \in [Clients -> Request] /\ NoRequest.at = "idle"
    BY DEF TypeOK, RequestType, NoRequest
  <1> DEFINE Elsewhere == /\ \A d \in Clients \ {c} : client'[d] = client[d]
                          /\ client'[c].at # "publish"
  <1>a. \A step : Goto(c, step) => /\ \A d \in Clients \ {c} : client'[d] = client[d]
                                   /\ client'[c].at = step
                                   /\ client'[c].job = client[c].job
    BY <1>0 DEF Goto, Request
  <1>b. Leave(c) => Elsewhere
    BY <1>0 DEF Leave
  (* Steps that leave the flag, the runs and the channel alone. *)
  <1>1. ASSUME Elsewhere, UNCHANGED <<flag, run, cancelled, ctrl, lost, stopped>>
        PROVE  StopInv'
    BY <1>1, StopFrame DEF StopInv, StopOnRecord
  <1>2. ASSUME \/ \E k \in Kinds, m \in Mods, w \in BOOLEAN : RequestStart(c, k, m, w)
               \/ \E j \in JobIds : RequestStop(c, j)
               \/ \E k \in Kinds, m \in Mods : RequestStopMod(c, k, m)
        PROVE  StopInv'
    <2>1. Elsewhere
      <3>1. ASSUME NEW k \in Kinds, NEW m \in Mods, NEW w \in BOOLEAN, RequestStart(c, k, m, w)
            PROVE  Elsewhere
        BY <1>0, <3>1 DEF RequestStart, NoRequest
      <3>2. ASSUME NEW j \in JobIds, RequestStop(c, j)
            PROVE  Elsewhere
        BY <1>0, <3>2 DEF RequestStop, NoRequest
      <3>3. ASSUME NEW k \in Kinds, NEW m \in Mods, RequestStopMod(c, k, m)
            PROVE  Elsewhere
        BY <1>0, <3>3 DEF RequestStopMod, NoRequest
      <3>4. QED
        BY <1>2, <3>1, <3>2, <3>3
    <2>2. QED
      BY <1>1, <1>2, <2>1 DEF RequestStart, RequestStop, RequestStopMod, storeVars, apiKeeps, runVars, historyVars
  <1>3. ASSUME NEW j \in JobIds, GuardCheck(c, j)
        PROVE  StopInv'
    <2>1. Elsewhere
      BY <1>0, <1>3, <1>b DEF GuardCheck, Request
    <2>2. QED
      BY <1>1, <1>3, <2>1 DEF GuardCheck, storeVars, apiKeeps, runVars, historyVars
  <1>4. CASE GuardDiscard(c) \/ StartJob(c) \/ EnqueueJob(c)
    <2>1. Elsewhere
      BY <1>0, <1>4, <1>b DEF GuardDiscard, StartJob, EnqueueJob, Request
    <2>2. QED
      BY <1>1, <1>4, <2>1 DEF GuardDiscard, StartJob, EnqueueJob, apiKeeps, runVars, historyVars
  <1>5. CASE MarkSnapshot(c) \/ CancelSnapshot(c)
    <2>1. Elsewhere
      BY <1>5, <1>a DEF MarkSnapshot, CancelSnapshot, WriteCancelled
    <2>2. QED
      BY <1>1, <1>5, <2>1 DEF MarkSnapshot, CancelSnapshot, WriteCancelled, apiKeeps, runVars, historyVars
  <1>6. CASE MarkSnapshotFlag(c) \/ CancelFlag(c) \/ StopOrphanFlag(c)
    <2>1. /\ flag' = flag \cup {client[c].job}
          /\ client'[c].job = client[c].job
          /\ \A d \in Clients \ {c} : client'[d] = client[d]
      BY <1>6, <1>a DEF MarkSnapshotFlag, CancelFlag, StopOrphanFlag, WriteFlag, Mark
    <2>2. UNCHANGED <<run, cancelled, ctrl, lost, stopped>>
      BY <1>6 DEF MarkSnapshotFlag, CancelFlag, StopOrphanFlag, WriteFlag, apiKeeps, runVars, historyVars
    <2>3. QED
      BY <2>1, <2>2, StopFrame DEF StopInv, StopOnRecord
  <1>7. CASE StopLook(c) \/ StopRequest(c)
    <2>1. Elsewhere
      <3>1. ASSUME NEW flagged, client' = [client EXCEPT ![c].at = "cancel", ![c].active = flagged]
            PROVE  Elsewhere
        BY <1>0, <3>1 DEF Request
      <3>2. QED
        BY <1>7, <1>a, <1>b, <3>1 DEF StopLook, StopRequest
    <2>2. QED
      BY <1>1, <1>7, <2>1 DEF StopLook, StopRequest, storeVars, apiKeeps, runVars, historyVars
  <1>8. CASE StopPublish(c)
    <2>1. Elsewhere /\ client[c].job \in flag
      BY <1>8, <1>a DEF StopPublish, StopInv, StopOnRecord
    <2>2. StopOnRecord'
      BY <1>8, <2>1 DEF StopPublish, StopInv, StopOnRecord, storeVars
    <2>3. StopReachesHandler'
      BY <1>8 DEF StopPublish, Publish, StopInv, StopReachesHandler, apiKeeps, runVars
    <2>4. QED
      BY <2>2, <2>3 DEF StopInv
  <1>9. CASE StopRemove(c)
    <2>1. Elsewhere
      BY <1>9, <1>a DEF StopRemove
    <2>2. QED
      BY <1>1, <1>9, <2>1 DEF StopRemove, apiKeeps, runVars, historyVars
  <1>10. CASE StopOrphanPublish(c) \/ StopGonePublish(c)
    <2>1. Elsewhere
      BY <1>10, <1>a, <1>b DEF StopOrphanPublish, StopGonePublish
    <2>2. StopOnRecord'
      BY <1>10, <2>1 DEF StopOrphanPublish, StopGonePublish, StopInv, StopOnRecord, storeVars
    <2>3. StopReachesHandler'
      BY <1>10 DEF StopOrphanPublish, StopGonePublish, Publish, StopInv, StopReachesHandler, apiKeeps, runVars
    <2>4. QED
      BY <2>2, <2>3 DEF StopInv
  <1>11. CASE StopSweep(c)
    <2>1. Elsewhere
      <3>1. client[c].at = "sweep"
        BY <1>11 DEF StopSweep
      <3>2. ASSUME NEW todo, client' = [client EXCEPT ![c].top = FALSE, ![c].todo = todo]
            PROVE  Elsewhere
        BY <1>0, <3>1, <3>2 DEF Request
      <3>3. ASSUME NEW j, client' = [client EXCEPT ![c].at = "request", ![c].job = j, ![c].todo = @ \ {j}]
            PROVE  Elsewhere
        BY <1>0, <3>3 DEF Request
      <3>4. QED
        BY <1>11, <1>b, <3>2, <3>3 DEF StopSweep
    <2>2. QED
      BY <1>1, <1>11, <2>1 DEF StopSweep, storeVars, apiKeeps, runVars, historyVars
  <1>12. CASE RequestAborted(c)
    <2>1. Elsewhere
      BY <1>12, <1>b DEF RequestAborted
    <2>2. QED
      BY <1>1, <1>12, <2>1 DEF RequestAborted, storeVars, apiKeeps, runVars, historyVars
  <1>13. QED
    BY <1>2, <1>3, <1>4, <1>5, <1>6, <1>7, <1>8, <1>9, <1>10, <1>11, <1>12

LEMMA StopInvRun ==
  ASSUME TypeOK, StopInv, NEW j \in JobIds, RunNext(j)
  PROVE  StopInv'
  <1>0. RunType /\ stopped \subseteq JobIds
    BY DEF TypeOK, HistoryType
  <1>1. StopOnRecord'
    <2>1. client' = client /\ stopped' = stopped /\ flag \subseteq flag'
      BY DEF RunNext, Claim, Register, ReadSnapshot, ReadFlag, StartHandler, WipeVoice,
         FlushProgress, HandlerReturns, HandlerThrows, SystemLogWritten, WritePending, Mark,
         SettleRow, DeliverCancel, storeVars, runKeeps
    <2>2. QED
      BY <2>1 DEF StopInv, StopOnRecord
  <1>2. StopReachesHandler'
    <2>1. stopped' = stopped /\ lost' = lost
      BY DEF RunNext, Claim, Register, ReadSnapshot, ReadFlag, StartHandler, WipeVoice,
         FlushProgress, HandlerReturns, HandlerThrows, SystemLogWritten, WritePending,
         SettleRow, DeliverCancel, runKeeps
    (* Nothing here takes a cancel away from a run that goes on. *)
    <2>2. ASSUME /\ ctrl' = ctrl
                 /\ cancelled \subseteq cancelled'
                 /\ \A k \in JobIds : run'[k] \in {"cleared", "handling"} => run[k] \in {"cleared", "handling"}
          PROVE  StopReachesHandler'
      BY <1>0, <2>1, <2>2 DEF StopInv, StopReachesHandler
    <2>3. CASE Claim(j) \/ Register(j) \/ SystemLogWritten(j) \/ StartHandler(j)
      BY <1>0, <2>2, <2>3 DEF Claim, Register, SystemLogWritten, StartHandler, RunType
    <2>4. CASE ReadSnapshot(j)
      BY <1>0, <2>2, <2>4 DEF ReadSnapshot, SkipRun, RunType
    <2>5. CASE ReadFlag(j)
      <3>1. CASE j \in flag
        BY <1>0, <2>2, <2>5, <3>1 DEF ReadFlag, SkipRun, RunType
      <3>2. CASE j \notin flag
        <4>1. j \notin stopped
          BY <3>2 DEF StopInv, StopOnRecord
        <4>2. QED
          BY <1>0, <2>1, <2>5, <3>2, <4>1 DEF ReadFlag, StopInv, StopReachesHandler, RunType
      <3>3. QED
        BY <3>1, <3>2
    <2>7. CASE WipeVoice(j) \/ FlushProgress(j) \/ WritePending(j)
      BY <2>2, <2>7 DEF WipeVoice, FlushProgress, WritePending, runVars
    <2>8. CASE HandlerThrows(j) \/ \E status \in TerminalStatus : HandlerReturns(j, status)
      BY <1>0, <2>2, <2>8 DEF HandlerThrows, HandlerReturns, RunType
    <2>9. CASE SettleRow(j)
      BY <1>0, <2>1, <2>9 DEF SettleRow, StopInv, StopReachesHandler, RunType
    <2>10. CASE DeliverCancel(j)
      BY <1>0, <2>1, <2>10 DEF DeliverCancel, StopInv, StopReachesHandler, RunType, Registered
    <2>11. QED
      BY <2>3, <2>4, <2>5, <2>7, <2>8, <2>9, <2>10 DEF RunNext
  <1>3. QED
    BY <1>1, <1>2 DEF StopInv

LEMMA StopInvProcess ==
  ASSUME TypeOK, StopInv, ProcessNext
  PROVE  StopInv'
  <1>1. StopOnRecord'
    BY DEF ProcessNext, Boot, StartWorkers, Subscribe, Shutdown, ShutdownDone, Crash, ProcessGone,
       StopInv, StopOnRecord, storeVars, historyVars
  <1>2. CASE Boot \/ StartWorkers \/ Subscribe
    BY <1>2 DEF Boot, StartWorkers, Subscribe, StopInv, StopReachesHandler, channelVars, runVars, historyVars,
       StopOnRecord, storeVars
  <1>3. CASE Shutdown
    <2>1. StopReachesHandler'
      BY <1>3 DEF Shutdown, StopInv, StopReachesHandler, channelVars, historyVars
    <2>2. QED
      BY <1>1, <2>1 DEF StopInv
  <1>4. CASE ShutdownDone \/ Crash
    <2>1. stopped' = stopped /\ stopped \subseteq JobIds
      BY <1>4 DEF ShutdownDone, Crash, ProcessGone, historyVars, TypeOK, HistoryType
    <2>2. \A j \in JobIds : run'[j] = "idle"
      BY <1>4 DEF ShutdownDone, Crash, ProcessGone
    <2>3. QED
      BY <1>1, <2>1, <2>2 DEF StopInv, StopReachesHandler
  <1>5. QED
    BY <1>2, <1>3, <1>4 DEF ProcessNext

LEMMA StopInvRecovery ==
  ASSUME StopInv, NEW j \in JobIds, RecoveryNext(j) \/ SnapshotExpires(j)
  PROVE  StopInv'
  <1>1. UNCHANGED <<flag, stopped, run, cancelled, ctrl, lost, client>>
    BY DEF RecoveryNext, RecoverOrphan, RecoverRead, RecoverDrop, RecoverFailRead, RecoverFailWrite,
       RequeueMint, RequeueAdd, StallRow, StallRead, StallFind, SnapshotExpires,
       storeVars, recKeeps, channelVars, runVars, historyVars
  <1>2. QED
    BY <1>1, StopFrame DEF StopInv, StopOnRecord

LEMMA StopInvNext == TypeOK /\ StopInv /\ [Next]_vars => StopInv'
  <1> SUFFICES ASSUME TypeOK, StopInv, [Next]_vars PROVE StopInv'
    OBVIOUS
  <1>1. CASE Next
    <2>1. CASE ClientNext
      BY <2>1, StopInvClient DEF ClientNext
    <2>2. QED
      BY <1>1, <2>1, StopInvProcess, StopInvRun, StopInvRecovery DEF Next
  <1>2. CASE UNCHANGED vars
    BY <1>2, StopFrame DEF vars, StopInv, StopOnRecord, storeVars, channelVars, runVars, historyVars
  <1>3. QED
    BY <1>1, <1>2

LEMMA StopInvInit == Init => StopInv
  BY DEF Init, StopInv, StopOnRecord, StopReachesHandler, NoRequest

LEMMA StopInvariant == Spec => []StopInv
  <1>1. QED
    BY StopInvInit, StopInvNext, TypeCorrect, PTL DEF Spec

(* A Stop that was acknowledged reaches the handler, for any number of      *)
(* requests, jobs, crashes and stalls: the run is aborted, or the message   *)
(* is on its way, or nobody was subscribed when it was published.           *)
THEOREM StopDelivered == Spec => []StopReachesHandler
  <1>1. StopInv => StopReachesHandler
    BY DEF StopInv
  <1>2. QED
    BY <1>1, StopInvariant, PTL

(* No run is let through to its handler after its Stop was acknowledged:    *)
(* only ReadFlag lets a run through, and what is stopped is in the flag.    *)
THEOREM StoppedNeverStarts == Spec => NoStartAfterStop
  <1>1. TypeOK /\ StopInv /\ [Next]_vars => [ClearedUnstopped]_vars
    <2> SUFFICES ASSUME TypeOK, StopInv, Next PROVE ClearedUnstopped
      BY DEF vars
    <2>0. run \in [JobIds -> RunStep] /\ stopped \subseteq flag
      BY DEF TypeOK, RunType, StopInv, StopOnRecord
    <2>1. CASE ClientNext
      BY <2>1, ClientKeepsRuns DEF ClearedUnstopped
    <2>2. CASE ProcessNext
      BY <2>2 DEF ProcessNext, Boot, StartWorkers, Subscribe, Shutdown, ShutdownDone, Crash, ProcessGone,
         runVars, ClearedUnstopped
    <2>3. ASSUME NEW j \in JobIds, RunNext(j)
          PROVE  ClearedUnstopped
      BY <2>0, <2>3 DEF RunNext, Claim, Register, ReadSnapshot, ReadFlag, SkipRun, StartHandler, WipeVoice,
         FlushProgress, HandlerReturns, HandlerThrows, SystemLogWritten, WritePending,
         SettleRow, DeliverCancel, runVars, ClearedUnstopped
    <2>4. ASSUME NEW j \in JobIds, RecoveryNext(j) \/ SnapshotExpires(j)
          PROVE  ClearedUnstopped
      BY <2>4 DEF RecoveryNext, RecoverOrphan, RecoverRead, RecoverDrop, RecoverFailRead, RecoverFailWrite,
         RequeueMint, RequeueAdd, StallRow, StallRead, StallFind, SnapshotExpires, recKeeps, runVars,
         ClearedUnstopped
    <2>5. QED
      BY <2>1, <2>2, <2>3, <2>4 DEF Next
  <1>2. QED
    BY <1>1, TypeCorrect, StopInvariant, PTL DEF Spec, NoStartAfterStop

---------------------------------------------------------------------------
(* A finished snapshot does not go back to running *)

LEMMA WriteSticks ==
  ASSUME TypeOK, NEW i, NEW status, Write(i, status)
  PROVE  NotBackToRunning
  <1>1. snap \in [JobIds -> SnapshotStatus]
    BY DEF TypeOK, StoreType
  <1>2. \A old : SnapshotAfter(old, status) = "running" => old \notin TerminalStatus
    BY DEF SnapshotAfter, TerminalStatus
  <1>3. \A k \in JobIds : snap'[k] = snap[k] \/ snap'[k] = SnapshotAfter(snap[k], status)
    BY <1>1 DEF Write
  <1>4. "running" \notin TerminalStatus
    BY DEF TerminalStatus
  <1>5. QED
    BY <1>2, <1>3, <1>4 DEF NotBackToRunning

LEMMA SnapKept ==
  ASSUME snap' = snap
  PROVE  NotBackToRunning
  BY DEF NotBackToRunning, TerminalStatus

LEMMA ClientSticks ==
  ASSUME TypeOK, ClientNext
  PROVE  NotBackToRunning
  <1>1. PICK c \in Clients :
          \/ \E k \in Kinds, m \in Mods, w \in BOOLEAN : RequestStart(c, k, m, w)
          \/ \E j \in JobIds : GuardCheck(c, j) \/ RequestStop(c, j)
          \/ \E k \in Kinds, m \in Mods : RequestStopMod(c, k, m)
          \/ StartJob(c)
          \/ MarkSnapshot(c) \/ CancelSnapshot(c)
          \/ GuardDiscard(c) \/ EnqueueJob(c) \/ StopRemove(c)
          \/ MarkSnapshotFlag(c) \/ CancelFlag(c) \/ StopOrphanFlag(c)
          \/ StopLook(c) \/ StopRequest(c) \/ StopSweep(c) \/ RequestAborted(c)
          \/ StopPublish(c) \/ StopOrphanPublish(c) \/ StopGonePublish(c)
    BY DEF ClientNext
  <1>2. CASE StartJob(c)
    BY <1>2, WriteSticks DEF StartJob, MintJob
  <1>3. CASE MarkSnapshot(c) \/ CancelSnapshot(c)
    BY <1>3, WriteSticks DEF MarkSnapshot, CancelSnapshot, WriteCancelled
  <1>4. CASE \/ \E k \in Kinds, m \in Mods, w \in BOOLEAN : RequestStart(c, k, m, w)
             \/ \E j \in JobIds : GuardCheck(c, j) \/ RequestStop(c, j)
             \/ \E k \in Kinds, m \in Mods : RequestStopMod(c, k, m)
             \/ StopLook(c) \/ StopRequest(c) \/ StopSweep(c) \/ RequestAborted(c)
    BY <1>4, SnapKept DEF RequestStart, GuardCheck, RequestStop, RequestStopMod, StopLook, StopRequest,
       StopSweep, RequestAborted, storeVars
  <1>5. CASE GuardDiscard(c) \/ EnqueueJob(c) \/ StopRemove(c)
    BY <1>5, SnapKept DEF GuardDiscard, EnqueueJob, StopRemove
  <1>6. CASE MarkSnapshotFlag(c) \/ CancelFlag(c) \/ StopOrphanFlag(c)
    BY <1>6, SnapKept DEF MarkSnapshotFlag, CancelFlag, StopOrphanFlag, WriteFlag
  <1>7. CASE StopPublish(c) \/ StopOrphanPublish(c) \/ StopGonePublish(c)
    BY <1>7, SnapKept DEF StopPublish, StopOrphanPublish, StopGonePublish, storeVars
  <1>8. QED
    BY <1>1, <1>2, <1>3, <1>4, <1>5, <1>6, <1>7

LEMMA RunSticks ==
  ASSUME TypeOK, NEW j \in JobIds, RunNext(j)
  PROVE  NotBackToRunning
  <1>1. CASE WritePending(j)
    BY <1>1, WriteSticks, SnapKept DEF WritePending
  <1>2. CASE ~WritePending(j)
    <2>1. snap' = snap
      BY <1>2 DEF RunNext, Claim, Register, ReadSnapshot, ReadFlag, StartHandler, WipeVoice,
         FlushProgress, HandlerReturns, HandlerThrows, SystemLogWritten, SettleRow, DeliverCancel, storeVars
    <2>2. QED
      BY <2>1, SnapKept
  <1>3. QED
    BY <1>1, <1>2

LEMMA RecoverySticks ==
  ASSUME TypeOK, NEW j \in JobIds, RecoveryNext(j)
  PROVE  NotBackToRunning
  <1>1. CASE RecoverFailWrite(j)
    BY <1>1, WriteSticks DEF RecoverFailWrite
  <1>2. CASE RequeueMint(j)
    BY <1>2, WriteSticks DEF RequeueMint, MintJob
  <1>3. CASE ~RecoverFailWrite(j) /\ ~RequeueMint(j)
    <2>1. snap' = snap
      BY <1>3 DEF RecoveryNext, RecoverOrphan, RecoverRead, RecoverDrop, RecoverFailRead, RequeueAdd,
         StallRow, StallRead, StallFind, storeVars
    <2>2. QED
      BY <2>1, SnapKept
  <1>4. QED
    BY <1>1, <1>2, <1>3

LEMMA StepSticks ==
  ASSUME TypeOK, Next
  PROVE  NotBackToRunning
  <1>1. CASE ProcessNext
    BY <1>1, SnapKept DEF ProcessNext, Boot, StartWorkers, Subscribe, Shutdown, ShutdownDone, Crash,
       ProcessGone, storeVars
  <1>2. ASSUME NEW j \in JobIds, SnapshotExpires(j)
        PROVE  NotBackToRunning
    <2>1. snap \in [JobIds -> SnapshotStatus]
      BY DEF TypeOK, StoreType
    <2>2. \A k \in JobIds : snap'[k] = snap[k] \/ snap'[k] = "none"
      BY <1>2, <2>1 DEF SnapshotExpires
    <2>3. QED
      BY <2>2 DEF NotBackToRunning, TerminalStatus
  <1>3. QED
    BY <1>1, <1>2, ClientSticks, RunSticks, RecoverySticks DEF Next

(* The Lua rule keeps a finished or cancelled job from going back to        *)
(* running, whatever flush timers, Stops and recoveries write around it.    *)
THEOREM TerminalStays == Spec => TerminalSticks
  <1>1. TypeOK /\ [Next]_vars => [NotBackToRunning]_vars
    BY StepSticks
  <1>2. QED
    BY <1>1, TypeCorrect, PTL DEF Spec, TerminalSticks

---------------------------------------------------------------------------
(* JobRuntime implements JobPromise.  The refinement mapping computes the   *)
(* phase of a job from its row and its run; what the mapping needs beside   *)
(* the types and the Stop invariant is that row and run agree.              *)

(* Ids are issued before they get a row, a Stop or a run, and a run has its *)
(* row out of the queue for good.                                           *)
PhaseInv ==
  /\ \A j \in JobIds : j > nextId => row[j] = "absent"
  /\ \A j \in JobIds : row[j] \in {"absent", "waiting"} => run[j] = "idle"
  /\ \A c \in Clients :
       client[c].at \in {"enqueue", "cancel", "cancelFlag", "publish"} => client[c].job <= nextId
  /\ \A j \in JobIds : rec[j].at = "add" => rec[j].new \in JobIds /\ rec[j].new <= nextId

---------------------------------------------------------------------------
(* The invariant *)

LEMMA PhaseInvInit == Init => PhaseInv
  BY DEF Init, PhaseInv, NoRequest, NoRec

(* Rows that only leave the queue, runs that only go on. *)
LEMMA PhaseFrame ==
  ASSUME TypeOK, PhaseInv, nextId' = nextId,
         \A k \in JobIds : \/ row'[k] = row[k]
                           \/ row[k] # "absent" /\ row'[k] \notin {"absent", "waiting"},
         \A k \in JobIds : run'[k] # "idle" => run[k] # "idle" \/ row'[k] \notin {"absent", "waiting"},
         \A c \in Clients :
           client'[c].at \in {"enqueue", "cancel", "cancelFlag", "publish"} => client'[c].job <= nextId,
         \A j \in JobIds : rec'[j].at = "add" => rec'[j].new \in JobIds /\ rec'[j].new <= nextId
  PROVE  PhaseInv'
  BY DEF PhaseInv

LEMMA PhaseInvClient ==
  ASSUME TypeOK, PhaseInv, NEW c \in Clients,
         \/ \E k \in Kinds, m \in Mods, w \in BOOLEAN : RequestStart(c, k, m, w)
         \/ \E j \in JobIds : GuardCheck(c, j)
         \/ GuardDiscard(c)
         \/ StartJob(c)
         \/ EnqueueJob(c)
         \/ \E j \in JobIds : RequestStop(c, j)
         \/ \E k \in Kinds, m \in Mods : RequestStopMod(c, k, m)
         \/ MarkSnapshot(c)
         \/ MarkSnapshotFlag(c)
         \/ StopLook(c)
         \/ StopRequest(c)
         \/ CancelSnapshot(c)
         \/ CancelFlag(c)
         \/ StopPublish(c)
         \/ StopRemove(c)
         \/ StopOrphanPublish(c)
         \/ StopGonePublish(c)
         \/ StopOrphanFlag(c)
         \/ StopSweep(c)
         \/ RequestAborted(c)
  PROVE  PhaseInv'
  <1>0. /\ client \in [Clients -> Request]
        /\ row \in [JobIds -> RowState]
        /\ nextId \in Nat
        /\ NoRequest.at = "idle"
    BY BoundsAssumption DEF TypeOK, RequestType, StoreType, NoRequest
  <1>j. client[c].at \in {"request", "cancel", "cancelFlag", "publish", "enqueue"} => client[c].job \in JobIds
    BY DEF TypeOK, RequestType
  <1> DEFINE Safe == {"enqueue", "cancel", "cancelFlag", "publish"}
             Elsewhere == /\ \A d \in Clients \ {c} : client'[d] = client[d]
                          /\ client'[c].at \in Safe => client'[c].job <= nextId
  <1>a. \A step : Goto(c, step) => /\ \A d \in Clients \ {c} : client'[d] = client[d]
                                   /\ client'[c].at = step
                                   /\ client'[c].job = client[c].job
    BY <1>0 DEF Goto, Request
  <1>b. Leave(c) => Elsewhere
    BY <1>0 DEF Leave
  <1>c. \A step : Goto(c, step) /\ step \notin Safe => Elsewhere
    BY <1>a
  (* Steps that add no row and issue no id. *)
  <1>1. ASSUME Elsewhere, UNCHANGED <<nextId, run, rec>>,
               \A k \in JobIds : \/ row'[k] = row[k]
                                 \/ row[k] # "absent" /\ row'[k] \notin {"absent", "waiting"}
        PROVE  PhaseInv'
    <2>1. \A d \in Clients : client'[d].at \in Safe => client'[d].job <= nextId
      BY <1>1 DEF PhaseInv
    <2>2. \A j \in JobIds : rec'[j].at = "add" => rec'[j].new \in JobIds /\ rec'[j].new <= nextId
      BY <1>1 DEF PhaseInv
    <2>3. QED
      BY <1>1, <2>1, <2>2, PhaseFrame
  <1>2. ASSUME NEW k \in Kinds, NEW m \in Mods, NEW w \in BOOLEAN, RequestStart(c, k, m, w)
        PROVE  PhaseInv'
    <2>1. Elsewhere
      BY <1>0, <1>2 DEF RequestStart, NoRequest
    <2>2. QED
      BY <1>1, <1>2, <2>1 DEF RequestStart, storeVars, apiKeeps, runVars, recVars
  <1>3. ASSUME NEW j \in JobIds, RequestStop(c, j)
        PROVE  PhaseInv'
    <2>1. Elsewhere
      BY <1>0, <1>3 DEF RequestStop, NoRequest
    <2>2. QED
      BY <1>1, <1>3, <2>1 DEF RequestStop, storeVars, apiKeeps, runVars, recVars
  <1>4. ASSUME NEW k \in Kinds, NEW m \in Mods, RequestStopMod(c, k, m)
        PROVE  PhaseInv'
    <2>1. Elsewhere
      BY <1>0, <1>4 DEF RequestStopMod, NoRequest
    <2>2. QED
      BY <1>1, <1>4, <2>1 DEF RequestStopMod, storeVars, apiKeeps, runVars, recVars
  <1>5. ASSUME NEW j \in JobIds, GuardCheck(c, j)
        PROVE  PhaseInv'
    <2>1. Elsewhere
      <3>1. client[c].at = "guard"
        BY <1>5 DEF GuardCheck
      <3>2. CASE client' = [client EXCEPT ![c].at = "discard", ![c].job = j]
        BY <1>0, <3>2 DEF Request
      <3>3. CASE client' = [client EXCEPT ![c].todo = @ \ {j}]
        BY <1>0, <3>1, <3>3 DEF Request
      <3>4. QED
        BY <1>5, <1>b, <3>2, <3>3 DEF GuardCheck
    <2>2. QED
      BY <1>1, <1>5, <2>1 DEF GuardCheck, storeVars, apiKeeps, runVars, recVars
  <1>6. CASE GuardDiscard(c)
    <2>1. Elsewhere
      BY <1>0, <1>6 DEF GuardDiscard, Request
    <2>2. QED
      BY <1>0, <1>1, <1>6, <2>1 DEF GuardDiscard, apiKeeps, runVars, recVars
  <1>7. CASE StartJob(c)
    <2>1. nextId' = nextId + 1 /\ row' = row /\ run' = run /\ rec' = rec
      BY <1>7 DEF StartJob, MintJob, apiKeeps, runVars, recVars
    <2>2. /\ \A d \in Clients \ {c} : client'[d] = client[d]
          /\ client'[c].job = nextId + 1
      BY <1>0, <1>7 DEF StartJob, Request
    <2>3. \A d \in Clients : client[d].at \in Safe => client[d].job \in Nat /\ client[d].job <= nextId
      BY DEF PhaseInv, TypeOK, RequestType, JobIds
    <2>4. \A d \in Clients : client'[d].at \in Safe => client'[d].job <= nextId + 1
      BY <1>0, <2>2, <2>3
    <2>5. \A j \in JobIds : rec[j].at = "add" => rec[j].new \in JobIds /\ rec[j].new <= nextId + 1
      BY <1>0 DEF PhaseInv, JobIds
    <2>6. \A j \in JobIds : j > nextId + 1 => row[j] = "absent"
      BY <1>0 DEF PhaseInv, JobIds
    <2>7. QED
      BY <2>1, <2>4, <2>5, <2>6 DEF PhaseInv
  <1>8. CASE EnqueueJob(c)
    <2>1. Elsewhere
      BY <1>8, <1>b DEF EnqueueJob
    <2>2. client[c].job \in JobIds /\ client[c].job <= nextId
      BY <1>8, <1>j DEF EnqueueJob, PhaseInv
    <2>3. /\ UNCHANGED <<nextId, run, rec>>
          /\ \A k \in JobIds : row'[k] = row[k] \/ (k <= nextId /\ row[k] = "absent" /\ row'[k] = "waiting")
      BY <1>0, <1>8, <2>2 DEF EnqueueJob, AddRow, apiKeeps, runVars, recVars
    <2>4. QED
      BY <1>0, <2>1, <2>3 DEF PhaseInv, JobIds
  <1>9. CASE MarkSnapshot(c)
    BY <1>1, <1>9, <1>c DEF MarkSnapshot, WriteCancelled, apiKeeps, runVars, recVars
  <1>10. CASE MarkSnapshotFlag(c) \/ StopOrphanFlag(c)
    BY <1>1, <1>10, <1>c DEF MarkSnapshotFlag, StopOrphanFlag, WriteFlag, apiKeeps, runVars, recVars
  <1>11. CASE StopLook(c)
    <2>1. Elsewhere
      BY <1>11, <1>b, <1>c DEF StopLook
    <2>2. QED
      BY <1>1, <1>11, <2>1 DEF StopLook, storeVars, apiKeeps, runVars, recVars
  <1>12. CASE StopRequest(c)
    <2>1. Elsewhere
      <3>1. ASSUME row[client[c].job] \in UnfinishedState, NEW flagged,
                   client' = [client EXCEPT ![c].at = "cancel", ![c].active = flagged]
            PROVE  Elsewhere
        <4>1. client[c].job \in JobIds
          BY <1>12, <1>j DEF StopRequest
        <4>2. client[c].job <= nextId
          BY <1>0, <3>1, <4>1 DEF PhaseInv, UnfinishedState, JobIds
        <4>3. QED
          BY <1>0, <3>1, <4>2 DEF Request
      <3>2. QED
        BY <1>12, <1>b, <1>c, <3>1 DEF StopRequest
    <2>2. QED
      BY <1>1, <1>12, <2>1 DEF StopRequest, storeVars, apiKeeps, runVars, recVars
  <1>13. CASE CancelSnapshot(c)
    <2>1. Elsewhere
      BY <1>13, <1>a DEF CancelSnapshot, WriteCancelled, PhaseInv
    <2>2. QED
      BY <1>1, <1>13, <2>1 DEF CancelSnapshot, WriteCancelled, apiKeeps, runVars, recVars
  <1>14. CASE CancelFlag(c)
    <2>1. Elsewhere
      BY <1>14, <1>a DEF CancelFlag, WriteFlag, PhaseInv
    <2>2. QED
      BY <1>1, <1>14, <2>1 DEF CancelFlag, WriteFlag, apiKeeps, runVars, recVars
  <1>15. CASE StopPublish(c) \/ StopOrphanPublish(c) \/ StopGonePublish(c)
    <2>1. Elsewhere
      BY <1>15, <1>b, <1>c DEF StopPublish, StopOrphanPublish, StopGonePublish
    <2>2. QED
      BY <1>1, <1>15, <2>1 DEF StopPublish, StopOrphanPublish, StopGonePublish, storeVars, apiKeeps,
         runVars, recVars
  <1>16. CASE StopRemove(c)
    <2>1. Elsewhere
      BY <1>16, <1>c DEF StopRemove
    <2>2. QED
      BY <1>0, <1>1, <1>16, <2>1 DEF StopRemove, RemoveRow, SettledState, apiKeeps, runVars, recVars
  <1>17. CASE StopSweep(c)
    <2>1. Elsewhere
      <3>1. client[c].at = "sweep"
        BY <1>17 DEF StopSweep
      <3>2. ASSUME NEW todo, client' = [client EXCEPT ![c].top = FALSE, ![c].todo = todo]
            PROVE  Elsewhere
        BY <1>0, <3>1, <3>2 DEF Request
      <3>3. ASSUME NEW j, client' = [client EXCEPT ![c].at = "request", ![c].job = j, ![c].todo = @ \ {j}]
            PROVE  Elsewhere
        BY <1>0, <3>3 DEF Request
      <3>4. QED
        BY <1>17, <1>b, <3>2, <3>3 DEF StopSweep
    <2>2. QED
      BY <1>1, <1>17, <2>1 DEF StopSweep, storeVars, apiKeeps, runVars, recVars
  <1>18. CASE RequestAborted(c)
    BY <1>1, <1>18, <1>b DEF RequestAborted, storeVars, apiKeeps, runVars, recVars
  <1>19. QED
    BY <1>2, <1>3, <1>4, <1>5, <1>6, <1>7, <1>8, <1>9, <1>10, <1>11, <1>12, <1>13, <1>14,
       <1>15, <1>16, <1>17, <1>18

LEMMA PhaseInvRun ==
  ASSUME TypeOK, PhaseInv, NEW j \in JobIds, RunNext(j)
  PROVE  PhaseInv'
  <1>0. /\ row \in [JobIds -> RowState]
        /\ run \in [JobIds -> RunStep]
        /\ outcome[j] \in SettledState
    BY DEF TypeOK, StoreType, RunType
  <1>1. nextId' = nextId /\ client' = client /\ rec' = rec
    BY DEF RunNext, Claim, Register, ReadSnapshot, ReadFlag, StartHandler, WipeVoice, FlushProgress,
       HandlerReturns, HandlerThrows, SystemLogWritten, WritePending, SettleRow, DeliverCancel,
       runKeeps, storeVars, recVars
  <1>2. \A k \in JobIds : \/ row'[k] = row[k]
                          \/ row[k] # "absent" /\ row'[k] \notin {"absent", "waiting"}
    <2>1. CASE Claim(j)
      BY <1>0, <2>1 DEF Claim
    <2>2. CASE SettleRow(j)
      BY <1>0, <2>2 DEF SettleRow, SettledState
    <2>3. CASE ~Claim(j) /\ ~SettleRow(j)
      BY <2>3 DEF RunNext, Register, ReadSnapshot, ReadFlag, StartHandler, WipeVoice, FlushProgress,
         HandlerReturns, HandlerThrows, SystemLogWritten, WritePending, DeliverCancel, storeVars
    <2>4. QED
      BY <2>1, <2>2, <2>3
  <1>3. \A k \in JobIds : run'[k] # "idle" => run[k] # "idle" \/ row'[k] \notin {"absent", "waiting"}
    <2>1. CASE Claim(j)
      BY <1>0, <2>1 DEF Claim
    <2>2. CASE Register(j) \/ StartHandler(j) \/ HandlerThrows(j) \/ SystemLogWritten(j) \/ SettleRow(j)
      BY <1>0, <2>2 DEF Register, StartHandler, HandlerThrows, SystemLogWritten, SettleRow
    <2>3. CASE ReadSnapshot(j) \/ ReadFlag(j)
      BY <1>0, <2>3 DEF ReadSnapshot, ReadFlag, SkipRun
    <2>4. CASE \E status \in TerminalStatus : HandlerReturns(j, status)
      BY <1>0, <2>4 DEF HandlerReturns
    <2>5. CASE WipeVoice(j) \/ FlushProgress(j) \/ WritePending(j) \/ DeliverCancel(j)
      BY <2>5 DEF WipeVoice, FlushProgress, WritePending, DeliverCancel, runVars
    <2>6. QED
      BY <2>1, <2>2, <2>3, <2>4, <2>5 DEF RunNext
  <1>4. QED
    BY <1>1, <1>2, <1>3, PhaseFrame DEF PhaseInv

LEMMA PhaseInvProcess ==
  ASSUME TypeOK, PhaseInv, ProcessNext
  PROVE  PhaseInv'
  <1>1. UNCHANGED <<nextId, row, client>>
    BY DEF ProcessNext, Boot, StartWorkers, Subscribe, Shutdown, ShutdownDone, Crash, ProcessGone, storeVars
  <1>2. \A k \in JobIds : run'[k] # "idle" => run[k] # "idle"
    BY DEF ProcessNext, Boot, StartWorkers, Subscribe, Shutdown, ShutdownDone, Crash, ProcessGone, runVars
  <1>3. \A j \in JobIds : rec'[j].at = "add" => rec'[j] = rec[j]
    BY DEF ProcessNext, Boot, StartWorkers, Subscribe, Shutdown, ShutdownDone, Crash, ProcessGone,
       recVars, NoRec
  <1>4. QED
    BY <1>1, <1>2, <1>3, PhaseFrame DEF PhaseInv

LEMMA PhaseInvRecovery ==
  ASSUME TypeOK, PhaseInv, NEW j \in JobIds, RecoveryNext(j)
  PROVE  PhaseInv'
  <1>0. /\ row \in [JobIds -> RowState]
        /\ rec \in [JobIds -> Recovery]
        /\ nextId \in Nat
        /\ MaxJobs \in Nat
    BY BoundsAssumption DEF TypeOK, StoreType, RecoveryType
  <1>a. \A step : RecGoto(j, step) /\ step # "add" =>
          \A k \in JobIds : rec'[k].at = "add" => rec'[k] = rec[k]
    BY <1>0 DEF RecGoto, Recovery
  (* Steps that add no row and issue no id. *)
  <1>1. ASSUME UNCHANGED <<nextId, run, client>>,
               \A k \in JobIds : rec'[k].at = "add" => rec'[k] = rec[k],
               \A k \in JobIds : \/ row'[k] = row[k]
                                 \/ row[k] # "absent" /\ row'[k] \notin {"absent", "waiting"}
        PROVE  PhaseInv'
    BY <1>1, PhaseFrame DEF PhaseInv
  <1>2. CASE RecoverOrphan(j) \/ RecoverFailRead(j) \/ RecoverFailWrite(j) \/ StallRead(j) \/ StallFind(j)
    <2>1. \A k \in JobIds : rec'[k].at = "add" => rec'[k] = rec[k]
      BY <1>2, <1>a DEF RecoverOrphan, RecoverFailRead, RecoverFailWrite, StallRead, StallFind
    <2>2. QED
      BY <1>1, <1>2, <2>1 DEF RecoverOrphan, RecoverFailRead, RecoverFailWrite, StallRead, StallFind,
         storeVars, recKeeps, runVars
  <1>3. CASE RecoverRead(j)
    <2>1. \A k \in JobIds : rec'[k].at = "add" => rec'[k] = rec[k]
      BY <1>0, <1>3 DEF RecoverRead, Recovery
    <2>2. QED
      BY <1>1, <1>3, <2>1 DEF RecoverRead, storeVars, recKeeps, runVars
  <1>4. CASE RecoverDrop(j)
    <2>1. \A k \in JobIds : rec'[k].at = "add" => rec'[k] = rec[k]
      BY <1>0, <1>4, <1>a DEF RecoverDrop, RowDropped, NoRec
    <2>2. \A k \in JobIds : \/ row'[k] = row[k]
                            \/ row[k] # "absent" /\ row'[k] \notin {"absent", "waiting"}
      BY <1>0, <1>4 DEF RecoverDrop
    <2>3. QED
      BY <1>1, <1>4, <2>1, <2>2 DEF RecoverDrop, runVars
  <1>5. CASE StallRow(j)
    <2>1. \A k \in JobIds : rec'[k].at = "add" => rec'[k] = rec[k]
      BY <1>5, <1>a DEF StallRow
    <2>2. \A k \in JobIds : \/ row'[k] = row[k]
                            \/ row[k] # "absent" /\ row'[k] \notin {"absent", "waiting"}
      BY <1>0, <1>5 DEF StallRow
    <2>3. QED
      BY <1>1, <1>5, <2>1, <2>2 DEF StallRow, recKeeps, runVars
  <1>6. CASE RequeueMint(j)
    <2>1. /\ nextId' = nextId + 1 /\ nextId < MaxJobs
          /\ UNCHANGED <<row, run, client>>
      BY <1>6 DEF RequeueMint, MintJob, recKeeps, runVars
    <2>2. \A k \in JobIds : rec'[k].at = "add" =>
             \/ rec'[k] = rec[k]
             \/ rec'[k].new = nextId + 1
      BY <1>0, <1>6 DEF RequeueMint, Recovery
    <2>3. \A k \in JobIds : rec'[k].at = "add" => rec'[k].new \in JobIds /\ rec'[k].new <= nextId + 1
      BY <1>0, <2>1, <2>2 DEF PhaseInv, JobIds
    <2>4. \A c \in Clients :
            client[c].at \in {"enqueue", "cancel", "cancelFlag", "publish"} => client[c].job <= nextId + 1
      BY <1>0 DEF PhaseInv, TypeOK, RequestType, JobIds
    <2>5. \A k \in JobIds : k > nextId + 1 => row[k] = "absent"
      BY <1>0 DEF PhaseInv, JobIds
    <2>6. QED
      BY <2>1, <2>3, <2>4, <2>5 DEF PhaseInv
  <1>7. CASE RequeueAdd(j)
    <2>1. UNCHANGED <<nextId, run, client>> /\ rec[j].at = "add"
      BY <1>7 DEF RequeueAdd, recKeeps, runVars
    <2>2. \A k \in JobIds : rec'[k].at = "add" => rec'[k] = rec[k]
      BY <1>0, <1>7 DEF RequeueAdd, NoRec
    <2>3. rec[j].new \in JobIds /\ rec[j].new <= nextId
      BY <2>1 DEF PhaseInv
    <2>4. \A k \in JobIds : row'[k] = row[k] \/ (k <= nextId /\ row[k] = "absent" /\ row'[k] = "waiting")
      BY <1>0, <1>7, <2>3 DEF RequeueAdd, AddRow
    <2>5. QED
      BY <1>0, <2>1, <2>2, <2>4 DEF PhaseInv, JobIds
  <1>8. QED
    BY <1>2, <1>3, <1>4, <1>5, <1>6, <1>7 DEF RecoveryNext

LEMMA PhaseInvNext ==
  ASSUME TypeOK, PhaseInv, [Next]_vars
  PROVE  PhaseInv'
  <1>1. CASE ClientNext
    BY <1>1, PhaseInvClient DEF ClientNext
  <1>2. CASE ProcessNext
    BY <1>2, PhaseInvProcess
  <1>3. ASSUME NEW j \in JobIds, RunNext(j)
        PROVE  PhaseInv'
    BY <1>3, PhaseInvRun
  <1>4. ASSUME NEW j \in JobIds, RecoveryNext(j)
        PROVE  PhaseInv'
    BY <1>4, PhaseInvRecovery
  <1>5. ASSUME NEW j \in JobIds, SnapshotExpires(j)
        PROVE  PhaseInv'
    BY <1>5, PhaseFrame DEF SnapshotExpires, PhaseInv, runVars, recVars
  <1>6. CASE UNCHANGED vars
    BY <1>6, PhaseFrame DEF vars, storeVars, runVars, recVars, PhaseInv
  <1>7. QED
    BY <1>1, <1>2, <1>3, <1>4, <1>5, <1>6 DEF Next

THEOREM PhaseInvariant == Spec => []PhaseInv
  BY PhaseInvInit, TypeCorrect, PhaseInvNext, PTL DEF Spec

---------------------------------------------------------------------------
(* The mapping, step by step *)

(* One job moves, if any, and moves the way the promise allows. *)
LEMMA OneMoves ==
  ASSUME NEW j \in JobIds, UNCHANGED stopped,
         \A k \in JobIds \ {j} : Phase(k)' = Phase(k),
         \/ Phase(j)' = Phase(j)
         \/ Phase(j) = "new" /\ Phase(j)' = "accepted"
         \/ Phase(j) = "accepted" /\ Phase(j)' = "executing" /\ j \notin stopped
         \/ Phase(j) \in {"accepted", "executing"} /\ Phase(j)' = "over"
  PROVE  [Promise!PromiseNext]_(Promise!promiseVars)
  <1> DEFINE M == [k \in JobIds |-> Phase(k)]
  <1>1. M[j] = Phase(j)
    OBVIOUS
  <1>2. M' = [k \in JobIds |-> Phase(k)']
    OBVIOUS
  <1>3. M' = [M EXCEPT ![j] = Phase(j)']
    <2> DEFINE after == Phase(j)'
    <2>1. \A k \in JobIds : [M EXCEPT ![j] = after][k] = IF k = j THEN after ELSE M[k]
      OBVIOUS
    <2> HIDE DEF after
    <2>2. M' = [k \in JobIds |-> IF k = j THEN after ELSE Phase(k)]
      BY <1>2 DEF after
    <2>3. [M EXCEPT ![j] = after] = [k \in JobIds |-> IF k = j THEN after ELSE Phase(k)]
      BY <2>1
    <2>4. QED
      BY <2>2, <2>3 DEF after
  <1>4. CASE Phase(j)' = Phase(j)
    <2>1. M' = M
      BY <1>2, <1>4
    <2>2. QED
      BY <2>1 DEF Promise!promiseVars
  <1>5. CASE Phase(j) = "new" /\ Phase(j)' = "accepted"
    BY <1>1, <1>3, <1>5 DEF Promise!PromiseNext, Promise!Accept, Promise!Become
  <1>6. CASE Phase(j) = "accepted" /\ Phase(j)' = "executing" /\ j \notin stopped
    BY <1>1, <1>3, <1>6 DEF Promise!PromiseNext, Promise!Execute, Promise!Become
  <1>7. CASE Phase(j) \in {"accepted", "executing"} /\ Phase(j)' = "over"
    BY <1>1, <1>3, <1>7 DEF Promise!PromiseNext, Promise!End, Promise!Become
  <1>8. QED
    BY <1>4, <1>5, <1>6, <1>7

LEMMA NoneMoves ==
  ASSUME UNCHANGED stopped, \A k \in JobIds : Phase(k)' = Phase(k)
  PROVE  [Promise!PromiseNext]_(Promise!promiseVars)
  BY DEF Promise!promiseVars

(* A job whose row and run stay keeps its phase, and so does one whose row *)
(* only changes out of sight of the phase.                                 *)
LEMMA PhaseKept ==
  ASSUME NEW k \in JobIds, nextId' = nextId, run'[k] = run[k],
         \/ row'[k] = row[k]
         \/ row[k] \notin {"absent", "waiting"} /\ row'[k] \notin {"absent", "waiting"}
         \/ row[k] \in {"absent", "waiting"} /\ row'[k] \in {"absent", "waiting"}
  PROVE  Phase(k)' = Phase(k)
  BY DEF Phase, Executing, Accepted

LEMMA PhaseOf ==
  ASSUME PhaseInv, TypeOK, NEW k \in JobIds
  PROVE  /\ run[k] # "idle" => k <= nextId /\ row[k] \notin {"absent", "waiting"}
         /\ row[k] # "absent" => k <= nextId
         /\ k > nextId => Phase(k) = "new"
         /\ k <= nextId /\ Executing(k) => Phase(k) = "executing"
         /\ k <= nextId /\ Accepted(k) => Phase(k) = "accepted"
         /\ k <= nextId /\ ~Executing(k) /\ ~Accepted(k) => Phase(k) = "over"
  <1>1. nextId \in Nat /\ k \in Nat
    BY BoundsAssumption DEF TypeOK, StoreType, JobIds
  <1>2. k <= nextId <=> ~(k > nextId)
    BY <1>1
  <1>3. Executing(k) => ~Accepted(k)
    BY DEF Executing, Accepted
  <1>4. QED
    BY <1>1, <1>2, <1>3 DEF PhaseInv, Phase

(* The next id is issued: with a waiting row to come and no run. *)
LEMMA IdIssued ==
  ASSUME TypeOK, PhaseInv, PhaseInv', TypeOK', nextId < MaxJobs, nextId' = nextId + 1,
         UNCHANGED <<row, run, stopped>>
  PROVE  [Promise!PromiseNext]_(Promise!promiseVars)
  <1>0. nextId \in Nat /\ MaxJobs \in Nat
    BY BoundsAssumption DEF TypeOK, StoreType
  <1>1. PICK new \in JobIds : new = nextId + 1
    BY <1>0 DEF JobIds
  <1>2. Phase(new) = "new" /\ row[new] = "absent" /\ run[new] = "idle"
    BY <1>0, <1>1, PhaseOf DEF PhaseInv, JobIds
  <1>3. Phase(new)' = "accepted"
    BY <1>0, <1>1, <1>2 DEF Phase, Executing, Accepted
  <1>4. ASSUME NEW k \in JobIds \ {new}
        PROVE  Phase(k)' = Phase(k)
    <2>1. k > nextId <=> k > nextId + 1
      BY <1>0, <1>1, <1>4 DEF JobIds
    <2>2. QED
      BY <2>1 DEF Phase, Executing, Accepted
  <1>5. QED
    BY <1>1, <1>2, <1>3, <1>4, OneMoves

LEMMA PromiseClient ==
  ASSUME TypeOK, PhaseInv, PhaseInv', TypeOK', NEW c \in Clients,
         \/ \E k \in Kinds, m \in Mods, w \in BOOLEAN : RequestStart(c, k, m, w)
         \/ \E j \in JobIds : GuardCheck(c, j)
         \/ GuardDiscard(c)
         \/ StartJob(c)
         \/ EnqueueJob(c)
         \/ \E j \in JobIds : RequestStop(c, j)
         \/ \E k \in Kinds, m \in Mods : RequestStopMod(c, k, m)
         \/ MarkSnapshot(c)
         \/ MarkSnapshotFlag(c)
         \/ StopLook(c)
         \/ StopRequest(c)
         \/ CancelSnapshot(c)
         \/ CancelFlag(c)
         \/ StopPublish(c)
         \/ StopRemove(c)
         \/ StopOrphanPublish(c)
         \/ StopGonePublish(c)
         \/ StopOrphanFlag(c)
         \/ StopSweep(c)
         \/ RequestAborted(c)
  PROVE  [Promise!PromiseNext]_(Promise!promiseVars)
  <1>0. /\ row \in [JobIds -> RowState]
        /\ client[c].at \in {"discard", "enqueue", "publish", "remove"} => client[c].job \in JobIds
    BY DEF TypeOK, StoreType, RequestType
  <1>1. ASSUME UNCHANGED <<nextId, row, run, stopped>>
        PROVE  [Promise!PromiseNext]_(Promise!promiseVars)
    BY <1>1, PhaseKept, NoneMoves
  (* A row leaves the queue. *)
  <1>2. ASSUME NEW j \in JobIds, UNCHANGED <<nextId, run, stopped>>,
               \A k \in JobIds \ {j} : row'[k] = row[k],
               row[j] # "absent", row'[j] = row[j] \/ row'[j] = "removed"
        PROVE  [Promise!PromiseNext]_(Promise!promiseVars)
    <2>1. \A k \in JobIds \ {j} : Phase(k)' = Phase(k)
      BY <1>2, PhaseKept
    <2>2. CASE row[j] # "waiting" \/ row'[j] = row[j]
      BY <1>2, <2>1, <2>2, PhaseKept, OneMoves
    <2>3. CASE row[j] = "waiting" /\ row'[j] = "removed"
      <3>1. run[j] = "idle" /\ run'[j] = "idle"
        BY <1>2, <2>3 DEF PhaseInv
      <3>2. Phase(j) = "accepted"
        BY <2>3, <3>1, PhaseOf DEF Accepted
      <3>3. Phase(j)' = "over"
        BY <1>2, <2>3, <3>1, <3>2 DEF Phase, Executing, Accepted
      <3>4. QED
        BY <1>2, <2>1, <3>2, <3>3, OneMoves
    <2>4. QED
      BY <1>2, <2>2, <2>3
  <1>3. CASE GuardDiscard(c)
    <2> DEFINE j == client[c].job
    <2>1. j \in JobIds
      BY <1>0, <1>3 DEF GuardDiscard
    <2>2. /\ UNCHANGED <<nextId, run, stopped>>
          /\ \A k \in JobIds \ {j} : row'[k] = row[k]
          /\ row'[j] = IF row[j] = "waiting" THEN "removed" ELSE row[j]
      BY <1>0, <1>3 DEF GuardDiscard, apiKeeps, runVars, historyVars
    <2>3. QED
      <3>1. CASE row[j] = "waiting"
        BY <1>2, <2>1, <2>2, <3>1
      <3>2. CASE row[j] # "waiting"
        BY <2>1, <2>2, <3>2, PhaseKept, NoneMoves
      <3>3. QED
        BY <3>1, <3>2
  <1>4. CASE StopRemove(c)
    <2> DEFINE j == client[c].job
    <2>1. j \in JobIds
      BY <1>0, <1>4 DEF StopRemove
    <2>2. /\ UNCHANGED <<nextId, run, stopped>>
          /\ \A k \in JobIds \ {j} : row'[k] = row[k]
          /\ row'[j] = IF row[j] \in {"waiting"} \cup SettledState THEN "removed" ELSE row[j]
      BY <1>0, <1>4 DEF StopRemove, RemoveRow, apiKeeps, runVars, historyVars
    <2>3. CASE row[j] \in {"waiting"} \cup SettledState
      BY <1>2, <2>1, <2>2, <2>3 DEF SettledState
    <2>4. CASE row[j] \notin {"waiting"} \cup SettledState
      BY <2>1, <2>2, <2>4, PhaseKept, NoneMoves
    <2>5. QED
      BY <2>3, <2>4
  <1>5. CASE StartJob(c)
    BY <1>5, IdIssued DEF StartJob, MintJob, apiKeeps, runVars, historyVars
  <1>6. CASE EnqueueJob(c)
    <2>1. /\ UNCHANGED <<nextId, run, stopped>>
          /\ \A k \in JobIds : row'[k] = row[k] \/ (row[k] = "absent" /\ row'[k] = "waiting")
      BY <1>0, <1>6 DEF EnqueueJob, AddRow, apiKeeps, runVars, historyVars
    <2>2. QED
      BY <2>1, PhaseKept, NoneMoves
  <1>7. CASE StopPublish(c)
    <2> DEFINE j == client[c].job
               M == [k \in JobIds |-> Phase(k)]
    <2>1. j \in JobIds /\ j <= nextId
      BY <1>0, <1>7 DEF StopPublish, PhaseInv
    <2>2. UNCHANGED <<nextId, row, run>> /\ stopped' = stopped \cup {j}
      BY <1>7 DEF StopPublish, storeVars, apiKeeps, runVars
    <2>3. M' = M
      BY <2>2, PhaseKept
    <2>4. Phase(j) # "new"
      BY <2>1, PhaseOf
    <2>5. Promise!Acknowledge(j)
      BY <2>1, <2>2, <2>3, <2>4 DEF Promise!Acknowledge
    <2>6. QED
      BY <2>1, <2>5 DEF Promise!PromiseNext
  <1>8. CASE \/ \E k \in Kinds, m \in Mods, w \in BOOLEAN : RequestStart(c, k, m, w)
             \/ \E j \in JobIds : GuardCheck(c, j) \/ RequestStop(c, j)
             \/ \E k \in Kinds, m \in Mods : RequestStopMod(c, k, m)
             \/ StopLook(c) \/ StopRequest(c) \/ StopSweep(c) \/ RequestAborted(c)
    BY <1>1, <1>8 DEF RequestStart, GuardCheck, RequestStop, RequestStopMod, StopLook, StopRequest,
       StopSweep, RequestAborted, storeVars, apiKeeps, runVars, historyVars
  <1>9. CASE \/ MarkSnapshot(c) \/ MarkSnapshotFlag(c) \/ CancelSnapshot(c) \/ CancelFlag(c)
             \/ StopOrphanPublish(c) \/ StopGonePublish(c) \/ StopOrphanFlag(c)
    BY <1>1, <1>9 DEF MarkSnapshot, MarkSnapshotFlag, CancelSnapshot, CancelFlag, StopOrphanPublish,
       StopGonePublish, StopOrphanFlag, WriteCancelled, WriteFlag, storeVars, apiKeeps, runVars, historyVars
  <1>10. QED
    BY <1>3, <1>4, <1>5, <1>6, <1>7, <1>8, <1>9

LEMMA PromiseRun ==
  ASSUME TypeOK, StopInv, PhaseInv, NEW j \in JobIds, RunNext(j)
  PROVE  [Promise!PromiseNext]_(Promise!promiseVars)
  <1>0. /\ row \in [JobIds -> RowState]
        /\ run \in [JobIds -> RunStep]
        /\ outcome[j] \in SettledState
    BY DEF TypeOK, StoreType, RunType
  <1>1. UNCHANGED <<nextId, stopped>>
    BY DEF RunNext, Claim, Register, ReadSnapshot, ReadFlag, StartHandler, WipeVoice, FlushProgress,
       HandlerReturns, HandlerThrows, SystemLogWritten, WritePending, SettleRow, DeliverCancel,
       runKeeps, storeVars
  (* The run moves on, its row stays. *)
  <1>2. ASSUME row' = row, run[j] # "idle", \A k \in JobIds \ {j} : run'[k] = run[k],
               \/ Accepted(j) /\ Accepted(j)'
               \/ Accepted(j) /\ Executing(j)' /\ j \notin stopped
               \/ Executing(j) /\ Executing(j)'
               \/ Accepted(j) /\ ~Accepted(j)' /\ ~Executing(j)'
        PROVE  [Promise!PromiseNext]_(Promise!promiseVars)
    <2>1. \A k \in JobIds \ {j} : Phase(k)' = Phase(k)
      BY <1>1, <1>2, PhaseKept
    <2>2. ~(j > nextId) /\ ~(j > nextId')
      BY <1>1, <1>2 DEF PhaseInv
    <2>3. \/ Phase(j)' = Phase(j)
          \/ Phase(j) = "accepted" /\ Phase(j)' = "executing" /\ j \notin stopped
          \/ Phase(j) \in {"accepted", "executing"} /\ Phase(j)' = "over"
      <3>1. Executing(j) => ~Accepted(j)
        BY DEF Executing, Accepted
      <3>2. Executing(j)' => ~Accepted(j)'
        BY DEF Executing, Accepted
      <3>3. QED
        BY <1>2, <2>2, <3>1, <3>2 DEF Phase
    <2>4. QED
      BY <1>1, <2>1, <2>3, OneMoves
  <1>3. CASE Claim(j)
    <2>1. row[j] = "waiting" /\ run[j] = "idle"
      BY <1>3 DEF Claim, PhaseInv
    <2>2. run'[j] = "claimed" /\ \A k \in JobIds \ {j} : run'[k] = run[k] /\ row'[k] = row[k]
      BY <1>0, <1>3 DEF Claim
    <2>3. Phase(j)' = Phase(j)
      BY <1>1, <2>1, <2>2 DEF Phase, Executing, Accepted
    <2>4. QED
      BY <1>1, <2>2, <2>3, PhaseKept, OneMoves
  <1>4. CASE Register(j) \/ StartHandler(j) \/ SystemLogWritten(j) \/ HandlerThrows(j)
    BY <1>0, <1>2, <1>4 DEF Register, StartHandler, SystemLogWritten, HandlerThrows, storeVars,
       Accepted, Executing
  <1>5. CASE \E status \in TerminalStatus : HandlerReturns(j, status)
    BY <1>0, <1>2, <1>5 DEF HandlerReturns, storeVars, Executing
  <1>6. CASE ReadSnapshot(j)
    BY <1>0, <1>2, <1>6 DEF ReadSnapshot, SkipRun, storeVars, Accepted, Executing
  <1>7. CASE ReadFlag(j)
    <2>1. CASE j \in flag
      BY <1>0, <1>2, <1>7, <2>1 DEF ReadFlag, SkipRun, storeVars, Accepted, Executing
    <2>2. CASE j \notin flag
      <3>1. j \notin stopped
        BY <2>2 DEF StopInv, StopOnRecord
      <3>2. QED
        BY <1>0, <1>2, <1>7, <2>2, <3>1 DEF ReadFlag, storeVars, Accepted, Executing
    <2>3. QED
      BY <2>1, <2>2
  <1>8. CASE SettleRow(j)
    <2>1. run[j] \in {"ending", "skipping"} /\ row[j] \notin {"absent", "waiting"}
      BY <1>8 DEF SettleRow, PhaseInv
    <2>2. /\ run'[j] = "idle" /\ row'[j] \notin {"absent", "waiting"}
          /\ \A k \in JobIds \ {j} : run'[k] = run[k] /\ row'[k] = row[k]
      BY <1>0, <1>8, <2>1 DEF SettleRow, SettledState
    <2>3. ~(j > nextId) /\ ~(j > nextId')
      BY <1>1, <2>1 DEF PhaseInv
    <2>4. Phase(j)' = "over" /\ Phase(j) \in {"executing", "over"}
      BY <2>1, <2>2, <2>3 DEF Phase, Executing, Accepted
    <2>5. QED
      BY <1>1, <2>2, <2>4, PhaseKept, OneMoves
  <1>9. CASE WipeVoice(j) \/ FlushProgress(j) \/ WritePending(j) \/ DeliverCancel(j)
    BY <1>1, <1>9, PhaseKept, NoneMoves DEF WipeVoice, FlushProgress, WritePending, DeliverCancel,
       storeVars, runVars
  <1>10. QED
    BY <1>3, <1>4, <1>5, <1>6, <1>7, <1>8, <1>9 DEF RunNext

LEMMA PromiseProcess ==
  ASSUME TypeOK, PhaseInv, ProcessNext
  PROVE  [Promise!PromiseNext]_(Promise!promiseVars)
  <1>1. UNCHANGED <<nextId, row, stopped>>
    BY DEF ProcessNext, Boot, StartWorkers, Subscribe, Shutdown, ShutdownDone, Crash, ProcessGone,
       storeVars, historyVars
  <1>2. CASE Boot \/ StartWorkers \/ Subscribe \/ Shutdown
    BY <1>1, <1>2, PhaseKept, NoneMoves DEF Boot, StartWorkers, Subscribe, Shutdown, runVars
  <1>3. CASE ShutdownDone \/ Crash
    <2> DEFINE M == [k \in JobIds |-> Phase(k)]
               gone == {k \in JobIds : M[k] \in {"accepted", "executing"} /\ run[k] # "idle"}
    <2>1. \A k \in JobIds : run'[k] = "idle"
      BY <1>3 DEF ShutdownDone, Crash, ProcessGone
    <2>2. ASSUME NEW k \in JobIds
          PROVE  Phase(k)' = IF k \in gone THEN "over" ELSE Phase(k)
      <3>1. CASE run[k] = "idle"
        <4>1. Phase(k)' = Phase(k)
          BY <1>1, <2>1, <3>1, PhaseKept
        <4>2. QED
          BY <3>1, <4>1
      <3>2. CASE run[k] # "idle"
        <4>1. ~(k > nextId) /\ row[k] \notin {"absent", "waiting"}
          BY <3>2 DEF PhaseInv
        <4>2. Phase(k)' = "over"
          BY <1>1, <2>1, <4>1 DEF Phase, Executing, Accepted
        <4>3. Phase(k) \in {"accepted", "executing", "over"}
          BY <4>1 DEF Phase
        <4>4. QED
          BY <3>2, <4>2, <4>3
      <3>3. QED
        BY <3>1, <3>2
    <2>3. M' = [k \in JobIds |-> IF k \in gone THEN "over" ELSE M[k]]
      BY <2>2
    <2>4. gone \in SUBSET {k \in JobIds : M[k] \in {"accepted", "executing"}}
      OBVIOUS
    <2> HIDE DEF gone
    <2>5. Promise!EndTogether
      BY <1>1, <2>3, <2>4 DEF Promise!EndTogether
    <2>6. QED
      BY <2>5 DEF Promise!PromiseNext
  <1>4. QED
    BY <1>2, <1>3 DEF ProcessNext

LEMMA PromiseRecovery ==
  ASSUME TypeOK, PhaseInv, PhaseInv', TypeOK', NEW j \in JobIds, RecoveryNext(j)
  PROVE  [Promise!PromiseNext]_(Promise!promiseVars)
  <1>0. row \in [JobIds -> RowState]
    BY DEF TypeOK, StoreType
  <1>1. CASE RequeueMint(j)
    BY <1>1, IdIssued DEF RequeueMint, MintJob, recKeeps, runVars, historyVars
  <1>2. CASE ~RequeueMint(j)
    <2>1. UNCHANGED <<nextId, run, stopped>>
      BY <1>2 DEF RecoveryNext, RecoverOrphan, RecoverRead, RecoverDrop, RecoverFailRead, RecoverFailWrite,
         RequeueAdd, StallRow, StallRead, StallFind, recKeeps, storeVars, runVars, historyVars
    <2>2. \A k \in JobIds :
            \/ row'[k] = row[k]
            \/ row[k] \notin {"absent", "waiting"} /\ row'[k] \notin {"absent", "waiting"}
            \/ row[k] \in {"absent", "waiting"} /\ row'[k] \in {"absent", "waiting"}
      <3>1. CASE RecoverDrop(j)
        BY <1>0, <3>1 DEF RecoverDrop
      <3>2. CASE StallRow(j)
        BY <1>0, <3>2 DEF StallRow
      <3>3. CASE RequeueAdd(j)
        BY <1>0, <3>3 DEF RequeueAdd, AddRow
      <3>4. CASE row' = row
        BY <3>4
      <3>5. QED
        BY <1>2, <3>1, <3>2, <3>3, <3>4 DEF RecoveryNext, RecoverOrphan, RecoverRead, RecoverFailRead,
           RecoverFailWrite, StallRead, StallFind, storeVars
    <2>3. QED
      BY <2>1, <2>2, PhaseKept, NoneMoves
  <1>3. QED
    BY <1>1, <1>2

LEMMA PromiseStep ==
  ASSUME TypeOK, StopInv, PhaseInv, TypeOK', PhaseInv', [Next]_vars
  PROVE  [Promise!PromiseNext]_(Promise!promiseVars)
  <1>1. CASE ClientNext
    BY <1>1, PromiseClient DEF ClientNext
  <1>2. CASE ProcessNext
    BY <1>2, PromiseProcess
  <1>3. ASSUME NEW j \in JobIds, RunNext(j)
        PROVE  [Promise!PromiseNext]_(Promise!promiseVars)
    BY <1>3, PromiseRun
  <1>4. ASSUME NEW j \in JobIds, RecoveryNext(j)
        PROVE  [Promise!PromiseNext]_(Promise!promiseVars)
    BY <1>4, PromiseRecovery
  <1>5. ASSUME NEW j \in JobIds, SnapshotExpires(j)
        PROVE  [Promise!PromiseNext]_(Promise!promiseVars)
    BY <1>5, PhaseKept, NoneMoves DEF SnapshotExpires, runVars, historyVars
  <1>6. CASE UNCHANGED vars
    BY <1>6, PhaseKept, NoneMoves DEF vars, storeVars, runVars, historyVars
  <1>7. QED
    BY <1>1, <1>2, <1>3, <1>4, <1>5, <1>6 DEF Next

LEMMA PromiseStart == Init => Promise!PromiseInit
  <1>1. SUFFICES ASSUME Init
                 PROVE  /\ [k \in JobIds |-> Phase(k)] = [k \in JobIds |-> "new"]
                        /\ stopped = {}
    BY <1>1 DEF Promise!PromiseInit
  <1>2. \A k \in JobIds : k > nextId
    BY <1>1, BoundsAssumption DEF Init, JobIds
  <1>3. \A k \in JobIds : Phase(k) = "new"
    BY <1>2 DEF Phase
  <1>4. QED
    BY <1>1, <1>3 DEF Init

(* The runtime keeps its promise, whatever the number of requests, jobs,    *)
(* crashes and stalls: accepted once, let run at most once, never after an  *)
(* acknowledged Stop, and over for good.                                    *)
THEOREM PromiseKept == Spec => KeepsPromise
  <1>1. TypeOK /\ StopInv /\ PhaseInv /\ TypeOK' /\ PhaseInv' /\ [Next]_vars
          => [Promise!PromiseNext]_(Promise!promiseVars)
    BY PromiseStep
  <1>2. QED
    BY <1>1, PromiseStart, TypeCorrect, StopInvariant, PhaseInvariant, PTL
       DEF Spec, KeepsPromise, Promise!PromiseSpec

===========================================================================
