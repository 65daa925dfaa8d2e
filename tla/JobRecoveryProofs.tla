------------------------ MODULE JobRecoveryProofs -------------------------
(***************************************************************************)
(* What recovery may not break: a row that completed has its verdict, of   *)
(* the jobs that go back to one request one at most is queued, and only    *)
(* the first may clear the generated voice.                                *)
(***************************************************************************)
EXTENDS JobRuntimeProofs

---------------------------------------------------------------------------
(* A completed row has its verdict: the chain of snapshot writes is empty  *)
(* before a row settles                                                     *)

(* The verdict is in the snapshot, or in the run's chain of writes. *)
HasVerdict(j)    == snap[j] \in TerminalStatus
VerdictComing(j) == \E i \in 1 .. Len(pending[j]) : pending[j][i] \in TerminalStatus

(* A run that will settle as completed queued its verdict first. *)
VerdictInv ==
  \A j \in JobIds :
    /\ outcome[j] = "completed" => HasVerdict(j) \/ VerdictComing(j)
    /\ row[j] = "completed" => HasVerdict(j)

VerdictsKept == \A j \in JobIds : HasVerdict(j) => HasVerdict(j)'
NoneCompletes == \A j \in JobIds : row'[j] = "completed" => row[j] = "completed"

---------------------------------------------------------------------------
(* Frames *)

(* A step that touches no chain and settles no row. *)
LEMMA VerdictFrame ==
  ASSUME VerdictInv, VerdictsKept, NoneCompletes, UNCHANGED <<pending, outcome>>
  PROVE  VerdictInv'
  BY DEF VerdictInv, VerdictsKept, NoneCompletes, VerdictComing

(* Any write but an expiry keeps a verdict, whatever status it brings. *)
LEMMA WriteKeepsVerdicts ==
  ASSUME TypeOK, NEW i, NEW status \in TerminalStatus \cup {"running"}, Write(i, status)
  PROVE  VerdictsKept /\ (i \in JobIds /\ status \in TerminalStatus => HasVerdict(i)')
  <1>1. snap \in [JobIds -> SnapshotStatus]
    BY DEF TypeOK, StoreType
  <1>2. /\ \A old \in TerminalStatus : SnapshotAfter(old, status) \in TerminalStatus
        /\ status \in TerminalStatus => \A old : SnapshotAfter(old, status) \in TerminalStatus
    BY DEF SnapshotAfter, TerminalStatus
  <1>3. \A k \in JobIds : snap'[k] = IF k = i THEN SnapshotAfter(snap[k], status) ELSE snap[k]
    BY <1>1 DEF Write
  <1>4. QED
    BY <1>2, <1>3 DEF VerdictsKept, HasVerdict

LEMMA SnapKeepsVerdicts ==
  ASSUME snap' = snap
  PROVE  VerdictsKept
  BY DEF VerdictsKept, HasVerdict

LEMMA RowKept ==
  ASSUME row' = row
  PROVE  NoneCompletes
  BY DEF NoneCompletes

---------------------------------------------------------------------------
(* API requests *)

LEMMA VerdictClient ==
  ASSUME TypeOK, VerdictInv, ClientNext
  PROVE  VerdictInv'
  <1>0. row \in [JobIds -> RowState]
    BY DEF TypeOK, StoreType
  <1>1. PICK c \in Clients :
          \/ \E k \in Kinds, m \in Mods, w \in BOOLEAN : RequestStart(c, k, m, w)
          \/ \E j \in JobIds : GuardCheck(c, j) \/ RequestStop(c, j)
          \/ \E k \in Kinds, m \in Mods : RequestStopMod(c, k, m)
          \/ StartJob(c)
          \/ MarkSnapshot(c) \/ CancelSnapshot(c)
          \/ GuardDiscard(c) \/ EnqueueJob(c) \/ StopRemove(c)
          \/ MarkSnapshotFlag(c) \/ CancelFlag(c) \/ StopOrphanFlag(c)
          \/ StopLook(c) \/ StopRequest(c) \/ StopSweep(c) \/ RequestAborted(c)
          \/ StopPublish(c) \/ StopOrphanPublish(c) \/ StopGonePublish(c)
    BY DEF ClientNext
  <1>k. "running" \in TerminalStatus \cup {"running"} /\ "cancelled" \in TerminalStatus \cup {"running"}
    BY DEF TerminalStatus
  <1>2. CASE StartJob(c)
    <2>1. VerdictsKept
      BY <1>2, <1>k, WriteKeepsVerdicts DEF StartJob, MintJob
    <2>2. NoneCompletes
      BY <1>2, RowKept DEF StartJob
    <2>3. QED
      BY <2>1, <2>2, ClientKeepsRuns, VerdictFrame
  <1>3. CASE MarkSnapshot(c) \/ CancelSnapshot(c)
    <2>1. VerdictsKept
      BY <1>3, <1>k, WriteKeepsVerdicts DEF MarkSnapshot, CancelSnapshot, WriteCancelled
    <2>2. NoneCompletes
      BY <1>3, RowKept DEF MarkSnapshot, CancelSnapshot, WriteCancelled
    <2>3. QED
      BY <2>1, <2>2, ClientKeepsRuns, VerdictFrame
  <1>4. CASE GuardDiscard(c) \/ EnqueueJob(c) \/ StopRemove(c)
    <2>1. snap' = snap
      BY <1>4 DEF GuardDiscard, EnqueueJob, StopRemove
    <2>2. NoneCompletes
      BY <1>4, <1>0 DEF GuardDiscard, EnqueueJob, StopRemove, AddRow, RemoveRow, NoneCompletes
    <2>3. QED
      BY <2>1, <2>2, SnapKeepsVerdicts, ClientKeepsRuns, VerdictFrame
  <1>5. CASE \/ \E k \in Kinds, m \in Mods, w \in BOOLEAN : RequestStart(c, k, m, w)
             \/ \E j \in JobIds : GuardCheck(c, j) \/ RequestStop(c, j)
             \/ \E k \in Kinds, m \in Mods : RequestStopMod(c, k, m)
             \/ StopLook(c) \/ StopRequest(c) \/ StopSweep(c) \/ RequestAborted(c)
    <2>1. snap' = snap /\ row' = row
      BY <1>5 DEF RequestStart, GuardCheck, RequestStop, RequestStopMod, StopLook, StopRequest,
         StopSweep, RequestAborted, storeVars
    <2>2. QED
      BY <2>1, SnapKeepsVerdicts, RowKept, ClientKeepsRuns, VerdictFrame
  <1>6. CASE MarkSnapshotFlag(c) \/ CancelFlag(c) \/ StopOrphanFlag(c)
    <2>1. snap' = snap /\ row' = row
      BY <1>6 DEF MarkSnapshotFlag, CancelFlag, StopOrphanFlag, WriteFlag
    <2>2. QED
      BY <2>1, SnapKeepsVerdicts, RowKept, ClientKeepsRuns, VerdictFrame
  <1>7. CASE StopPublish(c) \/ StopOrphanPublish(c) \/ StopGonePublish(c)
    <2>1. snap' = snap /\ row' = row
      BY <1>7 DEF StopPublish, StopOrphanPublish, StopGonePublish, storeVars
    <2>2. QED
      BY <2>1, SnapKeepsVerdicts, RowKept, ClientKeepsRuns, VerdictFrame
  <1>8. QED
    BY <1>1, <1>2, <1>3, <1>4, <1>5, <1>6, <1>7

---------------------------------------------------------------------------
(* Runs *)

(* Queueing more writes hides no verdict. *)
LEMMA PushKeepsComing ==
  ASSUME RunType, NEW j \in JobIds, NEW statuses \in Seq(PendingWrite), Push(j, statuses)
  PROVE  /\ \A k \in JobIds : VerdictComing(k) => VerdictComing(k)'
         /\ (\E i \in 1 .. Len(statuses) : statuses[i] \in TerminalStatus) => VerdictComing(j)'
  <1>1. pending[j] \in Seq(PendingWrite)
    BY DEF RunType
  <1>2. pending'[j] = pending[j] \o statuses /\ \A k \in JobIds : k # j => pending'[k] = pending[k]
    BY DEF RunType, Push
  <1>3. /\ Len(pending[j] \o statuses) = Len(pending[j]) + Len(statuses)
        /\ \A i \in 1 .. Len(pending[j]) : (pending[j] \o statuses)[i] = pending[j][i]
        /\ \A i \in 1 .. Len(statuses) : (pending[j] \o statuses)[Len(pending[j]) + i] = statuses[i]
    BY <1>1
  <1>4. Len(pending[j]) \in Nat /\ Len(statuses) \in Nat
    BY <1>1
  <1>5. ASSUME VerdictComing(j) PROVE VerdictComing(j)'
    <2>1. PICK i \in 1 .. Len(pending[j]) : pending[j][i] \in TerminalStatus
      BY <1>5 DEF VerdictComing
    <2>2. i \in 1 .. Len(pending'[j]) /\ pending'[j][i] \in TerminalStatus
      BY <1>2, <1>3, <1>4, <2>1
    <2>3. QED
      BY <2>2 DEF VerdictComing
  <1>6. ASSUME NEW i \in 1 .. Len(statuses), statuses[i] \in TerminalStatus PROVE VerdictComing(j)'
    <2>1. /\ Len(pending[j]) + i \in 1 .. Len(pending'[j])
          /\ pending'[j][Len(pending[j]) + i] \in TerminalStatus
      BY <1>2, <1>3, <1>4, <1>6
    <2>2. QED
      BY <2>1 DEF VerdictComing
  <1>7. QED
    BY <1>2, <1>5, <1>6 DEF VerdictComing

(* The next write of a chain: a verdict that leaves the chain is written. *)
LEMMA WriteKeepsComing ==
  ASSUME TypeOK, NEW j \in JobIds, WritePending(j)
  PROVE  /\ VerdictsKept
         /\ \A k \in JobIds : VerdictComing(k) => HasVerdict(k)' \/ VerdictComing(k)'
  <1> DEFINE next == Head(pending[j])
             rest == Tail(pending[j])
  <1>1. /\ pending \in [JobIds -> Seq(PendingWrite)]
        /\ pending[j] \in Seq(PendingWrite)
        /\ pending[j] # <<>>
    BY DEF TypeOK, RunType, WritePending
  <1>2. /\ next \in PendingWrite
        /\ next = pending[j][1]
        /\ rest \in Seq(PendingWrite)
        /\ Len(rest) = Len(pending[j]) - 1
        /\ \A i \in 1 .. Len(rest) : rest[i] = pending[j][i + 1]
    BY <1>1
  <1>3. /\ \A k \in JobIds : k # j => pending'[k] = pending[k]
        /\ pending'[j] = IF next = "cancelled" THEN <<"mark">> \o rest ELSE rest
    BY <1>1 DEF WritePending
  <1>4. CASE next = "mark"
    <2>1. snap' = snap
      BY <1>4 DEF WritePending
    <2>2. next \notin TerminalStatus /\ pending'[j] = rest
      BY <1>3, <1>4 DEF TerminalStatus
    <2>3. ASSUME VerdictComing(j) PROVE VerdictComing(j)'
      <3>1. PICK i \in 1 .. Len(pending[j]) : pending[j][i] \in TerminalStatus
        BY <2>3 DEF VerdictComing
      <3>2. i # 1
        BY <1>2, <2>2, <3>1
      <3>3. i - 1 \in 1 .. Len(rest) /\ rest[i - 1] \in TerminalStatus
        BY <1>1, <1>2, <3>1, <3>2
      <3>4. QED
        BY <2>2, <3>3 DEF VerdictComing
    <2>4. QED
      BY <1>3, <2>1, <2>3, SnapKeepsVerdicts DEF VerdictComing
  <1>5. CASE next # "mark"
    <2>1. Write(j, next) /\ next \in TerminalStatus \cup {"running"}
      BY <1>2, <1>5 DEF WritePending, PendingWrite
    <2>2. VerdictsKept /\ (next \in TerminalStatus => HasVerdict(j)')
      BY <2>1, WriteKeepsVerdicts
    <2>3. ASSUME VerdictComing(j), next \notin TerminalStatus PROVE VerdictComing(j)'
      <3>1. PICK i \in 1 .. Len(pending[j]) : pending[j][i] \in TerminalStatus
        BY <2>3 DEF VerdictComing
      <3>2. i # 1
        BY <1>2, <2>3, <3>1
      <3>3. i - 1 \in 1 .. Len(rest) /\ rest[i - 1] \in TerminalStatus
        BY <1>1, <1>2, <3>1, <3>2
      <3>4. pending'[j] = rest
        BY <1>3, <2>3 DEF TerminalStatus
      <3>5. QED
        BY <3>3, <3>4 DEF VerdictComing
    <2>4. QED
      BY <1>3, <2>2, <2>3 DEF VerdictComing
  <1>6. QED
    BY <1>4, <1>5

LEMMA VerdictRun ==
  ASSUME TypeOK, VerdictInv, NEW j \in JobIds, RunNext(j)
  PROVE  VerdictInv'
  <1>0. /\ RunType
        /\ row \in [JobIds -> RowState]
        /\ outcome \in [JobIds -> SettledState]
    BY DEF TypeOK, StoreType, RunType
  <1>1. CASE Claim(j)
    <2>1. NoneCompletes
      BY <1>0, <1>1 DEF Claim, NoneCompletes
    <2>2. QED
      BY <1>1, <2>1, SnapKeepsVerdicts, VerdictFrame DEF Claim
  <1>2. CASE Register(j) \/ SystemLogWritten(j) \/ WipeVoice(j) \/ DeliverCancel(j)
    <2>1. UNCHANGED <<snap, row, pending, outcome>>
      BY <1>2 DEF Register, SystemLogWritten, WipeVoice, DeliverCancel, storeVars, runVars
    <2>2. QED
      BY <2>1, SnapKeepsVerdicts, RowKept, VerdictFrame
  (* A run that pushes writes and does not settle as completed. *)
  <1>p. ASSUME NEW statuses \in Seq(PendingWrite), Push(j, statuses), UNCHANGED <<snap, row>>,
               \/ outcome' = outcome
               \/ outcome' = [outcome EXCEPT ![j] = "failed"]
               \/ /\ outcome' = [outcome EXCEPT ![j] = "completed"]
                  /\ \E i \in 1 .. Len(statuses) : statuses[i] \in TerminalStatus
        PROVE  VerdictInv'
    <2>1. \A k \in JobIds : VerdictComing(k) => VerdictComing(k)'
      BY <1>0, <1>p, PushKeepsComing
    <2>2. \A k \in JobIds :
            outcome'[k] = "completed" => outcome[k] = "completed" \/ VerdictComing(k)'
      BY <1>0, <1>p, PushKeepsComing
    <2>3. \A k \in JobIds : HasVerdict(k)' <=> HasVerdict(k)
      BY <1>p DEF HasVerdict
    <2>4. QED
      BY <1>p, <2>1, <2>2, <2>3 DEF VerdictInv
  <1>s. <<"cancelled", "cancelled">> \in Seq(PendingWrite) /\ <<"running">> \in Seq(PendingWrite)
    BY DEF PendingWrite, TerminalStatus
  <1>3. CASE ReadSnapshot(j) \/ ReadFlag(j)
    <2>1. CASE SkipRun(j)
      BY <1>3, <2>1, <1>p, <1>s DEF ReadSnapshot, ReadFlag, SkipRun, storeVars
    <2>2. CASE UNCHANGED <<pending, outcome>>
      BY <1>3, <2>2, SnapKeepsVerdicts, RowKept, VerdictFrame DEF ReadSnapshot, ReadFlag, storeVars
    <2>3. QED
      BY <1>3, <2>1, <2>2 DEF ReadSnapshot, ReadFlag
  <1>4. CASE StartHandler(j) \/ FlushProgress(j)
    BY <1>4, <1>p, <1>s DEF StartHandler, FlushProgress, storeVars
  <1>5. ASSUME NEW status \in TerminalStatus, HandlerReturns(j, status)
        PROVE  VerdictInv'
    <2>1. <<status>> \in Seq(PendingWrite) /\ Len(<<status>>) = 1 /\ <<status>>[1] = status
      BY DEF PendingWrite
    <2>2. \E i \in 1 .. Len(<<status>>) : <<status>>[i] \in TerminalStatus
      BY <2>1
    <2>3. QED
      BY <1>5, <1>p, <2>1, <2>2 DEF HandlerReturns, storeVars
  <1>6. CASE HandlerThrows(j)
    <2>1. <<IF j \in cancelled THEN "cancelled" ELSE "failed">> \in Seq(PendingWrite)
      BY DEF PendingWrite, TerminalStatus
    <2>2. QED
      BY <1>6, <1>p, <2>1 DEF HandlerThrows, storeVars
  <1>7. CASE WritePending(j)
    <2>1. row' = row /\ outcome' = outcome
      BY <1>7 DEF WritePending
    <2>2. QED
      BY <1>7, <2>1, WriteKeepsComing DEF VerdictInv, VerdictsKept
  <1>8. CASE SettleRow(j)
    <2>1. /\ UNCHANGED <<snap, pending>>
          /\ pending[j] = <<>>
          /\ row' = [row EXCEPT ![j] = IF @ = "active" THEN outcome[j] ELSE @]
          /\ outcome' = [outcome EXCEPT ![j] = "failed"]
      BY <1>8 DEF SettleRow
    <2>2. ~VerdictComing(j)
      BY <2>1 DEF VerdictComing
    <2>3. \A k \in JobIds : outcome'[k] = "completed" => outcome[k] = "completed"
      BY <1>0, <2>1
    <2>4. \A k \in JobIds : row'[k] = "completed" => row[k] = "completed" \/ (k = j /\ outcome[j] = "completed")
      BY <1>0, <2>1
    <2>5. QED
      BY <2>1, <2>2, <2>3, <2>4 DEF VerdictInv, HasVerdict, VerdictComing
  <1>9. QED
    BY <1>1, <1>2, <1>3, <1>4, <1>5, <1>6, <1>7, <1>8 DEF RunNext

---------------------------------------------------------------------------
(* The process, recovery, and every step *)

LEMMA VerdictProcess ==
  ASSUME VerdictInv, ProcessNext
  PROVE  VerdictInv'
  <1>1. snap' = snap /\ row' = row
    BY DEF ProcessNext, Boot, StartWorkers, Subscribe, Shutdown, ShutdownDone, Crash, ProcessGone, storeVars
  <1>2. CASE Boot \/ StartWorkers \/ Subscribe \/ Shutdown
    <2>1. UNCHANGED <<pending, outcome>>
      BY <1>2 DEF Boot, StartWorkers, Subscribe, Shutdown, runVars
    <2>2. QED
      BY <1>1, <2>1, SnapKeepsVerdicts, RowKept, VerdictFrame
  <1>3. CASE ShutdownDone \/ Crash
    <2>1. \A j \in JobIds : outcome'[j] = "failed"
      BY <1>3 DEF ShutdownDone, Crash, ProcessGone
    <2>2. QED
      BY <1>1, <2>1 DEF VerdictInv, HasVerdict
  <1>4. QED
    BY <1>2, <1>3 DEF ProcessNext

LEMMA VerdictRecovery ==
  ASSUME TypeOK, VerdictInv, NEW j \in JobIds, RecoveryNext(j)
  PROVE  VerdictInv'
  <1>0. row \in [JobIds -> RowState]
    BY DEF TypeOK, StoreType
  <1>1. UNCHANGED <<pending, outcome>>
    BY DEF RecoveryNext, RecoverOrphan, RecoverRead, RecoverDrop, RecoverFailRead, RecoverFailWrite,
       RequeueMint, RequeueAdd, StallRow, StallRead, StallFind, recKeeps, runVars
  <1>k. "running" \in TerminalStatus \cup {"running"} /\ "failed" \in TerminalStatus \cup {"running"}
    BY DEF TerminalStatus
  <1>2. VerdictsKept
    <2>1. CASE RecoverFailWrite(j)
      BY <2>1, <1>k, WriteKeepsVerdicts DEF RecoverFailWrite
    <2>2. CASE RequeueMint(j)
      BY <2>2, <1>k, WriteKeepsVerdicts DEF RequeueMint, MintJob
    <2>3. CASE ~RecoverFailWrite(j) /\ ~RequeueMint(j)
      <3>1. snap' = snap
        BY <2>3 DEF RecoveryNext, RecoverOrphan, RecoverRead, RecoverDrop, RecoverFailRead, RequeueAdd,
           StallRow, StallRead, StallFind, storeVars
      <3>2. QED
        BY <3>1, SnapKeepsVerdicts
    <2>4. QED
      BY <2>1, <2>2, <2>3
  <1>3. NoneCompletes
    <2>1. CASE RecoverDrop(j) \/ RequeueAdd(j) \/ StallRow(j)
      BY <1>0, <2>1 DEF RecoverDrop, RequeueAdd, AddRow, StallRow, NoneCompletes
    <2>2. CASE ~(RecoverDrop(j) \/ RequeueAdd(j) \/ StallRow(j))
      <3>1. row' = row
        BY <2>2 DEF RecoveryNext, RecoverOrphan, RecoverRead, RecoverFailRead, RecoverFailWrite,
           RequeueMint, StallRead, StallFind, storeVars
      <3>2. QED
        BY <3>1, RowKept
    <2>3. QED
      BY <2>1, <2>2
  <1>4. QED
    BY <1>1, <1>2, <1>3, VerdictFrame

(* No budget for expiries, no expiry. *)
LEMMA NoExpiry ==
  ASSUME TypeOK, MaxExpiries = 0, NEW j
  PROVE  ~SnapshotExpires(j)
  BY DEF TypeOK, SpentType, Budget, SnapshotExpires

LEMMA VerdictNext ==
  ASSUME MaxExpiries = 0
  PROVE  TypeOK /\ VerdictInv /\ [Next]_vars => VerdictInv'
  <1> SUFFICES ASSUME TypeOK, VerdictInv, [Next]_vars PROVE VerdictInv'
    OBVIOUS
  <1>1. CASE Next
    BY <1>1, NoExpiry, VerdictClient, VerdictProcess, VerdictRun, VerdictRecovery DEF Next
  <1>2. CASE UNCHANGED vars
    BY <1>2, SnapKeepsVerdicts, RowKept, VerdictFrame DEF vars, storeVars, runVars
  <1>3. QED
    BY <1>1, <1>2

LEMMA VerdictInit == Init => VerdictInv
  BY DEF Init, VerdictInv, HasVerdict

(* BullMQ calls a row completed only after its snapshot holds the verdict,  *)
(* whatever crashes, stalls, Stops and late flushes happen around the end   *)
(* of a run, as long as no snapshot outlives its TTL meanwhile.             *)
THEOREM CompletedHasVerdict ==
  ASSUME MaxExpiries = 0
  PROVE  Spec => []CompletedRowHasVerdict
  <1>1. VerdictInv => CompletedRowHasVerdict
    BY DEF VerdictInv, HasVerdict, CompletedRowHasVerdict
  <1>2. TypeOK /\ VerdictInv /\ [Next]_vars => VerdictInv'
    BY VerdictNext
  <1>3. QED
    BY <1>1, <1>2, VerdictInit, TypeCorrect, PTL DEF Spec

---------------------------------------------------------------------------
(* The jobs of one request: every requeued id carries the id of the job the *)
(* client started                                                           *)

Known     == 1 .. nextId
Recovered == LlmKinds \cup VoiceKinds

(* A job is about what its root is about; only recovered kinds have other   *)
(* jobs than the root, and only a root of a voice kind wipes.               *)
RootsKnown ==
  \A j \in Known :
    /\ job[j] \in JobData
    /\ job[j].root \in Known
    /\ job[job[j].root].kind = job[j].kind
    /\ job[j].root # j => job[j].kind \in Recovered
    /\ job[j].wipe => job[j].root = j /\ job[j].kind \in VoiceKinds

RowsKnown == \A j \in JobIds : row[j] # "absent" => j \in Known

RequestsKnown ==
  \A c \in Clients :
    /\ client[c].at = "enqueue" => client[c].job \in Known
    /\ client[c].data.wipe => client[c].data.kind \in VoiceKinds

RecoveriesKnown ==
  \A j \in JobIds :
    /\ rec[j].at # "none" \/ j \in orphans => j \in Known /\ job[j].kind \in Recovered
    /\ rec[j].at = "add" => rec[j].new \in Known

RunsKnown ==
  /\ \A j \in JobIds : run[j] # "idle" => j \in Known
  /\ \A j \in wiped : j \in Known /\ job[j].wipe

RootInv ==
  /\ RootsKnown
  /\ RowsKnown
  /\ RequestsKnown
  /\ RecoveriesKnown
  /\ RunsKnown

(* No row appears under an id nobody allocated. *)
NoNewRow == \A j \in JobIds : row'[j] # "absent" => row[j] # "absent" \/ j \in Known

---------------------------------------------------------------------------
(* Frames *)

LEMMA KnownIds ==
  ASSUME TypeOK
  PROVE  nextId \in Nat /\ Known \subseteq JobIds
  BY BoundsAssumption DEF TypeOK, StoreType, Known, JobIds

(* A step that allocates no id. *)
LEMMA NothingMinted ==
  ASSUME RootInv, UNCHANGED <<nextId, job>>, NoNewRow
  PROVE  RootsKnown' /\ RowsKnown' /\ Known' = Known
  BY DEF RootInv, RootsKnown, RowsKnown, NoNewRow, Known

(* A step that allocates the next id for a job of a known request. *)
LEMMA JobMinted ==
  ASSUME TypeOK, RootInv, NEW data \in JobData, MintJob(data), row' = row,
         \/ data.root = nextId + 1
         \/ /\ data.root \in Known
            /\ job[data.root].kind = data.kind
            /\ data.kind \in Recovered
            /\ ~data.wipe,
         data.wipe => data.kind \in VoiceKinds
  PROVE  /\ RootsKnown'
         /\ RowsKnown'
         /\ Known \subseteq Known'
         /\ nextId + 1 \in Known'
         /\ \A j \in Known : job'[j] = job[j]
  <1>1. nextId \in Nat /\ nextId' = nextId + 1 /\ nextId + 1 \in JobIds
    BY BoundsAssumption DEF TypeOK, StoreType, MintJob, JobIds
  <1>2. /\ Known' = Known \cup {nextId + 1}
        /\ nextId + 1 \notin Known
    BY <1>1 DEF Known
  <1>3. /\ job'[nextId + 1] = data
        /\ \A j \in Known : job'[j] = job[j]
    BY <1>1, <1>2, KnownIds DEF MintJob, TypeOK, StoreType
  <1>4. RootsKnown'
    <2> SUFFICES ASSUME NEW j \in Known'
                 PROVE  /\ job'[j] \in JobData
                        /\ job'[j].root \in Known'
                        /\ job'[job'[j].root].kind = job'[j].kind
                        /\ job'[j].root # j => job'[j].kind \in Recovered
                        /\ job'[j].wipe => job'[j].root = j /\ job'[j].kind \in VoiceKinds
      BY DEF RootsKnown, Recovered
    <2>1. CASE j \in Known
      BY <1>2, <1>3, <2>1 DEF RootInv, RootsKnown
    <2>2. CASE j = nextId + 1
      <3>1. CASE data.root = nextId + 1
        BY <1>2, <1>3, <2>2, <3>1
      <3>2. CASE /\ data.root \in Known
                 /\ job[data.root].kind = data.kind
                 /\ data.kind \in Recovered
                 /\ ~data.wipe
        BY <1>2, <1>3, <2>2, <3>2
      <3>3. QED
        BY <3>1, <3>2
    <2>3. QED
      BY <1>2, <2>1, <2>2
  <1>5. RowsKnown'
    BY <1>2 DEF RootInv, RowsKnown
  <1>6. QED
    BY <1>2, <1>3, <1>4, <1>5

(* What was known of recoveries and runs stays known. *)
LEMMA RecoveriesKept ==
  ASSUME RootInv, UNCHANGED <<rec, orphans>>, Known \subseteq Known', \A j \in Known : job'[j] = job[j]
  PROVE  RecoveriesKnown'
  BY DEF RootInv, RecoveriesKnown, Recovered

LEMMA RunsKept ==
  ASSUME TypeOK, RootInv, UNCHANGED <<run, wiped>>,
         Known \subseteq Known', \A j \in Known : job'[j] = job[j]
  PROVE  RunsKnown'
  BY KnownIds DEF RootInv, RunsKnown

LEMMA RequestsKept ==
  ASSUME RootInv, client' = client, Known \subseteq Known'
  PROVE  RequestsKnown'
  BY DEF RootInv, RequestsKnown

---------------------------------------------------------------------------
(* API requests *)

LEMMA ClientKeepsProcess ==
  ASSUME ClientNext
  PROVE  UNCHANGED <<run, rec, orphans, worker, wiped, undropped>>
  <1>1. PICK c \in Clients :
          \/ \E k \in Kinds, m \in Mods, w \in BOOLEAN : RequestStart(c, k, m, w)
          \/ \E j \in JobIds : GuardCheck(c, j) \/ RequestStop(c, j)
          \/ \E k \in Kinds, m \in Mods : RequestStopMod(c, k, m)
          \/ StartJob(c)
          \/ MarkSnapshot(c) \/ CancelSnapshot(c)
          \/ GuardDiscard(c) \/ EnqueueJob(c) \/ StopRemove(c)
          \/ MarkSnapshotFlag(c) \/ CancelFlag(c) \/ StopOrphanFlag(c)
          \/ StopLook(c) \/ StopRequest(c) \/ StopSweep(c) \/ RequestAborted(c)
          \/ StopPublish(c) \/ StopOrphanPublish(c) \/ StopGonePublish(c)
    BY DEF ClientNext
  <1>2. CASE \/ StartJob(c) \/ GuardDiscard(c) \/ EnqueueJob(c) \/ StopRemove(c)
             \/ StopPublish(c) \/ StopOrphanPublish(c) \/ StopGonePublish(c)
    BY <1>2 DEF StartJob, GuardDiscard, EnqueueJob, StopRemove, StopPublish, StopOrphanPublish,
       StopGonePublish, apiKeeps, runVars, recVars, historyVars
  <1>3. CASE \/ MarkSnapshot(c) \/ CancelSnapshot(c)
             \/ MarkSnapshotFlag(c) \/ CancelFlag(c) \/ StopOrphanFlag(c)
    BY <1>3 DEF MarkSnapshot, CancelSnapshot, WriteCancelled, MarkSnapshotFlag, CancelFlag, StopOrphanFlag,
       WriteFlag, apiKeeps, runVars, recVars, historyVars
  <1>4. CASE \/ \E k \in Kinds, m \in Mods, w \in BOOLEAN : RequestStart(c, k, m, w)
             \/ \E j \in JobIds : GuardCheck(c, j) \/ RequestStop(c, j)
             \/ \E k \in Kinds, m \in Mods : RequestStopMod(c, k, m)
             \/ StopLook(c) \/ StopRequest(c) \/ StopSweep(c) \/ RequestAborted(c)
    BY <1>4 DEF RequestStart, GuardCheck, RequestStop, RequestStopMod, StopLook, StopRequest,
       StopSweep, RequestAborted, apiKeeps, runVars, recVars, historyVars
  <1>5. QED
    BY <1>1, <1>2, <1>3, <1>4

(* The request that moves neither becomes an enqueue nor learns a new job. *)
QuietRequest(c) ==
  /\ \A d \in Clients \ {c} : client'[d] = client[d]
  /\ client'[c].at # "enqueue"
  /\ client'[c].data = client[c].data \/ ~client'[c].data.wipe

LEMMA QuietRequestsKnown ==
  ASSUME RootInv, NEW c \in Clients, QuietRequest(c), Known' = Known
  PROVE  RequestsKnown'
  BY DEF RootInv, RequestsKnown, QuietRequest

LEMMA RootClient ==
  ASSUME TypeOK, RootInv, ClientNext
  PROVE  RootInv'
  <1>0. /\ row \in [JobIds -> RowState]
        /\ client \in [Clients -> Request]
        /\ NoRequest.at = "idle" /\ ~NoRequest.data.wipe
    BY DEF TypeOK, StoreType, RequestType, NoRequest, NoData
  (* A step that allocates nothing. *)
  <1>q. ASSUME NEW c \in Clients, QuietRequest(c), UNCHANGED <<nextId, job>>, NoNewRow
        PROVE  RootInv'
    BY <1>q, NothingMinted, ClientKeepsProcess, RecoveriesKept, RunsKept, QuietRequestsKnown DEF RootInv
  <1>r. row' = row => NoNewRow
    BY DEF NoNewRow
  <1>g. ASSUME NEW c \in Clients, NEW step, step # "enqueue", Goto(c, step)
        PROVE  QuietRequest(c)
    BY <1>0, <1>g DEF Goto, Request, QuietRequest
  <1>l. ASSUME NEW c \in Clients, Leave(c)
        PROVE  QuietRequest(c)
    BY <1>0, <1>l DEF Leave, QuietRequest
  <1>1. ASSUME NEW c \in Clients, NEW k \in Kinds, NEW m \in Mods, NEW w \in BOOLEAN,
               RequestStart(c, k, m, w)
        PROVE  RootInv'
    <2>1. /\ \A d \in Clients \ {c} : client'[d] = client[d]
          /\ client'[c].at = "guard"
          /\ client'[c].data = [kind |-> k, mod |-> m, wipe |-> w, root |-> NoJob]
      BY <1>0, <1>1 DEF RequestStart, NoRequest
    <2>2. RequestsKnown' /\ UNCHANGED <<nextId, job, row>>
      BY <1>1, <2>1 DEF RequestStart, RootInv, RequestsKnown, Known, storeVars
    <2>3. QED
      BY <2>2, <1>r, NothingMinted, ClientKeepsProcess, RecoveriesKept, RunsKept DEF RootInv
  <1>2. ASSUME NEW c \in Clients, NEW j \in JobIds, GuardCheck(c, j)
        PROVE  RootInv'
    <2>1. QuietRequest(c)
      BY <1>0, <1>2, <1>l DEF GuardCheck, Request, QuietRequest
    <2>2. UNCHANGED <<nextId, job, row>>
      BY <1>2 DEF GuardCheck, storeVars
    <2>3. QED
      BY <2>1, <2>2, <1>q, <1>r
  <1>3. ASSUME NEW c \in Clients, NEW j \in JobIds, RequestStop(c, j)
        PROVE  RootInv'
    <2>1. QuietRequest(c)
      BY <1>0, <1>3 DEF RequestStop, QuietRequest, NoRequest
    <2>2. UNCHANGED <<nextId, job, row>>
      BY <1>3 DEF RequestStop, storeVars
    <2>3. QED
      BY <2>1, <2>2, <1>q, <1>r
  <1>4. ASSUME NEW c \in Clients, NEW k \in Kinds, NEW m \in Mods, RequestStopMod(c, k, m)
        PROVE  RootInv'
    <2>1. QuietRequest(c)
      BY <1>0, <1>4 DEF RequestStopMod, QuietRequest, NoRequest
    <2>2. UNCHANGED <<nextId, job, row>>
      BY <1>4 DEF RequestStopMod, storeVars
    <2>3. QED
      BY <2>1, <2>2, <1>q, <1>r
  <1>5. ASSUME NEW c \in Clients, GuardDiscard(c)
        PROVE  RootInv'
    <2>1. QuietRequest(c)
      BY <1>0, <1>5 DEF GuardDiscard, Request, QuietRequest
    <2>2. UNCHANGED <<nextId, job>> /\ NoNewRow
      BY <1>0, <1>5 DEF GuardDiscard, NoNewRow
    <2>3. QED
      BY <2>1, <2>2, <1>q
  <1>6. ASSUME NEW c \in Clients, EnqueueJob(c)
        PROVE  RootInv'
    <2>1. client[c].job \in Known
      BY <1>6 DEF EnqueueJob, RootInv, RequestsKnown
    <2>2. UNCHANGED <<nextId, job>> /\ NoNewRow
      BY <1>0, <1>6, <2>1 DEF EnqueueJob, AddRow, NoNewRow
    <2>3. QuietRequest(c)
      BY <1>6, <1>l DEF EnqueueJob
    <2>4. QED
      BY <2>2, <2>3, <1>q
  <1>7. ASSUME NEW c \in Clients, StopRemove(c)
        PROVE  RootInv'
    <2>1. UNCHANGED <<nextId, job>>
      BY <1>7 DEF StopRemove
    <2>2. \A i \in JobIds : RemoveRow(i) => NoNewRow
      <3>1. "waiting" # "absent" /\ "absent" \notin SettledState
        BY DEF SettledState
      <3>2. QED
        BY <1>0, <3>1 DEF RemoveRow, NoNewRow
    <2>3. client[c].job \in JobIds /\ RemoveRow(client[c].job)
      BY <1>7 DEF StopRemove, TypeOK, RequestType
    <2>4. QuietRequest(c)
      BY <1>7, <1>g DEF StopRemove
    <2>5. QED
      BY <2>1, <2>2, <2>3, <2>4, <1>q
  <1>8. ASSUME NEW c \in Clients,
               \/ MarkSnapshot(c) \/ CancelSnapshot(c)
               \/ MarkSnapshotFlag(c) \/ CancelFlag(c) \/ StopOrphanFlag(c)
        PROVE  RootInv'
    <2>1. UNCHANGED <<nextId, job, row>>
      BY <1>8 DEF MarkSnapshot, CancelSnapshot, WriteCancelled, MarkSnapshotFlag, CancelFlag,
         StopOrphanFlag, WriteFlag
    <2>2. QuietRequest(c)
      BY <1>8, <1>g DEF MarkSnapshot, CancelSnapshot, WriteCancelled, MarkSnapshotFlag, CancelFlag,
         StopOrphanFlag, WriteFlag
    <2>3. QED
      BY <2>1, <2>2, <1>q, <1>r
  <1>9. ASSUME NEW c \in Clients,
               \/ StopLook(c) \/ StopRequest(c) \/ StopSweep(c) \/ RequestAborted(c)
               \/ StopPublish(c) \/ StopOrphanPublish(c) \/ StopGonePublish(c)
        PROVE  RootInv'
    <2>1. UNCHANGED <<nextId, job, row>>
      BY <1>9 DEF StopLook, StopRequest, StopSweep, RequestAborted, StopPublish, StopOrphanPublish,
         StopGonePublish, storeVars
    <2>2. CASE \/ StopLook(c) \/ RequestAborted(c)
               \/ StopPublish(c) \/ StopOrphanPublish(c) \/ StopGonePublish(c)
      <3>1. QuietRequest(c)
        BY <2>2, <1>g, <1>l DEF StopLook, RequestAborted, StopPublish, StopOrphanPublish, StopGonePublish
      <3>2. QED
        BY <2>1, <3>1, <1>q, <1>r
    <2>3. CASE StopRequest(c)
      <3>1. QuietRequest(c)
        <4>1. CASE client' = [client EXCEPT ![c].at = "cancel", ![c].active = (row[client[c].job] = "active")]
          BY <1>0, <4>1 DEF Request, QuietRequest
        <4>2. QED
          BY <2>3, <4>1, <1>g, <1>l DEF StopRequest
      <3>2. QED
        BY <2>1, <3>1, <1>q, <1>r
    <2>4. CASE StopSweep(c)
      <3>1. QuietRequest(c)
        <4>1. ASSUME NEW todo, client' = [client EXCEPT ![c].top = FALSE, ![c].todo = todo]
              PROVE  QuietRequest(c)
          <5>1. client[c].at = "sweep"
            BY <2>4 DEF StopSweep
          <5>2. QED
            BY <1>0, <4>1, <5>1 DEF Request, QuietRequest
        <4>2. ASSUME NEW j, NEW todo,
                     client' = [client EXCEPT ![c].at = "request", ![c].job = j, ![c].todo = todo]
              PROVE  QuietRequest(c)
          BY <1>0, <4>2 DEF Request, QuietRequest
        <4>3. QED
          BY <2>4, <4>1, <4>2, <1>l DEF StopSweep
      <3>2. QED
        BY <2>1, <3>1, <1>q, <1>r
    <2>5. QED
      BY <1>9, <2>2, <2>3, <2>4
  <1>10. ASSUME NEW c \in Clients, StartJob(c)
         PROVE  RootInv'
    <2> DEFINE data == [client[c].data EXCEPT !.root = nextId + 1]
    <2>1. client[c].data \in JobData /\ nextId + 1 \in JobIds
      BY <1>10, BoundsAssumption DEF StartJob, MintJob, TypeOK, RequestType, StoreType, JobIds
    <2>2. /\ data \in JobData
          /\ data.root = nextId + 1
          /\ data.wipe = client[c].data.wipe
          /\ data.kind = client[c].data.kind
      BY <2>1 DEF JobData
    <2>3. MintJob(data) /\ row' = row
      BY <1>10 DEF StartJob
    <2>4. data.wipe => data.kind \in VoiceKinds
      BY <2>2 DEF RootInv, RequestsKnown
    <2> HIDE DEF data
    <2>5. /\ RootsKnown'
          /\ RowsKnown'
          /\ Known \subseteq Known'
          /\ nextId + 1 \in Known'
          /\ \A j \in Known : job'[j] = job[j]
      BY <2>2, <2>3, <2>4, JobMinted
    <2>6. /\ \A d \in Clients \ {c} : client'[d] = client[d]
          /\ client'[c].job = nextId + 1
          /\ client'[c].data = client[c].data
      BY <1>0, <1>10 DEF StartJob, Request
    <2>7. RequestsKnown'
      BY <2>5, <2>6 DEF RootInv, RequestsKnown
    <2>8. QED
      BY <2>5, <2>7, ClientKeepsProcess, RecoveriesKept, RunsKept DEF RootInv
  <1>11. QED
    BY <1>1, <1>2, <1>3, <1>4, <1>5, <1>6, <1>7, <1>8, <1>9, <1>10 DEF ClientNext

---------------------------------------------------------------------------
(* Runs *)

(* A step that moves one run which was running already. *)
LEMMA RunMoves ==
  ASSUME TypeOK, RootInv, NEW j \in JobIds, run[j] # "idle",
         NEW step, run' = [run EXCEPT ![j] = step], UNCHANGED <<nextId, job, wiped>>
  PROVE  RunsKnown'
  <1>1. \A k \in JobIds : run'[k] # "idle" => run[k] # "idle"
    BY DEF TypeOK, RunType
  <1>2. QED
    BY <1>1 DEF RootInv, RunsKnown, Known

LEMMA RootRun ==
  ASSUME TypeOK, RootInv, NEW j \in JobIds, RunNext(j)
  PROVE  RootInv'
  <1>0. /\ row \in [JobIds -> RowState]
        /\ run \in [JobIds -> RunStep]
    BY DEF TypeOK, StoreType, RunType
  <1>1. UNCHANGED <<nextId, job, rec, orphans, client>>
    BY DEF RunNext, Claim, Register, ReadSnapshot, ReadFlag, StartHandler, WipeVoice,
       FlushProgress, HandlerReturns, HandlerThrows, SystemLogWritten, WritePending,
       SettleRow, DeliverCancel, storeVars, runKeeps, recVars
  <1>2. NoNewRow
    <2>1. CASE Claim(j)
      BY <1>0, <2>1 DEF Claim, NoNewRow
    <2>2. CASE SettleRow(j)
      BY <1>0, <2>2 DEF SettleRow, NoNewRow
    <2>3. CASE ~Claim(j) /\ ~SettleRow(j)
      BY <2>3 DEF RunNext, Register, ReadSnapshot, ReadFlag, StartHandler, WipeVoice, FlushProgress,
         HandlerReturns, HandlerThrows, SystemLogWritten, WritePending, DeliverCancel, storeVars, NoNewRow
    <2>4. QED
      BY <2>1, <2>2, <2>3
  <1>3. RootsKnown' /\ RowsKnown' /\ Known' = Known
    BY <1>1, <1>2, NothingMinted
  <1>4. RecoveriesKnown' /\ RequestsKnown'
    BY <1>1, <1>3, RecoveriesKept, RequestsKept
  <1>5. RunsKnown'
    <2>1. CASE Claim(j)
      <3>1. j \in Known /\ wiped' = wiped /\ run' = [run EXCEPT ![j] = "claimed"]
        BY <2>1 DEF Claim, RootInv, RowsKnown
      <3>2. QED
        BY <1>0, <1>1, <1>3, <3>1 DEF RootInv, RunsKnown
    <2>2. CASE \/ Register(j) \/ StartHandler(j) \/ HandlerThrows(j) \/ SystemLogWritten(j) \/ SettleRow(j)
               \/ ReadSnapshot(j) \/ ReadFlag(j) \/ \E status \in TerminalStatus : HandlerReturns(j, status)
      <3>1. run[j] # "idle" /\ wiped' = wiped
        BY <2>2 DEF Register, StartHandler, HandlerThrows, SystemLogWritten, SettleRow, ReadSnapshot,
           ReadFlag, HandlerReturns
      <3>2. PICK step : run' = [run EXCEPT ![j] = step]
        <4>1. CASE \/ Register(j) \/ StartHandler(j) \/ HandlerThrows(j) \/ SystemLogWritten(j)
                   \/ SettleRow(j)
          BY <4>1 DEF Register, StartHandler, HandlerThrows, SystemLogWritten, SettleRow
        <4>2. CASE ReadSnapshot(j) \/ ReadFlag(j)
          BY <4>2 DEF ReadSnapshot, ReadFlag, SkipRun
        <4>3. CASE \E status \in TerminalStatus : HandlerReturns(j, status)
          BY <4>3 DEF HandlerReturns
        <4>4. QED
          BY <2>2, <4>1, <4>2, <4>3
      <3>3. QED
        BY <1>1, <3>1, <3>2, RunMoves
    <2>3. CASE WipeVoice(j)
      <3>1. run' = run /\ run[j] # "idle" /\ job[j].wipe /\ wiped' = wiped \cup {j}
        BY <2>3 DEF WipeVoice, runVars
      <3>2. QED
        BY <1>1, <1>3, <3>1 DEF RootInv, RunsKnown
    <2>4. CASE FlushProgress(j) \/ WritePending(j) \/ DeliverCancel(j)
      <3>1. UNCHANGED <<run, wiped>>
        BY <2>4 DEF FlushProgress, WritePending, DeliverCancel
      <3>2. QED
        BY <1>1, <1>3, <3>1, RunsKept
    <2>5. QED
      BY <2>1, <2>2, <2>3, <2>4 DEF RunNext
  <1>6. QED
    BY <1>3, <1>4, <1>5 DEF RootInv

---------------------------------------------------------------------------
(* The process and recovery *)

LEMMA RootProcess ==
  ASSUME TypeOK, RootInv, ProcessNext
  PROVE  RootInv'
  <1>1. UNCHANGED <<nextId, job, row, client, wiped>>
    BY DEF ProcessNext, Boot, StartWorkers, Subscribe, Shutdown, ShutdownDone, Crash, ProcessGone,
       storeVars, historyVars
  <1>2. RootsKnown' /\ RowsKnown' /\ Known' = Known
    <2>1. NoNewRow
      BY <1>1 DEF NoNewRow
    <2>2. QED
      BY <1>1, <2>1, NothingMinted
  <1>3. RequestsKnown'
    BY <1>1, <1>2, RequestsKept
  <1>4. CASE Boot
    <2>1. rec' = rec /\ run' = run
      BY <1>4 DEF Boot, runVars
    <2>2. \A j \in orphans' : row[j] = "active" /\ job[j].kind \in Recovered
      BY <1>4 DEF Boot, Recovered
    <2>3. RecoveriesKnown'
      BY <1>1, <1>2, <2>1, <2>2 DEF RootInv, RecoveriesKnown, RowsKnown, Recovered
    <2>4. QED
      BY <1>1, <1>2, <1>3, <2>1, <2>3, RunsKept DEF RootInv
  <1>5. CASE StartWorkers \/ Subscribe \/ Shutdown
    <2>1. UNCHANGED <<run, rec, orphans>>
      BY <1>5 DEF StartWorkers, Subscribe, Shutdown, runVars, recVars
    <2>2. QED
      BY <1>1, <1>2, <1>3, <2>1, RunsKept, RecoveriesKept DEF RootInv
  <1>6. CASE ShutdownDone \/ Crash
    <2>1. /\ \A j \in JobIds : run'[j] = "idle" /\ rec'[j].at = "none"
          /\ orphans' = {}
      BY <1>6 DEF ShutdownDone, Crash, ProcessGone, NoRec
    <2>2. RecoveriesKnown'
      BY <2>1 DEF RecoveriesKnown
    <2>3. RunsKnown'
      BY <1>1, <1>2, <2>1 DEF RootInv, RunsKnown
    <2>4. QED
      BY <1>2, <1>3, <2>2, <2>3 DEF RootInv
  <1>7. QED
    BY <1>4, <1>5, <1>6 DEF ProcessNext

(* A recovery that moves on, of a row it knows. *)
LEMMA RecoveryMoves ==
  ASSUME TypeOK, RootInv, NEW j \in JobIds, NEW step, RecGoto(j, step), step # "add",
         step # "none" => j \in Known /\ job[j].kind \in Recovered,
         UNCHANGED <<nextId, job, orphans>>
  PROVE  RecoveriesKnown'
  <1>1. /\ \A k \in JobIds \ {j} : rec'[k] = rec[k]
        /\ rec'[j].at = step
    BY DEF RecGoto, TypeOK, RecoveryType, Recovery
  <1>2. QED
    BY <1>1 DEF RootInv, RecoveriesKnown, Recovered, Known

(* A recovery that ends. *)
LEMMA RecoveryEnds ==
  ASSUME TypeOK, RootInv, NEW j \in JobIds, rec' = [rec EXCEPT ![j] = NoRec],
         orphans' = orphans \ {j}, UNCHANGED <<nextId, job>>
  PROVE  RecoveriesKnown'
  <1>1. /\ \A k \in JobIds \ {j} : rec'[k] = rec[k]
        /\ rec'[j].at = "none"
    BY DEF TypeOK, RecoveryType, NoRec
  <1>2. QED
    BY <1>1 DEF RootInv, RecoveriesKnown, Recovered, Known

LEMMA RootRecovery ==
  ASSUME TypeOK, RootInv, NEW j \in JobIds, RecoveryNext(j)
  PROVE  RootInv'
  <1>0. /\ row \in [JobIds -> RowState]
        /\ rec \in [JobIds -> Recovery]
    BY DEF TypeOK, StoreType, RecoveryType
  <1>1. UNCHANGED <<run, client, wiped>>
    BY DEF RecoveryNext, RecoverOrphan, RecoverRead, RecoverDrop, RecoverFailRead, RecoverFailWrite,
       RequeueMint, RequeueAdd, StallRow, StallRead, StallFind, recKeeps, runVars, historyVars
  <1>k. rec[j].at # "none" \/ j \in orphans => j \in Known /\ job[j].kind \in Recovered
    BY DEF RootInv, RecoveriesKnown
  (* A step that allocates nothing. *)
  <1>q. ASSUME UNCHANGED <<nextId, job>>, NoNewRow, RecoveriesKnown'
        PROVE  RootInv'
    BY <1>1, <1>q, NothingMinted, RequestsKept, RunsKept DEF RootInv
  <1>r. row' = row => NoNewRow
    BY DEF NoNewRow
  <1>2. CASE RecoverOrphan(j)
    <2>1. UNCHANGED <<nextId, job, row, orphans>>
      BY <1>2 DEF RecoverOrphan, storeVars
    <2>2. RecoveriesKnown'
      BY <1>2, <1>k, <2>1, RecoveryMoves DEF RecoverOrphan
    <2>3. QED
      BY <2>1, <2>2, <1>q, <1>r
  <1>3. CASE RecoverRead(j)
    <2>1. UNCHANGED <<nextId, job, row, orphans>>
      BY <1>3 DEF RecoverRead, storeVars
    <2>2. /\ \A k \in JobIds \ {j} : rec'[k] = rec[k]
          /\ rec'[j].at = "drop" /\ rec[j].at = "read"
      BY <1>0, <1>3 DEF RecoverRead, Recovery
    <2>3. RecoveriesKnown'
      BY <2>1, <2>2 DEF RootInv, RecoveriesKnown, Recovered, Known
    <2>4. QED
      BY <2>1, <2>3, <1>q, <1>r
  <1>4. CASE RecoverDrop(j)
    <2>1. UNCHANGED <<nextId, job>> /\ NoNewRow
      BY <1>0, <1>4 DEF RecoverDrop, NoNewRow
    <2>2. RecoveriesKnown'
      <3>1. CASE rec[j].stop
        BY <1>4, <2>1, <3>1, RecoveryEnds DEF RecoverDrop, RowDropped
      <3>2. CASE ~rec[j].stop
        BY <1>4, <1>k, <2>1, <3>2, RecoveryMoves DEF RecoverDrop, RowDropped
      <3>3. QED
        BY <3>1, <3>2
    <2>3. QED
      BY <2>1, <2>2, <1>q
  <1>5. CASE RecoverFailRead(j)
    <2>1. UNCHANGED <<nextId, job, row, orphans>>
      BY <1>5 DEF RecoverFailRead, storeVars
    <2>2. RecoveriesKnown'
      BY <1>5, <1>k, <2>1, RecoveryMoves DEF RecoverFailRead
    <2>3. QED
      BY <2>1, <2>2, <1>q, <1>r
  <1>6. CASE RecoverFailWrite(j)
    <2>1. UNCHANGED <<nextId, job, row, orphans>>
      BY <1>6 DEF RecoverFailWrite
    <2>2. RecoveriesKnown'
      BY <1>6, <1>k, <2>1, RecoveryMoves DEF RecoverFailWrite
    <2>3. QED
      BY <2>1, <2>2, <1>q, <1>r
  <1>7. CASE RequeueMint(j)
    <2> DEFINE data == RequeueData(j)
    <2>1. j \in Known /\ job[j].kind \in Recovered /\ job[j] \in JobData
      BY <1>7, <1>k DEF RequeueMint, RootInv, RootsKnown
    <2>2. /\ data \in JobData
          /\ data.root = job[j].root
          /\ data.kind = job[j].kind
          /\ ~data.wipe
      <3>1. CASE IsVoice(j)
        BY <2>1, <3>1 DEF RequeueData, ResumeData, JobData
      <3>2. CASE ~IsVoice(j)
        BY <2>1, <3>2 DEF RequeueData, IsVoice, RootInv, RootsKnown
      <3>3. QED
        BY <3>1, <3>2
    <2>3. /\ data.root \in Known
          /\ job[data.root].kind = data.kind
          /\ data.kind \in Recovered
      BY <2>1, <2>2 DEF RootInv, RootsKnown
    <2>4. MintJob(data) /\ row' = row /\ orphans' = orphans
      BY <1>7 DEF RequeueMint
    <2> HIDE DEF data
    <2>5. /\ RootsKnown'
          /\ RowsKnown'
          /\ Known \subseteq Known'
          /\ nextId + 1 \in Known'
          /\ \A k \in Known : job'[k] = job[k]
      BY <2>2, <2>3, <2>4, JobMinted
    <2>6. /\ \A k \in JobIds \ {j} : rec'[k] = rec[k]
          /\ rec'[j].new = nextId + 1
      BY <1>0, <1>7 DEF RequeueMint, Recovery
    <2>7. RecoveriesKnown'
      BY <2>1, <2>4, <2>5, <2>6 DEF RootInv, RecoveriesKnown, Recovered
    <2>8. QED
      BY <1>1, <2>5, <2>7, RequestsKept, RunsKept DEF RootInv
  <1>8. CASE RequeueAdd(j)
    <2>1. rec[j].new \in Known
      BY <1>8 DEF RequeueAdd, RootInv, RecoveriesKnown
    <2>2. UNCHANGED <<nextId, job>> /\ NoNewRow
      BY <1>0, <1>8, <2>1 DEF RequeueAdd, AddRow, NoNewRow
    <2>3. RecoveriesKnown'
      BY <1>8, <2>2, RecoveryEnds DEF RequeueAdd
    <2>4. QED
      BY <2>2, <2>3, <1>q
  <1>9. CASE StallRow(j)
    <2>1. UNCHANGED <<nextId, job, orphans>> /\ NoNewRow
      BY <1>0, <1>9 DEF StallRow, NoNewRow
    <2>2. j \in Known
      BY <1>9 DEF StallRow, RootInv, RowsKnown
    <2>3. PICK step :
            /\ RecGoto(j, step)
            /\ step # "add"
            /\ step # "none" => job[j].kind \in Recovered
      BY <1>9 DEF StallRow, IsLlm, IsVoice, Recovered
    <2>4. RecoveriesKnown'
      BY <2>1, <2>2, <2>3, RecoveryMoves
    <2>5. QED
      BY <2>1, <2>4, <1>q
  <1>10. CASE StallRead(j) \/ StallFind(j)
    <2>1. UNCHANGED <<nextId, job, row, orphans>>
      BY <1>10 DEF StallRead, StallFind, storeVars
    <2>2. PICK step : RecGoto(j, step) /\ step # "add"
      BY <1>10 DEF StallRead, StallFind
    <2>3. rec[j].at # "none"
      BY <1>10 DEF StallRead, StallFind
    <2>4. RecoveriesKnown'
      BY <1>k, <2>1, <2>2, <2>3, RecoveryMoves
    <2>5. QED
      BY <2>1, <2>4, <1>q, <1>r
  <1>11. QED
    BY <1>2, <1>3, <1>4, <1>5, <1>6, <1>7, <1>8, <1>9, <1>10 DEF RecoveryNext

LEMMA RootExpiry ==
  ASSUME TypeOK, RootInv, NEW j \in JobIds, SnapshotExpires(j)
  PROVE  RootInv'
  <1>1. UNCHANGED <<nextId, job, row, run, rec, orphans, client, wiped>> /\ NoNewRow
    BY DEF SnapshotExpires, runVars, recVars, historyVars, NoNewRow
  <1>2. QED
    BY <1>1, NothingMinted, RequestsKept, RecoveriesKept, RunsKept DEF RootInv

LEMMA RootNext == TypeOK /\ RootInv /\ [Next]_vars => RootInv'
  <1> SUFFICES ASSUME TypeOK, RootInv, [Next]_vars PROVE RootInv'
    OBVIOUS
  <1>1. CASE Next
    BY <1>1, RootClient, RootProcess, RootRun, RootRecovery, RootExpiry DEF Next
  <1>2. CASE UNCHANGED vars
    <2>1. UNCHANGED <<nextId, job, row, run, rec, orphans, client, wiped>> /\ NoNewRow
      BY <1>2 DEF vars, storeVars, runVars, recVars, historyVars, NoNewRow
    <2>2. QED
      BY <2>1, NothingMinted, RequestsKept, RecoveriesKept, RunsKept DEF RootInv
  <1>3. QED
    BY <1>1, <1>2

LEMMA RootInit == Init => RootInv
  <1> SUFFICES ASSUME Init PROVE RootInv
    OBVIOUS
  <1>1. Known = {}
    BY DEF Init, Known
  <1>2. QED
    BY <1>1 DEF Init, RootInv, RootsKnown, RowsKnown, RequestsKnown, RecoveriesKnown, RunsKnown,
       NoRequest, NoData, NoRec

LEMMA RootInvariant == Spec => []RootInv
  <1>1. QED
    BY RootInit, RootNext, TypeCorrect, PTL DEF Spec

(* "Regenerate all" clears the generated voice at most once: of the jobs a  *)
(* request went through only the first carries the wipe.                    *)
THEOREM WipedOnce == Spec => []WipedAtMostOnce
  <1>1. RootInv => WipedAtMostOnce
    BY DEF RootInv, RunsKnown, RootsKnown, WipedAtMostOnce
  <1>2. QED
    BY <1>1, RootInvariant, PTL

---------------------------------------------------------------------------
(* Recovery queues a request once. What a request is worth is carried by   *)
(* one id at a time: by its unfinished row, by the recovery of the row, or *)
(* by the API request about to add it. Recovery hands it on from the old   *)
(* id to the new one, after the old row was dropped.                       *)

Enqueues(c, j) == client[c].at = "enqueue" /\ client[c].job = j
Carries(j) ==
  \/ row[j] \in UnfinishedState
  \/ rec[j].at # "none"
  \/ row[j] = "absent" /\ \E c \in Clients : Enqueues(c, j)
Undroppable(request) == \E i \in undropped : job[i].root = request

OneCarrier ==
  \A j, k \in Known :
    (Carries(j) /\ Carries(k) /\ job[j].root = job[k].root) => j = k \/ Undroppable(job[j].root)

(* Past its drop a row is active only if the drop was refused. *)
Undecided == {"none", "read", "drop"}
DroppedFirst ==
  /\ undropped \subseteq Known
  /\ \A j \in JobIds : rec[j].at \notin Undecided => row[j] # "active" \/ j \in undropped
(* Recovery is about rows that were claimed; the new id is of the same request. *)
RecoversClaimed ==
  \A j \in JobIds :
    /\ rec[j].at # "none" \/ j \in orphans => row[j] \notin {"absent", "waiting"}
    /\ rec[j].at = "add" => job[rec[j].new].root = job[j].root
(* Boot recovery is alone: no run is alive, no stalled row is looked at.    *)
BootAlone ==
  /\ worker = "down" => \A j \in JobIds : rec[j].at = "none"
  /\ \A j \in JobIds : run[j] # "idle" => worker \in {"up", "closing"}
  /\ orphans # {} => worker = "booting" /\ \A j \in JobIds : rec[j].at \notin {"stallRead", "stallFind"}
OrphansCarry == \A j \in orphans : row[j] = "active" \/ rec[j].at # "none"

CarryInv ==
  /\ OneCarrier
  /\ DroppedFirst
  /\ RecoversClaimed
  /\ BootAlone
  /\ OrphansCarry

---------------------------------------------------------------------------
(* Frames *)

(* No id takes over what a request is worth. *)
LEMMA CarriersStay ==
  ASSUME OneCarrier, UNCHANGED <<nextId, job>>, undropped \subseteq undropped',
         \A j \in Known : Carries(j)' => Carries(j)
  PROVE  OneCarrier'
  BY DEF OneCarrier, Undroppable, Known

(* A step of the API, or of the queue, that recovery does not notice. *)
RowsQuiet ==
  \A j \in JobIds :
    /\ row'[j] = "active" <=> row[j] = "active"
    /\ row'[j] \in {"absent", "waiting"} => row[j] \in {"absent", "waiting"}

LEMMA CarryFrame ==
  ASSUME TypeOK, RootInv, CarryInv, UNCHANGED <<nextId, job, rec, orphans, run, worker, undropped>>, RowsQuiet,
         \A j \in Known : Carries(j)' => Carries(j)
  PROVE  CarryInv'
  <1>1. OneCarrier'
    BY CarriersStay DEF CarryInv
  <1>2. DroppedFirst' /\ RecoversClaimed'
    BY DEF CarryInv, DroppedFirst, RecoversClaimed, RowsQuiet, Known, Undecided
  <1>3. BootAlone' /\ OrphansCarry'
    BY DEF CarryInv, BootAlone, OrphansCarry, RowsQuiet, TypeOK, RecoveryType,
       RootInv, RecoveriesKnown
  <1>4. QED
    BY <1>1, <1>2, <1>3 DEF CarryInv

(* A new id: the first one of its request, or one nobody queued yet. *)
LEMMA CarriersMinted ==
  ASSUME TypeOK, RootInv, OneCarrier, NEW new, new = nextId + 1, NEW data \in JobData, MintJob(data),
         undropped \subseteq Known, undropped' = undropped, \A j \in Known : Carries(j)' => Carries(j),
         data.root = new \/ ~Carries(new)'
  PROVE  OneCarrier'
  <1>1. nextId \in Nat /\ nextId' = new /\ new \in JobIds
    BY BoundsAssumption DEF TypeOK, StoreType, MintJob, JobIds
  <1>2. Known' = Known \cup {new} /\ new \notin Known
    BY <1>1 DEF Known
  <1>3. job'[new] = data /\ \A j \in Known : job'[j] = job[j]
    BY <1>1, <1>2, KnownIds DEF MintJob, TypeOK, StoreType
  <1>4. \A j \in Known : job[j].root \in Known
    BY DEF RootInv, RootsKnown
  <1>5. SUFFICES ASSUME NEW j \in Known', NEW k \in Known', Carries(j)', Carries(k)',
                        job'[j].root = job'[k].root
                 PROVE  j = k \/ Undroppable(job[j].root)'
    BY DEF OneCarrier, Undroppable
  <1>6. CASE j \in Known /\ k \in Known
    <2>1. j = k \/ Undroppable(job[j].root)
      BY <1>3, <1>5, <1>6 DEF OneCarrier
    <2>2. QED
      BY <1>3, <1>6, <2>1 DEF Undroppable
  <1>7. CASE j = new \/ k = new
    BY <1>2, <1>3, <1>4, <1>5, <1>7
  <1>8. QED
    BY <1>2, <1>6, <1>7

---------------------------------------------------------------------------
(* API requests *)

(* Only a request that starts a job comes to its enqueue. *)
LEMMA OnlyStartsEnqueue ==
  ASSUME TypeOK, NEW c \in Clients,
         \/ \E k \in Kinds, m \in Mods, w \in BOOLEAN : RequestStart(c, k, m, w)
         \/ \E j \in JobIds : GuardCheck(c, j) \/ RequestStop(c, j)
         \/ \E k \in Kinds, m \in Mods : RequestStopMod(c, k, m)
         \/ MarkSnapshot(c) \/ CancelSnapshot(c)
         \/ GuardDiscard(c) \/ EnqueueJob(c) \/ StopRemove(c)
         \/ MarkSnapshotFlag(c) \/ CancelFlag(c) \/ StopOrphanFlag(c)
         \/ StopLook(c) \/ StopRequest(c) \/ StopSweep(c) \/ RequestAborted(c)
         \/ StopPublish(c) \/ StopOrphanPublish(c) \/ StopGonePublish(c)
  PROVE  \A d \in Clients, j \in JobIds : Enqueues(d, j)' => Enqueues(d, j)
  <1>0. client \in [Clients -> Request] /\ NoRequest.at = "idle"
    BY DEF TypeOK, RequestType, NoRequest
  <1>1. SUFFICES (\A d \in Clients \ {c} : client'[d] = client[d]) /\ client'[c].at # "enqueue"
    BY DEF Enqueues
  <1>g. ASSUME NEW step, step # "enqueue", Goto(c, step)
        PROVE  (\A d \in Clients \ {c} : client'[d] = client[d]) /\ client'[c].at # "enqueue"
    BY <1>0, <1>g DEF Goto, Request
  <1>l. ASSUME Leave(c)
        PROVE  (\A d \in Clients \ {c} : client'[d] = client[d]) /\ client'[c].at # "enqueue"
    BY <1>0, <1>l DEF Leave
  <1>2. CASE \/ \E k \in Kinds, m \in Mods, w \in BOOLEAN : RequestStart(c, k, m, w)
             \/ \E j \in JobIds : RequestStop(c, j)
             \/ \E k \in Kinds, m \in Mods : RequestStopMod(c, k, m)
    BY <1>0, <1>2 DEF RequestStart, RequestStop, RequestStopMod, NoRequest
  <1>3. CASE (\E j \in JobIds : GuardCheck(c, j)) \/ GuardDiscard(c)
    BY <1>0, <1>3, <1>l DEF GuardCheck, GuardDiscard, Request
  <1>4. CASE \/ MarkSnapshot(c) \/ CancelSnapshot(c)
             \/ MarkSnapshotFlag(c) \/ CancelFlag(c) \/ StopOrphanFlag(c)
    BY <1>4, <1>g DEF MarkSnapshot, CancelSnapshot, WriteCancelled, MarkSnapshotFlag, CancelFlag,
       StopOrphanFlag, WriteFlag
  <1>5. CASE \/ EnqueueJob(c) \/ StopRemove(c) \/ StopLook(c) \/ RequestAborted(c)
             \/ StopPublish(c) \/ StopOrphanPublish(c) \/ StopGonePublish(c)
    BY <1>5, <1>g, <1>l DEF EnqueueJob, StopRemove, StopLook, RequestAborted, StopPublish,
       StopOrphanPublish, StopGonePublish
  <1>6. CASE StopRequest(c)
    <2>1. ASSUME NEW active, client' = [client EXCEPT ![c].at = "cancel", ![c].active = active]
          PROVE  (\A d \in Clients \ {c} : client'[d] = client[d]) /\ client'[c].at # "enqueue"
      BY <1>0, <2>1 DEF Request
    <2>2. QED
      BY <1>6, <1>g, <1>l, <2>1 DEF StopRequest
  <1>7. CASE StopSweep(c)
    <2>1. ASSUME NEW todo, client' = [client EXCEPT ![c].top = FALSE, ![c].todo = todo]
          PROVE  (\A d \in Clients \ {c} : client'[d] = client[d]) /\ client'[c].at # "enqueue"
      <3>1. client[c].at = "sweep"
        BY <1>7 DEF StopSweep
      <3>2. QED
        BY <1>0, <2>1, <3>1 DEF Request
    <2>2. ASSUME NEW j, NEW todo,
                 client' = [client EXCEPT ![c].at = "request", ![c].job = j, ![c].todo = todo]
          PROVE  (\A d \in Clients \ {c} : client'[d] = client[d]) /\ client'[c].at # "enqueue"
      BY <1>0, <2>2 DEF Request
    <2>3. QED
      BY <1>7, <1>l, <2>1, <2>2 DEF StopSweep
  <1>8. QED
    BY <1>2, <1>3, <1>4, <1>5, <1>6, <1>7

LEMMA CarryClient ==
  ASSUME TypeOK, RootInv, CarryInv, ClientNext
  PROVE  CarryInv'
  <1>0. /\ row \in [JobIds -> RowState]
        /\ client \in [Clients -> Request]
        /\ Known \subseteq JobIds
    BY KnownIds DEF TypeOK, StoreType, RequestType
  <1>1. UNCHANGED <<run, rec, orphans, worker, undropped>>
    BY ClientKeepsProcess
  <1>2. PICK c \in Clients :
          \/ \E k \in Kinds, m \in Mods, w \in BOOLEAN : RequestStart(c, k, m, w)
          \/ \E j \in JobIds : GuardCheck(c, j) \/ RequestStop(c, j)
          \/ \E k \in Kinds, m \in Mods : RequestStopMod(c, k, m)
          \/ StartJob(c)
          \/ MarkSnapshot(c) \/ CancelSnapshot(c)
          \/ GuardDiscard(c) \/ EnqueueJob(c) \/ StopRemove(c)
          \/ MarkSnapshotFlag(c) \/ CancelFlag(c) \/ StopOrphanFlag(c)
          \/ StopLook(c) \/ StopRequest(c) \/ StopSweep(c) \/ RequestAborted(c)
          \/ StopPublish(c) \/ StopOrphanPublish(c) \/ StopGonePublish(c)
    BY DEF ClientNext
  <1>3. CASE StartJob(c)
    <2> DEFINE data == [client[c].data EXCEPT !.root = nextId + 1]
    <2>1. client[c].data \in JobData /\ nextId + 1 \in JobIds
      BY <1>3, BoundsAssumption DEF StartJob, MintJob, TypeOK, RequestType, StoreType, JobIds
    <2>2. data \in JobData /\ data.root = nextId + 1
      BY <2>1 DEF JobData
    <2>3. MintJob(data) /\ row' = row
      BY <1>3 DEF StartJob
    <2> HIDE DEF data
    <2>4. /\ \A d \in Clients \ {c} : client'[d] = client[d]
          /\ client'[c].job = nextId + 1
      BY <1>0, <1>3 DEF StartJob, Request
    <2>5. nextId + 1 \notin Known /\ \A j \in Known : job'[j] = job[j]
      BY <2>1, <2>3, KnownIds DEF MintJob, Known, TypeOK, StoreType
    <2>6. \A j \in Known : Carries(j)' => Carries(j)
      BY <1>1, <2>3, <2>4, <2>5 DEF Carries, Enqueues
    <2>7. OneCarrier'
      BY <1>1, <2>2, <2>3, <2>6, CarriersMinted DEF CarryInv, DroppedFirst
    <2>8. Known \subseteq Known'
      BY <2>3, KnownIds DEF MintJob, Known
    <2>9. DroppedFirst'
      BY <1>1, <2>3, <2>8 DEF CarryInv, DroppedFirst, Undecided
    <2>10. RecoversClaimed'
      BY <1>1, <2>3, <2>5 DEF CarryInv, RecoversClaimed, RootInv, RecoveriesKnown
    <2>11. BootAlone' /\ OrphansCarry'
      BY <1>1, <2>3 DEF CarryInv, BootAlone, OrphansCarry
    <2>12. QED
      BY <2>7, <2>9, <2>10, <2>11 DEF CarryInv
  <1>4. CASE ~StartJob(c)
    <2>1. \A d \in Clients, j \in JobIds : Enqueues(d, j)' => Enqueues(d, j)
      BY <1>2, <1>4, OnlyStartsEnqueue
    <2>2. CASE EnqueueJob(c)
      <3>1. /\ UNCHANGED <<nextId, job>>
            /\ client[c].job \in JobIds
            /\ row' = [row EXCEPT ![client[c].job] = IF @ = "absent" THEN "waiting" ELSE @]
        BY <2>2 DEF EnqueueJob, AddRow, TypeOK, RequestType
      <3>2. RowsQuiet
        BY <1>0, <3>1 DEF RowsQuiet
      <3>3. \A j \in Known : Carries(j)' => Carries(j)
        <4>1. Enqueues(c, client[c].job)
          BY <2>2 DEF EnqueueJob, Enqueues
        <4>2. \A j \in Known : row'[j] \in UnfinishedState =>
                               row[j] \in UnfinishedState \/ (row[j] = "absent" /\ j = client[c].job)
          BY <1>0, <3>1
        <4>3. \A j \in Known : row'[j] = "absent" => row[j] = "absent"
          BY <1>0, <3>1
        <4>4. QED
          BY <1>0, <1>1, <2>1, <4>1, <4>2, <4>3 DEF Carries
      <3>4. QED
        BY <1>1, <3>1, <3>2, <3>3, CarryFrame
    <2>3. CASE ~EnqueueJob(c)
      <3>1. UNCHANGED <<nextId, job>>
        BY <1>2, <1>4, <2>3 DEF RequestStart, GuardCheck, RequestStop, RequestStopMod, MarkSnapshot,
           CancelSnapshot, WriteCancelled, GuardDiscard, StopRemove, MarkSnapshotFlag, CancelFlag,
           StopOrphanFlag, WriteFlag, StopLook, StopRequest, StopSweep, RequestAborted, StopPublish,
           StopOrphanPublish, StopGonePublish, storeVars
      <3>2. \A j \in JobIds : row'[j] = row[j] \/ (row[j] # "active" /\ row'[j] = "removed")
        <4>1. CASE GuardDiscard(c) \/ StopRemove(c)
          <5>1. client[c].job \in JobIds
            BY <4>1 DEF GuardDiscard, StopRemove, TypeOK, RequestType
          <5>2. "active" \notin {"waiting"} \cup SettledState
            BY DEF SettledState
          <5>3. QED
            BY <1>0, <4>1, <5>1, <5>2 DEF GuardDiscard, StopRemove, RemoveRow
        <4>2. CASE ~(GuardDiscard(c) \/ StopRemove(c))
          BY <1>2, <1>4, <2>3, <4>2 DEF RequestStart, GuardCheck, RequestStop, RequestStopMod,
             MarkSnapshot, CancelSnapshot, WriteCancelled, MarkSnapshotFlag, CancelFlag, StopOrphanFlag,
             WriteFlag, StopLook, StopRequest, StopSweep, RequestAborted, StopPublish, StopOrphanPublish,
             StopGonePublish, storeVars
        <4>3. QED
          BY <4>1, <4>2
      <3>3. RowsQuiet
        BY <3>2 DEF RowsQuiet
      <3>4. \A j \in Known : Carries(j)' => Carries(j)
        BY <1>0, <1>1, <2>1, <3>2 DEF Carries, UnfinishedState
      <3>5. QED
        BY <1>1, <3>1, <3>3, <3>4, CarryFrame
    <2>4. QED
      BY <2>2, <2>3
  <1>5. QED
    BY <1>3, <1>4

---------------------------------------------------------------------------
(* Runs and the process *)

LEMMA CarryRun ==
  ASSUME TypeOK, RootInv, CarryInv, NEW j \in JobIds, RunNext(j)
  PROVE  CarryInv'
  <1>0. /\ row \in [JobIds -> RowState]
        /\ run \in [JobIds -> RunStep]
        /\ outcome[j] \in SettledState
        /\ Known \subseteq JobIds
    BY KnownIds DEF TypeOK, StoreType, RunType
  <1>1. UNCHANGED <<nextId, job, rec, orphans, client, worker, undropped>>
    BY DEF RunNext, Claim, Register, ReadSnapshot, ReadFlag, StartHandler, WipeVoice,
       FlushProgress, HandlerReturns, HandlerThrows, SystemLogWritten, WritePending,
       SettleRow, DeliverCancel, storeVars, runKeeps, recVars
  <1>2. DroppedFirst' /\ RecoversClaimed'
    <2>1. \A k \in JobIds : row'[k] \in {"absent", "waiting"} => row[k] \in {"absent", "waiting"}
      <3>1. CASE Claim(j) \/ SettleRow(j)
        BY <1>0, <3>1 DEF Claim, SettleRow, SettledState
      <3>2. CASE ~Claim(j) /\ ~SettleRow(j)
        BY <3>2 DEF RunNext, Register, ReadSnapshot, ReadFlag, StartHandler, WipeVoice, FlushProgress,
           HandlerReturns, HandlerThrows, SystemLogWritten, WritePending, DeliverCancel, storeVars
      <3>3. QED
        BY <3>1, <3>2
    <2>2. \A k \in JobIds : row'[k] = "active" => row[k] \in {"active", "waiting"}
      <3>1. CASE Claim(j) \/ SettleRow(j)
        BY <1>0, <3>1 DEF Claim, SettleRow, SettledState
      <3>2. CASE ~Claim(j) /\ ~SettleRow(j)
        BY <3>2 DEF RunNext, Register, ReadSnapshot, ReadFlag, StartHandler, WipeVoice, FlushProgress,
           HandlerReturns, HandlerThrows, SystemLogWritten, WritePending, DeliverCancel, storeVars
      <3>3. QED
        BY <3>1, <3>2
    <2>3. RecoversClaimed'
      BY <1>1, <2>1 DEF CarryInv, RecoversClaimed
    <2>4. DroppedFirst'
      BY <1>1, <2>2 DEF CarryInv, DroppedFirst, RecoversClaimed, Known, Undecided
    <2>5. QED
      BY <2>3, <2>4
  <1>3. OneCarrier'
    <2>1. \A k \in JobIds : /\ row'[k] \in UnfinishedState => row[k] \in UnfinishedState
                            /\ row'[k] = "absent" => row[k] = "absent"
      <3>1. CASE Claim(j) \/ SettleRow(j)
        BY <1>0, <3>1 DEF Claim, SettleRow, SettledState, UnfinishedState
      <3>2. CASE ~Claim(j) /\ ~SettleRow(j)
        BY <3>2 DEF RunNext, Register, ReadSnapshot, ReadFlag, StartHandler, WipeVoice, FlushProgress,
           HandlerReturns, HandlerThrows, SystemLogWritten, WritePending, DeliverCancel, storeVars
      <3>3. QED
        BY <3>1, <3>2
    <2>2. \A k \in Known : Carries(k)' => Carries(k)
      BY <1>0, <1>1, <2>1 DEF Carries, Enqueues
    <2>3. QED
      BY <1>1, <2>2, CarriersStay DEF CarryInv
  <1>4. BootAlone'
    <2>1. \A k \in JobIds : run'[k] # "idle" => run[k] # "idle" \/ worker = "up"
      <3>1. CASE Claim(j)
        BY <3>1 DEF Claim
      <3>2. CASE ReadSnapshot(j) \/ ReadFlag(j)
        BY <1>0, <3>2 DEF ReadSnapshot, ReadFlag, SkipRun
      <3>3. CASE ~(Claim(j) \/ ReadSnapshot(j) \/ ReadFlag(j))
        BY <1>0, <3>3 DEF RunNext, Register, StartHandler, WipeVoice, FlushProgress, HandlerReturns,
           HandlerThrows, SystemLogWritten, WritePending, SettleRow, DeliverCancel, runVars
      <3>4. QED
        BY <3>1, <3>2, <3>3
    <2>2. QED
      BY <1>1, <2>1 DEF CarryInv, BootAlone
  (* A row that settles has a run, which boot recovery never sees. *)
  <1>5. OrphansCarry'
    <2>1. CASE SettleRow(j)
      <3>1. run[j] # "idle"
        BY <2>1 DEF SettleRow
      <3>2. orphans = {}
        BY <3>1 DEF CarryInv, BootAlone
      <3>3. QED
        BY <1>1, <3>2 DEF OrphansCarry
    <2>2. CASE ~SettleRow(j)
      <3>1. \A k \in JobIds : row[k] = "active" => row'[k] = "active"
        <4>1. CASE Claim(j)
          BY <1>0, <4>1 DEF Claim
        <4>2. CASE ~Claim(j)
          BY <2>2, <4>2 DEF RunNext, Register, ReadSnapshot, ReadFlag, StartHandler, WipeVoice,
             FlushProgress, HandlerReturns, HandlerThrows, SystemLogWritten, WritePending, DeliverCancel,
             storeVars
        <4>3. QED
          BY <4>1, <4>2
      <3>2. orphans \subseteq JobIds
        BY DEF TypeOK, RecoveryType
      <3>3. QED
        BY <1>1, <3>1, <3>2 DEF CarryInv, OrphansCarry
    <2>3. QED
      BY <2>1, <2>2
  <1>6. QED
    BY <1>2, <1>3, <1>4, <1>5 DEF CarryInv

LEMMA CarryProcess ==
  ASSUME TypeOK, RootInv, CarryInv, ProcessNext
  PROVE  CarryInv'
  <1>1. UNCHANGED <<nextId, job, row, client, undropped>>
    BY DEF ProcessNext, Boot, StartWorkers, Subscribe, Shutdown, ShutdownDone, Crash, ProcessGone,
       storeVars, historyVars
  <1>2. CASE Boot
    <2>1. /\ UNCHANGED <<run, rec>>
          /\ worker = "down" /\ worker' = "booting"
          /\ \A k \in orphans' : k \in JobIds /\ row[k] = "active"
      BY <1>2 DEF Boot, runVars
    <2>2. \A k \in JobIds : rec[k].at = "none" /\ run[k] = "idle"
      BY <2>1 DEF CarryInv, BootAlone
    <2>3. OneCarrier'
      BY <1>1, <2>1, CarriersStay DEF CarryInv, Carries, Enqueues
    <2>4. DroppedFirst' /\ RecoversClaimed'
      BY <1>1, <2>1, <2>2 DEF CarryInv, DroppedFirst, RecoversClaimed, Known, Undecided
    <2>5. BootAlone' /\ OrphansCarry'
      BY <1>1, <2>1, <2>2 DEF BootAlone, OrphansCarry
    <2>6. QED
      BY <2>3, <2>4, <2>5 DEF CarryInv
  <1>3. CASE StartWorkers \/ Subscribe \/ Shutdown
    <2>1. /\ UNCHANGED <<run, rec, orphans>>
          /\ worker' \in {"up", "closing"}
          /\ worker # "booting" \/ orphans = {}
      BY <1>3 DEF StartWorkers, Subscribe, Shutdown, runVars, recVars
    <2>2. OneCarrier'
      BY <1>1, <2>1, CarriersStay DEF CarryInv, Carries, Enqueues
    <2>3. DroppedFirst' /\ RecoversClaimed' /\ OrphansCarry'
      BY <1>1, <2>1 DEF CarryInv, DroppedFirst, RecoversClaimed, OrphansCarry, Known, Undecided
    <2>4. BootAlone'
      BY <2>1 DEF CarryInv, BootAlone
    <2>5. QED
      BY <2>2, <2>3, <2>4 DEF CarryInv
  <1>4. CASE ShutdownDone \/ Crash
    <2>1. /\ \A k \in JobIds : run'[k] = "idle" /\ rec'[k].at = "none"
          /\ orphans' = {}
      BY <1>4 DEF ShutdownDone, Crash, ProcessGone, NoRec
    <2>2. OneCarrier'
      <3>1. \A k \in Known : Carries(k)' => Carries(k)
        BY <1>1, <2>1, KnownIds DEF Carries, Enqueues
      <3>2. QED
        BY <1>1, <3>1, CarriersStay DEF CarryInv
    <2>3. DroppedFirst' /\ RecoversClaimed' /\ OrphansCarry' /\ BootAlone'
      BY <1>1, <2>1 DEF CarryInv, DroppedFirst, RecoversClaimed, OrphansCarry, BootAlone, Known, Undecided
    <2>4. QED
      BY <2>2, <2>3 DEF CarryInv
  <1>5. QED
    BY <1>2, <1>3, <1>4 DEF ProcessNext

---------------------------------------------------------------------------
(* Recovery *)

(* A recovery that goes on, or gives up, without a new id. *)
LEMMA CarryGoesOn ==
  ASSUME TypeOK, RootInv, CarryInv, NEW j \in JobIds, Carries(j), worker # "down",
         \A k \in JobIds \ {j} : rec'[k] = rec[k],
         rec'[j].at # "add",
         UNCHANGED <<nextId, job, row, orphans, client, worker, run, undropped>>,
         rec'[j].at # "none" => row[j] \notin {"absent", "waiting"},
         rec'[j].at \notin Undecided => row[j] # "active" \/ j \in undropped,
         rec'[j].at \in {"none", "stallRead", "stallFind"} => orphans = {}
  PROVE  CarryInv'
  <1>1. OneCarrier'
    <2>1. \A k \in Known : Carries(k)' => Carries(k)
      BY KnownIds DEF Carries, Enqueues
    <2>2. QED
      BY <2>1, CarriersStay DEF CarryInv
  <1>2. DroppedFirst'
    BY DEF CarryInv, DroppedFirst, Known, Undecided
  <1>3. RecoversClaimed'
    BY DEF CarryInv, RecoversClaimed
  <1>4. BootAlone' /\ OrphansCarry'
    BY DEF CarryInv, BootAlone, OrphansCarry, TypeOK, RecoveryType
  <1>5. QED
    BY <1>1, <1>2, <1>3, <1>4 DEF CarryInv

LEMMA CarryRecovery ==
  ASSUME TypeOK, RootInv, CarryInv, NEW j \in JobIds, RecoveryNext(j)
  PROVE  CarryInv'
  <1>0. /\ row \in [JobIds -> RowState]
        /\ rec \in [JobIds -> Recovery]
        /\ orphans \subseteq JobIds
        /\ Known \subseteq JobIds
    BY KnownIds DEF TypeOK, StoreType, RecoveryType
  <1>1. UNCHANGED <<run, client, worker>>
    BY DEF RecoveryNext, RecoverOrphan, RecoverRead, RecoverDrop, RecoverFailRead, RecoverFailWrite,
       RequeueMint, RequeueAdd, StallRow, StallRead, StallFind, recKeeps, runVars
  <1>g. ASSUME NEW step, RecGoto(j, step)
        PROVE  (\A k \in JobIds \ {j} : rec'[k] = rec[k]) /\ rec'[j].at = step
    BY <1>0, <1>g DEF RecGoto, Recovery
  <1>c. rec[j].at # "none" => Carries(j) /\ worker # "down" /\ row[j] \notin {"absent", "waiting"}
    BY DEF Carries, CarryInv, BootAlone, RecoversClaimed
  <1>2. CASE RecoverOrphan(j)
    <2>1. /\ worker = "booting" /\ j \in orphans /\ rec[j].at = "none"
          /\ UNCHANGED <<nextId, job, row, orphans, undropped>>
      BY <1>2 DEF RecoverOrphan, storeVars, recKeeps, historyVars
    <2>2. row[j] = "active"
      BY <2>1 DEF CarryInv, OrphansCarry
    <2>3. (\A k \in JobIds \ {j} : rec'[k] = rec[k]) /\ rec'[j].at \in {"read", "drop"}
      BY <1>2, <1>g DEF RecoverOrphan
    <2>4. Carries(j)
      BY <2>2 DEF Carries, UnfinishedState
    <2>5. QED
      BY <1>1, <2>1, <2>2, <2>3, <2>4, CarryGoesOn DEF Undecided
  <1>3. CASE RecoverRead(j)
    <2>1. rec[j].at = "read" /\ UNCHANGED <<nextId, job, row, orphans, undropped>>
      BY <1>3 DEF RecoverRead, storeVars, recKeeps, historyVars
    <2>2. (\A k \in JobIds \ {j} : rec'[k] = rec[k]) /\ rec'[j].at = "drop"
      BY <1>0, <1>3 DEF RecoverRead, Recovery
    <2>3. QED
      BY <1>1, <1>c, <2>1, <2>2, CarryGoesOn DEF Undecided
  <1>4. CASE RecoverFailRead(j) \/ RecoverFailWrite(j)
    <2>1. /\ rec[j].at \in {"failRead", "failWrite"}
          /\ UNCHANGED <<nextId, job, row, orphans, undropped>>
      BY <1>4 DEF RecoverFailRead, RecoverFailWrite, storeVars, recKeeps, historyVars
    <2>2. (\A k \in JobIds \ {j} : rec'[k] = rec[k]) /\ rec'[j].at \in {"failWrite", "mint"}
      BY <1>4, <1>g DEF RecoverFailRead, RecoverFailWrite
    <2>3. row[j] # "active" \/ j \in undropped
      BY <2>1 DEF CarryInv, DroppedFirst, Undecided
    <2>4. QED
      BY <1>1, <1>c, <2>1, <2>2, <2>3, CarryGoesOn
  <1>5. CASE StallRead(j) \/ StallFind(j)
    <2>1. /\ rec[j].at \in {"stallRead", "stallFind"}
          /\ UNCHANGED <<nextId, job, row, orphans, undropped>>
      BY <1>5 DEF StallRead, StallFind, storeVars, recKeeps, historyVars
    <2>2. (\A k \in JobIds \ {j} : rec'[k] = rec[k]) /\ rec'[j].at \in {"none", "stallFind", "mint"}
      BY <1>5, <1>g DEF StallRead, StallFind
    <2>3. orphans = {} /\ (row[j] # "active" \/ j \in undropped)
      BY <2>1 DEF CarryInv, BootAlone, DroppedFirst, Undecided
    <2>4. QED
      BY <1>1, <1>c, <2>1, <2>2, <2>3, CarryGoesOn
  <1>6. CASE StallRow(j)
    <2>1. /\ worker = "up" /\ row[j] = "active"
          /\ row' = [row EXCEPT ![j] = "failed"]
          /\ UNCHANGED <<nextId, job, orphans, undropped>>
      BY <1>6 DEF StallRow, recKeeps, historyVars
    <2>2. (\A k \in JobIds \ {j} : rec'[k] = rec[k]) /\ rec'[j].at \in {"none", "stallRead", "stallFind"}
      BY <1>6, <1>g DEF StallRow
    <2>3. orphans = {}
      BY <2>1 DEF CarryInv, BootAlone
    <2>4. row'[j] = "failed" /\ \A k \in JobIds \ {j} : row'[k] = row[k]
      BY <1>0, <2>1
    <2>5. OneCarrier'
      <3>1. Carries(j)
        BY <2>1 DEF Carries, UnfinishedState
      <3>2. \A k \in Known : Carries(k)' => Carries(k)
        BY <1>0, <1>1, <2>2, <2>4, <3>1 DEF Carries, Enqueues
      <3>3. QED
        BY <2>1, <3>2, CarriersStay DEF CarryInv
    <2>6. DroppedFirst' /\ RecoversClaimed'
      BY <2>1, <2>2, <2>3, <2>4 DEF CarryInv, DroppedFirst, RecoversClaimed, Known, Undecided
    <2>7. BootAlone' /\ OrphansCarry'
      BY <1>1, <2>1, <2>3 DEF CarryInv, BootAlone, OrphansCarry
    <2>8. QED
      BY <2>5, <2>6, <2>7 DEF CarryInv
  <1>7. CASE RecoverDrop(j)
    <2>1. /\ rec[j].at = "drop"
          /\ \A k \in JobIds \ {j} : row'[k] = row[k]
          /\ row'[j] = row[j] \/ (row[j] = "active" /\ row'[j] \in {"failed", "removed"})
          /\ row'[j] # "active" \/ j \in undropped'
          /\ undropped \subseteq undropped' /\ undropped' \subseteq undropped \cup {j}
          /\ UNCHANGED <<nextId, job>>
      BY <1>0, <1>7 DEF RecoverDrop
    <2>2. /\ \A k \in JobIds \ {j} : rec'[k] = rec[k]
          /\ \/ rec'[j].at = "none" /\ orphans' = orphans \ {j}
             \/ rec'[j].at = "failRead" /\ orphans' = orphans
      BY <1>0, <1>7, <1>g DEF RecoverDrop, RowDropped, NoRec
    <2>3. OneCarrier'
      <3>1. \A k \in Known : Carries(k)' => Carries(k)
        BY <1>0, <1>1, <1>c, <2>1, <2>2 DEF Carries, Enqueues
      <3>2. QED
        BY <2>1, <3>1, CarriersStay DEF CarryInv
    <2>4. DroppedFirst'
      <3>1. j \in Known
        BY <2>1 DEF RootInv, RecoveriesKnown
      <3>2. QED
        BY <2>1, <2>2, <3>1 DEF CarryInv, DroppedFirst, Known, Undecided
    <2>5. RecoversClaimed'
      BY <1>c, <2>1, <2>2 DEF CarryInv, RecoversClaimed
    <2>6. BootAlone'
      BY <1>1, <1>c, <2>1, <2>2 DEF CarryInv, BootAlone
    <2>7. OrphansCarry'
      BY <1>0, <2>1, <2>2 DEF CarryInv, OrphansCarry
    <2>8. QED
      BY <2>3, <2>4, <2>5, <2>6, <2>7 DEF CarryInv
  (* The new id is of the same request and carries nothing yet. *)
  <1>8. CASE RequeueMint(j)
    <2> DEFINE data == RequeueData(j)
    <2>n. PICK new : new = nextId + 1
      OBVIOUS
    <2>1. /\ rec[j].at = "mint" /\ j \in Known /\ job[j] \in JobData
          /\ UNCHANGED <<row, orphans, undropped>>
      BY <1>8 DEF RequeueMint, recKeeps, historyVars, RootInv, RootsKnown, RecoveriesKnown
    <2>2. data \in JobData /\ data.root = job[j].root
      BY <2>1 DEF RequeueData, ResumeData, JobData
    <2>3. MintJob(data)
      BY <1>8 DEF RequeueMint
    <2> HIDE DEF data
    <2>4. /\ new \notin Known /\ new \in JobIds
          /\ job'[new] = data
          /\ Known \subseteq Known' /\ \A k \in Known : job'[k] = job[k]
      <3>1. nextId \in Nat /\ nextId' = new /\ new \in JobIds
        BY <2>3, <2>n, BoundsAssumption DEF TypeOK, StoreType, MintJob, JobIds
      <3>2. QED
        BY <2>3, <2>n, <3>1, KnownIds DEF MintJob, Known, TypeOK, StoreType
    <2>5. /\ \A k \in JobIds \ {j} : rec'[k] = rec[k]
          /\ rec'[j].at = "add" /\ rec'[j].new = new
      BY <1>0, <1>8, <2>n DEF RequeueMint, Recovery
    <2>6. ~Carries(new)'
      <3>1. row[new] = "absent" /\ rec[new].at = "none" /\ new # j
        BY <2>1, <2>4 DEF RootInv, RowsKnown, RecoveriesKnown
      <3>2. \A c \in Clients : ~Enqueues(c, new)
        BY <2>4 DEF RootInv, RequestsKnown, Enqueues
      <3>3. QED
        BY <1>1, <2>1, <2>4, <2>5, <3>1, <3>2 DEF Carries, Enqueues, UnfinishedState
    <2>7. \A k \in Known : Carries(k)' => Carries(k)
      BY <1>0, <1>1, <1>c, <2>1, <2>5 DEF Carries, Enqueues
    <2>8. OneCarrier'
      BY <2>1, <2>2, <2>3, <2>6, <2>7, <2>n, CarriersMinted DEF CarryInv, DroppedFirst
    <2>9. DroppedFirst'
      BY <2>1, <2>4, <2>5 DEF CarryInv, DroppedFirst, Undecided
    <2>10. RecoversClaimed'
      <3>1. \A k \in JobIds \ {j} : rec'[k].at = "add" => job'[rec'[k].new].root = job'[k].root
        BY <2>4, <2>5 DEF CarryInv, RecoversClaimed, RootInv, RecoveriesKnown
      <3>2. job'[rec'[j].new].root = job'[j].root
        BY <2>1, <2>2, <2>4, <2>5
      <3>3. QED
        BY <1>c, <2>1, <2>5, <3>1, <3>2 DEF CarryInv, RecoversClaimed
    <2>11. BootAlone' /\ OrphansCarry'
      BY <1>0, <1>1, <1>c, <2>1, <2>5 DEF CarryInv, BootAlone, OrphansCarry
    <2>12. QED
      BY <2>8, <2>9, <2>10, <2>11 DEF CarryInv
  (* The new id takes over; the old row is no longer unfinished. *)
  <1>9. CASE RequeueAdd(j)
    <2> DEFINE new == rec[j].new
    <2>1. /\ rec[j].at = "add" /\ new \in Known /\ j \in Known
          /\ job[new].root = job[j].root
          /\ UNCHANGED <<nextId, job, undropped>>
          /\ orphans' = orphans \ {j}
      BY <1>9 DEF RequeueAdd, recKeeps, historyVars, CarryInv, RecoversClaimed, RootInv, RecoveriesKnown
    <2> HIDE DEF new
    <2>2. row' = [row EXCEPT ![new] = IF @ = "absent" THEN "waiting" ELSE @]
      BY <1>9 DEF RequeueAdd, AddRow, new
    <2>3. (\A k \in JobIds \ {j} : rec'[k] = rec[k]) /\ rec'[j].at = "none"
      BY <1>0, <1>9 DEF RequeueAdd, NoRec
    <2>4. /\ \A k \in JobIds \ {new} : row'[k] = row[k]
          /\ \A k \in JobIds : row[k] # "absent" => row'[k] = row[k]
          /\ \A k \in JobIds : row'[k] \in {"absent", "waiting"} => row[k] \in {"absent", "waiting"}
          /\ \A k \in JobIds : row'[k] = "active" => row[k] = "active"
      BY <1>0, <2>1, <2>2
    <2>5. \A k \in Known : Carries(k)' => Carries(k) \/ k = new
      BY <1>0, <1>1, <1>c, <2>1, <2>3, <2>4 DEF Carries, Enqueues
    <2>6. Carries(j) /\ job[j].root = job[new].root
      BY <1>c, <2>1
    <2>7. row[j] \notin {"absent", "waiting"} /\ (row[j] # "active" \/ j \in undropped)
      BY <1>c, <2>1 DEF CarryInv, DroppedFirst, Undecided
    (* The old id carries no more. *)
    <2>c. Carries(j)' => Undroppable(job[j].root) \/ j = new
      <3>1. ASSUME j # new PROVE row'[j] = row[j]
        BY <1>0, <2>1, <2>4, <3>1
      <3>2. QED
        BY <2>3, <2>7, <3>1 DEF Carries, UnfinishedState, Undroppable
    <2>8. OneCarrier'
      <3>1. SUFFICES ASSUME NEW i \in Known, NEW k \in Known, Carries(i)', Carries(k)',
                            job[i].root = job[k].root, ~Undroppable(job[i].root)
                     PROVE  i = k
        BY <2>1 DEF OneCarrier, Undroppable, Known
      <3>2. \A h \in Known : Carries(h) /\ job[h].root = job[i].root => (h = i \/ ~Carries(i)) /\ (h = k \/ ~Carries(k))
        BY <3>1 DEF CarryInv, OneCarrier
      <3>3. CASE job[i].root # job[j].root
        BY <2>1, <2>5, <3>1, <3>2, <3>3
      <3>4. CASE job[i].root = job[j].root
        <4>1. Carries(i) => i = j
          BY <2>1, <2>6, <3>2, <3>4
        <4>2. Carries(k) => k = j
          BY <2>1, <2>6, <3>2, <3>4
        <4>3. QED
          BY <2>5, <2>c, <3>1, <3>4, <4>1, <4>2
      <3>5. QED
        BY <3>3, <3>4
    <2>9. DroppedFirst' /\ RecoversClaimed'
      BY <2>1, <2>3, <2>4 DEF CarryInv, DroppedFirst, RecoversClaimed, Known, Undecided
    <2>10. BootAlone' /\ OrphansCarry'
      BY <1>0, <1>1, <2>1, <2>3, <2>4 DEF CarryInv, BootAlone, OrphansCarry
    <2>11. QED
      BY <2>8, <2>9, <2>10 DEF CarryInv
  <1>10. QED
    BY <1>2, <1>3, <1>4, <1>5, <1>6, <1>7, <1>8, <1>9 DEF RecoveryNext

LEMMA CarryNext == TypeOK /\ RootInv /\ CarryInv /\ [Next]_vars => CarryInv'
  <1> SUFFICES ASSUME TypeOK, RootInv, CarryInv, [Next]_vars PROVE CarryInv'
    OBVIOUS
  <1>f. ASSUME UNCHANGED <<nextId, job, row, client, rec, orphans, run, worker, undropped>>
        PROVE  CarryInv'
    <2>1. RowsQuiet
      BY <1>f DEF RowsQuiet
    <2>2. \A j \in Known : Carries(j)' => Carries(j)
      BY <1>f DEF Carries, Enqueues
    <2>3. QED
      BY <1>f, <2>1, <2>2, CarryFrame
  <1>1. CASE \E j \in JobIds : SnapshotExpires(j)
    BY <1>1, <1>f DEF SnapshotExpires, runVars, recVars, historyVars
  <1>2. CASE ClientNext \/ ProcessNext \/ \E j \in JobIds : RunNext(j) \/ RecoveryNext(j)
    BY <1>2, CarryClient, CarryProcess, CarryRun, CarryRecovery
  <1>3. CASE UNCHANGED vars
    BY <1>3, <1>f DEF vars, storeVars, runVars, recVars, historyVars
  <1>4. QED
    BY <1>1, <1>2, <1>3 DEF Next

LEMMA CarryInit == Init => CarryInv
  <1> SUFFICES ASSUME Init PROVE CarryInv
    OBVIOUS
  <1>1. Known = {}
    BY DEF Init, Known
  <1>2. QED
    BY <1>1 DEF Init, CarryInv, OneCarrier, DroppedFirst, RecoversClaimed, BootAlone, OrphansCarry,
       NoRec, Undecided

(* Recovery queues no request twice, for any concurrency of the queues and  *)
(* any number of crashes, boots and stalls: two unfinished rows of one      *)
(* request are what a refused drop leaves, and nothing else.                *)
THEOREM RequestQueuedOnce == Spec => []QueuedOnce
  <1>1. RootInv /\ CarryInv => QueuedOnce
    <2> SUFFICES ASSUME RootInv, CarryInv, NEW j \in JobIds, NEW k \in JobIds,
                        row[j] \in UnfinishedState, row[k] \in UnfinishedState, job[j].root = job[k].root
                 PROVE  j = k \/ \E i \in undropped : job[i].root = job[j].root
      BY DEF QueuedOnce
    <2>1. j \in Known /\ k \in Known
      BY DEF RootInv, RowsKnown, UnfinishedState
    <2>2. QED
      BY <2>1 DEF CarryInv, OneCarrier, Carries, Undroppable
  <1>2. Spec => []CarryInv
    BY CarryInit, CarryNext, TypeCorrect, RootInvariant, PTL DEF Spec
  <1>3. QED
    BY <1>1, <1>2, RootInvariant, PTL

---------------------------------------------------------------------------
(* A queued job leaves the queue unexecuted only because someone stopped it. *)
(* Whoever takes a row out of the queue (the guard, a Stop) does it steps    *)
(* after it decided to, so what has to be shown is that what it decided on,  *)
(* a cancelled snapshot, is still there: nobody but the API writes the       *)
(* snapshot of a job that is still queued.                                   *)

Queued(j)   == row[j] \in {"absent", "waiting"}
CalledOff(j) == Queued(j) => snap[j] = "cancelled"

(* The steps of a Stop, or of the guard, that are about one job, and those  *)
(* of them that come after its snapshot was found or made cancelled.        *)
Aimed   == {"mark", "markFlag", "look", "cancel", "cancelFlag", "publish", "remove",
            "orphanPublish", "orphanFlag", "discard"}
Decided == Aimed \ {"mark", "cancel"}

UnissuedBlank == \A j \in JobIds \ Known : snap[j] = "none" /\ j \notin flag
QueuedLive    == \A j \in Known : Queued(j) => snap[j] \in {"running", "cancelled"}
FlagTells     == \A j \in flag : CalledOff(j)
StopTells(c) ==
  /\ client[c].at \in Aimed => client[c].job \in Known
  /\ client[c].at \in Decided => CalledOff(client[c].job)
(* Snapshot writes and recoveries are about rows that were claimed once. *)
WorkUnqueued ==
  \A j \in JobIds : pending[j] # <<>> \/ rec[j].at # "none" \/ j \in orphans => ~Queued(j)

DropInv ==
  /\ UnissuedBlank
  /\ QueuedLive
  /\ FlagTells
  /\ \A c \in Clients : StopTells(c)
  /\ WorkUnqueued

(* What a step may do to a job that stays queued: cancel it. *)
QueueKept ==
  /\ Known \subseteq Known'
  /\ \A j \in JobIds : Queued(j)' => Queued(j)
  /\ \A j \in Known : Queued(j)' => snap'[j] = snap[j] \/ snap'[j] = "cancelled"
  /\ \A j \in Known' \ Known : snap'[j] \in {"running", "cancelled"}
  /\ \A j \in JobIds \ Known' : snap'[j] = "none"

---------------------------------------------------------------------------
(* Frames *)

LEMMA CalledOffKept ==
  ASSUME QueueKept, NEW j \in Known, Known \subseteq JobIds, CalledOff(j)
  PROVE  CalledOff(j)'
  BY DEF QueueKept, CalledOff

LEMMA QueueStays ==
  ASSUME TypeOK, DropInv, QueueKept
  PROVE  QueuedLive'
  <1>1. SUFFICES ASSUME NEW j \in Known', Queued(j)'
                 PROVE  snap'[j] \in {"running", "cancelled"}
    BY DEF QueuedLive
  <1>2. CASE j \in Known
    BY <1>1, <1>2, KnownIds DEF QueueKept, DropInv, QueuedLive
  <1>3. CASE j \notin Known
    BY <1>1, <1>3 DEF QueueKept
  <1>4. QED
    BY <1>2, <1>3

(* Only jobs that are called off get the flag. *)
LEMMA FlagStays ==
  ASSUME TypeOK, DropInv, QueueKept, flag' \subseteq JobIds,
         \A j \in flag' \ flag : j \in Known /\ CalledOff(j)
  PROVE  UnissuedBlank' /\ FlagTells'
  <1>0. \A j \in flag' : j \in Known /\ CalledOff(j)
    BY DEF DropInv, UnissuedBlank, FlagTells, TypeOK, StoreType
  <1>1. UnissuedBlank'
    BY <1>0 DEF UnissuedBlank, QueueKept
  <1>2. FlagTells'
    BY <1>0, CalledOffKept, KnownIds DEF FlagTells
  <1>3. QED
    BY <1>1, <1>2

LEMMA StopStays ==
  ASSUME TypeOK, DropInv, QueueKept, NEW c \in Clients, client'[c] = client[c]
  PROVE  StopTells(c)'
  <1>1. Aimed' = Aimed /\ Decided' = Decided /\ Decided \subseteq Aimed
    BY DEF Aimed, Decided
  <1>2. CASE client[c].at \in Aimed
    <2>1. client[c].job \in Known /\ client[c].job \in Known'
      BY <1>2 DEF DropInv, StopTells, QueueKept
    <2>2. PICK j \in Known : client[c].job = j /\ client'[c].job = j
      BY <2>1
    <2>3. client[c].at \in Decided => CalledOff(j)'
      BY <1>2, <2>2, CalledOffKept, KnownIds DEF DropInv, StopTells
    <2>4. QED
      BY <1>1, <2>1, <2>2, <2>3 DEF StopTells, CalledOff, Queued
  <1>3. CASE client[c].at \notin Aimed
    BY <1>1, <1>3 DEF StopTells
  <1>4. QED
    BY <1>2, <1>3

(* A step that writes no snapshot and brings no row into the queue. *)
LEMMA QuietQueue ==
  ASSUME DropInv, UNCHANGED <<nextId, snap>>, \A j \in JobIds : Queued(j)' => Queued(j)
  PROVE  QueueKept
  BY DEF QueueKept, DropInv, UnissuedBlank, Known

(* A write of the API, or one about a row that is not queued any more. *)
LEMMA WriteQueue ==
  ASSUME TypeOK, DropInv, NEW i \in Known, NEW status \in TerminalStatus \cup {"running"},
         status = "cancelled" \/ ~Queued(i), Write(i, status), UNCHANGED <<nextId, row>>
  PROVE  QueueKept
  <1>1. snap \in [JobIds -> SnapshotStatus] /\ Known \subseteq JobIds /\ Known' = Known
    BY KnownIds DEF TypeOK, StoreType, Known
  <1>2. \A k \in JobIds : snap'[k] = IF k = i THEN SnapshotAfter(snap[k], status) ELSE snap[k]
    BY <1>1 DEF Write
  <1>3. status = "cancelled" => snap'[i] = "cancelled"
    BY <1>1, <1>2 DEF SnapshotAfter
  <1>4. \A j \in JobIds : Queued(j)' = Queued(j)
    BY DEF Queued
  <1>5. \A j \in Known : Queued(j)' => snap'[j] = snap[j] \/ snap'[j] = "cancelled"
    BY <1>1, <1>2, <1>3, <1>4
  <1>6. \A j \in JobIds \ Known' : snap'[j] = "none"
    BY <1>1, <1>2 DEF DropInv, UnissuedBlank
  <1>7. QED
    BY <1>1, <1>4, <1>5, <1>6 DEF QueueKept

LEMMA MintQueue ==
  ASSUME TypeOK, DropInv, NEW data, MintJob(data), row' = row
  PROVE  QueueKept
  <1>1. /\ snap \in [JobIds -> SnapshotStatus] /\ Known \subseteq JobIds
        /\ nextId \in Nat /\ nextId' = nextId + 1 /\ nextId + 1 \in JobIds
    BY KnownIds, BoundsAssumption DEF TypeOK, StoreType, MintJob, JobIds
  <1>2. Known' = Known \cup {nextId + 1} /\ nextId + 1 \notin Known
    BY <1>1 DEF Known
  <1>3. \A k \in JobIds : snap'[k] = IF k = nextId + 1 THEN SnapshotAfter(snap[k], "running") ELSE snap[k]
    BY <1>1 DEF MintJob, Write
  <1>4. snap'[nextId + 1] = "running"
    BY <1>1, <1>2, <1>3 DEF DropInv, UnissuedBlank, SnapshotAfter, TerminalStatus
  <1>5. \A j \in JobIds : Queued(j)' = Queued(j)
    BY DEF Queued
  <1>6. \A j \in JobIds \ Known' : snap'[j] = "none"
    BY <1>1, <1>2, <1>3 DEF DropInv, UnissuedBlank
  <1>7. QED
    BY <1>1, <1>2, <1>3, <1>4, <1>5, <1>6 DEF QueueKept

(* What recovery and the chains of writes are about is not queued again. *)
LEMMA WorkStays ==
  ASSUME DropInv, QueueKept, UNCHANGED <<pending, rec, orphans>>
  PROVE  WorkUnqueued'
  BY DEF DropInv, WorkUnqueued, QueueKept

---------------------------------------------------------------------------
(* API requests *)

LEMMA DropClient ==
  ASSUME TypeOK, RootInv, DropInv, ClientNext
  PROVE  DropInv'
  <1>0. /\ client \in [Clients -> Request]
        /\ row \in [JobIds -> RowState]
        /\ NoRequest.at = "idle"
        /\ Known \subseteq JobIds
    BY KnownIds DEF TypeOK, RequestType, StoreType, NoRequest
  <1>p. pending' = pending /\ rec' = rec /\ orphans' = orphans
    <2>1. PICK c \in Clients :
          \/ \E k \in Kinds, m \in Mods, w \in BOOLEAN : RequestStart(c, k, m, w)
          \/ \E j \in JobIds : GuardCheck(c, j) \/ RequestStop(c, j)
          \/ \E k \in Kinds, m \in Mods : RequestStopMod(c, k, m)
          \/ StartJob(c)
          \/ MarkSnapshot(c) \/ CancelSnapshot(c)
          \/ GuardDiscard(c) \/ EnqueueJob(c) \/ StopRemove(c)
          \/ MarkSnapshotFlag(c) \/ CancelFlag(c) \/ StopOrphanFlag(c)
          \/ StopLook(c) \/ StopRequest(c) \/ StopSweep(c) \/ RequestAborted(c)
          \/ StopPublish(c) \/ StopOrphanPublish(c) \/ StopGonePublish(c)
      BY DEF ClientNext
    <2>2. apiKeeps' = apiKeeps
      BY <2>1 DEF RequestStart, GuardCheck, RequestStop, RequestStopMod, StartJob, MarkSnapshot,
         CancelSnapshot, WriteCancelled, GuardDiscard, EnqueueJob, StopRemove, MarkSnapshotFlag, CancelFlag,
         StopOrphanFlag, WriteFlag, StopLook, StopRequest, StopSweep, RequestAborted, StopPublish,
         StopOrphanPublish, StopGonePublish
    <2>3. QED
      BY <2>2 DEF apiKeeps, runVars, recVars
  <1>a. \A c \in Clients, step \in ClientStep :
          Goto(c, step) => /\ \A d \in Clients \ {c} : client'[d] = client[d]
                           /\ client'[c].at = step
                           /\ client'[c].job = client[c].job
    BY <1>0 DEF Goto, Request
  <1>b. ASSUME NEW c \in Clients, Leave(c)
        PROVE  (\A d \in Clients \ {c} : client'[d] = client[d]) /\ client'[c].at = "idle"
    BY <1>0, <1>b DEF Leave
  <1>w. Aimed' = Aimed /\ Decided' = Decided /\ Decided \subseteq Aimed
    BY DEF Aimed, Decided
  <1>x. "idle" \notin Aimed /\ "guard" \notin Aimed /\ "sweep" \notin Aimed /\ "request" \notin Aimed
        /\ "enqueue" \notin Aimed /\ "gonePublish" \notin Aimed
    BY DEF Aimed
  (* A request whose next step is about no job in particular. *)
  <1>i. ASSUME NEW c \in Clients, client'[c].at \notin Aimed
        PROVE  StopTells(c)'
    BY <1>i, <1>w DEF StopTells
  (* A request that goes on with a job, nothing having changed. *)
  <1>s. ASSUME NEW c \in Clients, QueueKept, NEW j \in Known, CalledOff(j), client'[c].job = j
        PROVE  StopTells(c)'
    <2>1. CalledOff(j)' /\ j \in Known'
      BY <1>0, <1>s, CalledOffKept DEF QueueKept
    <2>2. QED
      BY <1>s, <2>1 DEF StopTells, CalledOff, Queued
  (* A step of one request, put together. *)
  <1>q. ASSUME NEW c \in Clients, QueueKept, StopTells(c)',
               \A d \in Clients \ {c} : client'[d] = client[d],
               flag' \subseteq JobIds, \A j \in flag' \ flag : j \in Known /\ CalledOff(j)
        PROVE  DropInv'
    <2>1. QueuedLive' /\ UnissuedBlank' /\ FlagTells' /\ WorkUnqueued'
      BY <1>p, <1>q, QueueStays, FlagStays, WorkStays
    <2>2. \A d \in Clients : StopTells(d)'
      BY <1>q, StopStays
    <2>3. QED
      BY <2>1, <2>2 DEF DropInv
  <1>f. flag' = flag => flag' \subseteq JobIds /\ \A j \in flag' \ flag : j \in Known /\ CalledOff(j)
    BY DEF TypeOK, StoreType
  <1>r. UNCHANGED <<nextId, snap, row>> => QueueKept
    BY QuietQueue DEF Queued
  <1>1. ASSUME NEW c \in Clients, NEW k \in Kinds, NEW m \in Mods, NEW w \in BOOLEAN,
               RequestStart(c, k, m, w)
        PROVE  DropInv'
    <2>1. (\A d \in Clients \ {c} : client'[d] = client[d]) /\ client'[c].at = "guard"
      BY <1>0, <1>1 DEF RequestStart, NoRequest
    <2>2. UNCHANGED <<nextId, snap, row, flag>>
      BY <1>1 DEF RequestStart, storeVars
    <2>3. QED
      BY <1>f, <1>i, <1>q, <1>r, <1>x, <2>1, <2>2
  <1>2. ASSUME NEW c \in Clients, NEW j \in JobIds, GuardCheck(c, j)
        PROVE  DropInv'
    <2>1. UNCHANGED <<nextId, snap, row, flag>> /\ QueueKept
      BY <1>2, <1>r DEF GuardCheck, storeVars
    <2>2. client[c].at = "guard"
      BY <1>2 DEF GuardCheck
    <2>3. CASE Disposition(snap[j], j \in flag, row[j]) = "discard"
               /\ client' = [client EXCEPT ![c].at = "discard", ![c].job = j]
      <3>1. (\A d \in Clients \ {c} : client'[d] = client[d]) /\ client'[c].job = j
        BY <1>0, <2>3 DEF Request
      <3>2. row[j] = "waiting" /\ (j \in flag \/ snap[j] \in TerminalStatus \/ snap[j] = "none")
        BY <2>3 DEF Disposition
      <3>3. j \in Known
        BY <3>2 DEF RootInv, RowsKnown
      <3>4. CalledOff(j)
        BY <3>2, <3>3 DEF CalledOff, Queued, DropInv, QueuedLive, FlagTells, TerminalStatus
      <3>5. StopTells(c)'
        BY <1>s, <2>1, <3>1, <3>3, <3>4
      <3>6. QED
        BY <1>f, <1>q, <2>1, <3>1, <3>5
    <2>4. CASE client' = [client EXCEPT ![c].todo = @ \ {j}]
      <3>1. (\A d \in Clients \ {c} : client'[d] = client[d]) /\ client'[c].at = "guard"
        BY <1>0, <2>2, <2>4 DEF Request
      <3>2. QED
        BY <1>f, <1>i, <1>q, <1>x, <2>1, <3>1
    <2>5. CASE Leave(c)
      BY <1>b, <1>f, <1>i, <1>q, <1>x, <2>1, <2>5
    <2>6. QED
      BY <1>2, <2>3, <2>4, <2>5 DEF GuardCheck
  <1>3. ASSUME NEW c \in Clients, GuardDiscard(c)
        PROVE  DropInv'
    <2>1. (\A d \in Clients \ {c} : client'[d] = client[d]) /\ client'[c].at = "guard"
      BY <1>0, <1>3 DEF GuardDiscard, Request
    <2>2. QueueKept
      <3>1. \A j \in JobIds : Queued(j)' => Queued(j)
        BY <1>0, <1>3 DEF GuardDiscard, Queued
      <3>2. QED
        BY <1>3, <3>1, QuietQueue DEF GuardDiscard
    <2>3. flag' = flag
      BY <1>3 DEF GuardDiscard
    <2>4. QED
      BY <1>f, <1>i, <1>q, <1>x, <2>1, <2>2, <2>3
  <1>4. ASSUME NEW c \in Clients, StartJob(c)
        PROVE  DropInv'
    <2>1. (\A d \in Clients \ {c} : client'[d] = client[d]) /\ client'[c].at = "enqueue"
      BY <1>0, <1>4 DEF StartJob, Request
    <2>2. QueueKept /\ flag' = flag
      BY <1>4, MintQueue DEF StartJob
    <2>3. QED
      BY <1>f, <1>i, <1>q, <1>x, <2>1, <2>2
  <1>5. ASSUME NEW c \in Clients, EnqueueJob(c)
        PROVE  DropInv'
    <2>1. QueueKept
      <3>1. \A j \in JobIds : Queued(j)' => Queued(j)
        BY <1>0, <1>5 DEF EnqueueJob, AddRow, Queued
      <3>2. QED
        BY <1>5, <3>1, QuietQueue DEF EnqueueJob
    <2>2. flag' = flag /\ Leave(c)
      BY <1>5 DEF EnqueueJob
    <2>3. QED
      BY <1>b, <1>f, <1>i, <1>q, <1>x, <2>1, <2>2
  <1>6. ASSUME NEW c \in Clients, NEW j \in JobIds, RequestStop(c, j)
        PROVE  DropInv'
    <2>1. UNCHANGED <<nextId, snap, row, flag>> /\ QueueKept
      BY <1>6, <1>r DEF RequestStop, storeVars
    <2>2. /\ \A d \in Clients \ {c} : client'[d] = client[d]
          /\ client'[c].at = IF snap[j] = "running" THEN "mark" ELSE "look"
          /\ client'[c].job = j
      BY <1>0, <1>6 DEF RequestStop, NoRequest
    <2>3. j \in Known
      BY <1>6, KnownIds DEF RequestStop, Known, JobIds
    <2>4. StopTells(c)'
      <3>1. CASE snap[j] = "running"
        <4>1. client'[c].at \notin Decided /\ client'[c].job \in Known'
          BY <2>1, <2>2, <2>3, <3>1 DEF Decided, QueueKept
        <4>2. QED
          BY <1>w, <4>1 DEF StopTells
      <3>2. CASE snap[j] # "running"
        <4>1. CalledOff(j)
          BY <2>3, <3>2 DEF CalledOff, DropInv, QueuedLive
        <4>2. QED
          BY <1>s, <2>1, <2>2, <2>3, <4>1
      <3>3. QED
        BY <3>1, <3>2
    <2>5. QED
      BY <1>f, <1>q, <2>1, <2>2, <2>4
  <1>7. ASSUME NEW c \in Clients, NEW k \in Kinds, NEW m \in Mods, RequestStopMod(c, k, m)
        PROVE  DropInv'
    <2>1. (\A d \in Clients \ {c} : client'[d] = client[d]) /\ client'[c].at = "sweep"
      BY <1>0, <1>7 DEF RequestStopMod, NoRequest
    <2>2. UNCHANGED <<nextId, snap, row, flag>>
      BY <1>7 DEF RequestStopMod, storeVars
    <2>3. QED
      BY <1>f, <1>i, <1>q, <1>r, <1>x, <2>1, <2>2
  <1>8. ASSUME NEW c \in Clients, MarkSnapshot(c) \/ CancelSnapshot(c)
        PROVE  DropInv'
    <2>1. /\ client[c].at \in {"mark", "cancel"}
          /\ Write(client[c].job, "cancelled")
          /\ UNCHANGED <<nextId, row, flag>>
      BY <1>8 DEF MarkSnapshot, CancelSnapshot, WriteCancelled
    <2>2. client[c].job \in Known
      BY <2>1 DEF DropInv, StopTells, Aimed
    <2>3. QueueKept
      BY <2>1, <2>2, WriteQueue DEF TerminalStatus
    <2>4. /\ \A d \in Clients \ {c} : client'[d] = client[d]
          /\ client'[c].job = client[c].job
      BY <1>8, <1>a DEF MarkSnapshot, CancelSnapshot, WriteCancelled, ClientStep
    <2>5. snap'[client[c].job] = "cancelled"
      BY <1>0, <2>1, <2>2 DEF Write, SnapshotAfter, TypeOK, StoreType
    <2>6. StopTells(c)'
      BY <2>2, <2>3, <2>4, <2>5 DEF StopTells, CalledOff, QueueKept
    <2>7. QED
      BY <1>f, <1>q, <2>1, <2>3, <2>4, <2>6
  <1>9. ASSUME NEW c \in Clients, MarkSnapshotFlag(c) \/ CancelFlag(c) \/ StopOrphanFlag(c)
        PROVE  DropInv'
    <2>1. /\ client[c].at \in {"markFlag", "cancelFlag", "orphanFlag"}
          /\ Mark(client[c].job)
          /\ UNCHANGED <<nextId, row, snap>>
      BY <1>9 DEF MarkSnapshotFlag, CancelFlag, StopOrphanFlag, WriteFlag
    <2>2. client[c].job \in Known /\ CalledOff(client[c].job)
      BY <2>1 DEF DropInv, StopTells, Aimed, Decided
    <2>3. QueueKept
      BY <1>r, <2>1
    <2>4. /\ \A d \in Clients \ {c} : client'[d] = client[d]
          /\ client'[c].job = client[c].job
      BY <1>9, <1>a DEF MarkSnapshotFlag, CancelFlag, StopOrphanFlag, WriteFlag, ClientStep
    <2>5. flag' \subseteq JobIds /\ \A j \in flag' \ flag : j \in Known /\ CalledOff(j)
      BY <1>0, <2>1, <2>2 DEF Mark, TypeOK, StoreType
    <2>6. StopTells(c)'
      BY <1>s, <2>2, <2>3, <2>4
    <2>7. QED
      BY <1>q, <2>3, <2>4, <2>5, <2>6
  <1>10. ASSUME NEW c \in Clients, StopLook(c)
         PROVE  DropInv'
    <2>1. UNCHANGED <<nextId, snap, row, flag>> /\ QueueKept
      BY <1>10, <1>r DEF StopLook, storeVars
    <2>2. client[c].job \in Known /\ CalledOff(client[c].job)
      BY <1>10 DEF StopLook, DropInv, StopTells, Aimed, Decided
    <2>3. CASE Leave(c)
      BY <1>b, <1>f, <1>i, <1>q, <1>x, <2>1, <2>3
    <2>4. CASE Goto(c, "orphanPublish") \/ Goto(c, "request")
      <3>1. /\ \A d \in Clients \ {c} : client'[d] = client[d]
            /\ client'[c].job = client[c].job
        BY <1>a, <2>4 DEF ClientStep
      <3>2. StopTells(c)'
        BY <1>s, <2>1, <2>2, <3>1
      <3>3. QED
        BY <1>f, <1>q, <2>1, <3>1, <3>2
    <2>5. QED
      BY <1>10, <2>3, <2>4 DEF StopLook
  <1>11. ASSUME NEW c \in Clients, StopRequest(c)
         PROVE  DropInv'
    <2>1. UNCHANGED <<nextId, snap, row, flag>> /\ QueueKept
      BY <1>11, <1>r DEF StopRequest, storeVars
    <2>2. client[c].job \in JobIds
      BY <1>11 DEF StopRequest, TypeOK, RequestType
    <2>3. CASE Leave(c)
      BY <1>b, <1>f, <1>i, <1>q, <1>x, <2>1, <2>3
    <2>4. CASE Goto(c, "sweep") \/ Goto(c, "gonePublish")
      <3>1. (\A d \in Clients \ {c} : client'[d] = client[d]) /\ client'[c].at \notin Aimed
        BY <1>a, <1>x, <2>4 DEF ClientStep
      <3>2. QED
        BY <1>f, <1>i, <1>q, <2>1, <3>1
    <2>5. ASSUME row[client[c].job] \in UnfinishedState, NEW flagged,
                 client' = [client EXCEPT ![c].at = "cancel", ![c].active = flagged]
          PROVE  DropInv'
      <3>1. /\ \A d \in Clients \ {c} : client'[d] = client[d]
            /\ client'[c].at = "cancel"
            /\ client'[c].job = client[c].job
        BY <1>0, <2>5 DEF Request
      <3>2. client[c].job \in Known
        BY <2>2, <2>5 DEF UnfinishedState, RootInv, RowsKnown
      <3>3. StopTells(c)'
        BY <1>w, <2>1, <3>1, <3>2 DEF StopTells, Decided, QueueKept
      <3>4. QED
        BY <1>f, <1>q, <2>1, <3>1, <3>3
    <2>6. QED
      BY <1>11, <2>3, <2>4, <2>5 DEF StopRequest
  <1>12. ASSUME NEW c \in Clients, StopPublish(c) \/ StopOrphanPublish(c)
         PROVE  DropInv'
    <2>1. UNCHANGED <<nextId, snap, row, flag>> /\ QueueKept
      BY <1>12, <1>r DEF StopPublish, StopOrphanPublish, storeVars
    <2>2. client[c].job \in Known /\ CalledOff(client[c].job)
      BY <1>12 DEF StopPublish, StopOrphanPublish, DropInv, StopTells, Aimed, Decided
    <2>3. /\ \A d \in Clients \ {c} : client'[d] = client[d]
          /\ client'[c].job = client[c].job
      BY <1>a, <1>12 DEF StopPublish, StopOrphanPublish, ClientStep
    <2>4. StopTells(c)'
      BY <1>s, <2>1, <2>2, <2>3
    <2>5. QED
      BY <1>f, <1>q, <2>1, <2>3, <2>4
  <1>13. ASSUME NEW c \in Clients, StopGonePublish(c) \/ RequestAborted(c)
         PROVE  DropInv'
    <2>1. UNCHANGED <<nextId, snap, row, flag>> /\ QueueKept
      BY <1>13, <1>r DEF StopGonePublish, RequestAborted, storeVars
    <2>2. (\A d \in Clients \ {c} : client'[d] = client[d]) /\ client'[c].at \in {"idle", "sweep"}
      BY <1>a, <1>b, <1>13 DEF StopGonePublish, RequestAborted, ClientStep
    <2>3. QED
      BY <1>f, <1>i, <1>q, <1>x, <2>1, <2>2
  <1>14. ASSUME NEW c \in Clients, StopRemove(c)
         PROVE  DropInv'
    <2>1. (\A d \in Clients \ {c} : client'[d] = client[d]) /\ client'[c].at = "sweep"
      BY <1>a, <1>14 DEF StopRemove, ClientStep
    <2>2. QueueKept
      <3>1. \A j \in JobIds : Queued(j)' => Queued(j)
        BY <1>0, <1>14 DEF StopRemove, RemoveRow, Queued
      <3>2. QED
        BY <1>14, <3>1, QuietQueue DEF StopRemove
    <2>3. flag' = flag
      BY <1>14 DEF StopRemove
    <2>4. QED
      BY <1>f, <1>i, <1>q, <1>x, <2>1, <2>2, <2>3
  <1>15. ASSUME NEW c \in Clients, StopSweep(c)
         PROVE  DropInv'
    <2>1. UNCHANGED <<nextId, snap, row, flag>> /\ QueueKept
      BY <1>15, <1>r DEF StopSweep, storeVars
    <2>2. client[c].at = "sweep"
      BY <1>15 DEF StopSweep
    <2>3. (\A d \in Clients \ {c} : client'[d] = client[d]) /\ client'[c].at \notin Aimed
      <3>1. ASSUME NEW todo, client' = [client EXCEPT ![c].top = FALSE, ![c].todo = todo]
            PROVE  (\A d \in Clients \ {c} : client'[d] = client[d]) /\ client'[c].at \notin Aimed
        BY <1>0, <1>x, <2>2, <3>1 DEF Request
      <3>2. ASSUME NEW j, NEW todo,
                   client' = [client EXCEPT ![c].at = "request", ![c].job = j, ![c].todo = todo]
            PROVE  (\A d \in Clients \ {c} : client'[d] = client[d]) /\ client'[c].at \notin Aimed
        BY <1>0, <1>x, <3>2 DEF Request
      <3>3. QED
        BY <1>15, <1>b, <1>x, <3>1, <3>2 DEF StopSweep
    <2>4. QED
      BY <1>f, <1>i, <1>q, <2>1, <2>3
  <1>16. QED
    BY <1>1, <1>2, <1>3, <1>4, <1>5, <1>6, <1>7, <1>8, <1>9, <1>10, <1>11, <1>12, <1>13, <1>14,
       <1>15 DEF ClientNext

---------------------------------------------------------------------------
(* The worker: what it writes about has left the queue *)

(* A step of the worker, put together. *)
LEMMA WorkerStep ==
  ASSUME TypeOK, DropInv, QueueKept, client' = client, flag' \subseteq JobIds,
         \A j \in flag' \ flag : j \in Known /\ ~Queued(j),
         \A j \in JobIds : pending'[j] # <<>> \/ rec'[j].at # "none" \/ j \in orphans' => ~Queued(j)'
  PROVE  DropInv'
  <1>1. QueuedLive' /\ UnissuedBlank' /\ FlagTells'
    BY QueueStays, FlagStays DEF CalledOff
  <1>2. \A c \in Clients : StopTells(c)'
    BY StopStays
  <1>3. QED
    BY <1>1, <1>2 DEF DropInv, WorkUnqueued

LEMMA DropRun ==
  ASSUME TypeOK, RootInv, PhaseInv, DropInv, NEW j \in JobIds, RunNext(j)
  PROVE  DropInv'
  <1>0. /\ row \in [JobIds -> RowState]
        /\ pending \in [JobIds -> Seq(PendingWrite)]
        /\ outcome[j] \in SettledState
        /\ flag \subseteq JobIds
    BY DEF TypeOK, StoreType, RunType
  <1>1. UNCHANGED <<nextId, client, rec, orphans>>
    BY DEF RunNext, Claim, Register, ReadSnapshot, ReadFlag, StartHandler, WipeVoice,
       FlushProgress, HandlerReturns, HandlerThrows, SystemLogWritten, WritePending,
       SettleRow, DeliverCancel, storeVars, runKeeps, recVars
  <1>2. \A k \in JobIds : Queued(k)' => Queued(k)
    <2>1. CASE Claim(j)
      BY <1>0, <2>1 DEF Claim, Queued
    <2>2. CASE SettleRow(j)
      BY <1>0, <2>2 DEF SettleRow, Queued, SettledState
    <2>3. CASE ~Claim(j) /\ ~SettleRow(j)
      BY <2>3 DEF RunNext, Register, ReadSnapshot, ReadFlag, StartHandler, WipeVoice, FlushProgress,
         HandlerReturns, HandlerThrows, SystemLogWritten, WritePending, DeliverCancel, storeVars, Queued
    <2>4. QED
      BY <2>1, <2>2, <2>3
  (* Chains of writes grow for runs, and shrink for those that have one. *)
  <1>3. \A k \in JobIds : pending'[k] # <<>> => ~Queued(k)
    <2>1. CASE \/ Claim(j) \/ Register(j) \/ WipeVoice(j) \/ SystemLogWritten(j) \/ SettleRow(j)
               \/ DeliverCancel(j)
      <3>1. pending' = pending
        BY <2>1 DEF Claim, Register, WipeVoice, SystemLogWritten, SettleRow, DeliverCancel, runVars
      <3>2. QED
        BY <3>1 DEF DropInv, WorkUnqueued
    <2>2. CASE \/ ReadSnapshot(j) \/ ReadFlag(j) \/ StartHandler(j) \/ FlushProgress(j) \/ HandlerThrows(j)
               \/ \E status \in TerminalStatus : HandlerReturns(j, status)
      <3>1. run[j] # "idle"
        BY <2>2 DEF ReadSnapshot, ReadFlag, StartHandler, FlushProgress, HandlerThrows, HandlerReturns
      <3>2. \A k \in JobIds \ {j} : pending'[k] = pending[k]
        <4>1. \A statuses : Push(j, statuses) => \A k \in JobIds \ {j} : pending'[k] = pending[k]
          BY <1>0 DEF Push
        <4>2. pending' = pending \/ \E statuses : Push(j, statuses)
          BY <2>2 DEF ReadSnapshot, ReadFlag, SkipRun, StartHandler, FlushProgress, HandlerThrows,
             HandlerReturns
        <4>3. QED
          BY <4>1, <4>2
      <3>3. ~Queued(j)
        BY <3>1 DEF PhaseInv, Queued
      <3>4. QED
        BY <3>2, <3>3 DEF DropInv, WorkUnqueued
    <2>3. CASE WritePending(j)
      <3>1. pending[j] # <<>> /\ \A k \in JobIds \ {j} : pending'[k] = pending[k]
        BY <1>0, <2>3 DEF WritePending
      <3>2. QED
        BY <3>1 DEF DropInv, WorkUnqueued
    <2>4. QED
      BY <2>1, <2>2, <2>3 DEF RunNext
  <1>4. CASE ~WritePending(j)
    <2>1. UNCHANGED <<snap, flag>>
      BY <1>4 DEF RunNext, Claim, Register, ReadSnapshot, ReadFlag, StartHandler, WipeVoice,
         FlushProgress, HandlerReturns, HandlerThrows, SystemLogWritten, SettleRow, DeliverCancel, storeVars
    <2>2. QueueKept
      BY <1>1, <1>2, <2>1, QuietQueue
    <2>3. \A k \in JobIds : pending'[k] # <<>> \/ rec'[k].at # "none" \/ k \in orphans' => ~Queued(k)'
      BY <1>1, <1>2, <1>3 DEF DropInv, WorkUnqueued
    <2>4. QED
      BY <1>0, <1>1, <2>1, <2>2, <2>3, WorkerStep
  <1>5. CASE WritePending(j)
    <2>1. pending[j] # <<>> /\ ~Queued(j) /\ row' = row
      BY <1>5 DEF WritePending, DropInv, WorkUnqueued
    <2>2. j \in Known
      BY <2>1 DEF RootInv, RowsKnown, Queued
    <2>3. QueueKept
      <3>1. CASE snap' = snap
        BY <1>1, <1>2, <3>1, QuietQueue
      <3>2. CASE Head(pending[j]) # "mark" /\ Write(j, Head(pending[j]))
        <4>1. Head(pending[j]) \in PendingWrite
          BY <1>0, <2>1
        <4>2. Head(pending[j]) \in TerminalStatus \cup {"running"}
          BY <3>2, <4>1 DEF PendingWrite
        <4>3. QED
          BY <1>1, <2>1, <2>2, <3>2, <4>2, WriteQueue
      <3>3. QED
        BY <1>5, <3>1, <3>2 DEF WritePending
    <2>4. flag' \subseteq JobIds /\ \A k \in flag' \ flag : k \in Known /\ ~Queued(k)
      <3>1. flag' = flag \/ flag' = flag \cup {j}
        BY <1>5 DEF WritePending, Mark
      <3>2. QED
        BY <1>0, <2>1, <2>2, <3>1
    <2>5. \A k \in JobIds : pending'[k] # <<>> \/ rec'[k].at # "none" \/ k \in orphans' => ~Queued(k)'
      BY <1>1, <1>2, <1>3 DEF DropInv, WorkUnqueued
    <2>6. QED
      BY <1>1, <2>3, <2>4, <2>5, WorkerStep
  <1>6. QED
    BY <1>4, <1>5

LEMMA DropProcess ==
  ASSUME TypeOK, DropInv, ProcessNext
  PROVE  DropInv'
  <1>1. UNCHANGED <<nextId, row, snap, flag, client>>
    BY DEF ProcessNext, Boot, StartWorkers, Subscribe, Shutdown, ShutdownDone, Crash, ProcessGone, storeVars
  <1>2. QueueKept
    BY <1>1, QuietQueue DEF Queued
  <1>3. \A j \in JobIds : pending'[j] # <<>> \/ rec'[j].at # "none" \/ j \in orphans' => ~Queued(j)'
    <2>1. CASE Boot
      <3>1. pending' = pending /\ rec' = rec
        BY <2>1 DEF Boot, runVars
      <3>2. \A j \in orphans' : row[j] = "active"
        BY <2>1 DEF Boot
      <3>3. QED
        BY <1>1, <3>1, <3>2 DEF DropInv, WorkUnqueued, Queued
    <2>2. CASE StartWorkers \/ Subscribe \/ Shutdown
      <3>1. UNCHANGED <<pending, rec, orphans>>
        BY <2>2 DEF StartWorkers, Subscribe, Shutdown, runVars, recVars
      <3>2. QED
        BY <1>1, <3>1 DEF DropInv, WorkUnqueued, Queued
    <2>3. CASE ShutdownDone \/ Crash
      BY <2>3 DEF ShutdownDone, Crash, ProcessGone, NoRec
    <2>4. QED
      BY <2>1, <2>2, <2>3 DEF ProcessNext
  <1>4. QED
    BY <1>1, <1>2, <1>3, WorkerStep DEF TypeOK, StoreType

LEMMA DropRecovery ==
  ASSUME TypeOK, RootInv, DropInv, NEW j \in JobIds, RecoveryNext(j)
  PROVE  DropInv'
  <1>0. /\ row \in [JobIds -> RowState]
        /\ rec \in [JobIds -> Recovery]
        /\ flag' = flag /\ flag \subseteq JobIds
    BY DEF TypeOK, StoreType, RecoveryType, RecoveryNext, RecoverOrphan, RecoverRead, RecoverDrop,
       RecoverFailRead, RecoverFailWrite, RequeueMint, RequeueAdd, StallRow, StallRead, StallFind, storeVars
  <1>1. UNCHANGED <<pending, client>>
    BY DEF RecoveryNext, RecoverOrphan, RecoverRead, RecoverDrop, RecoverFailRead, RecoverFailWrite,
       RequeueMint, RequeueAdd, StallRow, StallRead, StallFind, recKeeps, runVars
  (* The row a recovery is about is not queued, nor does it become so. *)
  <1>2. /\ ~Queued(j)
        /\ j \in Known
    <2>1. rec[j].at # "none" \/ j \in orphans \/ row[j] = "active"
      BY DEF RecoveryNext, RecoverOrphan, RecoverRead, RecoverDrop, RecoverFailRead, RecoverFailWrite,
         RequeueMint, RequeueAdd, StallRow, StallRead, StallFind
    <2>2. ~Queued(j)
      BY <2>1 DEF DropInv, WorkUnqueued, Queued
    <2>3. QED
      BY <2>2 DEF Queued, RootInv, RowsKnown
  <1>3. \A k \in JobIds : Queued(k)' => Queued(k)
    <2>1. CASE RecoverDrop(j)
      BY <1>0, <1>2, <2>1 DEF RecoverDrop, Queued
    <2>2. CASE RequeueAdd(j)
      BY <1>0, <2>2 DEF RequeueAdd, AddRow, Queued
    <2>3. CASE StallRow(j)
      BY <1>0, <2>3 DEF StallRow, Queued
    <2>4. CASE ~(RecoverDrop(j) \/ RequeueAdd(j) \/ StallRow(j))
      BY <2>4 DEF RecoveryNext, RecoverOrphan, RecoverRead, RecoverFailRead, RecoverFailWrite,
         RequeueMint, StallRead, StallFind, storeVars, Queued
    <2>5. QED
      BY <2>1, <2>2, <2>3, <2>4
  <1>4. QueueKept
    <2>1. CASE RequeueMint(j)
      BY <2>1, MintQueue DEF RequeueMint
    <2>2. CASE RecoverFailWrite(j)
      BY <1>2, <2>2, WriteQueue DEF RecoverFailWrite, TerminalStatus
    <2>3. CASE ~(RequeueMint(j) \/ RecoverFailWrite(j))
      <3>1. UNCHANGED <<nextId, snap>>
        BY <2>3 DEF RecoveryNext, RecoverOrphan, RecoverRead, RecoverDrop, RecoverFailRead, RequeueAdd,
           StallRow, StallRead, StallFind, storeVars
      <3>2. QED
        BY <1>3, <3>1, QuietQueue
    <2>4. QED
      BY <2>1, <2>2, <2>3
  <1>5. /\ \A k \in JobIds \ {j} : rec'[k] = rec[k]
        /\ orphans' \subseteq orphans
    <2>1. CASE RequeueMint(j) \/ RequeueAdd(j) \/ RecoverDrop(j) \/ RecoverRead(j)
      BY <1>0, <2>1 DEF RequeueMint, RequeueAdd, RecoverDrop, RowDropped, RecoverRead, RecGoto
    <2>2. CASE ~(RequeueMint(j) \/ RequeueAdd(j) \/ RecoverDrop(j) \/ RecoverRead(j))
      BY <1>0, <2>2 DEF RecoveryNext, RecoverOrphan, RecoverFailRead, RecoverFailWrite, StallRow,
         StallRead, StallFind, RecGoto
    <2>3. QED
      BY <2>1, <2>2
  <1>6. \A k \in JobIds : pending'[k] # <<>> \/ rec'[k].at # "none" \/ k \in orphans' => ~Queued(k)'
    <2>1. ~Queued(j)'
      BY <1>2, <1>3
    <2>2. \A k \in JobIds \ {j} : pending'[k] # <<>> \/ rec'[k].at # "none" \/ k \in orphans' => ~Queued(k)
      BY <1>1, <1>5 DEF DropInv, WorkUnqueued
    <2>3. QED
      BY <1>3, <2>1, <2>2
  <1>7. QED
    BY <1>0, <1>1, <1>4, <1>6, WorkerStep

LEMMA DropNext ==
  ASSUME MaxExpiries = 0
  PROVE  TypeOK /\ RootInv /\ PhaseInv /\ DropInv /\ [Next]_vars => DropInv'
  <1> SUFFICES ASSUME TypeOK, RootInv, PhaseInv, DropInv, [Next]_vars PROVE DropInv'
    OBVIOUS
  <1>1. CASE Next
    BY <1>1, NoExpiry, DropClient, DropProcess, DropRun, DropRecovery DEF Next
  <1>2. CASE UNCHANGED vars
    <2>1. UNCHANGED <<nextId, row, snap, flag, client, pending, rec, orphans>>
      BY <1>2 DEF vars, storeVars, runVars, recVars
    <2>2. QueueKept
      BY <2>1, QuietQueue DEF Queued
    <2>3. QED
      BY <2>1, <2>2, WorkerStep DEF DropInv, WorkUnqueued, Queued, TypeOK, StoreType
  <1>3. QED
    BY <1>1, <1>2

LEMMA DropInit == Init => DropInv
  <1> SUFFICES ASSUME Init PROVE DropInv
    OBVIOUS
  <1>1. Known = {}
    BY DEF Init, Known
  <1>2. NoRequest.at \notin Aimed /\ Decided \subseteq Aimed
    BY DEF NoRequest, Aimed, Decided
  <1>3. QED
    BY <1>1, <1>2 DEF Init, DropInv, UnissuedBlank, QueuedLive, FlagTells, StopTells, WorkUnqueued, NoRec

LEMMA DropInvariant ==
  ASSUME MaxExpiries = 0
  PROVE  Spec => []DropInv
  <1>1. TypeOK /\ RootInv /\ PhaseInv /\ DropInv /\ [Next]_vars => DropInv'
    BY DropNext
  <1>2. QED
    BY <1>1, DropInit, TypeCorrect, RootInvariant, PhaseInvariant, PTL DEF Spec

(* The 409 guard of another request, and whoever else takes rows out of the *)
(* queue, discards no live job: a job that leaves the queue unexecuted was  *)
(* stopped by someone, though the guard looks at the row steps before it    *)
(* removes it, as long as no snapshot outlives its TTL while its job waits. *)
THEOREM OnlyStoppedJobsDropped ==
  ASSUME MaxExpiries = 0
  PROVE  Spec => DroppedOnlyIfStopped
  <1>1. ASSUME TypeOK, DropInv, [Next]_vars
        PROVE  [\A j \in JobIds : row[j] = "waiting" /\ row'[j] = "removed" => snap[j] = "cancelled"]_vars
    <2>0. row \in [JobIds -> RowState]
      BY <1>1 DEF TypeOK, StoreType
    <2>1. SUFFICES ASSUME Next, NEW j \in JobIds, row[j] = "waiting", row'[j] = "removed"
                   PROVE  snap[j] = "cancelled"
      BY <1>1
    <2>2. CASE ClientNext
      <3>1. PICK c \in Clients :
              \/ \E k \in Kinds, m \in Mods, w \in BOOLEAN : RequestStart(c, k, m, w)
              \/ \E i \in JobIds : GuardCheck(c, i) \/ RequestStop(c, i)
              \/ \E k \in Kinds, m \in Mods : RequestStopMod(c, k, m)
              \/ StartJob(c)
              \/ MarkSnapshot(c) \/ CancelSnapshot(c)
              \/ GuardDiscard(c) \/ EnqueueJob(c) \/ StopRemove(c)
              \/ MarkSnapshotFlag(c) \/ CancelFlag(c) \/ StopOrphanFlag(c)
              \/ StopLook(c) \/ StopRequest(c) \/ StopSweep(c) \/ RequestAborted(c)
              \/ StopPublish(c) \/ StopOrphanPublish(c) \/ StopGonePublish(c)
        BY <2>2 DEF ClientNext
      <3>2. CASE EnqueueJob(c)
        BY <2>0, <2>1, <3>2 DEF EnqueueJob, AddRow
      <3>3. CASE GuardDiscard(c) \/ StopRemove(c)
        <4>1. client[c].job = j
          BY <2>0, <2>1, <3>3 DEF GuardDiscard, StopRemove, RemoveRow
        <4>2. client[c].at \in Decided
          BY <3>3 DEF GuardDiscard, StopRemove, Decided, Aimed
        <4>3. QED
          BY <1>1, <2>1, <4>1, <4>2 DEF DropInv, StopTells, CalledOff, Queued
      <3>4. CASE ~(EnqueueJob(c) \/ GuardDiscard(c) \/ StopRemove(c))
        <4>1. row' = row
          BY <3>1, <3>4 DEF RequestStart, GuardCheck, RequestStop, RequestStopMod, StartJob, MarkSnapshot,
             CancelSnapshot, WriteCancelled, MarkSnapshotFlag, CancelFlag, StopOrphanFlag, WriteFlag,
             StopLook, StopRequest, StopSweep, RequestAborted, StopPublish, StopOrphanPublish,
             StopGonePublish, storeVars
        <4>2. QED
          BY <2>1, <4>1
      <3>5. QED
        BY <3>2, <3>3, <3>4
    <2>3. CASE ProcessNext
      BY <2>1, <2>3 DEF ProcessNext, Boot, StartWorkers, Subscribe, Shutdown, ShutdownDone, Crash,
         ProcessGone, storeVars
    <2>4. ASSUME NEW i \in JobIds, RunNext(i)
          PROVE  FALSE
      <3>1. outcome[i] \in SettledState
        BY <1>1 DEF TypeOK, RunType
      <3>2. CASE Claim(i) \/ SettleRow(i)
        BY <2>0, <2>1, <3>1, <3>2 DEF Claim, SettleRow, SettledState
      <3>3. CASE ~(Claim(i) \/ SettleRow(i))
        BY <2>1, <2>4, <3>3 DEF RunNext, Register, ReadSnapshot, ReadFlag, StartHandler, WipeVoice,
           FlushProgress, HandlerReturns, HandlerThrows, SystemLogWritten, WritePending, DeliverCancel,
           storeVars
      <3>4. QED
        BY <3>2, <3>3
    <2>5. ASSUME NEW i \in JobIds, RecoveryNext(i)
          PROVE  FALSE
      <3>1. CASE RecoverDrop(i) \/ RequeueAdd(i) \/ StallRow(i)
        BY <2>0, <2>1, <3>1 DEF RecoverDrop, RequeueAdd, AddRow, StallRow
      <3>2. CASE ~(RecoverDrop(i) \/ RequeueAdd(i) \/ StallRow(i))
        BY <2>1, <2>5, <3>2 DEF RecoveryNext, RecoverOrphan, RecoverRead, RecoverFailRead,
           RecoverFailWrite, RequeueMint, StallRead, StallFind, storeVars
      <3>3. QED
        BY <3>1, <3>2
    <2>6. ASSUME NEW i \in JobIds, SnapshotExpires(i)
          PROVE  FALSE
      BY <2>1, <2>6 DEF SnapshotExpires
    <2>7. QED
      BY <2>1, <2>2, <2>3, <2>4, <2>5, <2>6 DEF Next
  <1>2. Spec => []DropInv
    BY DropInvariant
  <1>3. QED
    BY <1>1, <1>2, TypeCorrect, PTL DEF Spec, DroppedOnlyIfStopped

===========================================================================
