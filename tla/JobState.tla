----------------------------- MODULE JobState -----------------------------
(*************************************************************************)
(* State shared by the parts of the job runtime: the Redis side (BullMQ  *)
(* rows, snapshots, cancelled flags, the control channel), the worker    *)
(* process and the API requests, and the writes every part performs on   *)
(* them. Every await on Redis, the database or a handler ends a step; what *)
(* the code does between two awaits is one action.                       *)
(*************************************************************************)
EXTENDS Naturals, Sequences, FiniteSets, JobSnapshots

CONSTANTS
  Clients,      \* concurrent API requests
  Mods,         \* mods a job can be about
  Kinds,        \* job kinds
  LlmKinds,     \* kinds on the LLM queue, recovered after a restart
  VoiceKinds,   \* voice-generate, recovered without its wipe
  QueueOf,      \* the queue of a kind
  Concurrency,  \* BullMQ concurrency of a queue
  MaxJobs,      \* bound: job ids
  MaxStarts,    \* bound: jobs started by clients
  MaxStops,     \* bound: Stop requests
  MaxCrashes,   \* bound: crashes and shutdowns of the worker process
  MaxStalls,    \* bound: stalls of a live run
  MaxExpiries,  \* bound: snapshots that outlive their TTL
  MaxPending    \* bound: snapshot writes queued behind each other

ASSUME KindsAssumption ==
  /\ LlmKinds \subseteq Kinds
  /\ VoiceKinds \subseteq Kinds
  /\ LlmKinds \cap VoiceKinds = {}
ASSUME BoundsAssumption ==
  /\ MaxJobs \in Nat
  /\ MaxPending \in Nat

JobIds == 1 .. MaxJobs
NoJob  == 0

VARIABLES
  nextId,      \* INCR counter behind allocateJobId
  job,         \* payload of each allocated id
  row,         \* BullMQ row of each id
  snap,        \* snapshot status of each id
  flag,        \* ids with the cancelled key
  ctrl,        \* cancels published and not yet handled by the subscriber
  worker,      \* "down", "booting", "up" or "closing"
  subscribed,  \* the worker listens on the control channel
  run,         \* step of processJob for each id
  cancelled,   \* ids whose run has its local `cancelled` set
  pending,     \* snapshotChain of each run
  outcome,     \* row state the run will settle with
  orphans,     \* active rows recovery found at boot and has yet to handle
  rec,         \* recovery of each id
  client,      \* API requests
  spent        \* how much of each bound is used up

(* History, read by the properties only. *)
VARIABLES
  stopped,     \* ids whose Stop was acknowledged while the row was unfinished
  lost,        \* ids whose cancel was published while nobody was subscribed
  wiped,       \* ids whose handler cleared the mod's generated voice
  undropped    \* ids whose active row recovery failed to drop

storeVars   == <<nextId, job, row, snap, flag>>
channelVars == <<ctrl, subscribed>>
runVars     == <<run, cancelled, pending, outcome>>
recVars     == <<orphans, rec>>
historyVars == <<stopped, lost, wiped, undropped>>
vars == <<client, storeVars, channelVars, worker, runVars, recVars, spent, historyVars>>

---------------------------------------------------------------------------
(* Shapes *)

NoData  == [kind |-> "none", mod |-> "none", wipe |-> FALSE, root |-> NoJob]
JobData == [kind : Kinds, mod : Mods, wipe : BOOLEAN, root : JobIds \cup {NoJob}]

RunStep == {"idle", "claimed", "registered", "unmarked", "cleared", "handling", "logging", "ending", "skipping"}
(* Mutant of Registered: the run enters activeRuns with its handler. *)
RegisteredLate == {"handling", "logging"}
(* The run is in activeRuns, so a control message reaches it. *)
Registered == {"registered", "unmarked", "cleared", "handling", "logging"}

RecStep == {"none", "read", "drop", "failRead", "failWrite", "stallRead", "stallFind", "mint", "add"}
Recovery == [at : RecStep, new : JobIds \cup {NoJob}, stop : BOOLEAN]
NoRec    == [at |-> "none", new |-> NoJob, stop |-> FALSE]

ClientStep == {"idle", "guard", "discard", "enqueue", "mark", "markFlag", "look", "request",
               "cancel", "cancelFlag", "publish", "remove", "sweep",
               "orphanPublish", "orphanFlag", "gonePublish"}
Request == [at : ClientStep, job : JobIds \cup {NoJob}, data : JobData \cup {NoData},
            todo : SUBSET JobIds, top : BOOLEAN, active : BOOLEAN, known : BOOLEAN]
NoRequest  == [at |-> "idle", job |-> NoJob, data |-> NoData, todo |-> {},
               top |-> TRUE, active |-> FALSE, known |-> FALSE]

PendingWrite == TerminalStatus \cup {"running", "mark"}
Budget       == {"starts", "stops", "crashes", "stalls", "expiries"}

StoreType ==
  /\ nextId \in 0 .. MaxJobs
  /\ job \in [JobIds -> JobData \cup {NoData}]
  /\ row \in [JobIds -> RowState]
  /\ snap \in [JobIds -> SnapshotStatus]
  /\ flag \subseteq JobIds
ProcessType ==
  /\ ctrl \subseteq JobIds
  /\ subscribed \in BOOLEAN
  /\ worker \in {"down", "booting", "up", "closing"}
RunType ==
  /\ run \in [JobIds -> RunStep]
  /\ cancelled \subseteq JobIds
  /\ pending \in [JobIds -> Seq(PendingWrite)]
  /\ outcome \in [JobIds -> SettledState]
RecoveryType ==
  /\ orphans \subseteq JobIds
  /\ rec \in [JobIds -> Recovery]
(* Past its first step a request that acts on one job has its id, and a     *)
(* request past the guard's list knows what it starts.                      *)
RequestType ==
  /\ client \in [Clients -> Request]
  /\ \A c \in Clients :
       /\ client[c].at \notin {"idle", "guard", "sweep"} => client[c].job \in JobIds
       /\ client[c].at \in {"guard", "discard"} => client[c].data \in JobData
SpentType   == spent \in [Budget -> Nat]
HistoryType ==
  /\ stopped \subseteq JobIds
  /\ lost \subseteq JobIds
  /\ wiped \subseteq JobIds
  /\ undropped \subseteq JobIds

TypeOK ==
  /\ StoreType
  /\ ProcessType
  /\ RunType
  /\ RecoveryType
  /\ RequestType
  /\ SpentType
  /\ HistoryType

Init ==
  /\ nextId = 0
  /\ job = [j \in JobIds |-> NoData]
  /\ row = [j \in JobIds |-> "absent"]
  /\ snap = [j \in JobIds |-> "none"]
  /\ flag = {}
  /\ ctrl = {}
  /\ worker = "down"
  /\ subscribed = FALSE
  /\ run = [j \in JobIds |-> "idle"]
  /\ cancelled = {}
  /\ pending = [j \in JobIds |-> <<>>]
  /\ outcome = [j \in JobIds |-> "failed"]
  /\ orphans = {}
  /\ rec = [j \in JobIds |-> NoRec]
  /\ client = [c \in Clients |-> NoRequest]
  /\ spent = [b \in Budget |-> 0]
  /\ stopped = {}
  /\ lost = {}
  /\ wiped = {}
  /\ undropped = {}

---------------------------------------------------------------------------
(* Shared steps *)

Spend(b)  == spent' = [spent EXCEPT ![b] = @ + 1]
Write(j, status) == snap' = [snap EXCEPT ![j] = SnapshotAfter(@, status)]
Mark(j)   == flag' = flag \cup {j}

(* listUnfinishedJobsForMod. *)
Unfinished(kind, mod) ==
  {j \in JobIds : row[j] \in UnfinishedState /\ job[j].kind = kind /\ job[j].mod = mod}

(* Mutant of MintJob: the running snapshot is left to the worker. *)
MintJobUnwritten(data) ==
  /\ nextId < MaxJobs
  /\ nextId' = nextId + 1
  /\ job' = [job EXCEPT ![nextId + 1] = data]
  /\ UNCHANGED snap

(* allocateJobId and the running snapshot that is written before the row. *)
MintJob(data) ==
  /\ nextId < MaxJobs
  /\ nextId' = nextId + 1
  /\ job' = [job EXCEPT ![nextId + 1] = data]
  /\ Write(nextId + 1, "running")

(* enqueueJob: BullMQ ignores an id it already has. *)
AddRow(j) == row' = [row EXCEPT ![j] = IF @ = "absent" THEN "waiting" ELSE @]

(* job.remove(): a locked (active) row is refused. *)
RemoveRow(j) == row' = [row EXCEPT ![j] = IF @ \in {"waiting"} \cup SettledState
                                          THEN "removed" ELSE @]

(* publishJobControl: pub/sub reaches only who is subscribed now. *)
Publish(j) ==
  /\ ctrl' = IF subscribed THEN ctrl \cup {j} ELSE ctrl
  /\ lost' = IF subscribed THEN lost ELSE lost \cup {j}

===========================================================================
