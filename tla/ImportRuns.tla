----------------------------- MODULE ImportRuns -----------------------------
(*************************************************************************)
(* One row of mod_imports: the requests that start, pause, cancel,       *)
(* restart and relabel it, and the import runs the worker makes of it    *)
(* under the advisory write lock, batch by batch, with the rows of       *)
(* `strings` they leave behind.                                          *)
(*************************************************************************)
EXTENDS Naturals, FiniteSets

CONSTANTS
  Clients,        \* requests handled at the same time
  Langs,          \* source languages the row can name
  UploadLang,     \* the one it is uploaded with
  PluginLines,    \* lines of the plugin, written by the batch writer and skipped on resume
  ExtraLines,     \* lines beside it (MCM, Interface; a whole Witcher 3 or Disco pack)
  BatchSize,      \* CONFIG.dbChunkSize
  MaxAttempts,    \* attempts of one batch: 4 in the code
  RollsBack,      \* the phase of the extra lines rolls its failed batch back
  Happens,        \* the requests and faults of an instance, of those in Events
  MaxEvents,      \* bound: how many of them may happen
  MaxJobs         \* bound: queue jobs started for the row

Events == {"pause", "cancel", "restart", "languages",
           "deadlock", "failure", "late", "crash"}

ASSUME ImportAssumption ==
  /\ PluginLines \in Nat /\ ExtraLines \in Nat
  /\ MaxJobs \in Nat /\ MaxEvents \in Nat
  /\ UploadLang \in Langs
  /\ BatchSize \in Nat \ {0} /\ MaxAttempts \in Nat \ {0}
  /\ RollsBack \in BOOLEAN
  /\ Happens \subseteq Events

Jobs   == 1 .. MaxJobs
NoJob  == 0
Orphan == MaxJobs + 1      \* a pooled session nobody uses that still holds the lock
Total  == PluginLines + ExtraLines
Lines  == Langs \X (1 .. Total)

VARIABLES
  row,       \* the row of mod_imports: status, imported_records, src_lang
  old, new,  \* rows of `strings` per line: of earlier runs, of the run that holds the lock
  lock,      \* holder of MOD_IMPORT_WRITE_ADVISORY_LOCK_KEY
  state,     \* where each queue job and its run are
  control,   \* control messages on their way to the worker
  read,      \* the row as the handler read it
  flags,     \* the run's ActiveImport: which of cancel and pause are set
  active,    \* whose ActiveImport the map activeImports holds
  counter,   \* ctx.imported of the run
  at,        \* lines the run has passed: skipped, pending, written or dropped
  batch,     \* lines pending in the open batch
  inTx,      \* the writer's inTx
  attempt,   \* attempt of the batch
  request,   \* the step each client's request is at
  seen,      \* imported_records a cancel request has read
  spent      \* how many requests and faults of Happens there have been

(* History, read by the properties only. *)
VARIABLES
  leftover,  \* runs that left strings behind in a failed attempt outside a transaction
  slips      \* which of "languages" and "late" have happened

dbVars     == <<row, old, new, lock>>
runVars    == <<read, counter, at, batch, inTx, attempt, leftover>>
clientVars == <<request, seen>>
vars == <<dbVars, state, control, flags, active, runVars, clientVars, spent, slips>>

Min2(a, b)   == IF a <= b THEN a ELSE b
Spend(what)  ==
  /\ what \in Happens /\ spent < MaxEvents
  /\ spent' = spent + 1
  /\ slips' = slips \cup ({what} \cap {"languages", "late"})
Go(j, to)    == state' = [state EXCEPT ![j] = to]

Steps == {"none", "queued", "loading", "locking", "plugin", "open", "retry", "boundary",
          "extras", "overlay", "prune", "close", "ending",
          "throwing", "stalled", "done"}
(* Steps inside withModImportWriteLock. *)
Writing == {"plugin", "open", "retry", "boundary", "extras", "overlay",
            "prune", "close", "ending"}
(* Steps at which the handler's stop and pause listeners are in place. *)
Listening == Writing \cup {"locking", "throwing"}

Unfinished(j) == state[j] \notin {"none", "done"}
isImportQueued == \E j \in Jobs : Unfinished(j)
Stopping(j)    == flags[j] # {}

---------------------------------------------------------------------------
(* The status writes of jobStatus.ts, and the rows of one batch.           *)

markFailed(n)     == row' = [row EXCEPT !.status = "failed", !.imported = n]
markPaused(n)     == row' = [row EXCEPT !.status = "paused", !.imported = n]
markDone(n)       == row' = [row EXCEPT !.status = "completed", !.imported = n]
updateProgress(n) == row' = [row EXCEPT !.status = "in_progress", !.imported = n]

(* bulkInsertModImportRows: a plain INSERT into `strings`, without a conflict *)
(* clause: a line written twice is there twice.                               *)
Insert(j, first, last) ==
  new' = [line \in Lines |->
            IF line[1] = read[j].lang /\ line[2] \in first .. last
            THEN new[line] + 1 ELSE new[line]]

(* Mutant of commitExtrasStop: the lines read so far, not those committed. *)
CommitExtrasStopAt(j) ==
  IF "cancel" \in flags[j] THEN markFailed(at[j]) ELSE markPaused(at[j])

(* Persist the requested stop: cancel before pause. *)
commitExtrasStop(j) ==
  IF "cancel" \in flags[j] THEN markFailed(counter[j]) ELSE markPaused(counter[j])

(* Mutant of pruneStaleImportData: a resumed run prunes too. *)
PruneAlways(j) == TRUE

pruneStaleImportData(j) == read[j].imported = 0

Init ==
  /\ row = [status |-> "pending", imported |-> 0, lang |-> UploadLang]
  /\ old = [line \in Lines |-> 0]
  /\ new = [line \in Lines |-> 0]
  /\ lock = NoJob
  /\ state = [j \in Jobs |-> "none"]
  /\ control = {}
  /\ read = [j \in Jobs |-> row]
  /\ flags = [j \in Jobs |-> {}]
  /\ active = NoJob
  /\ counter = [j \in Jobs |-> 0]
  /\ at = [j \in Jobs |-> 0]
  /\ batch = [j \in Jobs |-> 0]
  /\ inTx = [j \in Jobs |-> FALSE]
  /\ attempt = [j \in Jobs |-> 0]
  /\ leftover = [j \in Jobs |-> FALSE]
  /\ request = [c \in Clients |-> "idle"]
  /\ seen = [c \in Clients |-> 0]
  /\ spent = 0
  /\ slips = {}

---------------------------------------------------------------------------
(* Requests. Each reads first and acts in a later step.                    *)

requestKeeps == <<state, control, lock, old, new, flags, active, runVars>>
At(c, step)  == request' = [request EXCEPT ![c] = step]

(* GET :id/import, PATCH :id and POST :id/restart look at the row and at the *)
(* queue before they act.                                                    *)
CheckStart(c) ==
  /\ request[c] = "idle"
  /\ row.status # "completed"
  /\ ~isImportQueued
  /\ \E j \in Jobs : state[j] = "none"
  /\ At(c, "start")
  /\ UNCHANGED <<row, requestKeeps, seen, spent, slips>>

CheckEdit(c, what) ==
  /\ what \in {"restart", "languages"}
  /\ request[c] = "idle"
  /\ Spend(what)
  /\ ~isImportQueued
  /\ At(c, what)
  /\ UNCHANGED <<row, requestKeeps, seen>>

EnqueueStart(c) ==
  /\ request[c] = "start"
  /\ At(c, "idle")
  /\ \E j \in Jobs :
       /\ state[j] = "none"
       /\ \A i \in Jobs : i < j => state[i] # "none"
       /\ Go(j, "queued")
  /\ UNCHANGED <<row, control, lock, old, new, flags, active, runVars, seen, spent, slips>>

restartModImportJob(c) ==
  /\ request[c] = "restart"
  /\ At(c, "idle")
  /\ row' = [row EXCEPT !.status = "pending", !.imported = 0]
  /\ UNCHANGED <<requestKeeps, seen, spent, slips>>

updateModJobLanguages(c) ==
  /\ request[c] = "languages"
  /\ At(c, "idle")
  /\ \E lang \in Langs : row' = [row EXCEPT !.lang = lang]
  /\ UNCHANGED <<requestKeeps, seen, spent, slips>>

(* pauseQueuedImport: publish, whatever the job is doing. *)
pauseQueuedImport(j) ==
  /\ Spend("pause")
  /\ Unfinished(j)
  /\ control' = control \cup {<<j, "pause">>}
  /\ UNCHANGED <<dbVars, state, flags, active, runVars, clientVars>>

(* cancelQueuedImport: a waiting job is removed, a running one is told. *)
cancelQueuedImport(c, j) ==
  /\ request[c] = "idle"
  /\ Spend("cancel")
  /\ Unfinished(j)
  /\ At(c, "cancel")
  /\ \/ /\ state[j] = "queued"
        /\ Go(j, "done")
        /\ UNCHANGED control
     \/ /\ state[j] # "queued"
        /\ control' = control \cup {<<j, "cancel">>}
        /\ UNCHANGED state
  /\ UNCHANGED <<dbVars, flags, active, runVars, seen>>

(* The cancel route then reads the row and marks it failed with the count it *)
(* has read.                                                                 *)
ReadForCancel(c) ==
  /\ request[c] = "cancel"
  /\ At(c, "mark")
  /\ seen' = [seen EXCEPT ![c] = row.imported]
  /\ UNCHANGED <<row, requestKeeps, spent, slips>>

MarkCancelled(c) ==
  /\ request[c] = "mark"
  /\ At(c, "idle")
  /\ markFailed(seen[c])
  /\ seen' = [seen EXCEPT ![c] = 0]
  /\ UNCHANGED <<requestKeeps, spent, slips>>

---------------------------------------------------------------------------
(* The job in the worker                                                   *)

workKeeps == <<control, active, flags, clientVars>>
NoBatch(j) == batch' = [batch EXCEPT ![j] = 0]

(* The handler returns or throws, BullMQ settles the job, and the run's memory *)
(* is gone.                                                                    *)
Settle(j) ==
  /\ Go(j, "done")
  /\ flags' = [flags EXCEPT ![j] = {}]
  /\ counter' = [counter EXCEPT ![j] = 0]
  /\ at' = [at EXCEPT ![j] = 0]
  /\ NoBatch(j)
  /\ inTx' = [inTx EXCEPT ![j] = FALSE]
  /\ attempt' = [attempt EXCEPT ![j] = 0]
  /\ leftover' = [leftover EXCEPT ![j] = FALSE]

(* The processor's cancelled check passed and the handler reads the row. *)
ReadRow(j) ==
  /\ state[j] = "queued"
  /\ Go(j, "loading")
  /\ read' = [read EXCEPT ![j] = row]
  /\ UNCHANGED <<dbVars, workKeeps, counter, at, batch, inTx, attempt, leftover, spent, slips>>

(* isModImportRunning: a run that was told to stop does not count. *)
isModImportRunning == active # NoJob /\ flags[active] = {}

(* runModImport up to the lock. A message that comes earlier finds no listener. *)
BeginRun(j) ==
  /\ state[j] = "loading"
  /\ IF read[j].status = "completed" \/ isModImportRunning
     THEN /\ Settle(j)
          /\ UNCHANGED active
     ELSE /\ Go(j, "locking")
          /\ active' = j
          /\ counter' = [counter EXCEPT ![j] = read[j].imported]
          /\ UNCHANGED <<flags, at, batch, inTx, attempt, leftover>>
  /\ UNCHANGED <<dbVars, control, clientVars, read, spent, slips>>

(* The lock is granted; ingest starts at the line the row's count names. *)
Skipped(j) == Min2(read[j].imported, PluginLines)

EnterLock(j) ==
  /\ state[j] = "locking"
  /\ lock = NoJob
  /\ lock' = j
  /\ Go(j, IF PluginLines > 0 THEN "plugin" ELSE "boundary")
  /\ at' = [at EXCEPT ![j] = Skipped(j)]
  /\ old' = [line \in Lines |-> old[line] + new[line]]
  /\ new' = [line \in Lines |-> 0]
  /\ UNCHANGED <<row, workKeeps, read, counter, batch, inTx, attempt, leftover, spent, slips>>

---------------------------------------------------------------------------
(* The plugin's lines, through createModImportBatchWriter                  *)

(* A stop seen between two lines: discardOpenImportBatch, then the status. *)
StopAtLine(j) ==
  /\ \/ state[j] = "plugin" /\ at[j] < PluginLines
     \/ state[j] = "open" /\ batch[j] > 1
  /\ Stopping(j)
  /\ commitExtrasStop(j)
  /\ Go(j, "ending")
  /\ NoBatch(j)
  /\ inTx' = [inTx EXCEPT ![j] = FALSE]
  /\ UNCHANGED <<old, new, lock, workKeeps, read, counter, at, attempt, leftover, spent, slips>>

(* pushImportRow: BEGIN, then lines up to a full batch or the last line. *)
OpenBatch(j) ==
  /\ state[j] = "plugin"
  /\ at[j] < PluginLines
  /\ ~Stopping(j)
  /\ LET size == Min2(BatchSize, PluginLines - at[j])
     IN  /\ batch' = [batch EXCEPT ![j] = size]
         /\ at' = [at EXCEPT ![j] = @ + size]
  /\ inTx' = [inTx EXCEPT ![j] = TRUE]
  /\ attempt' = [attempt EXCEPT ![j] = 1]
  /\ Go(j, "open")
  /\ UNCHANGED <<dbVars, workKeeps, read, counter, leftover, spent, slips>>

AfterBatch(j) == IF at[j] < PluginLines THEN "plugin" ELSE "boundary"

(* A stop that came during the BEGIN of a batch of one line: the batch is    *)
(* dropped, and whoever reads the flag next decides what becomes of the row. *)
DropBatch(j) ==
  /\ state[j] = "open"
  /\ batch[j] = 1
  /\ Stopping(j)
  /\ Go(j, AfterBatch(j))
  /\ NoBatch(j)
  /\ inTx' = [inTx EXCEPT ![j] = FALSE]
  /\ UNCHANGED <<dbVars, workKeeps, read, counter, at, attempt, leftover, spent, slips>>

Attempting(j) == state[j] = "retry" \/ (state[j] = "open" /\ ~Stopping(j))
Counting(j)   == counter' = [counter EXCEPT ![j] = @ + batch[j]]
InsertBatch(j) == Insert(j, at[j] - batch[j] + 1, at[j])

(* Rows, dialogue graph, count, COMMIT. *)
FlushBatch(j) ==
  /\ Attempting(j)
  /\ InsertBatch(j)
  /\ Counting(j)
  /\ updateProgress(counter[j] + batch[j])
  /\ Go(j, AfterBatch(j))
  /\ NoBatch(j)
  /\ inTx' = [inTx EXCEPT ![j] = FALSE]
  /\ UNCHANGED <<old, lock, workKeeps, read, at, attempt, leftover, spent, slips>>

(* Mutant of AbandonAttempt: no ROLLBACK. *)
AbandonWithoutRollback(j) ==
  /\ UNCHANGED leftover
  /\ UNCHANGED new \/ InsertBatch(j)
  /\ inTx' = [inTx EXCEPT ![j] = FALSE]
  /\ UNCHANGED <<row, old, counter>>

(* An attempt fails before the count: ROLLBACK when a transaction is open;   *)
(* otherwise the rows stay if the failure came after their INSERT.           *)
AbandonAttempt(j) ==
  /\ \/ UNCHANGED <<new, leftover>>
     \/ /\ ~inTx[j]
        /\ InsertBatch(j)
        /\ leftover' = [leftover EXCEPT ![j] = TRUE]
  /\ inTx' = [inTx EXCEPT ![j] = FALSE]
  /\ UNCHANGED <<row, old, counter>>

(* Mutant of RetryBatch: one attempt too many. *)
RetryOnceMore(j) ==
  /\ Attempting(j)
  /\ Spend("deadlock")
  /\ attempt[j] <= MaxAttempts
  /\ attempt' = [attempt EXCEPT ![j] = @ + 1]
  /\ Go(j, "retry")
  /\ AbandonAttempt(j)
  /\ UNCHANGED <<lock, workKeeps, read, at, batch>>

(* A deadlock: the next attempt goes without a BEGIN of its own. *)
RetryBatch(j) ==
  /\ Attempting(j)
  /\ Spend("deadlock")
  /\ attempt[j] < MaxAttempts
  /\ attempt' = [attempt EXCEPT ![j] = @ + 1]
  /\ Go(j, "retry")
  /\ AbandonAttempt(j)
  /\ UNCHANGED <<lock, workKeeps, read, at, batch>>

(* The run gives up: the lock is released before the row is marked. *)
GiveUp(j) == Go(j, "throwing") /\ lock' = NoJob /\ NoBatch(j)

FailBatch(j) ==
  /\ Attempting(j)
  /\ \/ Spend("failure")
     \/ attempt[j] = MaxAttempts /\ Spend("deadlock")
  /\ GiveUp(j)
  /\ AbandonAttempt(j)
  /\ UNCHANGED <<workKeeps, read, at, attempt>>

(* The progress update or the COMMIT fails: the count is not taken back. *)
FailCommit(j) ==
  /\ Attempting(j)
  /\ Spend("late")
  /\ GiveUp(j)
  /\ Counting(j)
  /\ IF inTx[j] THEN UNCHANGED <<new, leftover>>
     ELSE InsertBatch(j) /\ leftover' = [leftover EXCEPT ![j] = TRUE]
  /\ inTx' = [inTx EXCEPT ![j] = FALSE]
  /\ UNCHANGED <<row, old, workKeeps, read, at, attempt>>

---------------------------------------------------------------------------
(* The lines beside the plugin, one transaction per slice, never skipped   *)

(* Between two phases nobody marks the row: a stop ends the run silently. *)
NextPhase(j) ==
  /\ \/ state[j] = "plugin" /\ at[j] = PluginLines
     \/ state[j] = "boundary"
     \/ state[j] = "overlay"
  /\ Go(j, IF Stopping(j) THEN "ending"
           ELSE IF state[j] = "overlay" THEN "prune" ELSE "extras")
  /\ UNCHANGED <<dbVars, workKeeps, runVars, spent, slips>>

StopAtSlice(j) ==
  /\ state[j] = "close" \/ (state[j] = "extras" /\ ExtraLines > 0)
  /\ Stopping(j)
  /\ commitExtrasStop(j)
  /\ Go(j, "ending")
  /\ UNCHANGED <<old, new, lock, workKeeps, runVars, spent, slips>>

Slice(j) == Min2(BatchSize, Total - at[j])

WriteSlice(j) ==
  /\ state[j] = "extras"
  /\ ~Stopping(j)
  /\ at[j] < Total
  /\ Insert(j, at[j] + 1, at[j] + Slice(j))
  /\ counter' = [counter EXCEPT ![j] = @ + Slice(j)]
  /\ updateProgress(counter[j] + Slice(j))
  /\ at' = [at EXCEPT ![j] = @ + Slice(j)]
  /\ UNCHANGED <<old, lock, state, workKeeps, read, batch, inTx, attempt, leftover, spent, slips>>

(* A slice fails. With a ROLLBACK the run gives up as above; without one the  *)
(* session is released inside the failed transaction: neither the status nor *)
(* the unlock goes through.                                                  *)
FailSlice(j) ==
  /\ state[j] = "extras"
  /\ ~Stopping(j)
  /\ at[j] < Total
  /\ Spend("failure")
  /\ IF RollsBack
     THEN GiveUp(j) /\ UNCHANGED <<active, flags, counter, at, inTx, attempt, leftover>>
     ELSE Settle(j) /\ lock' = Orphan /\ active' = NoJob
  /\ UNCHANGED <<row, old, new, control, clientVars, read>>

EndExtras(j) ==
  /\ state[j] = "extras"
  /\ at[j] = Total
  /\ ~Stopping(j) \/ ExtraLines = 0
  /\ Go(j, "overlay")
  /\ UNCHANGED <<dbVars, workKeeps, runVars, spent, slips>>

---------------------------------------------------------------------------
(* finalizeModImport *)

(* pruneStaleModImportData keeps what the run has tracked: its own rows. The *)
(* conversion of other locales and the game's afterConvert follow.           *)
Prune(j) ==
  /\ state[j] = "prune"
  /\ old' = IF pruneStaleImportData(j) THEN [line \in Lines |-> 0] ELSE old
  /\ Go(j, "close")
  /\ UNCHANGED <<row, new, lock, workKeeps, runVars, spent, slips>>

FailFinalize(j) ==
  /\ state[j] \in {"prune", "close"}
  /\ Spend("failure")
  /\ GiveUp(j)
  /\ UNCHANGED <<row, old, new, workKeeps, read, counter, at, inTx, attempt, leftover>>

CompleteRun(j) ==
  /\ state[j] = "close"
  /\ ~Stopping(j)
  /\ markDone(counter[j])
  /\ Go(j, "ending")
  /\ UNCHANGED <<old, new, lock, workKeeps, runVars, spent, slips>>

---------------------------------------------------------------------------
(* The end of a run, messages to it, and a worker that dies                *)

(* Mutant of EndRun: a run that returns keeps the lock. *)
EndWithoutUnlock(j) ==
  /\ state[j] = "ending"
  /\ Settle(j)
  /\ active' = NoJob
  /\ UNCHANGED <<dbVars, control, clientVars, read, spent, slips>>

(* Unlock, then endActiveImport, which forgets whichever run is in the map. *)
EndRun(j) ==
  /\ state[j] = "ending"
  /\ Settle(j)
  /\ lock' = NoJob
  /\ active' = NoJob
  /\ UNCHANGED <<row, old, new, control, clientVars, read, spent, slips>>

MarkThrown(j) ==
  /\ state[j] = "throwing"
  /\ markFailed(counter[j])
  /\ Settle(j)
  /\ active' = NoJob
  /\ UNCHANGED <<old, new, lock, control, clientVars, read, spent, slips>>

(* requestModCancel and requestModPause name the row, so the message of one  *)
(* job reaches the run that is in the map; with no listener it is lost.      *)
Deliver(j, what) ==
  /\ <<j, what>> \in control
  /\ control' = control \ {<<j, what>>}
  /\ flags' = IF state[j] \in Listening /\ active # NoJob
              THEN [flags EXCEPT ![active] = @ \cup {what}]
              ELSE flags
  /\ UNCHANGED <<dbVars, state, active, runVars, clientVars, spent, slips>>

Crash ==
  /\ Spend("crash")
  /\ \E j \in Jobs : state[j] \in Listening \cup {"loading"}
  /\ state' = [j \in Jobs |-> IF state[j] \in Listening \cup {"loading"}
                              THEN "stalled" ELSE state[j]]
  /\ lock' = NoJob
  /\ active' = NoJob
  /\ control' = {}
  /\ UNCHANGED <<row, old, new, flags, runVars, clientVars>>

(* BullMQ fails a stalled import: maxStalledCount 0, and nobody requeues it. *)
StallFails(j) ==
  /\ state[j] = "stalled"
  /\ Settle(j)
  /\ UNCHANGED <<dbVars, control, active, clientVars, read, spent, slips>>

(* The pool closes an idle connection, and its session lock goes with it. *)
CloseSession ==
  /\ lock = Orphan
  /\ lock' = NoJob
  /\ UNCHANGED <<row, old, new, state, workKeeps, runVars, spent, slips>>

---------------------------------------------------------------------------
Request(c) ==
  \/ CheckStart(c) \/ EnqueueStart(c)
  \/ CheckEdit(c, "restart") \/ restartModImportJob(c)
  \/ CheckEdit(c, "languages") \/ updateModJobLanguages(c)
  \/ \E j \in Jobs : cancelQueuedImport(c, j)
  \/ ReadForCancel(c) \/ MarkCancelled(c)

(* What the worker does of its own accord. *)
Work(j) ==
  \/ ReadRow(j) \/ BeginRun(j)
  \/ StopAtLine(j) \/ OpenBatch(j) \/ DropBatch(j) \/ FlushBatch(j)
  \/ NextPhase(j) \/ StopAtSlice(j) \/ WriteSlice(j) \/ EndExtras(j)
  \/ Prune(j) \/ CompleteRun(j)
  \/ EndRun(j) \/ MarkThrown(j) \/ StallFails(j)

Fault(j) ==
  \/ RetryBatch(j) \/ FailBatch(j) \/ FailCommit(j) \/ FailSlice(j) \/ FailFinalize(j)

Next ==
  \/ \E c \in Clients : Request(c)
  \/ \E j \in Jobs : \/ pauseQueuedImport(j)
                     \/ Work(j) \/ EnterLock(j) \/ Fault(j)
                     \/ \E what \in {"cancel", "pause"} : Deliver(j, what)
  \/ Crash
  \/ CloseSession

Spec == Init /\ [][Next]_vars

(* The worker's event loop gets to every step, a lock that stays free is      *)
(* granted, and the pool closes idle connections.                             *)
Fairness ==
  /\ \A j \in Jobs : WF_vars(Work(j)) /\ WF_vars(EnterLock(j))
  /\ WF_vars(CloseSession)

FairSpec == Spec /\ Fairness

---------------------------------------------------------------------------
(* Type invariant. The count of a run can pass the number of lines: a resumed *)
(* run writes the lines beside the plugin again and counts them again.        *)
RowType == [status : {"pending", "in_progress", "paused", "failed", "completed"},
            imported : Nat, lang : Langs]
RowTypeOK ==
  /\ row \in RowType
  /\ read \in [Jobs -> RowType]
  /\ request \in [Clients -> {"idle", "start", "restart", "languages", "cancel", "mark"}]
  /\ seen \in [Clients -> Nat]
TableTypeOK ==
  /\ old \in [Lines -> Nat]
  /\ new \in [Lines -> Nat]
QueueTypeOK ==
  /\ lock \in Jobs \cup {NoJob, Orphan}
  /\ state \in [Jobs -> Steps]
  /\ control \subseteq Jobs \X {"cancel", "pause"}
  /\ flags \in [Jobs -> SUBSET {"cancel", "pause"}]
  /\ active \in Jobs \cup {NoJob}
LoopTypeOK ==
  /\ counter \in [Jobs -> Nat]
  /\ at \in [Jobs -> 0 .. Total]
  /\ batch \in [Jobs -> 0 .. BatchSize]
  /\ attempt \in [Jobs -> 0 .. MaxAttempts]
  /\ inTx \in [Jobs -> BOOLEAN]
  /\ leftover \in [Jobs -> BOOLEAN]
BoundTypeOK ==
  /\ spent \in 0 .. MaxEvents
  /\ slips \subseteq {"languages", "late"}

TypeOK == RowTypeOK /\ TableTypeOK /\ QueueTypeOK /\ LoopTypeOK /\ BoundTypeOK

Stored(lang, i) == old[<<lang, i>>] + new[<<lang, i>>] >= 1

(* The count a resume starts from never names a line of the plugin that is    *)
(* not in the database: what imported_records says is committed, whatever     *)
(* stops, retries, crashes, second runs and stale writers do (flush,          *)
(* markFailed with the count a cancel request has read).                      *)
CheckpointCommitted ==
  slips = {} => \A i \in 1 .. PluginLines : i <= row.imported => Stored(row.lang, i)

(* A row that says completed has every line of its mod in the database: no    *)
(* dropped batch, skipped line or prune of another run has lost one.          *)
CompletedHasAll ==
  (slips = {} /\ row.status = "completed") => \A i \in 1 .. Total : Stored(row.lang, i)

(* A run from the start that completes leaves every line exactly once and     *)
(* nothing of earlier runs, whatever they left behind: unless it left rows    *)
(* itself in an attempt it made without a transaction.                        *)
FreshRunExact ==
  [][\A j \in Jobs :
       (CompleteRun(j) /\ read[j].imported = 0 /\ ~leftover[j])
         => \A line \in Lines :
              old[line] + new[line] = (IF line[1] = read[j].lang THEN 1 ELSE 0)]_vars

(* Every run that was queued ends: it gets the lock however the runs before   *)
(* it ended, and no stop, fault or crash leaves it hanging.                   *)
RunsEnd == isImportQueued ~> ~isImportQueued

(* Documented, and not so: "so a paused job resumes cleanly". No failure, no  *)
(* crash and no second run is needed to store a line twice.                   *)
ResumesCleanly == \A line \in Lines : old[line] + new[line] <= 1
=============================================================================
