------------------------------ MODULE LlmJobs ------------------------------
(*************************************************************************)
(* The jobs that drive the chunk pool.  An LLM translate job goes through  *)
(* the untranslated rows of a mod page by page, with a seeded pool for     *)
(* each page, and stores what comes back while people edit the same rows.  *)
(* An LLM verify job feeds one pool from all its pages.                    *)
(*************************************************************************)
EXTENDS ChunkPool

CONSTANTS
  PageSize,    \* rows a page has: CONFIG.dbChunkSize
  Plain,       \* rows with nothing to translate: stored as they are
  DbAttempts,  \* attempts of one write: 5 in the code
  MaxSaves     \* bound: saves by people

ASSUME JobAssumption ==
  /\ PageSize \in Nat \ {0} /\ DbAttempts \in Nat \ {0} /\ MaxSaves \in Nat
  /\ Plain \subseteq Items

VARIABLES
  kind,    \* which of the two jobs runs
  at,      \* where the job is
  cursor,  \* afterStringId
  page,    \* the rows of the page, as loaded
  batch,   \* those of them that may be translated
  row,     \* `translations` per row: none, by a model, by a person
  saves    \* saves by people so far

(* History, read by the properties only. *)
VARIABLES
  late,    \* rows a person saved after the batch had picked them
  givenUp  \* rows of pages reported as failed as a whole

jobVars == <<kind, at, cursor, page, batch>>
dbVars  == <<row, saves, late>>
vars    == <<poolVars, jobVars, dbVars, givenUp>>

Over  == {"completed", "cancelled", "failed"}
Steps == {"load", "filter", "prepare", "plain", "start", "pool", "settle"} \cup Over
Texts == {"none", "auto", "human"}

(* Types, and the order of the loop: a batch is part of its page. *)
TypeOK ==
  /\ work \subseteq Chunk /\ unfed \subseteq Items
  /\ slots \in 1 .. MaxSlots /\ feeder \in Loop
  /\ fatal \in BOOLEAN /\ stop \in BOOLEAN /\ resolved \in BOOLEAN
  /\ told \in [Items -> Nat]
  /\ kind \in {"translate", "verify"} /\ at \in Steps
  /\ cursor \in Nat
  /\ page \subseteq Items /\ batch \subseteq page
  /\ row \in [Items -> Texts] /\ saves \in Nat
  /\ late \subseteq Items /\ givenUp \subseteq Items

Write(items, text) == row' = [i \in Items |-> IF i \in items THEN text ELSE row[i]]
Untranslated(items) == {i \in items : row[i] = "none"}

Init ==
  /\ kind \in {"translate", "verify"}
  /\ at = IF kind = "translate" THEN "load" ELSE "pool"
  /\ feeder = IF kind = "translate" THEN "done" ELSE "pull"
  /\ unfed = IF kind = "translate" THEN {} ELSE Items
  /\ IF kind = "translate"
     THEN row \in [Items -> {"none", "human"}] /\ Untranslated(Items) # {}
     ELSE row = [i \in Items |-> "auto"]
  /\ work = {} /\ slots \in 1 .. MaxSlots
  /\ fatal = FALSE /\ stop = FALSE /\ resolved = FALSE
  /\ told = [i \in Items |-> 0]
  /\ cursor = 0 /\ page = {} /\ batch = {}
  /\ saves = 0 /\ late = {} /\ givenUp = {}

---------------------------------------------------------------------------
(* runLlmTranslateJob: page by page along the ids *)

Ahead == {i \in Untranslated(Items) : i > cursor}

(* Mutant of LoadPage: the rows picked from the page before are kept. *)
LoadPageKeeping ==
  /\ kind = "translate" /\ at = "load" /\ ~stop
  /\ \E last \in Ahead :
       /\ page' = {i \in Ahead : i <= last}
       /\ Cardinality(page') <= PageSize
       /\ Cardinality(page') = PageSize \/ page' = Ahead
       /\ cursor' = last
  /\ at' = "filter"
  /\ UNCHANGED <<poolVars, kind, batch, dbVars, givenUp>>
LoadPage ==
  /\ kind = "translate" /\ at = "load" /\ ~stop
  /\ \E last \in Ahead :
       /\ page' = {i \in Ahead : i <= last}
       /\ Cardinality(page') <= PageSize
       /\ Cardinality(page') = PageSize \/ page' = Ahead
       /\ cursor' = last
  /\ at' = "filter"
  /\ batch' = {}
  /\ UNCHANGED <<poolVars, kind, dbVars, givenUp>>

Finish ==
  /\ kind = "translate" /\ at = "load"
  /\ stop \/ Ahead = {}
  /\ at' = IF stop THEN "cancelled" ELSE "completed"
  /\ UNCHANGED <<poolVars, kind, cursor, page, batch, dbVars, givenUp>>

LoadFails ==
  /\ kind = "translate" /\ at = "load" /\ ~stop
  /\ at' = "failed"
  /\ UNCHANGED <<poolVars, kind, cursor, page, batch, dbVars, givenUp>>

(* Mutant of FilterBatch: the page is taken as it was loaded. *)
FilterNothing ==
  /\ at = "filter"
  /\ batch' = page
  /\ at' = "prepare"
  /\ UNCHANGED <<poolVars, kind, cursor, page, dbVars, givenUp>>
(* filterStringIdsForLlmTranslate: what was translated meanwhile drops out. *)
FilterBatch ==
  /\ at = "filter"
  /\ batch' = Untranslated(page)
  /\ at' = IF batch' = {} THEN "load" ELSE "prepare"
  /\ UNCHANGED <<poolVars, kind, cursor, page, dbVars, givenUp>>

(* prepareLlmItems, buildFamilyTranslateChunks; a stopped job prepares nothing. *)
PrepareBatch ==
  /\ at = "prepare"
  /\ IF stop
     THEN at' = "load" /\ UNCHANGED work
     ELSE /\ at' = IF batch \cap Plain = {} THEN "start" ELSE "plain"
          /\ \E some \in Chunks(batch \ Plain) :
               work' = work \cup {New(c, "queued") : c \in some}
  /\ UNCHANGED <<slots, unfed, feeder, fatal, stop, resolved, told>>
  /\ UNCHANGED <<kind, cursor, page, batch, dbVars, givenUp>>

StorePlain ==
  /\ at = "plain"
  /\ Write(batch \cap Plain, "auto")
  /\ Report(batch \cap Plain)
  /\ at' = "start"
  /\ UNCHANGED <<work, slots, unfed, feeder, fatal, stop, resolved>>
  /\ UNCHANGED <<kind, cursor, page, batch, saves, late, givenUp>>

RunPool ==
  /\ at = "start"
  /\ UNCHANGED <<unfed, fatal, stop, told, kind, cursor, page, batch, dbVars, givenUp>>
  /\ \/ /\ ~stop /\ At({"queued"}) # {}
        /\ at' = "pool"
        /\ \E n \in 1 .. MaxSlots : slots' = n
        /\ Pump(work, feeder)
     \/ /\ stop \/ At({"queued"}) = {}
        /\ at' = "load"
        /\ work' = At(Stored)
        /\ UNCHANGED <<slots, feeder, resolved>>

(* What a batch throws ends in the page being reported as failed, row by    *)
(* row, and the job goes on.  Writes on their way are not waited for.       *)
GiveUpPage ==
  /\ at' = "load"
  /\ work' = At(Stored)
  /\ fatal' = FALSE
  /\ Report(page)
  /\ givenUp' = givenUp \cup page

(* A query of the batch itself fails. *)
BatchFails ==
  /\ at \in {"filter", "prepare", "plain"}
  /\ GiveUpPage
  /\ UNCHANGED <<slots, unfed, feeder, stop, resolved, kind, cursor, page, batch, dbVars>>

---------------------------------------------------------------------------
(* The pool, and the end of a batch or a pipeline *)

PoolStep ==
  /\ at = "pool"
  /\ \E w \in work : CallEnds(w) \/ Return(w)
  /\ UNCHANGED <<jobVars, dbVars, givenUp>>

FeedStep ==
  /\ at \in {"pool", "settle"}
  /\ \/ \E items \in SUBSET unfed : FeedYields(items)
     \/ FeedWaits
     \/ \E w \in work : FeedPushes(w)
     \/ FeedEnds
     \/ FeedBreaks
  /\ UNCHANGED <<jobVars, dbVars, givenUp>>

(* What is left in the queue is let go; pending timers will find the end. *)
PoolReturns ==
  /\ at = "pool" /\ resolved
  /\ at' = "settle"
  /\ work' = At(Stored \cup {"held"})
  /\ resolved' = FALSE
  /\ UNCHANGED <<slots, unfed, feeder, fatal, stop, told, kind, cursor, page, batch, dbVars, givenUp>>

Settling == at = "settle" /\ feeder \in {"done", "broken"}
Throws   == fatal \/ feeder = "broken"

BatchThrows ==
  /\ Settling /\ Throws /\ kind = "translate"
  /\ GiveUpPage
  /\ UNCHANGED <<slots, unfed, feeder, stop, resolved, kind, cursor, page, batch, dbVars>>

PipelineThrows ==
  /\ Settling /\ Throws /\ kind = "verify"
  /\ at' = "failed"
  /\ UNCHANGED <<poolVars, kind, cursor, page, batch, dbVars, givenUp>>

(* Mutant of OfBatch: the writes of the batch are not waited for. *)
OfBatchNone == {}
(* drainPersistJobs waits for the writes of its own batch. *)
OfBatch == {w \in At(Stored) : ~(w.items \subseteq givenUp)}

Drained ==
  /\ Settling /\ ~Throws /\ OfBatch = {}
  /\ at' = IF kind = "translate" THEN "load" ELSE IF stop THEN "cancelled" ELSE "completed"
  /\ UNCHANGED <<poolVars, kind, cursor, page, batch, dbVars, givenUp>>

---------------------------------------------------------------------------
(* scheduleChunkPersist: two statements, no transaction, any of which may   *)
(* be refused and tried again; they go on whatever becomes of the job.      *)

Deleting(w) ==
  /\ kind = "translate" /\ w.at = "storing"
  /\ work' = Instead(w, {Moved(w, "inserting")})
  /\ Write(w.items, "none")
  /\ UNCHANGED told

(* The unique index refuses the whole statement when one row is back. *)
Inserting(w) ==
  /\ kind = "translate" /\ w.at = "inserting"
  /\ Untranslated(w.items) = w.items
  /\ work' = work \ {w}
  /\ Write(w.items, "auto")
  /\ Report(w.items)

RetryWrite(w) ==
  /\ kind = "translate" /\ w.attempt + 1 < DbAttempts
  /\ work' = Instead(w, {[Moved(w, "storing") EXCEPT !.attempt = @ + 1]})
  /\ UNCHANGED <<told, row>>

FailWrite(w) ==
  /\ kind = "translate"
  /\ work' = work \ {w}
  /\ Report(w.items)
  /\ UNCHANGED row

(* A verify job counts its rows when their writes, which are not modelled,  *)
(* are through.                                                             *)
CountVerified(w) ==
  /\ kind = "verify"
  /\ work' = work \ {w}
  /\ Report(w.items)
  /\ UNCHANGED row

PersistStep ==
  /\ \E w \in At(Stored) :
       Deleting(w) \/ Inserting(w) \/ RetryWrite(w) \/ FailWrite(w) \/ CountVerified(w)
  /\ UNCHANGED <<slots, unfed, feeder, fatal, stop, resolved, saves, late, jobVars, givenUp>>

---------------------------------------------------------------------------
(* People *)

Picked == IF at \in {"prepare", "plain", "start", "pool", "settle"} THEN batch ELSE {}

(* The editor saves a translation. *)
SaveRow(i) ==
  /\ saves < MaxSaves
  /\ saves' = saves + 1
  /\ row' = [row EXCEPT ![i] = "human"]
  /\ late' = late \cup ({i} \cap (Picked \cup UNION {w.items : w \in work}))
  /\ UNCHANGED <<poolVars, jobVars, givenUp>>

Stop ==
  /\ at \notin Over /\ ~stop
  /\ stop' = TRUE
  /\ UNCHANGED <<work, slots, unfed, feeder, fatal, resolved, told, jobVars, dbVars, givenUp>>

JobStep ==
  \/ LoadPage \/ Finish \/ LoadFails
  \/ FilterBatch \/ PrepareBatch \/ StorePlain \/ RunPool
  \/ BatchFails \/ PoolReturns \/ BatchThrows \/ PipelineThrows \/ Drained

Next ==
  \/ JobStep
  \/ PoolStep
  \/ FeedStep
  \/ PersistStep
  \/ \E i \in Items : SaveRow(i)
  \/ Stop

Spec == Init /\ [][Next]_vars

(* Calls carry a deadline, timers fire, statements end, pages are read. *)
FairSpec ==
  /\ Spec
  /\ WF_vars(JobStep) /\ WF_vars(PoolStep) /\ WF_vars(FeedStep) /\ WF_vars(PersistStep)

---------------------------------------------------------------------------
(* Properties *)

(* No row is reported twice, however its chunk was split, retried and       *)
(* answered in part, unless its page was reported as failed as a whole.     *)
ReportedOnce == \A i \in Items : told[i] <= 1 \/ i \in givenUp

(* A job that says it completed has a result for every row it was asked     *)
(* for: nothing is lost between the feed, the queue, the backoffs and the   *)
(* writes.  A row somebody translated first needs none.                     *)
NothingLost ==
  at = "completed" =>
    \A i \in Items : told[i] >= 1 \/ (kind = "translate" /\ row[i] # "none")

(* When the job is over no call of it is in flight, and nothing is being    *)
(* written but what it gave up on or what a failure left behind.            *)
QuietWhenOver ==
  at \in Over =>
    /\ At(Places \ Stored) = {}
    /\ at # "failed" => \A w \in work : w.items \subseteq givenUp

(* A person's translation is replaced by a model's only if it was saved     *)
(* after the batch had picked the row.                                      *)
HumanTextKept ==
  [][\A i \in Items : row[i] = "human" /\ row'[i] # "human" => i \in late]_vars

(* Every job ends, also one that is stopped with a full queue, a full       *)
(* buffer or a feed that waits.                                             *)
JobEnds == <>(at \in Over)

============================================================================
