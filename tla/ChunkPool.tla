----------------------------- MODULE ChunkPool -----------------------------
(*************************************************************************)
(* The work pool that LLM chunks run in (src/llm/chunkRecovery): chunks    *)
(* come from a seeded queue or from a feed that reads ahead, calls are     *)
(* answered whole or in part, time out, fail or find the service gone,     *)
(* and what failed comes back halved, alone or after a backoff, until      *)
(* every row has a result or the run is stopped.                           *)
(*************************************************************************)
EXTENDS Integers, FiniteSets

CONSTANTS
  Items,        \* rows of `strings`, by id
  BatchSize,    \* rows a chunk may have
  MaxSlots,     \* calls in flight: the setting read when a pool starts
  ReadAhead,    \* chunks the feed may queue per slot: 2 in the code
  MaxAttempts   \* CONFIG.llmMaxAttempts

ASSUME PoolAssumption ==
  /\ Items \subseteq Nat \ {0} /\ IsFiniteSet(Items)
  /\ BatchSize \in Nat \ {0} /\ MaxSlots \in Nat \ {0}
  /\ ReadAhead \in Nat \ {0} /\ MaxAttempts \in Nat \ {0}

VARIABLES
  work,      \* the chunks there are: rows, attempt, and where they stand
  slots,     \* concurrency of the pool that runs
  unfed,     \* rows the feed has not yielded
  feeder,    \* the feed's loop; "done" for a seeded pool
  fatal,     \* fatalError
  stop,      \* the job's cancel flag: shouldAbort
  resolved,  \* the pool's promise
  told       \* how often a result was reported for a row

poolVars == <<work, slots, unfed, feeder, fatal, stop, resolved, told>>

(* A chunk is in the feed's hand, queued, in flight, waiting for its       *)
(* backoff, or answered and on its way into the database: "storing"        *)
(* before the old row is deleted, "inserting" after.                       *)
Places == {"held", "queued", "running", "delayed", "storing", "inserting"}
Chunk  == [items : SUBSET Items, attempt : Nat, at : Places]
(* The feed is asked for a chunk, has one in hand, waits for room, is over. *)
Loop   == {"pull", "hold", "waits", "done", "broken"}

In(some, places) == {w \in some : w.at \in places}
At(places)       == In(work, places)
Stored           == {"storing", "inserting"}
New(items, at)   == [items |-> items, attempt |-> 0, at |-> at]
Moved(w, at)     == [w EXCEPT !.at = at]
Many(w)          == Cardinality(w.items) > 1
Instead(w, some) == (work \ {w}) \cup {v \in some : v.items # {}}
Report(items)    == told' = [i \in Items |-> IF i \in items THEN told[i] + 1 ELSE told[i]]
Ended            == fatal \/ stop
Chunks(items)    ==
  {some \in SUBSET (SUBSET items \ {{}}) :
     /\ UNION some = items
     /\ \A c, d \in some : c = d \/ c \cap d = {}
     /\ \A c \in some : Cardinality(c) <= BatchSize}

---------------------------------------------------------------------------
(* maybeDone *)

(* Mutant of PoolDone: a chunk that waits for its backoff is not waited for. *)
PoolDoneUndelayed ==
  /\ At({"running"}) = {}
  /\ Ended \/ (At({"queued"}) = {} /\ feeder \in {"done", "broken"})
(* Mutant of PoolDone: a stopped pool waits for what is still queued. *)
PoolDoneEmpty ==
  /\ At({"running", "queued", "delayed"}) = {}
  /\ Ended \/ feeder \in {"done", "broken"}
(* A pool that ended early waits for the calls in flight and nothing else. *)
PoolDone ==
  /\ At({"running"}) = {}
  /\ Ended \/ (At({"queued", "delayed"}) = {} /\ feeder \in {"done", "broken"})

(* pump, which every event ends in: free slots take from the queue, a feed  *)
(* that waits for room is woken, and only here is the promise resolved.     *)
Pump(some, loop) ==
  LET queued == In(some, {"queued"})  running == In(some, {"running"}) IN
  \E go \in SUBSET queued :
    /\ \/ Ended' /\ go = {}
       \/ /\ ~Ended' /\ Cardinality(go) + Cardinality(running) <= slots
          /\ go = queued \/ Cardinality(go) + Cardinality(running) = slots
    /\ work' = (some \ go) \cup {Moved(w, "running") : w \in go}
    /\ feeder' = IF loop = "waits" /\ (Ended' \/ go # {}) THEN "hold" ELSE loop
    /\ resolved' = (resolved \/ PoolDone')

---------------------------------------------------------------------------
(* The feed reads ahead of the calls. *)

FeedYields(items) ==
  /\ feeder = "pull" /\ ~Ended
  /\ items \in SUBSET unfed \ {{}} /\ Cardinality(items) <= BatchSize
  /\ work' = work \cup {New(items, "held")}
  /\ unfed' = unfed \ items
  /\ feeder' = "hold"
  /\ UNCHANGED <<slots, fatal, stop, resolved, told>>

Full == Cardinality(At({"queued"})) >= slots * ReadAhead

FeedWaits ==
  /\ feeder = "hold" /\ ~Ended /\ Full
  /\ feeder' = "waits"
  /\ UNCHANGED <<work, slots, unfed, fatal, stop, resolved, told>>

FeedPushes(w) ==
  /\ feeder = "hold" /\ ~Ended /\ ~Full
  /\ w \in At({"held"})
  /\ UNCHANGED <<slots, unfed, fatal, stop, told>>
  /\ Pump(Instead(w, {Moved(w, "queued")}), "pull")

FeedEnds ==
  /\ \/ feeder = "pull" /\ (unfed = {} \/ Ended)
     \/ feeder = "hold" /\ Ended
  /\ UNCHANGED <<slots, unfed, fatal, stop, told>>
  /\ Pump(work \ At({"held"}), "done")

(* A page cannot be read. *)
FeedBreaks ==
  /\ feeder = "pull"
  /\ UNCHANGED <<slots, unfed, fatal, stop, told>>
  /\ Pump(work, "broken")

---------------------------------------------------------------------------
(* The ends a call can have *)

(* Mutant of Answered: the rows the answer misses are queued with the rest. *)
AnsweredAllAgain(w, missing, bad) ==
  /\ missing \subseteq w.items /\ bad \subseteq w.items \ missing
  /\ missing # {} => Many(w)
  /\ Report(bad)
  /\ UNCHANGED <<slots, unfed, fatal, stop>>
  /\ Pump(Instead(w, {New(w.items \ (missing \cup bad), "storing")}
            \cup (IF missing = {} THEN {} ELSE {New({i}, "queued") : i \in w.items})), feeder)
(* What the model answered is on its way into the database, what breaks a   *)
(* placeholder is reported, what is missing is asked for again row by row.  *)
Answered(w, missing, bad) ==
  /\ missing \subseteq w.items /\ bad \subseteq w.items \ missing
  /\ missing # {} => Many(w)
  /\ Report(bad)
  /\ UNCHANGED <<slots, unfed, fatal, stop>>
  /\ Pump(Instead(w, {New(w.items \ (missing \cup bad), "storing")}
                       \cup {New({i}, "queued") : i \in missing}), feeder)

(* "other" is also an answer that misses the only row asked for. *)
Errors      == {"timeout", "truncated", "other"}
Last(w)     == w.attempt + 1 >= MaxAttempts
Splits(w, error)  == Many(w) /\ (error \in {"timeout", "truncated"} \/ Last(w))
Retries(w, error) == ~Splits(w, error) /\ error # "timeout" /\ ~Last(w)

(* A timeout is answered by the chunk itself, which asks for no Stop. *)
HalveCall(w, error) ==
  /\ Splits(w, error) /\ (error = "timeout" \/ ~Ended)
  /\ UNCHANGED <<slots, unfed, fatal, stop, told>>
  /\ \E half \in SUBSET w.items :
       /\ Cardinality(half) = (Cardinality(w.items) + 1) \div 2
       /\ Pump(Instead(w, {New(half, "queued"), New(w.items \ half, "queued")}), feeder)

RetryCall(w, error) ==
  /\ ~Ended /\ Retries(w, error)
  /\ UNCHANGED <<slots, unfed, fatal, stop, told>>
  /\ Pump(Instead(w, {[Moved(w, "delayed") EXCEPT !.attempt = @ + 1]}), feeder)

(* onFailure: the row is reported as failed. *)
FailCall(w, error) ==
  /\ ~Ended /\ ~Splits(w, error) /\ ~Retries(w, error)
  /\ Report(w.items)
  /\ UNCHANGED <<slots, unfed, fatal, stop>>
  /\ Pump(work \ {w}, feeder)

(* After a Stop or a fatal error whatever else fails is dropped. *)
DropCall(w) ==
  /\ Ended
  /\ UNCHANGED <<slots, unfed, fatal, stop, told>>
  /\ Pump(work \ {w}, feeder)

(* The service stayed away for the whole wait window: the pool gives up. *)
LoseService(w) ==
  /\ fatal' = TRUE
  /\ UNCHANGED <<slots, unfed, stop, told>>
  /\ Pump(work \ ({w} \cup At({"queued"})), feeder)

CallEnds(w) ==
  /\ w \in At({"running"})
  /\ \/ \E missing, bad \in SUBSET w.items : Answered(w, missing, bad)
     \/ \E error \in Errors : HalveCall(w, error) \/ RetryCall(w, error) \/ FailCall(w, error)
     \/ DropCall(w)
     \/ LoseService(w)

(* The backoff is over; after a Stop the timer only calls maybeDone. *)
Return(w) ==
  /\ w \in At({"delayed"})
  /\ UNCHANGED <<slots, unfed, fatal, stop, told>>
  /\ \/ ~Ended /\ Pump(Instead(w, {Moved(w, "queued")}), feeder)
     \/ /\ Ended
        /\ work' = work \ {w}
        /\ UNCHANGED feeder
        /\ resolved' = (resolved \/ PoolDone')

============================================================================
