--------------------------- MODULE LlmJobsProofs ---------------------------
(*************************************************************************)
(* Proofs about LlmJobs: for any rows, pages, slots, attempts, Stops and   *)
(* saves, each row is reported once and none is lost.  The argument is     *)
(* about the rows that the chunks hold together: a step of the pool cuts   *)
(* and moves chunks, and only a report or a loss takes a row out of them.  *)
(*************************************************************************)
EXTENDS LlmJobs, TLAPS

Rows(some)  == UNION {w.items : w \in some}
Apart(some) == \A v, w \in some : v = w \/ v.items \cap w.items = {}

(* A translate job has no feed; a verify job has no pages, and its pool     *)
(* runs from the start.                                                     *)
KindInv ==
  /\ kind = "translate" =>
       /\ unfed = {} /\ feeder = "done"
       /\ \A i \in page : i <= cursor
       /\ at \in {"load", "filter", "prepare", "plain", "start"} => ~fatal
       /\ at # "pool" => ~resolved
  /\ kind = "verify" =>
       /\ at \in {"pool", "settle"} \cup Over
       /\ page = {} /\ batch = {} /\ givenUp = {}

(* Where chunks may stand, by the step of the job and of the feed. *)
PlaceInv ==
  /\ At({"held"}) # {} => feeder \in {"hold", "waits"}
  /\ \A v, w \in At({"held"}) : v = w
  /\ At({"queued"}) # {} => at \in {"plain", "start", "pool"}
  /\ At({"running", "delayed"}) # {} => at = "pool"
  /\ at = "settle" => Ended \/ feeder \in {"done", "broken"}
  /\ at \in Over => feeder \in {"done", "broken"}
  /\ feeder = "done" /\ ~Ended => unfed = {}
  /\ resolved => PoolDone

(* Rows that neither a chunk holds nor a report has named. *)
Fresh ==
  unfed \cup {i \in Items : \/ kind = "translate" /\ i > cursor
                            \/ at \in {"filter", "prepare"} /\ i \in page
                            \/ at = "plain" /\ i \in batch \cap Plain}
FreshInv == \A i \in Fresh : told[i] = 0 /\ i \notin Rows(work)
HeldInv  == \A i \in Rows(work) : told[i] = 0 \/ i \in givenUp

(* Chunks that outlive their batch hold rows of pages that were given up. *)
PageInv ==
  /\ \A i \in givenUp : told[i] >= 1
  /\ kind = "translate" => Rows(work) \subseteq givenUp \cup page
  /\ at \in {"load", "filter", "prepare", "completed", "cancelled"} => Rows(work) \subseteq givenUp
  /\ at \in {"plain", "start"} => Rows(At(Stored)) \subseteq givenUp

(* Why a row has no result yet. *)
Due(i) ==
  \/ i \in Rows(work) \cup unfed
  \/ stop
  \/ kind = "verify" /\ (fatal \/ feeder = "broken")
  \/ kind = "translate" /\ \/ row[i] # "none"
                           \/ i > cursor
                           \/ at = "filter" /\ i \in page
                           \/ at = "prepare" /\ i \in batch
                           \/ at = "plain" /\ i \in batch \cap Plain
                           \/ fatal /\ i \in page
DueInv == \A i \in Items : told[i] >= 1 \/ Due(i)

(* Rows that a write may still replace. *)
Marked == Rows(work) \cup (IF at \in {"prepare", "plain"} THEN batch ELSE {})
TextInv == kind = "translate" => \A i \in Marked : row[i] = "human" => i \in late

IInv ==
  /\ TypeOK /\ Apart(work) /\ KindInv /\ PlaceInv
  /\ FreshInv /\ HeldInv /\ PageInv /\ ReportedOnce
  /\ DueInv /\ NothingLost /\ TextInv

---------------------------------------------------------------------------
(* Sets of chunks *)

(* Chunks taken away leave the rest as it was. *)
LEMMA FewerKeep ==
  ASSUME NEW some, NEW fewer \in SUBSET some
  PROVE  /\ some \subseteq Chunk => fewer \subseteq Chunk
         /\ Apart(some) => Apart(fewer)
         /\ Rows(fewer) \subseteq Rows(some)
  BY DEF Apart, Rows

(* A chunk that moves, or is tried again, holds the rows it held. *)
LEMMA MovedIsChunk ==
  ASSUME NEW w \in Chunk, NEW place \in Places
  PROVE  /\ Moved(w, place) \in Chunk
         /\ Moved(w, place).items = w.items /\ Moved(w, place).at = place
         /\ [Moved(w, place) EXCEPT !.attempt = @ + 1] \in Chunk
         /\ [Moved(w, place) EXCEPT !.attempt = @ + 1].items = w.items
         /\ [Moved(w, place) EXCEPT !.attempt = @ + 1].at = place
<1> DEFINE v == Moved(w, place)
<1>1. v \in Chunk /\ v.items = w.items /\ v.at = place
  BY DEF Moved, Chunk
<1> HIDE DEF v
<1>2. /\ [v EXCEPT !.attempt = @ + 1] \in Chunk
      /\ [v EXCEPT !.attempt = @ + 1].items = v.items
      /\ [v EXCEPT !.attempt = @ + 1].at = v.at
  BY <1>1 DEF Chunk
<1> QED BY <1>1, <1>2 DEF v

(* One chunk alone. *)
LEMMA OneApart ==
  ASSUME NEW w \in Chunk
  PROVE  {w} \subseteq Chunk /\ Apart({w}) /\ Rows({w}) = w.items
  BY DEF Apart, Rows

(* A chunk that is replaced by parts of itself takes nobody else's rows. *)
LEMMA InsteadKeeps ==
  ASSUME work \subseteq Chunk, Apart(work), NEW w \in work,
         NEW some \in SUBSET Chunk, Apart(some), Rows(some) \subseteq w.items
  PROVE  /\ Instead(w, some) \subseteq Chunk
         /\ Apart(Instead(w, some))
         /\ Rows(Instead(w, some)) = (Rows(work) \ w.items) \cup Rows(some)
<1>1. Instead(w, some) \subseteq Chunk
  BY DEF Instead
<1>2. Apart(Instead(w, some))
  <2> SUFFICES ASSUME NEW u \in Instead(w, some), NEW v \in Instead(w, some), u # v
               PROVE  u.items \cap v.items = {}
    BY DEF Apart
  <2>1. CASE u \in some /\ v \in some
    BY <2>1 DEF Apart
  <2>2. CASE u \in work \ {w} /\ v \in work \ {w}
    BY <2>2 DEF Apart
  <2>3. CASE u \in work \ {w} /\ v \in some
    <3>1. u.items \cap w.items = {} BY <2>3 DEF Apart
    <3>2. v.items \subseteq w.items BY <2>3 DEF Rows
    <3> QED BY <3>1, <3>2
  <2>4. CASE v \in work \ {w} /\ u \in some
    <3>1. v.items \cap w.items = {} BY <2>4 DEF Apart
    <3>2. u.items \subseteq w.items BY <2>4 DEF Rows
    <3> QED BY <3>1, <3>2
  <2> QED BY <2>1, <2>2, <2>3, <2>4 DEF Instead
<1>3. Rows(Instead(w, some)) = (Rows(work) \ w.items) \cup Rows(some)
  <2>1. \A v \in work \ {w} : v.items \cap w.items = {} BY DEF Apart
  <2> QED BY <2>1 DEF Instead, Rows
<1> QED BY <1>1, <1>2, <1>3

(* pump starts calls and touches no row. *)
LEMMA PumpKeeps ==
  ASSUME NEW some \in SUBSET Chunk, Apart(some), NEW loop, Pump(some, loop)
  PROVE  /\ work' \subseteq Chunk /\ Apart(work') /\ Rows(work') = Rows(some)
         /\ \A place \in Places \ {"queued", "running"} : In(work', {place}) = In(some, {place})
         /\ In(work', Stored) = In(some, Stored)
         /\ In(some, {"queued"}) = {} => work' = some
         /\ feeder' = loop \/ (loop = "waits" /\ feeder' = "hold")
         /\ Ended' => In(work', {"running"}) = In(some, {"running"})
         /\ resolved' = (resolved \/ PoolDone')
<1>1. PICK go \in SUBSET In(some, {"queued"}) :
        /\ Ended' => go = {}
        /\ work' = (some \ go) \cup {Moved(w, "running") : w \in go}
  BY DEF Pump
<1>2. \A w \in go : /\ w \in some /\ w.at = "queued"
                    /\ Moved(w, "running") \in Chunk
                    /\ Moved(w, "running").items = w.items
                    /\ Moved(w, "running").at = "running"
  BY DEF In, Moved, Chunk, Places
<1>3. work' \subseteq Chunk
  BY <1>1, <1>2
<1>4. Rows(work') = Rows(some)
  BY <1>1, <1>2 DEF Rows
<1>5. Apart(work')
  <2> SUFFICES ASSUME NEW u \in work', NEW v \in work', u # v
               PROVE  u.items \cap v.items = {}
    BY DEF Apart
  <2>1. PICK x \in some : x.items = u.items /\ ((u = x /\ x \notin go) \/ (x \in go /\ u = Moved(x, "running")))
    BY <1>1, <1>2
  <2>2. PICK y \in some : y.items = v.items /\ ((v = y /\ y \notin go) \/ (y \in go /\ v = Moved(y, "running")))
    BY <1>1, <1>2
  <2>3. x # y BY <2>1, <2>2
  <2> QED BY <2>1, <2>2, <2>3 DEF Apart
<1>6. \A place \in Places \ {"queued", "running"} : In(work', {place}) = In(some, {place})
  BY <1>1, <1>2 DEF In
<1>7. Ended' => In(work', {"running"}) = In(some, {"running"})
  BY <1>1, <1>2 DEF In
<1>10. In(work', Stored) = In(some, Stored)
  BY <1>1, <1>2 DEF In, Stored
<1>11. In(some, {"queued"}) = {} => work' = some
  BY <1>1
<1>8. feeder' = loop \/ (loop = "waits" /\ feeder' = "hold")
  BY DEF Pump
<1>9. resolved' = (resolved \/ PoolDone')
  BY DEF Pump
<1> QED BY <1>3, <1>4, <1>5, <1>6, <1>7, <1>8, <1>9, <1>10, <1>11

---------------------------------------------------------------------------
(* What a step of the pool does to the rows *)

Singles(missing) == {New({i}, "queued") : i \in missing}

LEMMA SinglesKeep ==
  ASSUME NEW missing \in SUBSET Items
  PROVE  /\ Singles(missing) \subseteq Chunk /\ Apart(Singles(missing))
         /\ Rows(Singles(missing)) = missing
         /\ \A v \in Singles(missing) : v.at = "queued"
<1>1. \A i \in missing : /\ New({i}, "queued") \in Chunk
                        /\ New({i}, "queued").items = {i}
                        /\ New({i}, "queued").at = "queued"
  BY DEF New, Chunk, Places
<1>2. \A v \in Singles(missing) : \E i \in missing : v = New({i}, "queued")
  BY DEF Singles
<1>3. Singles(missing) \subseteq Chunk /\ \A v \in Singles(missing) : v.at = "queued"
  BY <1>1, <1>2
<1>4. Apart(Singles(missing))
  <2> SUFFICES ASSUME NEW u \in Singles(missing), NEW v \in Singles(missing), u # v
               PROVE  u.items \cap v.items = {}
    BY DEF Apart
  <2>1. PICK i \in missing : u = New({i}, "queued") BY <1>2
  <2>2. PICK j \in missing : v = New({j}, "queued") BY <1>2
  <2>3. i # j BY <2>1, <2>2
  <2> QED BY <1>1, <2>1, <2>2, <2>3
<1>5. Rows(Singles(missing)) = missing
  <2>1. ASSUME NEW v \in Singles(missing) PROVE v.items \subseteq missing
    <3>1. PICK i \in missing : v = New({i}, "queued") BY <1>2
    <3>2. v.items = {i} BY <1>1, <3>1
    <3> QED BY <3>2
  <2>2. \A i \in missing : New({i}, "queued") \in Singles(missing) BY DEF Singles
  <2>3. Rows(Singles(missing)) \subseteq missing BY <2>1 DEF Rows
  <2>4. \A i \in missing : i \in Rows(Singles(missing)) BY <1>1, <2>2 DEF Rows
  <2> QED BY <2>3, <2>4
<1> QED BY <1>3, <1>4, <1>5

(* Rows leave the chunks by a report, or are lost after the end: whatever a *)
(* call ends in, its chunk is cut, moved or dropped.                        *)
Shrinks ==
  \E bad \in SUBSET Rows(work) :
    /\ Report(bad)
    /\ Rows(work') \subseteq Rows(work) \ bad
    /\ Ended' \/ Rows(work) \subseteq Rows(work') \cup bad

LEMMA NoReport ==
  ASSUME told \in [Items -> Nat], UNCHANGED told
  PROVE  Report({})
  BY DEF Report

(* The chunk w of a call that ended becomes some others. *)
LEMMA PartsShrink ==
  ASSUME TypeOK, Apart(work), NEW w \in At({"running"}),
         NEW some \in SUBSET Chunk, Apart(some), NEW bad \in SUBSET w.items,
         Rows(some) \subseteq w.items \ bad, Ended' \/ w.items \subseteq Rows(some) \cup bad,
         \A v \in some : v.at # "held",
         Report(bad), Pump(Instead(w, some), feeder)
  PROVE  /\ work' \subseteq Chunk /\ Apart(work') /\ Shrinks
         /\ In(work', {"held"}) = At({"held"})
<1>1. w \in work /\ w.at = "running" /\ work \subseteq Chunk
  BY DEF At, In, TypeOK
<1>2. /\ Instead(w, some) \subseteq Chunk /\ Apart(Instead(w, some))
      /\ Rows(Instead(w, some)) = (Rows(work) \ w.items) \cup Rows(some)
  <2>1. Rows(some) \subseteq w.items OBVIOUS
  <2> QED BY <1>1, <2>1, InsteadKeeps
<1>3. /\ work' \subseteq Chunk /\ Apart(work') /\ Rows(work') = Rows(Instead(w, some))
      /\ In(work', {"held"}) = In(Instead(w, some), {"held"})
  BY <1>2, PumpKeeps DEF Places
<1>4. In(Instead(w, some), {"held"}) = At({"held"})
  BY <1>1 DEF In, At, Instead
<1>5. Shrinks
  <2>1. w.items \subseteq Rows(work) BY <1>1 DEF Rows
  <2> QED BY <1>2, <1>3, <2>1 DEF Shrinks
<1> QED BY <1>3, <1>4, <1>5

LEMMA CallShrinks ==
  ASSUME TypeOK, Apart(work), NEW w \in work, CallEnds(w)
  PROVE  /\ work' \subseteq Chunk /\ Apart(work') /\ Shrinks
         /\ In(work', {"held"}) = At({"held"})
<1> w \in At({"running"}) /\ w \in Chunk /\ w.items \subseteq Items /\ w.attempt \in Nat
  BY DEF CallEnds, TypeOK, Chunk, At, In
<1>1. ASSUME NEW missing \in SUBSET w.items, NEW bad \in SUBSET w.items, Answered(w, missing, bad)
      PROVE  /\ work' \subseteq Chunk /\ Apart(work') /\ Shrinks
             /\ In(work', {"held"}) = At({"held"})
  <2> DEFINE rest == New(w.items \ (missing \cup bad), "storing")
  <2> DEFINE some == {rest} \cup Singles(missing)
  <2>1. /\ Singles(missing) \subseteq Chunk /\ Apart(Singles(missing))
        /\ Rows(Singles(missing)) = missing /\ \A v \in Singles(missing) : v.at = "queued"
    BY SinglesKeep
  <2>2. /\ rest \in Chunk /\ rest.items = w.items \ (missing \cup bad) /\ rest.at = "storing"
    BY DEF New, Chunk, Places
  <2> HIDE DEF rest
  <2>3. some \subseteq Chunk /\ Rows(some) = rest.items \cup missing /\ \A v \in some : v.at # "held"
    BY <2>1, <2>2 DEF Rows
  <2>4. Apart(some)
    <3>1. \A v \in Singles(missing) : v.items \subseteq missing BY <2>1 DEF Rows
    <3> QED BY <2>1, <2>2, <3>1 DEF Apart
  <2>5. Report(bad) /\ Pump(Instead(w, some), feeder) /\ bad \cap missing = {}
    BY <1>1 DEF Answered, Singles, rest
  <2> HIDE DEF some
  <2>6. Rows(some) \subseteq w.items \ bad /\ w.items \subseteq Rows(some) \cup bad
    BY <2>2, <2>3, <2>5
  <2> QED BY <2>3, <2>4, <2>5, <2>6, PartsShrink
<1>2. ASSUME NEW error \in Errors, HalveCall(w, error)
      PROVE  /\ work' \subseteq Chunk /\ Apart(work') /\ Shrinks
             /\ In(work', {"held"}) = At({"held"})
  <2>1. PICK half \in SUBSET w.items :
          Pump(Instead(w, {New(half, "queued"), New(w.items \ half, "queued")}), feeder)
    BY <1>2 DEF HalveCall
  <2> DEFINE some == {New(half, "queued"), New(w.items \ half, "queued")}
  <2>2. some \subseteq Chunk /\ Apart(some) /\ Rows(some) = w.items /\ \A v \in some : v.at # "held"
    <3> DEFINE x == New(half, "queued")  y == New(w.items \ half, "queued")
    <3>1. x \in Chunk /\ x.items = half /\ x.at = "queued" BY DEF New, Chunk, Places
    <3>2. y \in Chunk /\ y.items = w.items \ half /\ y.at = "queued" BY DEF New, Chunk, Places
    <3>3. some = {x, y} OBVIOUS
    <3> HIDE DEF x, y, some
    <3>4. Apart(some) BY <3>1, <3>2, <3>3 DEF Apart
    <3>5. Rows(some) = w.items BY <3>1, <3>2, <3>3 DEF Rows
    <3> QED BY <3>1, <3>2, <3>3, <3>4, <3>5
  <2>3. Report({}) BY <1>2, NoReport DEF HalveCall, TypeOK
  <2> HIDE DEF some
  <2>4. Rows(some) \subseteq w.items \ {} /\ w.items \subseteq Rows(some) \cup {} BY <2>2
  <2> QED BY <2>1, <2>2, <2>3, <2>4, PartsShrink DEF some
<1>3. ASSUME NEW error \in Errors, RetryCall(w, error)
      PROVE  /\ work' \subseteq Chunk /\ Apart(work') /\ Shrinks
             /\ In(work', {"held"}) = At({"held"})
  <2> DEFINE some == {[Moved(w, "delayed") EXCEPT !.attempt = @ + 1]}
  <2>1. some \subseteq Chunk /\ Apart(some) /\ Rows(some) = w.items /\ \A v \in some : v.at # "held"
    <3> DEFINE x == [Moved(w, "delayed") EXCEPT !.attempt = @ + 1]
    <3>1. x \in Chunk /\ x.items = w.items /\ x.at = "delayed" BY MovedIsChunk DEF Places
    <3> HIDE DEF x
    <3> QED BY <3>1, OneApart DEF x
  <2>2. Report({}) /\ Pump(Instead(w, some), feeder)
    BY <1>3, NoReport DEF RetryCall, TypeOK
  <2> HIDE DEF some
  <2>3. Rows(some) \subseteq w.items \ {} /\ w.items \subseteq Rows(some) \cup {} BY <2>1
  <2> QED BY <2>1, <2>2, <2>3, PartsShrink
<1>4. work \ {w} = Instead(w, {}) /\ Apart({}) /\ Rows({}) = {}
  BY DEF Instead, Apart, Rows
<1>5. ASSUME NEW error \in Errors, FailCall(w, error)
      PROVE  /\ work' \subseteq Chunk /\ Apart(work') /\ Shrinks
             /\ In(work', {"held"}) = At({"held"})
  <2>1. Report(w.items) /\ Pump(Instead(w, {}), feeder) BY <1>4, <1>5 DEF FailCall
  <2>2. Rows({}) \subseteq w.items \ w.items /\ w.items \subseteq Rows({}) \cup w.items BY <1>4
  <2> QED BY <1>4, <2>1, <2>2, PartsShrink
<1>6. ASSUME DropCall(w)
      PROVE  /\ work' \subseteq Chunk /\ Apart(work') /\ Shrinks
             /\ In(work', {"held"}) = At({"held"})
  <2>1. Report({}) /\ Pump(Instead(w, {}), feeder) /\ Ended'
    BY <1>4, <1>6, NoReport DEF DropCall, TypeOK, Ended
  <2>2. Rows({}) \subseteq w.items \ {} BY <1>4
  <2> QED BY <1>4, <2>1, <2>2, PartsShrink
<1>7. ASSUME LoseService(w)
      PROVE  /\ work' \subseteq Chunk /\ Apart(work') /\ Shrinks
             /\ In(work', {"held"}) = At({"held"})
  <2> DEFINE some == work \ ({w} \cup At({"queued"}))
  <2>1. some \subseteq Chunk /\ Apart(some) /\ Rows(some) \subseteq Rows(work)
    BY FewerKeep DEF TypeOK
  <2>2. Report({}) /\ Ended' /\ Pump(some, feeder)
    BY <1>7, NoReport DEF LoseService, TypeOK, Ended
  <2>3. In(some, {"held"}) = At({"held"}) BY DEF In, At
  <2> HIDE DEF some
  <2>4. /\ work' \subseteq Chunk /\ Apart(work') /\ Rows(work') = Rows(some)
        /\ In(work', {"held"}) = In(some, {"held"})
    BY <2>1, <2>2, PumpKeeps DEF Places
  <2>5. Shrinks BY <2>1, <2>2, <2>4 DEF Shrinks
  <2> QED BY <2>3, <2>4, <2>5
<1> QED BY <1>1, <1>2, <1>3, <1>5, <1>6, <1>7 DEF CallEnds

LEMMA ReturnShrinks ==
  ASSUME TypeOK, Apart(work), NEW w \in work, Return(w)
  PROVE  /\ work' \subseteq Chunk /\ Apart(work') /\ Shrinks
         /\ In(work', {"held"}) = At({"held"})
<1> w \in Chunk /\ w.items \subseteq Items /\ w.at = "delayed"
  BY DEF Return, TypeOK, Chunk, At, In
<1>1. Report({}) BY NoReport DEF Return, TypeOK
<1>2. CASE ~Ended
  <2> DEFINE some == {Moved(w, "queued")}
  <2>1. some \subseteq Chunk /\ Apart(some) /\ Rows(some) = w.items /\ \A v \in some : v.at = "queued"
    <3> DEFINE x == Moved(w, "queued")
    <3>1. x \in Chunk /\ x.items = w.items /\ x.at = "queued" BY MovedIsChunk DEF Places
    <3> HIDE DEF x
    <3> QED BY <3>1, OneApart DEF x
  <2>2. Pump(Instead(w, some), feeder) BY <1>2 DEF Return
  <2> HIDE DEF some
  <2>3. /\ Instead(w, some) \subseteq Chunk /\ Apart(Instead(w, some))
        /\ Rows(Instead(w, some)) = (Rows(work) \ w.items) \cup Rows(some)
    BY <2>1, InsteadKeeps DEF TypeOK
  <2>4. /\ work' \subseteq Chunk /\ Apart(work') /\ Rows(work') = Rows(Instead(w, some))
        /\ In(work', {"held"}) = In(Instead(w, some), {"held"})
    BY <2>2, <2>3, PumpKeeps DEF Places
  <2>5. In(Instead(w, some), {"held"}) = At({"held"}) BY <2>1 DEF In, At, Instead
  <2>6. w.items \subseteq Rows(work) BY DEF Rows
  <2>7. Shrinks BY <1>1, <2>1, <2>3, <2>4, <2>6 DEF Shrinks
  <2> QED BY <2>4, <2>5, <2>7
<1>3. CASE Ended
  <2>1. work' = work \ {w} /\ Ended' BY <1>3 DEF Return, Ended
  <2>2. work' \subseteq Chunk /\ Apart(work') /\ Rows(work') \subseteq Rows(work)
    BY <2>1, FewerKeep DEF TypeOK
  <2>3. In(work', {"held"}) = At({"held"}) BY <2>1 DEF In, At
  <2> QED BY <1>1, <2>1, <2>2, <2>3 DEF Shrinks
<1> QED BY <1>2, <1>3

---------------------------------------------------------------------------
(* Every row is held once, reported once and accounted for when chunks     *)
(* shrink while the job stands where it is.                                *)
LEMMA WorkStepKeeps ==
  ASSUME IInv, Shrinks, work' \subseteq Chunk,
         UNCHANGED <<unfed, stop, jobVars, givenUp>>,
         fatal => fatal', feeder = "broken" => feeder' = "broken",
         \A i \in Items : row[i] # "none" => (row'[i] # "none" \/ i \in Rows(work')),
         at \in {"plain", "start"} => Rows(In(work', Stored)) \subseteq Rows(At(Stored))
  PROVE  FreshInv' /\ HeldInv' /\ PageInv' /\ ReportedOnce' /\ DueInv' /\ NothingLost'
<1>1. PICK bad \in SUBSET Rows(work) :
        /\ Report(bad)
        /\ Rows(work') \subseteq Rows(work) \ bad
        /\ Ended' \/ Rows(work) \subseteq Rows(work') \cup bad
  BY DEF Shrinks
<1>2. Rows(work) \subseteq Items
  BY DEF IInv, TypeOK, Rows, Chunk
<1>3. \A i \in Items : /\ told[i] \in Nat /\ told'[i] \in Nat
                       /\ i \in bad => told'[i] = told[i] + 1
                       /\ i \notin bad => told'[i] = told[i]
  BY <1>1 DEF IInv, TypeOK, Report
<1>4. UNCHANGED <<kind, at, cursor, page, batch>>
  BY DEF jobVars
<1>5. Fresh' = Fresh /\ Fresh \subseteq Items
  BY <1>4 DEF Fresh, IInv, TypeOK
<1>6. FreshInv'
  BY <1>1, <1>2, <1>3, <1>5 DEF IInv, FreshInv
<1>7. HeldInv'
  BY <1>1, <1>2, <1>3 DEF IInv, HeldInv
<1>8. PageInv'
  <2>1. \A i \in givenUp' : told'[i] >= 1 BY <1>3 DEF IInv, PageInv, TypeOK
  <2>2. At(Stored)' = In(work', Stored) BY DEF At
  <2> QED BY <1>1, <1>4, <2>1, <2>2 DEF IInv, PageInv
<1>9. ReportedOnce'
  BY <1>1, <1>3 DEF IInv, ReportedOnce, HeldInv
<1>10. DueInv'
  <2> SUFFICES ASSUME NEW i \in Items, ~(told'[i] >= 1) PROVE Due(i)'
    BY DEF DueInv
  <2>1. told[i] = 0 /\ i \notin bad BY <1>3
  <2>2. Due(i) BY <2>1 DEF IInv, DueInv
  <2>3. i \notin givenUp BY <2>1 DEF IInv, PageInv
  <2>4. CASE i \in Rows(work)
    <3>1. kind = "translate" => i \in page BY <2>3, <2>4 DEF IInv, PageInv
    <3> QED BY <1>1, <1>4, <2>1, <2>4, <3>1 DEF Due, Ended, IInv, TypeOK
  <2> QED BY <1>4, <2>2, <2>4 DEF Due
<1>11. NothingLost'
  <2> SUFFICES ASSUME at = "completed", NEW i \in Items
               PROVE  told'[i] >= 1 \/ (kind' = "translate" /\ row'[i] # "none")
    BY <1>4 DEF NothingLost
  <2>1. told[i] >= 1 \/ (kind = "translate" /\ row[i] # "none")
    BY DEF IInv, NothingLost
  <2>2. i \in Rows(work') => told[i] >= 1
    BY <1>1 DEF IInv, PageInv
  <2> QED BY <1>3, <1>4, <2>1, <2>2
<1> QED BY <1>6, <1>7, <1>8, <1>9, <1>10, <1>11

(* What the ends of a call have in common. *)
LEMMA CallFrame ==
  ASSUME NEW w \in work, CallEnds(w)
  PROVE  /\ UNCHANGED <<slots, unfed, stop>>
         /\ fatal' = fatal \/ fatal' = TRUE
         /\ \E some : Pump(some, feeder)
<1>1. ASSUME NEW missing \in SUBSET w.items, NEW bad \in SUBSET w.items, Answered(w, missing, bad)
      PROVE  UNCHANGED <<slots, unfed, stop, fatal>> /\ \E some : Pump(some, feeder)
  BY <1>1 DEF Answered
<1>2. ASSUME NEW error \in Errors, HalveCall(w, error)
      PROVE  UNCHANGED <<slots, unfed, stop, fatal>> /\ \E some : Pump(some, feeder)
  BY <1>2 DEF HalveCall
<1>3. ASSUME NEW error \in Errors, RetryCall(w, error)
      PROVE  UNCHANGED <<slots, unfed, stop, fatal>> /\ \E some : Pump(some, feeder)
  BY <1>3 DEF RetryCall
<1>4. ASSUME NEW error \in Errors, FailCall(w, error)
      PROVE  UNCHANGED <<slots, unfed, stop, fatal>> /\ \E some : Pump(some, feeder)
  BY <1>4 DEF FailCall
<1>5. DropCall(w) => UNCHANGED <<slots, unfed, stop, fatal>> /\ \E some : Pump(some, feeder)
  BY DEF DropCall
<1>6. LoseService(w) => fatal' = TRUE /\ UNCHANGED <<slots, unfed, stop>> /\ \E some : Pump(some, feeder)
  BY DEF LoseService
<1> QED BY <1>1, <1>2, <1>3, <1>4, <1>5, <1>6 DEF CallEnds

LEMMA PoolFrame ==
  ASSUME NEW w \in work, CallEnds(w) \/ Return(w)
  PROVE  /\ UNCHANGED <<slots, unfed, stop>>
         /\ fatal' = fatal \/ fatal' = TRUE
         /\ feeder' = feeder \/ (feeder = "waits" /\ feeder' = "hold")
         /\ resolved' = (resolved \/ PoolDone')
<1>1. CASE CallEnds(w)
  BY <1>1, CallFrame DEF Pump
<1>2. CASE Return(w)
  BY <1>2 DEF Return, Pump
<1> QED BY <1>1, <1>2

LEMMA PoolStepKeeps ==
  ASSUME IInv, PoolStep
  PROVE  IInv'
<1>1. PICK w \in work : CallEnds(w) \/ Return(w)
  BY DEF PoolStep
<1>2. at = "pool" /\ UNCHANGED <<kind, at, cursor, page, batch, row, saves, late, givenUp>>
  BY DEF PoolStep, jobVars, dbVars
<1>3. /\ work' \subseteq Chunk /\ Apart(work') /\ Shrinks
      /\ In(work', {"held"}) = At({"held"})
  BY <1>1, CallShrinks, ReturnShrinks DEF IInv
<1>4. /\ UNCHANGED <<slots, unfed, stop>>
      /\ fatal' = fatal \/ fatal' = TRUE
      /\ feeder' = feeder \/ (feeder = "waits" /\ feeder' = "hold")
      /\ resolved' = (resolved \/ PoolDone')
  BY <1>1, PoolFrame
<1>5. TypeOK'
  <2>1. told' \in [Items -> Nat] BY <1>3 DEF Shrinks, Report, IInv, TypeOK
  <2>2. PoolDone' \in BOOLEAN BY DEF PoolDone, Ended
  <2> QED BY <1>2, <1>3, <1>4, <2>1, <2>2 DEF IInv, TypeOK, Loop
<1>6. KindInv'
  BY <1>2, <1>4 DEF IInv, KindInv
<1>7. resolved => PoolDone'
  <2> SUFFICES ASSUME resolved PROVE PoolDone' OBVIOUS
  <2>1. PoolDone BY DEF IInv, PlaceInv
  <2>2. w.at # "running" BY <2>1, <1>1 DEF PoolDone, At, In
  <2>3. w.at = "delayed" /\ Return(w) BY <1>1, <2>2 DEF CallEnds, Return, At, In
  <2>4. Ended BY <1>1, <2>1, <2>3 DEF PoolDone, At, In
  <2>5. work' = work \ {w} /\ Ended' BY <2>3, <2>4 DEF Return, Ended
  <2> QED BY <2>1, <2>5 DEF PoolDone, At, In
<1>8. PlaceInv'
  <2>1. At({"held"})' = At({"held"}) BY <1>3 DEF At
  <2>2. Ended => Ended' BY <1>4 DEF Ended
  <2> QED BY <1>2, <1>4, <1>7, <2>1, <2>2 DEF IInv, PlaceInv, Over
<1>9. FreshInv' /\ HeldInv' /\ PageInv' /\ ReportedOnce' /\ DueInv' /\ NothingLost'
  BY <1>2, <1>3, <1>4, WorkStepKeeps DEF jobVars
<1>10. TextInv'
  <2>1. Rows(work') \subseteq Rows(work) BY <1>3 DEF Shrinks
  <2> QED BY <1>2, <2>1 DEF IInv, TextInv, Marked
<1> QED BY <1>3, <1>5, <1>6, <1>8, <1>9, <1>10 DEF IInv

(* A feed runs only for a verify job, and not once the promise resolved.    *)
LEMMA FeedAt ==
  ASSUME IInv, feeder \in {"pull", "hold", "waits"}
  PROVE  /\ kind = "verify" /\ at \in {"pool", "settle"}
         /\ at = "settle" => Ended
         /\ resolved => Ended
<1>1. kind = "verify" BY DEF IInv, TypeOK, KindInv
<1>2. at \in {"pool", "settle"} BY <1>1 DEF IInv, KindInv, PlaceInv
<1> QED BY <1>1, <1>2 DEF IInv, PlaceInv, PoolDone

LEMMA FeedYieldsKeeps ==
  ASSUME IInv, NEW items \in SUBSET unfed, FeedYields(items), UNCHANGED <<jobVars, dbVars, givenUp>>
  PROVE  IInv'
<1> DEFINE new == New(items, "held")
<1>1. /\ feeder = "pull" /\ ~Ended /\ feeder' = "hold"
      /\ work' = work \cup {new} /\ unfed' = unfed \ items
      /\ UNCHANGED <<slots, fatal, stop, resolved, told>>
      /\ UNCHANGED <<kind, at, cursor, page, batch, row, saves, late, givenUp>>
  BY DEF FeedYields, jobVars, dbVars
<1>2. kind = "verify" /\ at = "pool" /\ ~resolved
  BY <1>1, FeedAt
<1>3. items \subseteq Items /\ \A i \in items : told[i] = 0 /\ i \notin Rows(work)
  BY DEF IInv, TypeOK, FreshInv, Fresh
<1>4. new \in Chunk /\ new.items = items /\ new.at = "held"
  BY <1>3 DEF New, Chunk, Places
<1> HIDE DEF new
<1>5. Rows(work') = Rows(work) \cup items
  BY <1>1, <1>4 DEF Rows
<1>6. Apart(work')
  <2>1. \A v \in work : v.items \cap items = {} BY <1>3 DEF Rows
  <2> QED BY <1>1, <1>4, <2>1 DEF IInv, Apart
<1>7. TypeOK'
  BY <1>1, <1>4 DEF IInv, TypeOK, Loop
<1>8. KindInv'
  BY <1>1, <1>2 DEF IInv, KindInv
<1>9. PlaceInv'
  <2>1. At({"held"}) = {} BY <1>1 DEF IInv, PlaceInv
  <2>2. At({"held"})' = {new} BY <1>1, <1>4, <2>1 DEF At, In
  <2>3. At({"queued"})' = At({"queued"}) /\ At({"running", "delayed"})' = At({"running", "delayed"})
    BY <1>1, <1>4 DEF At, In
  <2> QED BY <1>1, <1>2, <2>2, <2>3 DEF IInv, PlaceInv, Over
<1>10. FreshInv'
  <2>1. Fresh' = unfed' BY <1>1, <1>2 DEF Fresh
  <2> QED BY <1>1, <1>5, <2>1 DEF IInv, FreshInv, Fresh
<1>11. HeldInv'
  BY <1>1, <1>3, <1>5 DEF IInv, HeldInv
<1>12. PageInv'
  BY <1>1, <1>2 DEF IInv, PageInv
<1>13. ReportedOnce' /\ NothingLost'
  BY <1>1, <1>2 DEF IInv, ReportedOnce, NothingLost
<1>14. DueInv'
  BY <1>1, <1>5 DEF IInv, DueInv, Due
<1>15. TextInv'
  BY <1>1, <1>2 DEF TextInv
<1> QED BY <1>6, <1>7, <1>8, <1>9, <1>10, <1>11, <1>12, <1>13, <1>14, <1>15 DEF IInv

(* The feed's other steps: the chunk in its hand is queued, or dropped with *)
(* the end; what the feed has not yielded stays where it is.                *)
LEMMA FeedRestKeeps ==
  ASSUME IInv, feeder \in {"pull", "hold", "waits"}, feeder' \in Loop,
         UNCHANGED <<slots, unfed, fatal, stop, told>>, UNCHANGED <<jobVars, dbVars, givenUp>>,
         work' \subseteq Chunk, Apart(work'), Shrinks, PlaceInv', resolved' \in BOOLEAN
  PROVE  IInv'
<1>1. kind = "verify" /\ UNCHANGED <<kind, at, cursor, page, batch, row, saves, late, givenUp>>
  BY FeedAt DEF jobVars, dbVars
<1>2. TypeOK'
  BY <1>1 DEF IInv, TypeOK
<1>3. KindInv'
  BY <1>1 DEF IInv, KindInv
<1>4. feeder # "broken" /\ at \notin {"plain", "start"}
  BY FeedAt
<1>5. FreshInv' /\ HeldInv' /\ PageInv' /\ ReportedOnce' /\ DueInv' /\ NothingLost'
  BY <1>1, <1>4, WorkStepKeeps DEF jobVars
<1>6. TextInv'
  BY <1>1 DEF TextInv
<1> QED BY <1>2, <1>3, <1>5, <1>6 DEF IInv

LEMMA FeedWaitsKeeps ==
  ASSUME IInv, FeedWaits, UNCHANGED <<jobVars, dbVars, givenUp>>
  PROVE  IInv'
<1>1. /\ feeder = "hold" /\ feeder' = "waits" /\ ~Ended
      /\ UNCHANGED <<work, slots, unfed, fatal, stop, resolved, told>> /\ at' = at
  BY DEF FeedWaits, jobVars
<1>2. at = "pool" /\ ~resolved BY <1>1, FeedAt
<1>3. Report({}) BY <1>1, NoReport DEF IInv, TypeOK
<1>4. Shrinks BY <1>1, <1>3 DEF Shrinks
<1>5. PlaceInv' BY <1>1, <1>2 DEF IInv, PlaceInv, At, Over
<1>6. work' \subseteq Chunk /\ Apart(work') BY <1>1 DEF IInv, TypeOK
<1>7. resolved' \in BOOLEAN /\ feeder' \in Loop BY <1>1 DEF IInv, TypeOK, Loop
<1> QED BY <1>1, <1>4, <1>5, <1>6, <1>7, FeedRestKeeps

LEMMA FeedPushesKeeps ==
  ASSUME IInv, NEW w \in work, FeedPushes(w), UNCHANGED <<jobVars, dbVars, givenUp>>
  PROVE  IInv'
<1> DEFINE new == Moved(w, "queued")
<1> DEFINE some == Instead(w, {new})
<1>1. /\ feeder = "hold" /\ ~Ended /\ w.at = "held" /\ w \in At({"held"})
      /\ UNCHANGED <<slots, unfed, fatal, stop, told>> /\ at' = at
      /\ Pump(some, "pull")
  BY DEF FeedPushes, jobVars, At, In
<1>2. at = "pool" /\ ~resolved BY <1>1, FeedAt
<1>3. new \in Chunk /\ new.items = w.items /\ new.at = "queued"
  BY MovedIsChunk DEF IInv, TypeOK, Places
<1> HIDE DEF new
<1>4. {new} \subseteq Chunk /\ Apart({new}) /\ Rows({new}) = w.items
  BY <1>3, OneApart
<1>5. some \subseteq Chunk /\ Apart(some) /\ Rows(some) = (Rows(work) \ w.items) \cup w.items
  BY <1>4, InsteadKeeps DEF IInv, TypeOK
<1>6. In(some, {"held"}) = {}
  <2>1. \A v \in At({"held"}) : v = w BY <1>1 DEF IInv, PlaceInv
  <2> QED BY <1>3, <2>1 DEF Instead, In, At
<1> HIDE DEF some
<1>7. /\ work' \subseteq Chunk /\ Apart(work') /\ Rows(work') = Rows(some)
      /\ In(work', {"held"}) = In(some, {"held"})
      /\ feeder' = "pull" /\ resolved' = (resolved \/ PoolDone')
  BY <1>1, <1>5, PumpKeeps DEF Places
<1>8. Report({}) BY <1>1, NoReport DEF IInv, TypeOK
<1>9. w.items \subseteq Rows(work) BY DEF Rows
<1>10. Shrinks BY <1>5, <1>7, <1>8, <1>9 DEF Shrinks
<1>11. PlaceInv' BY <1>1, <1>2, <1>6, <1>7 DEF PlaceInv, Over, At
<1>12. resolved' \in BOOLEAN /\ feeder' \in Loop
  BY <1>2, <1>7 DEF Loop, PoolDone, Ended
<1> QED BY <1>1, <1>7, <1>10, <1>11, <1>12, FeedRestKeeps

LEMMA FeedEndsKeeps ==
  ASSUME IInv, FeedEnds, UNCHANGED <<jobVars, dbVars, givenUp>>
  PROVE  IInv'
<1> DEFINE some == work \ At({"held"})
<1>1. /\ feeder \in {"pull", "hold"}
      /\ ~Ended => (feeder = "pull" /\ unfed = {})
      /\ UNCHANGED <<slots, unfed, fatal, stop, told>> /\ at' = at
      /\ Pump(some, "done")
  BY DEF FeedEnds, jobVars
<1>2. some \subseteq Chunk /\ Apart(some) /\ Rows(some) \subseteq Rows(work)
  BY FewerKeep DEF IInv, TypeOK
<1>3. ~Ended => some = work
  BY <1>1 DEF IInv, PlaceInv
<1>4. /\ In(some, {"held"}) = {} /\ In(some, {"queued"}) = At({"queued"})
      /\ In(some, {"running"}) = At({"running"}) /\ In(some, {"delayed"}) = At({"delayed"})
  BY DEF In, At
<1> HIDE DEF some
<1>5. /\ work' \subseteq Chunk /\ Apart(work') /\ Rows(work') = Rows(some)
      /\ In(work', {"held"}) = In(some, {"held"}) /\ In(work', {"delayed"}) = In(some, {"delayed"})
      /\ Ended' => In(work', {"running"}) = In(some, {"running"})
      /\ In(some, {"queued"}) = {} => work' = some
      /\ feeder' = "done" /\ resolved' = (resolved \/ PoolDone')
  BY <1>1, <1>2, PumpKeeps DEF Places
<1>6. Report({}) BY <1>1, NoReport DEF IInv, TypeOK
<1>7. Ended' = Ended BY <1>1 DEF Ended
<1>8. Shrinks BY <1>2, <1>3, <1>5, <1>6, <1>7 DEF Shrinks
<1>9. resolved => PoolDone'
  <2>1. ASSUME resolved PROVE Ended /\ At({"running"}) = {}
    BY <1>1, <2>1, FeedAt DEF IInv, PlaceInv, PoolDone
  <2> QED BY <1>4, <1>5, <1>7, <2>1 DEF PoolDone, At
<1>10. at \in {"pool", "settle"} BY <1>1, FeedAt
<1>11. at = "settle" => In(work', {"queued"}) = {} /\ In(work', {"running", "delayed"}) = {}
  <2> SUFFICES ASSUME at = "settle"
               PROVE  In(work', {"queued"}) = {} /\ In(work', {"running", "delayed"}) = {}
    OBVIOUS
  <2>1. At({"queued"}) = {} /\ At({"running", "delayed"}) = {} BY DEF IInv, PlaceInv
  <2>2. work' = some BY <1>4, <1>5, <2>1
  <2>3. In(some, {"running", "delayed"}) = {} BY <2>1 DEF some, In, At
  <2> QED BY <1>4, <2>1, <2>2, <2>3
<1>12. PlaceInv'
  BY <1>1, <1>4, <1>5, <1>7, <1>9, <1>10, <1>11 DEF PlaceInv, Over, At
<1>13. resolved' \in BOOLEAN /\ feeder' \in Loop
  <2>1. PoolDone' \in BOOLEAN BY DEF PoolDone, Ended
  <2> QED BY <1>5, <2>1 DEF IInv, TypeOK, Loop
<1> QED BY <1>1, <1>5, <1>8, <1>12, <1>13, FeedRestKeeps

LEMMA FeedBreaksKeeps ==
  ASSUME IInv, FeedBreaks, UNCHANGED <<jobVars, dbVars, givenUp>>
  PROVE  IInv'
<1>1. /\ feeder = "pull" /\ UNCHANGED <<slots, unfed, fatal, stop, told>> /\ at' = at
      /\ Pump(work, "broken")
  BY DEF FeedBreaks, jobVars
<1>2. /\ work' \subseteq Chunk /\ Apart(work') /\ Rows(work') = Rows(work)
      /\ In(work', {"held"}) = In(work, {"held"})
      /\ Ended' => In(work', {"running"}) = In(work, {"running"})
      /\ In(work, {"queued"}) = {} => work' = work
      /\ feeder' = "broken" /\ resolved' = (resolved \/ PoolDone')
  BY <1>1, PumpKeeps DEF IInv, TypeOK, Places
<1>3. Report({}) BY <1>1, NoReport DEF IInv, TypeOK
<1>4. Shrinks BY <1>2, <1>3 DEF Shrinks
<1>5. Ended' = Ended BY <1>1 DEF Ended
<1>6. resolved => PoolDone'
  <2>1. ASSUME resolved PROVE Ended /\ At({"running"}) = {}
    BY <1>1, <2>1, FeedAt DEF IInv, PlaceInv, PoolDone
  <2> QED BY <1>2, <1>5, <2>1 DEF PoolDone, At
<1>7. at \in {"pool", "settle"} BY <1>1, FeedAt
<1>8. at = "settle" => work' = work BY <1>2 DEF IInv, PlaceInv, At
<1>9. In(work', {"held"}) = {} BY <1>1, <1>2 DEF IInv, PlaceInv, At
<1>10. PlaceInv'
  BY <1>1, <1>2, <1>5, <1>6, <1>7, <1>8, <1>9 DEF IInv, PlaceInv, Over, At
<1>11. resolved' \in BOOLEAN /\ feeder' \in Loop
  <2>1. PoolDone' \in BOOLEAN BY DEF PoolDone, Ended
  <2> QED BY <1>2, <2>1 DEF IInv, TypeOK, Loop
<1> QED BY <1>1, <1>2, <1>4, <1>10, <1>11, FeedRestKeeps

LEMMA FeedStepKeeps ==
  ASSUME IInv, FeedStep
  PROVE  IInv'
BY FeedYieldsKeeps, FeedWaitsKeeps, FeedPushesKeeps, FeedEndsKeeps, FeedBreaksKeeps DEF FeedStep

---------------------------------------------------------------------------
(* Writes go on beside the job: they report the rows they take out, and a   *)
(* row that is deleted stays with its chunk until it is inserted.           *)
LEMMA PersistMoves ==
  ASSUME IInv, NEW w \in At(Stored), UNCHANGED <<fatal, stop>>,
         \/ Deleting(w) \/ Inserting(w) \/ RetryWrite(w) \/ FailWrite(w) \/ CountVerified(w)
  PROVE  /\ work' \subseteq Chunk /\ Apart(work') /\ Shrinks
         /\ \A place \in Places \ Stored : In(work', {place}) = At({place})
         /\ Rows(In(work', Stored)) \subseteq Rows(At(Stored))
         /\ row' \in [Items -> Texts]
         /\ \A i \in Items : row[i] # "none" => (row'[i] # "none" \/ i \in Rows(work'))
         /\ \A i \in Items : row'[i] = "human" => row[i] = "human"
<1>1. w \in work /\ w \in Chunk /\ w.at \in Stored /\ w.items \subseteq Items
      /\ w.items \subseteq Rows(work) /\ w.items \subseteq Rows(At(Stored))
  BY DEF IInv, TypeOK, Chunk, At, In, Rows
<1>2. work \subseteq Chunk /\ Apart(work) /\ row \in [Items -> Texts] /\ told \in [Items -> Nat]
  BY DEF IInv, TypeOK
<1>3. ASSUME NEW v \in Chunk, v.items = w.items, v.at \in Stored,
             work' = Instead(w, {v}), UNCHANGED told
      PROVE  /\ work' \subseteq Chunk /\ Apart(work') /\ Shrinks /\ Rows(work') = Rows(work)
             /\ \A place \in Places \ Stored : In(work', {place}) = At({place})
             /\ Rows(In(work', Stored)) \subseteq Rows(At(Stored))
  <2>1. {v} \subseteq Chunk /\ Apart({v}) /\ Rows({v}) = w.items
    BY <1>3, OneApart
  <2>2. work' \subseteq Chunk /\ Apart(work') /\ Rows(work') = (Rows(work) \ w.items) \cup w.items
    BY <1>1, <1>2, <1>3, <2>1, InsteadKeeps
  <2>3. Rows(work') = Rows(work) BY <1>1, <2>2
  <2>4. Report({}) BY <1>2, <1>3, NoReport
  <2>5. Shrinks BY <2>3, <2>4 DEF Shrinks
  <2>6. \A place \in Places \ Stored : In(work', {place}) = At({place})
    BY <1>1, <1>3 DEF In, At, Instead
  <2>7. Rows(In(work', Stored)) \subseteq Rows(At(Stored))
    <3>1. \A u \in In(work', Stored) : u = v \/ u \in At(Stored)
      BY <1>3 DEF In, At, Instead
    <3>2. \A u \in In(work', Stored) : u.items \subseteq Rows(At(Stored))
      BY <1>1, <1>3, <3>1 DEF Rows
    <3> QED BY <3>2 DEF Rows
  <2> QED BY <2>2, <2>3, <2>5, <2>6, <2>7
<1>4. ASSUME work' = work \ {w}, Report(w.items)
      PROVE  /\ work' \subseteq Chunk /\ Apart(work') /\ Shrinks
             /\ \A place \in Places \ Stored : In(work', {place}) = At({place})
             /\ Rows(In(work', Stored)) \subseteq Rows(At(Stored))
  <2>1. work \ {w} = Instead(w, {}) /\ Apart({}) /\ Rows({}) = {}
    BY DEF Instead, Apart, Rows
  <2>2. work' \subseteq Chunk /\ Apart(work') /\ Rows(work') = Rows(work) \ w.items
    BY <1>1, <1>2, <1>4, <2>1, InsteadKeeps
  <2>3. Shrinks BY <1>1, <1>4, <2>2 DEF Shrinks
  <2>4. \A place \in Places \ Stored : In(work', {place}) = At({place})
    BY <1>1, <1>4 DEF In, At
  <2>5. Rows(In(work', Stored)) \subseteq Rows(At(Stored))
    BY <1>4 DEF In, At, Rows
  <2> QED BY <2>2, <2>3, <2>4, <2>5
<1>5. CASE Deleting(w)
  <2> DEFINE v == Moved(w, "inserting")
  <2>1. v \in Chunk /\ v.items = w.items /\ v.at \in Stored
    BY <1>1, MovedIsChunk DEF Places, Stored
  <2>2. work' = Instead(w, {v}) /\ UNCHANGED told /\ Write(w.items, "none") BY <1>5 DEF Deleting
  <2> HIDE DEF v
  <2>3. /\ work' \subseteq Chunk /\ Apart(work') /\ Shrinks /\ Rows(work') = Rows(work)
        /\ \A place \in Places \ Stored : In(work', {place}) = At({place})
        /\ Rows(In(work', Stored)) \subseteq Rows(At(Stored))
    BY <1>3, <2>1, <2>2
  <2>4. row' \in [Items -> Texts] /\ \A i \in Items : row'[i] = IF i \in w.items THEN "none" ELSE row[i]
    BY <1>2, <2>2 DEF Write, Texts
  <2> QED BY <1>1, <2>3, <2>4
<1>6. CASE Inserting(w)
  <2>1. /\ work' \subseteq Chunk /\ Apart(work') /\ Shrinks
        /\ \A place \in Places \ Stored : In(work', {place}) = At({place})
        /\ Rows(In(work', Stored)) \subseteq Rows(At(Stored))
    BY <1>4, <1>6 DEF Inserting
  <2>2. row' \in [Items -> Texts] /\ \A i \in Items : row'[i] = IF i \in w.items THEN "auto" ELSE row[i]
    BY <1>2, <1>6 DEF Inserting, Write, Texts
  <2> QED BY <2>1, <2>2
<1>7. CASE RetryWrite(w)
  <2> DEFINE v == [Moved(w, "storing") EXCEPT !.attempt = @ + 1]
  <2>1. v \in Chunk /\ v.items = w.items /\ v.at \in Stored
    BY <1>1, MovedIsChunk DEF Places, Stored
  <2>2. work' = Instead(w, {v}) /\ UNCHANGED told /\ row' = row BY <1>7 DEF RetryWrite
  <2> HIDE DEF v
  <2> QED BY <1>2, <1>3, <2>1, <2>2
<1>8. CASE FailWrite(w) \/ CountVerified(w)
  BY <1>2, <1>4, <1>8 DEF FailWrite, CountVerified
<1> QED BY <1>5, <1>6, <1>7, <1>8

LEMMA PersistStepKeeps ==
  ASSUME IInv, PersistStep
  PROVE  IInv'
<1>1. PICK w \in At(Stored) :
        \/ Deleting(w) \/ Inserting(w) \/ RetryWrite(w) \/ FailWrite(w) \/ CountVerified(w)
  BY DEF PersistStep
<1>2. UNCHANGED <<slots, unfed, feeder, fatal, stop, resolved, saves, late,
                  kind, at, cursor, page, batch, givenUp>>
  BY DEF PersistStep, jobVars
<1>3. /\ work' \subseteq Chunk /\ Apart(work') /\ Shrinks
      /\ \A place \in Places \ Stored : In(work', {place}) = At({place})
      /\ Rows(In(work', Stored)) \subseteq Rows(At(Stored))
      /\ row' \in [Items -> Texts]
      /\ \A i \in Items : row[i] # "none" => (row'[i] # "none" \/ i \in Rows(work'))
      /\ \A i \in Items : row'[i] = "human" => row[i] = "human"
  BY <1>1, <1>2, PersistMoves
<1>4. TypeOK'
  <2>1. told' \in [Items -> Nat] BY <1>3 DEF Shrinks, Report, IInv, TypeOK
  <2> QED BY <1>2, <1>3, <2>1 DEF IInv, TypeOK
<1>5. KindInv'
  BY <1>2 DEF IInv, KindInv
<1>6. PlaceInv'
  <2>1. /\ In(work', {"held"}) = At({"held"}) /\ In(work', {"queued"}) = At({"queued"})
        /\ In(work', {"running"}) = At({"running"}) /\ In(work', {"delayed"}) = At({"delayed"})
    BY <1>3 DEF Places, Stored
  <2>2. In(work', {"running", "delayed"}) = At({"running", "delayed"})
    BY <2>1 DEF In, At
  <2>3. In(work', {"queued", "delayed"}) = At({"queued", "delayed"})
    BY <2>1 DEF In, At
  <2>4. PoolDone' = PoolDone BY <1>2, <2>1, <2>3 DEF PoolDone, Ended, At
  <2> QED BY <1>2, <2>1, <2>2, <2>4 DEF IInv, PlaceInv, At, Ended
<1>7. FreshInv' /\ HeldInv' /\ PageInv' /\ ReportedOnce' /\ DueInv' /\ NothingLost'
  BY <1>2, <1>3, WorkStepKeeps DEF jobVars
<1>8. TextInv'
  <2>1. Rows(work') \subseteq Rows(work) BY <1>3 DEF Shrinks
  <2>2. Rows(work) \subseteq Items /\ batch \subseteq Items BY DEF IInv, TypeOK, Rows, Chunk
  <2> QED BY <1>2, <1>3, <2>1, <2>2 DEF IInv, TextInv, Marked
<1> QED BY <1>3, <1>4, <1>5, <1>6, <1>7, <1>8 DEF IInv

---------------------------------------------------------------------------
(* The job's own steps *)

(* A translate job outside its pool has nothing in flight and no feed.      *)
LEMMA BetweenPools ==
  ASSUME IInv, at \in {"load", "filter", "prepare", "plain", "start"}
  PROVE  /\ kind = "translate" /\ unfed = {} /\ feeder = "done" /\ ~fatal /\ ~resolved
         /\ \A i \in page : i <= cursor
         /\ At({"held"}) = {} /\ At({"running", "delayed"}) = {}
<1>1. kind = "translate" BY DEF IInv, TypeOK, KindInv, Over
<1> QED BY <1>1 DEF IInv, KindInv, PlaceInv

LEMMA LoadPageKeeps ==
  ASSUME IInv, LoadPage
  PROVE  IInv'
<1>1. PICK last \in Ahead : page' = {i \in Ahead : i <= last} /\ cursor' = last
  BY DEF LoadPage
<1>2. /\ at = "load" /\ ~stop /\ at' = "filter" /\ batch' = {}
      /\ UNCHANGED <<work, slots, unfed, feeder, fatal, stop, resolved, told>>
      /\ UNCHANGED <<kind, row, saves, late, givenUp>>
  BY DEF LoadPage, poolVars, dbVars
<1>3. /\ kind = "translate" /\ unfed = {} /\ feeder = "done" /\ ~fatal /\ ~resolved
      /\ At({"held"}) = {} /\ At({"running", "delayed"}) = {}
  BY <1>2, BetweenPools
<1>4. /\ last \in Nat /\ cursor \in Nat /\ last > cursor /\ last \in Items
      /\ \A i \in Items : i \in Nat
      /\ \A i \in page' : i \in Items /\ i <= last /\ i > cursor
  BY <1>1, PoolAssumption DEF Ahead, Untranslated, IInv, TypeOK
<1>5. TypeOK' BY <1>1, <1>2, <1>4 DEF IInv, TypeOK, Steps
<1>6. KindInv' BY <1>1, <1>2, <1>3, <1>4 DEF KindInv
<1>7. PlaceInv' BY <1>2, <1>3 DEF IInv, PlaceInv, Over, At
<1>8. FreshInv'
  <2>1. ASSUME NEW i \in Fresh' PROVE i \in Fresh
    <3>1. i \in Items /\ (i > last \/ i \in page') BY <1>1, <1>2, <1>3, <2>1 DEF Fresh
    <3>2. i > cursor BY <1>4, <3>1
    <3> QED BY <1>3, <3>1, <3>2 DEF Fresh
  <2> QED BY <1>2, <2>1 DEF IInv, FreshInv
<1>9. HeldInv' /\ ReportedOnce' BY <1>2 DEF IInv, HeldInv, ReportedOnce
<1>10. PageInv' BY <1>2 DEF IInv, PageInv
<1>11. DueInv'
  <2> SUFFICES ASSUME NEW i \in Items, ~(told'[i] >= 1) PROVE Due(i)'
    BY DEF DueInv
  <2>1. Due(i) BY <1>2 DEF IInv, DueInv
  <2>2. i > cursor => (row[i] # "none" \/ i > last \/ i \in page')
    BY <1>1, <1>4 DEF Ahead, Untranslated
  <2> QED BY <1>1, <1>2, <1>3, <2>1, <2>2 DEF Due
<1>12. NothingLost' BY <1>2 DEF NothingLost
<1>13. TextInv' BY <1>2 DEF IInv, TextInv, Marked
<1> QED BY <1>2, <1>5, <1>6, <1>7, <1>8, <1>9, <1>10, <1>11, <1>12, <1>13 DEF IInv

LEMMA JobLeavesKeeps ==
  ASSUME IInv, Finish \/ LoadFails
  PROVE  IInv'
<1>1. /\ at = "load" /\ at' \in Over
      /\ at' = "completed" => (~stop /\ Ahead = {})
      /\ UNCHANGED <<work, slots, unfed, feeder, fatal, stop, resolved, told>>
      /\ UNCHANGED <<kind, cursor, page, batch, row, saves, late, givenUp>>
  BY DEF Finish, LoadFails, poolVars, dbVars, Over
<1>2. /\ kind = "translate" /\ unfed = {} /\ feeder = "done" /\ ~fatal /\ ~resolved
      /\ At({"held"}) = {} /\ At({"running", "delayed"}) = {} /\ At({"queued"}) = {}
  BY <1>1, BetweenPools DEF IInv, PlaceInv
<1>3. TypeOK' BY <1>1 DEF IInv, TypeOK, Steps
<1>4. KindInv' BY <1>1, <1>2 DEF IInv, KindInv, Over
<1>5. PlaceInv' BY <1>1, <1>2 DEF IInv, PlaceInv, Over, At
<1>6. FreshInv' BY <1>1, <1>2 DEF IInv, FreshInv, Fresh, Over
<1>7. HeldInv' /\ ReportedOnce' BY <1>1 DEF IInv, HeldInv, ReportedOnce
<1>8. PageInv' BY <1>1, <1>2 DEF IInv, PageInv, Over
<1>9. DueInv' BY <1>1, <1>2 DEF IInv, DueInv, Due, Over
<1>10. NothingLost'
  <2> SUFFICES ASSUME at' = "completed", NEW i \in Items, ~(told[i] >= 1)
               PROVE  row[i] # "none"
    BY <1>1, <1>2 DEF NothingLost
  <2>1. Due(i) BY DEF IInv, DueInv
  <2>2. i \notin Rows(work) BY <1>1 DEF IInv, PageInv
  <2>3. i > cursor => row[i] # "none" BY <1>1 DEF Ahead, Untranslated
  <2> QED BY <1>1, <1>2, <2>1, <2>2, <2>3 DEF Due
<1>11. TextInv' BY <1>1 DEF IInv, TextInv, Marked, Over
<1> QED BY <1>1, <1>3, <1>4, <1>5, <1>6, <1>7, <1>8, <1>9, <1>10, <1>11 DEF IInv

LEMMA FilterBatchKeeps ==
  ASSUME IInv, FilterBatch
  PROVE  IInv'
<1>1. /\ at = "filter" /\ at' \in {"load", "prepare"} /\ batch' = Untranslated(page)
      /\ batch' # {} => at' = "prepare"
      /\ UNCHANGED <<work, slots, unfed, feeder, fatal, stop, resolved, told>>
      /\ UNCHANGED <<kind, cursor, page, row, saves, late, givenUp>>
  BY DEF FilterBatch, poolVars, dbVars
<1>2. /\ kind = "translate" /\ unfed = {} /\ feeder = "done" /\ ~fatal /\ ~resolved
      /\ At({"held"}) = {} /\ At({"running", "delayed"}) = {} /\ At({"queued"}) = {}
  BY <1>1, BetweenPools DEF IInv, PlaceInv
<1>3. batch' \subseteq page /\ \A i \in batch' : row[i] = "none"
  BY <1>1 DEF Untranslated
<1>4. TypeOK' BY <1>1, <1>3 DEF IInv, TypeOK, Steps
<1>5. KindInv' BY <1>1, <1>2 DEF IInv, KindInv
<1>6. PlaceInv' BY <1>1, <1>2 DEF IInv, PlaceInv, Over, At
<1>7. FreshInv' BY <1>1, <1>2 DEF IInv, FreshInv, Fresh
<1>8. HeldInv' /\ ReportedOnce' BY <1>1 DEF IInv, HeldInv, ReportedOnce
<1>9. PageInv' BY <1>1, <1>2 DEF IInv, PageInv
<1>10. DueInv'
  <2> SUFFICES ASSUME NEW i \in Items, ~(told'[i] >= 1) PROVE Due(i)'
    BY DEF DueInv
  <2>1. Due(i) BY <1>1 DEF IInv, DueInv
  <2>2. i \in page => (row[i] # "none" \/ (at' = "prepare" /\ i \in batch'))
    BY <1>1 DEF Untranslated
  <2> QED BY <1>1, <1>2, <2>1, <2>2 DEF Due
<1>11. NothingLost' BY <1>1 DEF NothingLost
<1>12. TextInv'
  <2>1. \A i \in Marked' : i \in Marked \/ row[i] = "none" BY <1>1, <1>3 DEF Marked
  <2> QED BY <1>1, <2>1 DEF IInv, TextInv
<1> QED BY <1>1, <1>4, <1>5, <1>6, <1>7, <1>8, <1>9, <1>10, <1>11, <1>12 DEF IInv

(* The chunks of a batch take the rows that nobody holds yet.               *)
LEMMA PrepareBatchKeeps ==
  ASSUME IInv, PrepareBatch
  PROVE  IInv'
<1>1. /\ at = "prepare"
      /\ UNCHANGED <<slots, unfed, feeder, fatal, stop, resolved, told>>
      /\ UNCHANGED <<kind, cursor, page, batch, row, saves, late, givenUp>>
  BY DEF PrepareBatch, dbVars
<1>2. /\ kind = "translate" /\ unfed = {} /\ feeder = "done" /\ ~fatal /\ ~resolved
      /\ \A i \in page : i <= cursor
      /\ At({"held"}) = {} /\ At({"running", "delayed"}) = {} /\ At({"queued"}) = {}
  BY <1>1, BetweenPools DEF IInv, PlaceInv
<1>3. HeldInv' /\ ReportedOnce' /\ NothingLost' /\ PageInv' /\ TypeOK' /\ Apart(work')
      /\ KindInv' /\ PlaceInv' /\ FreshInv' /\ DueInv' /\ TextInv'
  <2>1. CASE stop
    <3>1. at' = "load" /\ UNCHANGED work BY <2>1 DEF PrepareBatch
    <3>2. TypeOK' BY <1>1, <3>1 DEF IInv, TypeOK, Steps
    <3>3. KindInv' BY <1>1, <1>2, <3>1 DEF IInv, KindInv
    <3>4. PlaceInv' BY <1>1, <1>2, <3>1 DEF IInv, PlaceInv, Over, At
    <3>5. FreshInv' BY <1>1, <3>1 DEF IInv, FreshInv, Fresh
    <3>6. HeldInv' /\ ReportedOnce' /\ NothingLost'
      BY <1>1, <3>1 DEF IInv, HeldInv, ReportedOnce, NothingLost
    <3>7. PageInv' BY <1>1, <3>1 DEF IInv, PageInv
    <3>8. DueInv' BY <1>1, <2>1 DEF DueInv, Due
    <3>9. TextInv' BY <1>1, <3>1 DEF IInv, TextInv, Marked
    <3> QED BY <3>1, <3>2, <3>3, <3>4, <3>5, <3>6, <3>7, <3>8, <3>9 DEF IInv
  <2>2. CASE ~stop
    <3>1. PICK some \in Chunks(batch \ Plain) :
            work' = work \cup {New(c, "queued") : c \in some}
      BY <2>2 DEF PrepareBatch
    <3>2. /\ at' \in {"plain", "start"} /\ (at' = "start" => batch \cap Plain = {})
      BY <2>2 DEF PrepareBatch
    <3> DEFINE new == {New(c, "queued") : c \in some}
    <3>3. batch \subseteq Items /\ batch \subseteq page BY DEF IInv, TypeOK
    <3>4. /\ UNION some = batch \ Plain
          /\ \A c, d \in some : c = d \/ c \cap d = {}
          /\ \A c \in some : c \subseteq batch \ Plain
      BY DEF Chunks
    <3>5. \A c \in some : /\ New(c, "queued") \in Chunk
                          /\ New(c, "queued").items = c /\ New(c, "queued").at = "queued"
      BY <3>3, <3>4 DEF New, Chunk, Places
    <3>6. \A v \in new : \E c \in some : v = New(c, "queued") OBVIOUS
    <3>7. \A c \in some : New(c, "queued") \in new OBVIOUS
    <3>8. work' = work \cup new BY <3>1
    <3> HIDE DEF new
    <3>9. new \subseteq Chunk /\ \A v \in new : v.at = "queued" BY <3>5, <3>6
    <3>10. Rows(new) = batch \ Plain
      <4>1. ASSUME NEW i \in Rows(new) PROVE i \in batch \ Plain
        <5>1. PICK v \in new : i \in v.items BY <4>1 DEF Rows
        <5>2. PICK c \in some : v = New(c, "queued") BY <3>6
        <5> QED BY <3>4, <3>5, <5>1, <5>2
      <4>2. ASSUME NEW i \in batch \ Plain PROVE i \in Rows(new)
        <5>1. PICK c \in some : i \in c BY <3>4
        <5> QED BY <3>5, <3>7, <5>1 DEF Rows
      <4> QED BY <4>1, <4>2
    <3>11. Rows(work') = Rows(work) \cup (batch \ Plain)
      BY <3>8, <3>10 DEF Rows
    <3>12. \A i \in batch : told[i] = 0 /\ i \notin Rows(work)
      BY <1>1, <3>3 DEF IInv, TypeOK, FreshInv, Fresh
    <3>13. Apart(work')
      <4> SUFFICES ASSUME NEW u \in work', NEW v \in work', u # v
                   PROVE  u.items \cap v.items = {}
        BY DEF Apart
      <4>1. CASE u \in work /\ v \in work BY <4>1 DEF IInv, Apart
      <4>2. CASE u \in new /\ v \in new
        <5>1. PICK c \in some : u = New(c, "queued") BY <3>6, <4>2
        <5>2. PICK d \in some : v = New(d, "queued") BY <3>6, <4>2
        <5>3. c # d BY <5>1, <5>2
        <5> QED BY <3>4, <3>5, <5>1, <5>2, <5>3
      <4>3. CASE u \in work /\ v \in new
        <5>1. u.items \subseteq Rows(work) /\ v.items \subseteq Rows(new) BY <4>3 DEF Rows
        <5> QED BY <3>10, <3>12, <5>1
      <4>4. CASE v \in work /\ u \in new
        <5>1. v.items \subseteq Rows(work) /\ u.items \subseteq Rows(new) BY <4>4 DEF Rows
        <5> QED BY <3>10, <3>12, <5>1
      <4> QED BY <3>8, <4>1, <4>2, <4>3, <4>4
    <3>14. TypeOK' BY <1>1, <3>2, <3>8, <3>9 DEF IInv, TypeOK, Steps
    <3>15. KindInv' BY <1>1, <1>2, <3>2 DEF IInv, KindInv
    <3>16. /\ At({"held"})' = {} /\ At({"running", "delayed"})' = {}
           /\ At(Stored)' = At(Stored)
      BY <1>2, <3>8, <3>9 DEF At, In, Stored
    <3>17. PlaceInv' BY <1>1, <1>2, <3>2, <3>16 DEF IInv, PlaceInv, Over
    <3>18. FreshInv'
      <4> SUFFICES ASSUME NEW i \in Fresh' PROVE told[i] = 0 /\ i \notin Rows(work')
        BY <1>1 DEF FreshInv
      <4>1. i \in Items /\ (i > cursor \/ i \in batch \cap Plain)
        BY <1>1, <1>2, <3>2 DEF Fresh
      <4>2. CASE i \in batch \cap Plain BY <3>11, <3>12, <4>2
      <4>3. CASE i > cursor
        <5>1. i \in Nat /\ cursor \in Nat BY <4>1, PoolAssumption DEF IInv, TypeOK
        <5>2. i \notin batch
          <6>1. i \in batch => i <= cursor BY <1>2, <3>3
          <6> QED BY <4>3, <5>1, <6>1
        <5>3. i \in Fresh BY <1>2, <4>1, <4>3 DEF Fresh
        <5> QED BY <3>11, <5>2, <5>3 DEF IInv, FreshInv
      <4> QED BY <4>1, <4>2, <4>3
    <3>19. HeldInv' BY <1>1, <3>11, <3>12 DEF IInv, HeldInv
    <3>20. PageInv'
      <4>1. Rows(At(Stored)) \subseteq givenUp
        BY <1>1 DEF IInv, PageInv, At, In, Rows
      <4> QED BY <1>1, <1>2, <3>2, <3>3, <3>11, <3>16, <4>1 DEF IInv, PageInv
    <3>21. ReportedOnce' /\ NothingLost' BY <1>1, <3>2 DEF IInv, ReportedOnce, NothingLost
    <3>22. DueInv'
      <4> SUFFICES ASSUME NEW i \in Items, ~(told'[i] >= 1) PROVE Due(i)'
        BY DEF DueInv
      <4>1. Due(i) BY <1>1 DEF IInv, DueInv
      <4>2. i \in batch => (i \in Rows(work') \/ (at' = "plain" /\ i \in batch \cap Plain))
        BY <3>2, <3>11
      <4> QED BY <1>1, <1>2, <3>11, <4>1, <4>2 DEF Due
    <3>23. TextInv'
      <4>1. Marked' \subseteq Marked BY <1>1, <3>2, <3>11 DEF Marked
      <4> QED BY <1>1, <4>1 DEF IInv, TextInv
    <3> QED BY <3>13, <3>14, <3>15, <3>17, <3>18, <3>19, <3>20, <3>21, <3>22, <3>23
  <2> QED BY <2>1, <2>2
<1> QED BY <1>3 DEF IInv

LEMMA StorePlainKeeps ==
  ASSUME IInv, StorePlain
  PROVE  IInv'
<1> DEFINE rows == batch \cap Plain
<1>1. /\ at = "plain" /\ at' = "start" /\ Write(rows, "auto") /\ Report(rows)
      /\ UNCHANGED <<work, slots, unfed, feeder, fatal, stop, resolved>>
      /\ UNCHANGED <<kind, cursor, page, batch, saves, late, givenUp>>
  BY DEF StorePlain
<1>2. /\ kind = "translate" /\ unfed = {} /\ feeder = "done" /\ ~fatal /\ ~resolved
      /\ \A i \in page : i <= cursor
      /\ At({"held"}) = {} /\ At({"running", "delayed"}) = {}
  BY <1>1, BetweenPools
<1>3. rows \subseteq Items /\ rows \subseteq page BY DEF IInv, TypeOK
<1>4. \A i \in rows : told[i] = 0 /\ i \notin Rows(work)
  BY <1>1, <1>3 DEF IInv, FreshInv, Fresh
<1>5. Rows(work) \subseteq Items BY DEF IInv, TypeOK, Rows, Chunk
<1> HIDE DEF rows
<1>6. /\ \A i \in Items : /\ told[i] \in Nat
                          /\ told'[i] = IF i \in rows THEN told[i] + 1 ELSE told[i]
                          /\ row'[i] = IF i \in rows THEN "auto" ELSE row[i]
      /\ told' \in [Items -> Nat] /\ row' \in [Items -> Texts]
  BY <1>1 DEF IInv, TypeOK, Report, Write, Texts
<1>7. TypeOK' BY <1>1, <1>6 DEF IInv, TypeOK, Steps
<1>8. KindInv' BY <1>1, <1>2 DEF IInv, KindInv
<1>9. PlaceInv' BY <1>1, <1>2 DEF IInv, PlaceInv, Over, At
<1>10. FreshInv'
  <2> SUFFICES ASSUME NEW i \in Fresh' PROVE told'[i] = 0 /\ i \notin Rows(work')
    BY DEF FreshInv
  <2>1. i \in Items /\ i > cursor BY <1>1, <1>2 DEF Fresh
  <2>2. i \in Nat /\ cursor \in Nat BY <2>1, PoolAssumption DEF IInv, TypeOK
  <2>3. i \notin rows
    <3>1. i \in rows => i <= cursor BY <1>2, <1>3
    <3> QED BY <2>1, <2>2, <3>1
  <2>4. i \in Fresh BY <1>2, <2>1 DEF Fresh
  <2> QED BY <1>1, <1>6, <2>1, <2>3, <2>4 DEF IInv, FreshInv
<1>11. HeldInv' BY <1>1, <1>4, <1>5, <1>6 DEF IInv, HeldInv
<1>12. PageInv'
  <2>1. \A i \in givenUp : told'[i] >= 1 BY <1>6 DEF IInv, PageInv, TypeOK
  <2> QED BY <1>1, <2>1 DEF IInv, PageInv, At
<1>13. ReportedOnce' BY <1>1, <1>4, <1>6 DEF IInv, ReportedOnce
<1>14. NothingLost' BY <1>1 DEF NothingLost
<1>15. DueInv'
  <2> SUFFICES ASSUME NEW i \in Items, ~(told'[i] >= 1) PROVE Due(i)'
    BY DEF DueInv
  <2>1. Due(i) /\ i \notin rows BY <1>6 DEF IInv, DueInv
  <2> QED BY <1>1, <1>2, <1>6, <2>1 DEF Due, rows
<1>16. TextInv'
  <2>1. Marked' \subseteq Marked /\ Marked' \subseteq Items BY <1>1, <1>5 DEF Marked
  <2> QED BY <1>1, <1>6, <2>1 DEF IInv, TextInv
<1> QED BY <1>1, <1>7, <1>8, <1>9, <1>10, <1>11, <1>12, <1>13, <1>14, <1>15, <1>16 DEF IInv

LEMMA RunPoolKeeps ==
  ASSUME IInv, RunPool
  PROVE  IInv'
<1>1. /\ at = "start"
      /\ UNCHANGED <<unfed, fatal, stop, told>>
      /\ UNCHANGED <<kind, cursor, page, batch, row, saves, late, givenUp>>
  BY DEF RunPool, dbVars
<1>2. /\ kind = "translate" /\ unfed = {} /\ feeder = "done" /\ ~fatal /\ ~resolved
      /\ \A i \in page : i <= cursor
      /\ At({"held"}) = {} /\ At({"running", "delayed"}) = {}
  BY <1>1, BetweenPools
<1>3. /\ at' \in {"pool", "load"} /\ slots' \in 1 .. MaxSlots /\ feeder' = "done"
      /\ work' \subseteq Chunk /\ Apart(work') /\ Rows(work') \subseteq Rows(work)
      /\ stop \/ Rows(work) \subseteq Rows(work')
      /\ In(work', {"held"}) = {}
      /\ at' = "load" => (In(work', {"queued"}) = {} /\ In(work', {"running", "delayed"}) = {}
                            /\ ~resolved' /\ Rows(work') \subseteq givenUp)
      /\ resolved' => PoolDone'
      /\ resolved' \in BOOLEAN
  <2>1. CASE at' = "pool"
    <3>1. /\ \E n \in 1 .. MaxSlots : slots' = n
          /\ Pump(work, feeder)
      BY <2>1 DEF RunPool
    <3>2. /\ work' \subseteq Chunk /\ Apart(work') /\ Rows(work') = Rows(work)
          /\ In(work', {"held"}) = In(work, {"held"})
          /\ feeder' = "done" /\ resolved' = (resolved \/ PoolDone')
      BY <1>2, <3>1, PumpKeeps DEF IInv, TypeOK, Places
    <3>3. PoolDone' \in BOOLEAN BY DEF PoolDone, Ended
    <3> QED BY <1>2, <2>1, <3>1, <3>2, <3>3 DEF At
  <2>2. CASE at' # "pool"
    <3>1. /\ stop \/ At({"queued"}) = {}
          /\ at' = "load" /\ work' = At(Stored) /\ UNCHANGED <<slots, feeder, resolved>>
      BY <2>2 DEF RunPool
    <3>2. At(Stored) \subseteq work BY DEF At, In
    <3>3. work' \subseteq Chunk /\ Apart(work') /\ Rows(work') \subseteq Rows(work)
      BY <3>1, <3>2, FewerKeep DEF IInv, TypeOK
    <3>4. At({"queued"}) = {} => At(Stored) = work
      BY <1>2 DEF IInv, TypeOK, Chunk, Places, Stored, At, In
    <3>5. /\ In(work', {"held"}) = {} /\ In(work', {"queued"}) = {}
          /\ In(work', {"running", "delayed"}) = {}
      BY <3>1 DEF At, In, Stored
    <3>6. Rows(work') \subseteq givenUp BY <1>1, <3>1 DEF IInv, PageInv
    <3> QED BY <1>2, <3>1, <3>3, <3>4, <3>5, <3>6 DEF IInv, TypeOK
  <2> QED BY <2>1, <2>2
<1>4. TypeOK' BY <1>1, <1>3 DEF IInv, TypeOK, Steps, Loop
<1>5. KindInv' BY <1>1, <1>2, <1>3 DEF IInv, KindInv
<1>6. PlaceInv' BY <1>1, <1>2, <1>3 DEF PlaceInv, Over, At
<1>7. FreshInv'
  <2>1. Fresh' = Fresh BY <1>1, <1>3 DEF Fresh
  <2> QED BY <1>1, <1>3, <2>1 DEF IInv, FreshInv
<1>8. HeldInv' BY <1>1, <1>3 DEF IInv, HeldInv
<1>9. PageInv' BY <1>1, <1>2, <1>3 DEF IInv, PageInv
<1>10. ReportedOnce' /\ NothingLost' BY <1>1, <1>3 DEF IInv, ReportedOnce, NothingLost
<1>11. DueInv' BY <1>1, <1>2, <1>3 DEF IInv, DueInv, Due
<1>12. TextInv'
  <2>1. Marked' \subseteq Marked BY <1>1, <1>3 DEF Marked
  <2> QED BY <1>1, <2>1 DEF IInv, TextInv
<1> QED BY <1>3, <1>4, <1>5, <1>6, <1>7, <1>8, <1>9, <1>10, <1>11, <1>12 DEF IInv

(* A page that is given up leaves its writes behind and is reported as a   *)
(* whole, which is the one way to report a row twice.                      *)
LEMMA GiveUpKeeps ==
  ASSUME IInv, kind = "translate", at # "pool", GiveUpPage,
         UNCHANGED <<slots, unfed, feeder, stop, resolved, kind, cursor, page, batch, dbVars>>
  PROVE  IInv'
<1>1. /\ at' = "load" /\ work' = At(Stored) /\ fatal' = FALSE
      /\ givenUp' = givenUp \cup page /\ Report(page)
      /\ UNCHANGED <<slots, unfed, feeder, stop, resolved, kind, cursor, page, batch, row, saves, late>>
  BY DEF GiveUpPage, dbVars
<1>2. /\ unfed = {} /\ feeder = "done" /\ ~resolved
      /\ \A i \in page : i <= cursor
  BY DEF IInv, KindInv
<1>3. At(Stored) \subseteq work BY DEF At, In
<1>4. work' \subseteq Chunk /\ Apart(work') /\ Rows(work') \subseteq Rows(work)
  BY <1>1, <1>3, FewerKeep DEF IInv, TypeOK
<1>5. /\ \A i \in Items : /\ told[i] \in Nat
                          /\ told'[i] = IF i \in page THEN told[i] + 1 ELSE told[i]
      /\ told' \in [Items -> Nat]
  BY <1>1 DEF IInv, TypeOK, Report
<1>6. Rows(work) \subseteq givenUp \cup page /\ Rows(work) \subseteq Items /\ page \subseteq Items
  BY DEF IInv, PageInv, TypeOK, Rows, Chunk
<1>7. TypeOK' BY <1>1, <1>4, <1>5 DEF IInv, TypeOK, Steps
<1>8. KindInv' BY <1>1, <1>2 DEF IInv, KindInv
<1>9. PlaceInv'
  <2>1. At({"held"})' = {} /\ At({"queued"})' = {} /\ At({"running", "delayed"})' = {}
    BY <1>1 DEF At, In, Stored
  <2> QED BY <1>1, <1>2, <2>1 DEF PlaceInv, Over
<1>10. FreshInv'
  <2> SUFFICES ASSUME NEW i \in Fresh' PROVE told'[i] = 0 /\ i \notin Rows(work')
    BY DEF FreshInv
  <2>1. i \in Items /\ i > cursor BY <1>1, <1>2 DEF Fresh
  <2>2. i \in Nat /\ cursor \in Nat BY <2>1, PoolAssumption DEF IInv, TypeOK
  <2>3. i \notin page
    <3>1. i \in page => i <= cursor BY <1>2
    <3> QED BY <2>1, <2>2, <3>1
  <2>4. i \in Fresh BY <2>1 DEF Fresh
  <2> QED BY <1>4, <1>5, <2>1, <2>3, <2>4 DEF IInv, FreshInv
<1>11. HeldInv' BY <1>1, <1>4, <1>5, <1>6 DEF IInv, HeldInv
<1>12. PageInv'
  <2>1. \A i \in givenUp' : told'[i] >= 1
    BY <1>1, <1>5, <1>6 DEF IInv, PageInv, TypeOK
  <2>2. Rows(work') \subseteq givenUp' BY <1>1, <1>4, <1>6
  <2> QED BY <1>1, <2>1, <2>2 DEF PageInv
<1>13. ReportedOnce' BY <1>1, <1>5 DEF IInv, ReportedOnce
<1>14. NothingLost' BY <1>1 DEF NothingLost
<1>15. DueInv'
  <2> SUFFICES ASSUME NEW i \in Items, ~(told'[i] >= 1) PROVE Due(i)'
    BY DEF DueInv
  <2>1. Due(i) /\ told[i] = 0 /\ i \notin page BY <1>5 DEF IInv, DueInv
  <2>2. i \notin givenUp BY <2>1 DEF IInv, PageInv
  <2>3. batch \subseteq page BY DEF IInv, TypeOK
  <2> QED BY <1>1, <1>2, <1>6, <2>1, <2>2, <2>3 DEF Due
<1>16. TextInv'
  <2>1. Marked' \subseteq Marked BY <1>1, <1>4 DEF Marked
  <2> QED BY <1>1, <2>1 DEF IInv, TextInv
<1> QED BY <1>4, <1>7, <1>8, <1>9, <1>10, <1>11, <1>12, <1>13, <1>14, <1>15, <1>16 DEF IInv

LEMMA PageFailsKeeps ==
  ASSUME IInv, BatchFails \/ BatchThrows
  PROVE  IInv'
<1>1. CASE BatchFails
  <2>1. at \in {"filter", "prepare", "plain"} BY <1>1 DEF BatchFails
  <2>2. kind = "translate" BY <2>1, BetweenPools
  <2> QED BY <1>1, <2>1, <2>2, GiveUpKeeps DEF BatchFails
<1>2. CASE BatchThrows
  BY <1>2, GiveUpKeeps DEF BatchThrows, Settling
<1> QED BY <1>1, <1>2

(* What the pool leaves in the queue is lost only after its end.            *)
LEMMA PoolReturnsKeeps ==
  ASSUME IInv, PoolReturns
  PROVE  IInv'
<1>1. /\ at = "pool" /\ resolved /\ at' = "settle" /\ ~resolved' /\ resolved' = FALSE
      /\ work' = At(Stored \cup {"held"})
      /\ UNCHANGED <<slots, unfed, feeder, fatal, stop, told>>
      /\ UNCHANGED <<kind, cursor, page, batch, row, saves, late, givenUp>>
  BY DEF PoolReturns, dbVars
<1>2. /\ At({"running"}) = {}
      /\ Ended \/ (At({"queued", "delayed"}) = {} /\ feeder \in {"done", "broken"})
  BY <1>1 DEF IInv, PlaceInv, PoolDone
<1>3. At(Stored \cup {"held"}) \subseteq work BY DEF At, In
<1>4. work' \subseteq Chunk /\ Apart(work') /\ Rows(work') \subseteq Rows(work)
  BY <1>1, <1>3, FewerKeep DEF IInv, TypeOK
<1>5. Ended \/ work' = work
  BY <1>1, <1>2 DEF IInv, TypeOK, Chunk, Places, Stored, At, In
<1>6. TypeOK' BY <1>1, <1>4 DEF IInv, TypeOK, Steps
<1>7. KindInv' BY <1>1 DEF IInv, KindInv
<1>8. PlaceInv'
  <2>1. At({"held"})' = At({"held"}) /\ At({"queued"})' = {} /\ At({"running", "delayed"})' = {}
    BY <1>1 DEF At, In, Stored
  <2> QED BY <1>1, <1>2, <2>1 DEF IInv, PlaceInv, Over, Ended
<1>9. FreshInv'
  <2>1. Fresh' = Fresh BY <1>1 DEF Fresh
  <2> QED BY <1>1, <1>4, <2>1 DEF IInv, FreshInv
<1>10. HeldInv' BY <1>1, <1>4 DEF IInv, HeldInv
<1>11. PageInv' BY <1>1, <1>4 DEF IInv, PageInv
<1>12. ReportedOnce' /\ NothingLost' BY <1>1 DEF IInv, ReportedOnce, NothingLost
<1>13. DueInv'
  <2> SUFFICES ASSUME NEW i \in Items, ~(told'[i] >= 1) PROVE Due(i)'
    BY DEF DueInv
  <2>1. Due(i) BY <1>1 DEF IInv, DueInv
  <2>2. i \notin givenUp BY <1>1 DEF IInv, PageInv
  <2>3. (kind = "translate" /\ i \in Rows(work)) => i \in page BY <2>2 DEF IInv, PageInv
  <2> QED BY <1>1, <1>5, <2>1, <2>3 DEF Due, Ended, IInv, TypeOK
<1>14. TextInv'
  <2>1. Marked' \subseteq Marked BY <1>1, <1>4 DEF Marked
  <2> QED BY <1>1, <2>1 DEF IInv, TextInv
<1> QED BY <1>4, <1>6, <1>7, <1>8, <1>9, <1>10, <1>11, <1>12, <1>13, <1>14 DEF IInv

(* A job that settles without an error waited for its writes.               *)
LEMMA SettledKeeps ==
  ASSUME IInv, PipelineThrows \/ Drained
  PROVE  IInv'
<1>1. /\ at = "settle" /\ at' \in {"load"} \cup Over /\ feeder \in {"done", "broken"}
      /\ UNCHANGED <<work, slots, unfed, feeder, fatal, stop, resolved, told>>
      /\ UNCHANGED <<kind, cursor, page, batch, row, saves, late, givenUp>>
      /\ kind = "verify" <=> at' # "load"
      /\ at' # "failed" => (~fatal /\ feeder = "done" /\ OfBatch = {})
      /\ at' = "completed" => ~stop
  <2>1. kind \in {"translate", "verify"} BY DEF IInv, TypeOK
  <2>2. CASE PipelineThrows
    BY <2>2 DEF PipelineThrows, Settling, poolVars, dbVars, Over
  <2>3. CASE Drained
    <3>1. /\ at = "settle" /\ feeder \in {"done", "broken"} /\ ~fatal /\ feeder # "broken" /\ OfBatch = {}
          /\ UNCHANGED <<work, slots, unfed, feeder, fatal, stop, resolved, told>>
          /\ UNCHANGED <<kind, cursor, page, batch, row, saves, late, givenUp>>
      BY <2>3 DEF Drained, Settling, Throws, poolVars, dbVars
    <3>2. /\ kind = "translate" => at' = "load"
          /\ kind = "verify" => at' = IF stop THEN "cancelled" ELSE "completed"
      BY <2>3 DEF Drained
    <3> QED BY <2>1, <3>1, <3>2 DEF Over
  <2> QED BY <2>2, <2>3
<1>2. /\ At({"queued"}) = {} /\ At({"running", "delayed"}) = {} /\ At({"held"}) = {}
  BY <1>1 DEF IInv, PlaceInv
<1>3. at' # "failed" => Rows(work) \subseteq givenUp
  <2> SUFFICES ASSUME OfBatch = {}, NEW v \in work PROVE v.items \subseteq givenUp
    BY <1>1 DEF Rows
  <2>1. v \in At(Stored)
    BY <1>2 DEF IInv, TypeOK, Chunk, Places, Stored, At, In
  <2> QED BY <2>1 DEF OfBatch
<1>4. TypeOK' BY <1>1 DEF IInv, TypeOK, Steps
<1>5. KindInv' BY <1>1 DEF IInv, KindInv, Over
<1>6. PlaceInv' BY <1>1, <1>2 DEF IInv, PlaceInv, Over, At, PoolDone, Ended
<1>7. FreshInv'
  <2>1. Fresh' = Fresh BY <1>1 DEF Fresh, Over
  <2> QED BY <1>1, <2>1 DEF IInv, FreshInv
<1>8. HeldInv' /\ ReportedOnce' BY <1>1 DEF IInv, HeldInv, ReportedOnce
<1>9. PageInv' BY <1>1, <1>3 DEF IInv, PageInv, Over
<1>10. DueInv' BY <1>1 DEF IInv, DueInv, Due, Over
<1>11. NothingLost'
  <2> SUFFICES ASSUME at' = "completed", NEW i \in Items PROVE told[i] >= 1
    BY <1>1 DEF NothingLost
  <2>1. kind = "verify" /\ ~fatal /\ ~stop /\ feeder = "done" BY <1>1
  <2>2. unfed = {} BY <2>1 DEF IInv, PlaceInv, Ended
  <2>3. i \in Rows(work) => told[i] >= 1 BY <1>1, <1>3 DEF IInv, PageInv
  <2> QED BY <2>1, <2>2, <2>3 DEF IInv, DueInv, Due
<1>12. TextInv' BY <1>1 DEF IInv, TextInv, Marked, Over
<1> QED BY <1>1, <1>4, <1>5, <1>6, <1>7, <1>8, <1>9, <1>10, <1>11, <1>12 DEF IInv

LEMMA JobStepKeeps ==
  ASSUME IInv, JobStep
  PROVE  IInv'
BY LoadPageKeeps, JobLeavesKeeps, FilterBatchKeeps, PrepareBatchKeeps, StorePlainKeeps,
   RunPoolKeeps, PageFailsKeeps, PoolReturnsKeeps, SettledKeeps DEF JobStep

---------------------------------------------------------------------------
(* People, a Stop, and nothing *)

LEMMA SaveRowKeeps ==
  ASSUME IInv, NEW i \in Items, SaveRow(i)
  PROVE  IInv'
<1>1. /\ saves' = saves + 1 /\ row' = [row EXCEPT ![i] = "human"]
      /\ late' = late \cup ({i} \cap (Picked \cup Rows(work)))
      /\ UNCHANGED <<work, slots, unfed, feeder, fatal, stop, resolved, told>>
      /\ UNCHANGED <<kind, at, cursor, page, batch, givenUp>>
  BY DEF SaveRow, Rows, poolVars, jobVars
<1>2. TypeOK' BY <1>1 DEF IInv, TypeOK, Texts
<1>3. \A j \in Items : row[j] # "none" => row'[j] # "none" BY <1>1 DEF IInv, TypeOK
<1>4. KindInv' BY <1>1 DEF IInv, KindInv
<1>5. PlaceInv' BY <1>1 DEF IInv, PlaceInv, At, PoolDone, Ended
<1>6. FreshInv' BY <1>1 DEF IInv, FreshInv, Fresh
<1>7. HeldInv' /\ ReportedOnce' /\ PageInv' BY <1>1 DEF IInv, HeldInv, ReportedOnce, PageInv, At
<1>8. DueInv'
  <2> SUFFICES ASSUME NEW j \in Items, ~(told'[j] >= 1) PROVE Due(j)'
    BY DEF DueInv
  <2>1. Due(j) BY <1>1 DEF IInv, DueInv
  <2> QED BY <1>1, <1>3, <2>1 DEF Due
<1>9. NothingLost' BY <1>1, <1>3 DEF IInv, NothingLost
<1>10. TextInv'
  <2>1. Marked' = Marked /\ Marked \subseteq Picked \cup Rows(work) BY <1>1 DEF Marked, Picked
  <2>2. \A j \in Marked : j = i => j \in late' BY <1>1, <2>1
  <2>3. \A j \in Marked : j # i => row'[j] = row[j]
    BY <1>1 DEF IInv, TypeOK
  <2> QED BY <1>1, <2>1, <2>2, <2>3 DEF IInv, TextInv
<1> QED BY <1>1, <1>2, <1>4, <1>5, <1>6, <1>7, <1>8, <1>9, <1>10 DEF IInv

LEMMA StopKeeps ==
  ASSUME IInv, Stop
  PROVE  IInv'
<1>1. /\ at \notin Over /\ stop' = TRUE
      /\ UNCHANGED <<work, slots, unfed, feeder, fatal, resolved, told>>
      /\ UNCHANGED <<kind, at, cursor, page, batch, row, saves, late, givenUp>>
  BY DEF Stop, jobVars, dbVars
<1>2. TypeOK' BY <1>1 DEF IInv, TypeOK
<1>3. KindInv' BY <1>1 DEF IInv, KindInv
<1>4. PlaceInv' BY <1>1 DEF IInv, PlaceInv, At, PoolDone, Ended
<1>5. FreshInv' BY <1>1 DEF IInv, FreshInv, Fresh
<1>6. HeldInv' /\ ReportedOnce' /\ PageInv' BY <1>1 DEF IInv, HeldInv, ReportedOnce, PageInv, At
<1>7. DueInv' BY <1>1 DEF DueInv, Due
<1>8. NothingLost' BY <1>1 DEF NothingLost, Over
<1>9. TextInv' BY <1>1 DEF IInv, TextInv, Marked
<1> QED BY <1>1, <1>2, <1>3, <1>4, <1>5, <1>6, <1>7, <1>8, <1>9 DEF IInv

LEMMA StutterKeeps ==
  ASSUME IInv, UNCHANGED vars
  PROVE  IInv'
<1>1. /\ UNCHANGED <<work, slots, unfed, feeder, fatal, stop, resolved, told>>
      /\ UNCHANGED <<kind, at, cursor, page, batch, row, saves, late, givenUp>>
  BY DEF vars, poolVars, jobVars, dbVars
<1>2. TypeOK' /\ Apart(work)' BY <1>1 DEF IInv, TypeOK, Apart
<1>3. KindInv' BY <1>1 DEF IInv, KindInv
<1>4. PlaceInv' BY <1>1 DEF IInv, PlaceInv, At, PoolDone, Ended
<1>5. FreshInv' BY <1>1 DEF IInv, FreshInv, Fresh
<1>6. HeldInv' /\ ReportedOnce' /\ PageInv' BY <1>1 DEF IInv, HeldInv, ReportedOnce, PageInv, At
<1>7. DueInv' BY <1>1 DEF IInv, DueInv, Due
<1>8. NothingLost' BY <1>1 DEF IInv, NothingLost
<1>9. TextInv' BY <1>1 DEF IInv, TextInv, Marked
<1> QED BY <1>2, <1>3, <1>4, <1>5, <1>6, <1>7, <1>8, <1>9 DEF IInv

---------------------------------------------------------------------------
(* The theorems *)

LEMMA InitHolds ==
  ASSUME Init
  PROVE  IInv
<1>1. /\ work = {} /\ fatal = FALSE /\ stop = FALSE /\ resolved = FALSE
      /\ told = [i \in Items |-> 0] /\ slots \in 1 .. MaxSlots
      /\ cursor = 0 /\ page = {} /\ batch = {} /\ saves = 0 /\ late = {} /\ givenUp = {}
  BY DEF Init
<1>2. \/ /\ kind = "translate" /\ at = "load" /\ feeder = "done" /\ unfed = {}
         /\ row \in [Items -> {"none", "human"}]
      \/ /\ kind = "verify" /\ at = "pool" /\ feeder = "pull" /\ unfed = Items
         /\ row = [i \in Items |-> "auto"]
  BY DEF Init
<1>3. Rows(work) = {} /\ \A places : At(places) = {}
  BY <1>1 DEF Rows, At, In
<1>4. \A i \in Items : i \in Nat /\ i > 0 /\ told[i] = 0 BY <1>1, PoolAssumption
<1>5. TypeOK /\ Apart(work)
  <2>1. row \in [Items -> Texts] BY <1>2 DEF Texts
  <2>2. told \in [Items -> Nat] BY <1>1
  <2> QED BY <1>1, <1>2, <2>1, <2>2 DEF TypeOK, Apart, Loop, Steps
<1>6. KindInv BY <1>1, <1>2 DEF KindInv
<1>7. PlaceInv BY <1>1, <1>2, <1>3 DEF PlaceInv, Over
<1>8. FreshInv /\ HeldInv /\ ReportedOnce
  <2>1. unfed \subseteq Items BY <1>2
  <2> QED BY <1>3, <1>4, <2>1 DEF FreshInv, Fresh, HeldInv, ReportedOnce
<1>9. PageInv
  <2>1. Rows(At(Stored)) = {} BY <1>3 DEF Rows
  <2> QED BY <1>1, <1>3, <2>1 DEF PageInv
<1>10. DueInv BY <1>1, <1>2, <1>4 DEF DueInv, Due
<1>11. NothingLost BY <1>2 DEF NothingLost
<1>12. TextInv BY <1>2, <1>3 DEF TextInv, Marked
<1> QED BY <1>5, <1>6, <1>7, <1>8, <1>9, <1>10, <1>11, <1>12 DEF IInv

LEMMA NextHolds ==
  ASSUME IInv, [Next]_vars
  PROVE  IInv'
BY JobStepKeeps, PoolStepKeeps, FeedStepKeeps, PersistStepKeeps, SaveRowKeeps, StopKeeps,
   StutterKeeps DEF Next

(* The rows' accounting is an invariant of both jobs.                       *)
LEMMA Accounted == Spec => []IInv
<1>1. Init => IInv BY InitHolds
<1>2. IInv /\ [Next]_vars => IInv' BY NextHolds
<1> QED BY <1>1, <1>2, PTL DEF Spec

(* The variables keep their types in every behaviour.                       *)
THEOREM LlmTypes == Spec => []TypeOK
BY Accounted, PTL DEF IInv

(* No row is reported twice, however its chunk was split, retried and       *)
(* answered in part, unless its page was reported as failed as a whole.     *)
THEOREM EachRowOnce == Spec => []ReportedOnce
BY Accounted, PTL DEF IInv

(* A job that says it completed has a result for each row it was asked for, *)
(* but for those somebody translated first.                                 *)
THEOREM NoRowLost == Spec => []NothingLost
BY Accounted, PTL DEF IInv

(* When the job is over no call of it is in flight, and writes go on only   *)
(* for pages it gave up on or after a failure.                              *)
THEOREM QuietAtTheEnd == Spec => []QuietWhenOver
<1>1. IInv => QuietWhenOver
  <2> SUFFICES ASSUME IInv, at \in Over PROVE QuietWhenOver
    BY DEF QuietWhenOver
  <2>1. At({"held"}) = {} /\ At({"queued"}) = {} /\ At({"running", "delayed"}) = {}
    BY DEF IInv, PlaceInv, Over
  <2>2. At(Places \ Stored) = {}
    BY <2>1 DEF At, In, Places, Stored
  <2>3. at # "failed" => \A w \in work : w.items \subseteq givenUp
    BY DEF IInv, PageInv, Over, Rows
  <2> QED BY <2>2, <2>3 DEF QuietWhenOver
<1> QED BY <1>1, Accounted, PTL

(* A step takes a person's text away only from a row that was saved after   *)
(* its batch was picked: writes hold rows that were empty when picked.      *)
THEOREM PeopleFirst == Spec => HumanTextKept
<1>1. ASSUME IInv, [Next]_vars, NEW i \in Items, row[i] = "human", row'[i] # "human"
      PROVE  i \in late
  <2>1. CASE StorePlain
    <3>1. at = "plain" /\ Write(batch \cap Plain, "auto") BY <2>1 DEF StorePlain
    <3>2. kind = "translate" BY <1>1, <3>1, BetweenPools
    <3>3. i \in batch BY <1>1, <3>1 DEF Write
    <3>4. i \in Marked BY <3>1, <3>3 DEF Marked
    <3> QED BY <1>1, <3>2, <3>4 DEF IInv, TextInv
  <2>2. CASE PersistStep
    <3>1. PICK w \in At(Stored) :
            \/ Deleting(w) \/ Inserting(w) \/ RetryWrite(w) \/ FailWrite(w) \/ CountVerified(w)
      BY <2>2 DEF PersistStep
    <3>2. Deleting(w)
      <4>1. ~Inserting(w)
        <5>1. ASSUME Inserting(w) PROVE row[i] = "none" \/ row'[i] = row[i]
          BY <5>1 DEF Inserting, Write, Untranslated
        <5> QED BY <1>1, <5>1
      <4> QED BY <1>1, <3>1, <4>1 DEF RetryWrite, FailWrite, CountVerified
    <3>3. kind = "translate" /\ i \in w.items BY <1>1, <3>2 DEF Deleting, Write
    <3>4. w \in work BY <3>1 DEF At, In
    <3>5. i \in Marked BY <3>3, <3>4 DEF Marked, Rows
    <3> QED BY <1>1, <3>3, <3>5 DEF IInv, TextInv
  <2>3. CASE \E j \in Items : SaveRow(j)
    <3>1. PICK j \in Items : row' = [row EXCEPT ![j] = "human"] BY <2>3 DEF SaveRow
    <3> QED BY <1>1, <3>1 DEF IInv, TypeOK
  <2>4. CASE \/ LoadPage \/ Finish \/ LoadFails \/ FilterBatch \/ PrepareBatch \/ RunPool
             \/ BatchFails \/ PoolReturns \/ BatchThrows \/ PipelineThrows \/ Drained
             \/ PoolStep \/ FeedStep \/ Stop \/ UNCHANGED vars
    <3>1. row' = row
      BY <2>4 DEF LoadPage, Finish, LoadFails, FilterBatch, PrepareBatch, RunPool, BatchFails,
                  PoolReturns, BatchThrows, PipelineThrows, Drained, PoolStep, FeedStep, Stop,
                  dbVars, vars
    <3> QED BY <1>1, <3>1
  <2> QED BY <1>1, <2>1, <2>2, <2>3, <2>4 DEF Next, JobStep
<1>2. IInv /\ [Next]_vars => [\A i \in Items : row[i] = "human" /\ row'[i] # "human" => i \in late]_vars
  BY <1>1
<1> QED BY <1>2, Accounted, PTL DEF Spec, HumanTextKept

============================================================================
