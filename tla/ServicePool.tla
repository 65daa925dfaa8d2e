---------------------------- MODULE ServicePool ----------------------------
(*************************************************************************)
(* The pools of one service kind in one process: every call waits until  *)
(* the service answers its probe, picks the least loaded healthy         *)
(* endpoint and queues on that endpoint's semaphore, while a timer and   *)
(* the waits probe the endpoints and a settings change replaces the pool *)
(* under all of them.                                                    *)
(*************************************************************************)
EXTENDS Naturals, Sequences, FiniteSets

CONSTANTS
  Callers,    \* concurrent calls of the process
  Hosts,      \* hosts an endpoint can name
  Kinds,      \* service kinds
  ChatKinds,  \* kinds whose pool is rebuilt at every sync (llmChatPool)
  HeldKinds,  \* kinds whose callers look the pool up before they wait (tools)
  Settings,   \* endpoint lists of a kind: the limit of each host, 0 if it is not listed
  MaxPools,   \* bound: pools built
  MaxTries    \* bound: probes of one wait

ASSUME SettingsAssumption ==
  /\ \A k \in Kinds : Settings[k] \subseteq [Hosts -> Nat]
  /\ MaxPools \in Nat \ {0}
  /\ MaxTries \in Nat
ASSUME CallersAssumption == IsFiniteSet(Callers)

Pools  == 1 .. MaxPools
NoPool == 0

VARIABLES
  kind,       \* the kind in question, fixed from the start
  endpoints,  \* the list of the kind: the registry's, or llm.vllm_servers
  built,      \* pools built so far
  current,    \* the pool in use, or NoPool until the next lookup builds it
  disposed,   \* pools that were replaced
  slots,      \* the slots of each pool
  probing,    \* pools with probeInFlight
  probe,      \* the probe of each slot in the round under way
  call,       \* the calls
  up          \* hosts that answer

(* History, read by the properties only. *)
VARIABLE
  heard       \* hosts that were up at some time of a pool's round

poolVars == <<endpoints, built, current, disposed>>
vars == <<kind, poolVars, slots, probing, probe, call, up, heard>>

---------------------------------------------------------------------------
(* Semaphore *)

Slot == [max : Nat, active : Nat, queue : Seq(Callers), healthy : BOOLEAN]

Free(slot)    == slot.active < slot.max
Enter(slot)   == [slot EXCEPT !.active = @ + 1]
Wait(slot, c) == [slot EXCEPT !.queue = Append(@, c)]

(* Mutant of Release: the slot is given back and nobody is woken. *)
ReleaseSilent(slot) == [slot EXCEPT !.active = @ - 1]
(* Mutant of Release: whoever is woken is not counted. *)
ReleaseUncounted(slot) == [slot EXCEPT !.active = @ - 1, !.queue = IF @ = <<>> THEN @ ELSE Tail(@)]
(* A slot that is given back passes to the first in the queue. *)
Release(slot) ==
  IF slot.queue = <<>> THEN [slot EXCEPT !.active = @ - 1]
                       ELSE [slot EXCEPT !.queue = Tail(@)]

---------------------------------------------------------------------------
(* Pools *)

NoSlot   == [max |-> 0, active |-> 0, queue |-> <<>>, healthy |-> FALSE]
NewSlots(limits) ==
  [h \in Hosts |-> [max |-> limits[h], active |-> 0, queue |-> <<>>, healthy |-> limits[h] > 0]]

Listed(pool)  == {h \in Hosts : pool[h].max > 0}
Healthy(pool) == {h \in Hosts : pool[h].healthy}

(* Hosts that some list of the kind names. *)
Named == {h \in Hosts : \E limits \in Settings[kind] : limits[h] > 0}

(* slotLoad of g is not above that of h. *)
NoBusier(pool, g, h) ==
  (pool[g].active + Len(pool[g].queue)) * pool[h].max
    <= (pool[h].active + Len(pool[h].queue)) * pool[g].max

(* pickSlot's candidates; its cursor rotates among them. *)
Candidates(pool) == {h \in Healthy(pool) : \A g \in Healthy(pool) : NoBusier(pool, h, g)}

(* servicePool: the pool in use, built on first use. *)
PoolNow  == IF current = NoPool THEN built + 1 ELSE current
SlotsNow == IF current = NoPool THEN [slots EXCEPT ![built + 1] = NewSlots(endpoints)] ELSE slots
Lookup ==
  /\ current' = PoolNow
  /\ built' = IF current = NoPool THEN built + 1 ELSE built
  /\ UNCHANGED <<endpoints, disposed>>

---------------------------------------------------------------------------

CallStep == {"idle", "wait", "probing", "asleep", "ready", "queued", "running"}
Call     == [at : CallStep, pool : Pools \cup {NoPool}, held : Pools \cup {NoPool},
             host : Hosts \cup {"none"}, tries : 0 .. MaxTries]
NoCall   == [at |-> "idle", pool |-> NoPool, held |-> NoPool, host |-> "none", tries |-> 0]

ProbeStep == {"idle", "sent", "ok", "bad"}
FirstProbes(pool) == [h \in Hosts |-> IF h \in Listed(pool) THEN "sent" ELSE "idle"]

TypeOK ==
  /\ kind \in Kinds
  /\ endpoints \in Settings[kind]
  /\ built \in 0 .. MaxPools
  /\ current \in Pools \cup {NoPool}
  /\ disposed \subseteq Pools
  /\ slots \in [Pools -> [Hosts -> Slot]]
  /\ probing \subseteq Pools
  /\ probe \in [Pools -> [Hosts -> ProbeStep]]
  /\ call \in [Callers -> Call]
  /\ up \subseteq Named
  /\ heard \in [Pools -> SUBSET Hosts]

(* The chat pool is built, and probed, when its module is loaded. *)
Init ==
  /\ kind \in Kinds
  /\ endpoints \in Settings[kind]
  /\ current = IF kind \in ChatKinds THEN 1 ELSE NoPool
  /\ built = current
  /\ disposed = {}
  /\ slots = [p \in Pools |-> IF p = current THEN NewSlots(endpoints)
                                            ELSE [h \in Hosts |-> NoSlot]]
  /\ probing = {p \in Pools : p = current /\ Listed(slots[p]) # {}}
  /\ probe = [p \in Pools |-> FirstProbes(slots[p])]
  /\ call = [c \in Callers |-> NoCall]
  /\ up \in SUBSET Named
  /\ heard = [p \in Pools |-> IF p \in probing THEN up ELSE {}]

---------------------------------------------------------------------------
(* Rounds of probes *)

StartRound(p, pool) ==
  /\ probing' = probing \cup {p}
  /\ probe' = [probe EXCEPT ![p] = FirstProbes(pool)]
  /\ heard' = [heard EXCEPT ![p] = up]

(* runHealthChecks by the interval; a tick next to a round only waits for it. *)
TimerTick ==
  /\ current \notin probing \cup {NoPool}
  /\ Listed(slots[current]) # {}
  /\ StartRound(current, slots[current])
  /\ UNCHANGED <<kind, poolVars, slots, call, up>>

(* The host answers, or the probe finds nobody. *)
HostAnswers(p, h) ==
  /\ probe[p][h] = "sent"
  /\ probe' = [probe EXCEPT ![p][h] = IF h \in up THEN "ok" ELSE "bad"]
  /\ UNCHANGED <<kind, poolVars, slots, probing, call, up, heard>>

(* Mutant of Answered: an answer can only take a host out. *)
AnsweredDown(p, h) == slots[p][h].healthy /\ probe[p][h] = "ok"
(* What a probe that comes back makes of the slot: nothing in a replaced pool. *)
Answered(p, h) == IF p \in disposed THEN slots[p][h].healthy ELSE probe[p][h] = "ok"

(* Mutant of Verdict: the limits of all hosts count, not those of the healthy. *)
VerdictListed(pool) == Listed(pool) # {}
(* probeHealth: some host can take work. *)
Verdict(pool) == Healthy(pool) # {}

(* One probe of a round comes back; the last one ends the round and wakes  *)
(* everybody who waits for it.                                             *)
ProbeReports(p, h) ==
  /\ probe[p][h] \in {"ok", "bad"}
  /\ slots' = [slots EXCEPT ![p][h].healthy = Answered(p, h)]
  /\ probe' = [probe EXCEPT ![p][h] = "idle"]
  /\ LET over == \A g \in Hosts \ {h} : probe[p][g] = "idle"
         next == IF Verdict(slots'[p]) THEN "ready" ELSE "asleep"
     IN IF over
        THEN /\ probing' = probing \ {p}
             /\ call' = [c \in Callers |-> IF call[c].at = "probing" /\ call[c].pool = p
                                           THEN [call[c] EXCEPT !.at = next, !.pool = NoPool]
                                           ELSE call[c]]
             /\ heard' = [heard EXCEPT ![p] = {}]
        ELSE UNCHANGED <<probing, call, heard>>
  /\ UNCHANGED <<kind, poolVars, up>>

---------------------------------------------------------------------------
(* Calls *)

(* A call outside of a job waits for nothing. *)
CallOutside(c) ==
  /\ call[c].at = "idle"
  /\ call' = [call EXCEPT ![c].at = "ready"]
  /\ UNCHANGED <<kind, poolVars, slots, probing, probe, up, heard>>

CallInJob(c) ==
  /\ kind \notin HeldKinds
  /\ call[c].at = "idle"
  /\ call' = [call EXCEPT ![c].at = "wait"]
  /\ UNCHANGED <<kind, poolVars, slots, probing, probe, up, heard>>

(* generateLipFile, encodeWavToXwm: the pool is looked up before the wait   *)
(* and the call runs on that pool; without a host in it the call fails.     *)
CallHolding(c) ==
  /\ kind \in HeldKinds
  /\ call[c].at = "idle"
  /\ Lookup
  /\ slots' = SlotsNow
  /\ call' = IF Listed(slots'[PoolNow]) = {} THEN call
             ELSE [call EXCEPT ![c].at = "wait", ![c].held = PoolNow]
  /\ UNCHANGED <<kind, probing, probe, up, heard>>

(* One probeHealth of a wait: it joins the round under way or starts one. *)
AskHealth(c) ==
  /\ call[c].at = "wait"
  /\ Lookup
  /\ slots' = SlotsNow
  /\ IF Listed(slots'[PoolNow]) = {}
     THEN /\ call' = [call EXCEPT ![c].at = "asleep"]
          /\ UNCHANGED <<probing, probe, heard>>
     ELSE /\ call' = [call EXCEPT ![c].at = "probing", ![c].pool = PoolNow]
          /\ IF PoolNow \in probing THEN UNCHANGED <<probing, probe, heard>>
                                    ELSE StartRound(PoolNow, slots'[PoolNow])
  /\ UNCHANGED <<kind, up>>

Retry(c) ==
  /\ call[c].at = "asleep"
  /\ call[c].tries < MaxTries
  /\ call' = [call EXCEPT ![c].at = "wait", ![c].tries = @ + 1]
  /\ UNCHANGED <<kind, poolVars, slots, probing, probe, up, heard>>

(* The deadline of the wait passes, or its job is stopped. *)
GiveUp(c) ==
  /\ call[c].at \in {"wait", "asleep"}
  /\ call' = [call EXCEPT ![c] = NoCall]
  /\ UNCHANGED <<kind, poolVars, slots, probing, probe, up, heard>>

PoolOf(c) == IF call[c].held = NoPool THEN PoolNow ELSE call[c].held
LookupFor(c) == IF call[c].held = NoPool THEN Lookup ELSE UNCHANGED poolVars
SlotsFor(c)  == IF call[c].held = NoPool THEN SlotsNow ELSE slots

(* NoHealthyServiceError. *)
Reject(c) ==
  /\ call[c].at = "ready"
  /\ Healthy(SlotsFor(c)[PoolOf(c)]) = {}
  /\ LookupFor(c)
  /\ slots' = SlotsFor(c)
  /\ call' = [call EXCEPT ![c] = NoCall]
  /\ UNCHANGED <<kind, probing, probe, up, heard>>

Dispatch(c) ==
  /\ call[c].at = "ready"
  /\ LookupFor(c)
  /\ LET p == PoolOf(c) pools == SlotsFor(c) IN
     \E h \in Candidates(pools[p]) :
       LET free == Free(pools[p][h]) IN
       /\ slots' = [pools EXCEPT ![p][h] = IF free THEN Enter(@) ELSE Wait(@, c)]
       /\ call' = [call EXCEPT ![c] = [NoCall EXCEPT !.at = IF free THEN "running" ELSE "queued",
                                                     !.pool = p, !.host = h]]
  /\ UNCHANGED <<kind, probing, probe, up, heard>>

(* The semaphore's finally: the call ends and the first in the queue runs. *)
Leave(c, slot) ==
  LET p == call[c].pool
      h == call[c].host
      after == Release(slot)
  IN /\ slots' = [slots EXCEPT ![p][h] = after]
     /\ call' = [d \in Callers |->
                   IF d = c THEN NoCall
                   ELSE IF after.queue # slot.queue /\ d = Head(slot.queue)
                        THEN [call[d] EXCEPT !.at = "running"] ELSE call[d]]

CallReturns(c) ==
  /\ call[c].at = "running"
  /\ Leave(c, slots[call[c].pool][call[c].host])
  /\ UNCHANGED <<kind, poolVars, probing, probe, up, heard>>

(* Mutant of CallRefused: the slot is released in the catch as well. *)
CallRefusedTwice(c) ==
  /\ call[c].at = "running"
  /\ Leave(c, [slots[call[c].pool][call[c].host] EXCEPT !.healthy = FALSE, !.active = @ - 1])
  /\ UNCHANGED <<kind, poolVars, probing, probe, up, heard>>
(* A connection error or a timeout takes the host out of its pool. *)
CallRefused(c) ==
  /\ call[c].at = "running"
  /\ Leave(c, [slots[call[c].pool][call[c].host] EXCEPT !.healthy = FALSE])
  /\ UNCHANGED <<kind, poolVars, probing, probe, up, heard>>

---------------------------------------------------------------------------
(* Settings and hosts *)

Replaced == disposed \cup ({current} \ {NoPool})

(* serviceRegistry.update: the pool of a kind whose list changed is dropped *)
(* and the next lookup builds another.                                      *)
UpdateRegistry(limits) ==
  /\ kind \notin ChatKinds
  /\ built < MaxPools
  /\ limits # endpoints
  /\ endpoints' = limits
  /\ disposed' = Replaced
  /\ current' = NoPool
  /\ UNCHANGED <<kind, built, slots, probing, probe, call, up, heard>>

(* syncLlmChatPool, at boot, on a settings change and at the start of every *)
(* job: the pool is rebuilt whether or not the list changed, and probed.    *)
SyncChatPool(limits) ==
  /\ kind \in ChatKinds
  /\ built < MaxPools
  /\ endpoints' = limits
  /\ disposed' = Replaced
  /\ built' = built + 1
  /\ current' = built + 1
  /\ slots' = [slots EXCEPT ![built + 1] = NewSlots(limits)]
  /\ IF \E h \in Hosts : limits[h] > 0 THEN StartRound(built + 1, slots'[built + 1])
                                       ELSE UNCHANGED <<probing, probe, heard>>
  /\ UNCHANGED <<kind, call, up>>

HostComes(h) ==
  /\ h \in Named \ up
  /\ up' = up \cup {h}
  /\ heard' = [p \in Pools |-> IF p \in probing THEN heard[p] \cup {h} ELSE heard[p]]
  /\ UNCHANGED <<kind, poolVars, slots, probing, probe, call>>

HostGoes(h) ==
  /\ h \in up
  /\ up' = up \ {h}
  /\ UNCHANGED <<kind, poolVars, slots, probing, probe, call, heard>>

---------------------------------------------------------------------------
(* The specification *)

CallerNext(c) ==
  \/ CallOutside(c)
  \/ CallInJob(c)
  \/ CallHolding(c)
  \/ AskHealth(c)
  \/ Retry(c)
  \/ GiveUp(c)
  \/ Reject(c)
  \/ Dispatch(c)
  \/ CallReturns(c)
  \/ CallRefused(c)

Next ==
  \/ TimerTick
  \/ \E p \in Pools, h \in Hosts : HostAnswers(p, h) \/ ProbeReports(p, h)
  \/ \E c \in Callers : CallerNext(c)
  \/ \E limits \in Settings[kind] : UpdateRegistry(limits) \/ SyncChatPool(limits)
  \/ \E h \in Hosts : HostComes(h) \/ HostGoes(h)

Spec == Init /\ [][Next]_vars

(* The event loop goes on: probes and calls have timeouts, timers fire.     *)
(* Nothing is owed by hosts, by settings or by who starts calls.            *)
Fairness ==
  /\ WF_vars(TimerTick)
  /\ \A p \in Pools, h \in Hosts : WF_vars(HostAnswers(p, h)) /\ WF_vars(ProbeReports(p, h))
  /\ \A c \in Callers :
       /\ WF_vars(AskHealth(c))
       /\ WF_vars(Retry(c) \/ GiveUp(c))
       /\ WF_vars(Reject(c) \/ Dispatch(c))
       /\ WF_vars(CallReturns(c) \/ CallRefused(c))

FairSpec == Spec /\ Fairness

---------------------------------------------------------------------------
(* Properties *)

At(step, p, h) == {c \in Callers : call[c].at = step /\ call[c].pool = p /\ call[c].host = h}

(* A queue holds each of some callers once. *)
Holds(queue, callers) ==
  /\ \A i \in 1 .. Len(queue) : queue[i] \in callers
  /\ \A c \in callers : \E i \in 1 .. Len(queue) : queue[i] = c
  /\ \A i, j \in 1 .. Len(queue) : queue[i] = queue[j] => i = j

Counted(slot, running, queued) ==
  /\ slot.active = Cardinality(running)
  /\ slot.active <= slot.max
  /\ Holds(slot.queue, queued)
  /\ slot.queue # <<>> => slot.active = slot.max

(* The count of every semaphore is the number of calls that run under it,   *)
(* it never exceeds the limit, its queue holds exactly the calls that wait  *)
(* for it, each once, and nobody waits while a place is free: through       *)
(* failures, replaced pools and callers that hold on to one.                *)
SlotsCounted ==
  \A p \in Pools, h \in Hosts :
    Counted(slots[p][h], At("running", p, h), At("queued", p, h))

(* A wait that ends well was told the truth: some host of the pool it asked *)
(* was up at some time of the round of probes it waited for.  The exception *)
(* is a pool that was replaced during the round: its answers are dropped    *)
(* and its slots, healthy from the start, speak for it.                     *)
ToldTruth(c) ==
  call[c].at = "probing" /\ call'[c].at = "ready" =>
    LET p == call[c].pool IN p \in disposed \/ heard[p] \cap Listed(slots[p]) # {}
WaitTellsTruth == [][\A c \in Callers : ToldTruth(c)]_vars

(* Liveness: every call ends, with a result or an error, in whichever pool  *)
(* it was caught: no wait for a round, no place in a queue is forgotten     *)
(* when the pool is replaced or its host dies.                              *)
CallsEnd == \A c \in Callers : call[c].at # "idle" ~> call[c].at = "idle"

(* Liveness: a host that stays up is offered calls again and again, however *)
(* often it was marked unhealthy by a call.                                 *)
Offered(h) ==
  current = NoPool \/ slots[current][h].max = 0 \/ slots[current][h].healthy
HostReturns == \A h \in Hosts : <>[](h \in up) => []<>Offered(h)

===========================================================================
