------------------------- MODULE ServicePoolProofs -------------------------
(*************************************************************************)
(* Proofs about ServicePool for every finite set of callers, every set   *)
(* of hosts and settings and every bound.                                *)
(*************************************************************************)
EXTENDS ServicePool, TLAPS, FiniteSetTheorems, SequenceTheorems

---------------------------------------------------------------------------
(* One semaphore *)

(* Counting does not look at the health of a slot. *)
LEMMA HealthKeepsCount ==
  ASSUME NEW slot \in Slot, NEW running, NEW queued, NEW healthy \in BOOLEAN,
         Counted(slot, running, queued)
  PROVE  /\ Counted([slot EXCEPT !.healthy = healthy], running, queued)
         /\ [slot EXCEPT !.healthy = healthy] \in Slot
  BY DEF Counted, Slot

(* A call that enters a free semaphore is one more that runs. *)
LEMMA EnterCounts ==
  ASSUME NEW slot \in Slot, NEW running, NEW queued, NEW c,
         IsFiniteSet(running), c \notin running,
         Counted(slot, running, queued), Free(slot)
  PROVE  /\ Counted(Enter(slot), running \cup {c}, queued)
         /\ Enter(slot) \in Slot
  <1>1. Cardinality(running \cup {c}) = Cardinality(running) + 1
    BY FS_AddElement
  <1>2. Enter(slot) \in Slot
    BY DEF Enter, Slot
  <1>3. QED
    BY <1>1, <1>2 DEF Counted, Enter, Free, Slot

(* A call that finds no place is one more in the queue. *)
LEMMA WaitCounts ==
  ASSUME NEW slot \in Slot, NEW running, NEW queued, NEW c \in Callers,
         c \notin queued, Counted(slot, running, queued), ~ Free(slot)
  PROVE  /\ Counted(Wait(slot, c), running, queued \cup {c})
         /\ Wait(slot, c) \in Slot
  <1>1. Wait(slot, c) \in Slot
    BY DEF Wait, Slot
  <1>2. Holds(Append(slot.queue, c), queued \cup {c})
    <2> DEFINE q == slot.queue  r == Append(slot.queue, c)
    <2>1. q \in Seq(Callers) /\ Len(r) = Len(q) + 1 /\ r[Len(q) + 1] = c /\ Len(q) \in Nat
          /\ \A i \in 1 .. Len(q) : r[i] = q[i]
      BY DEF Slot
    <2>2. Holds(q, queued)
      BY DEF Counted
    <2> HIDE DEF q, r
    <2>3. QED
      BY <2>1, <2>2 DEF Holds, q, r
  <1>3. slot.active = slot.max
    BY DEF Counted, Free, Slot
  <1>4. QED
    BY <1>1, <1>2, <1>3 DEF Counted, Wait, Slot

(* A call that leaves an empty queue behind is one less that runs. *)
LEMMA LastLeaves ==
  ASSUME NEW slot \in Slot, NEW running, NEW queued, NEW c \in running,
         IsFiniteSet(running), Counted(slot, running, queued), slot.queue = <<>>
  PROVE  /\ Counted(Release(slot), running \ {c}, queued)
         /\ Release(slot) \in Slot
  <1>1. Cardinality(running \ {c}) = Cardinality(running) - 1
    BY FS_RemoveElement
  <1>2. slot.active - 1 \in Nat
    BY <1>1, FS_CardinalityType, FS_RemoveElement DEF Counted
  <1>3. QED
    BY <1>1, <1>2 DEF Counted, Release, Slot

(* A call that leaves others waiting hands its place to the first of them. *)
LEMMA PlaceHandedOver ==
  ASSUME NEW slot \in Slot, NEW running, NEW queued, NEW c \in running,
         IsFiniteSet(running), running \cap queued = {},
         Counted(slot, running, queued), slot.queue # <<>>
  PROVE  /\ Head(slot.queue) \in queued
         /\ Counted(Release(slot), (running \ {c}) \cup {Head(slot.queue)}, queued \ {Head(slot.queue)})
         /\ Release(slot) \in Slot
         /\ Release(slot).queue # slot.queue
  <1> DEFINE q == slot.queue  first == Head(q)  rest == Tail(q)
  <1>1. q \in Seq(Callers) /\ q # <<>>
    BY DEF Slot
  <1>2. /\ Len(q) \in Nat \ {0}
        /\ first = q[1]
        /\ rest \in Seq(Callers)
        /\ Len(rest) = Len(q) - 1
        /\ \A i \in 1 .. Len(rest) : rest[i] = q[i + 1]
    BY <1>1, HeadTailProperties, EmptySeq
  <1>3. Holds(q, queued)
    BY DEF Counted
  <1>4. Release(slot) \in Slot /\ Release(slot).queue = rest /\ rest # q
    BY <1>1, <1>2 DEF Release, Slot
  <1> HIDE DEF q, first, rest
  <1>5. first \in queued
    BY <1>2, <1>3 DEF Holds
  <1>6. Holds(rest, queued \ {first})
    <2>1. ASSUME NEW i \in 1 .. Len(rest)
          PROVE  rest[i] \in queued \ {first}
      BY <1>2, <1>3 DEF Holds
    <2>2. ASSUME NEW d \in queued \ {first}
          PROVE  \E i \in 1 .. Len(rest) : rest[i] = d
      <3>1. PICK i \in 1 .. Len(q) : q[i] = d
        BY <1>3 DEF Holds
      <3>2. i # 1 /\ i - 1 \in 1 .. Len(rest)
        BY <3>1, <1>2
      <3>3. rest[i - 1] = d
        BY <3>1, <3>2, <1>2
      <3>4. QED
        BY <3>2, <3>3
    <2>3. ASSUME NEW i \in 1 .. Len(rest), NEW j \in 1 .. Len(rest), rest[i] = rest[j]
          PROVE  i = j
      BY <2>3, <1>2, <1>3 DEF Holds
    <2>4. QED
      BY <2>1, <2>2, <2>3 DEF Holds
  <1>7. Cardinality((running \ {c}) \cup {first}) = Cardinality(running)
    <2>1. IsFiniteSet(running \ {c}) /\ Cardinality(running \ {c}) = Cardinality(running) - 1
      BY FS_RemoveElement
    <2>2. first \notin running \ {c}
      BY <1>5
    <2>3. Cardinality((running \ {c}) \cup {first}) = Cardinality(running \ {c}) + 1
      BY <2>1, <2>2, FS_AddElement
    <2>4. Cardinality(running) \in Nat
      BY FS_CardinalityType
    <2>5. QED
      BY <2>1, <2>3, <2>4
  <1>8. slot.active = slot.max
    BY DEF Counted
  <1>9. Counted(Release(slot), (running \ {c}) \cup {first}, queued \ {first})
    BY <1>1, <1>4, <1>6, <1>7, <1>8 DEF Counted, Release, Slot, q, rest
  <1>10. QED
    BY <1>4, <1>5, <1>9 DEF q, first, rest

---------------------------------------------------------------------------
(* The invariant *)

(* Pools are built one after the other; what was not built yet is empty and *)
(* nobody is in it; a call that is in a pool is at one of its hosts.        *)
BuiltInv ==
  /\ current <= built
  /\ current = NoPool => built < MaxPools
  /\ \A p \in Pools : p > built => /\ slots[p] = [h \in Hosts |-> NoSlot]
                                   /\ probe[p] = [h \in Hosts |-> "idle"]
  /\ \A c \in Callers : call[c].held <= built
  /\ \A c \in Callers : call[c].at \in {"queued", "running"} =>
                          call[c].pool \in Pools /\ call[c].host \in Hosts

PoolInv == TypeOK /\ BuiltInv /\ SlotsCounted

CountedIn(pools) ==
  \A p \in Pools, h \in Hosts :
    Counted(pools[p][h], At("running", p, h), At("queued", p, h))

LEMMA AtFinite ==
  ASSUME NEW step, NEW p, NEW h
  PROVE  IsFiniteSet(At(step, p, h))
  BY CallersAssumption, FS_Subset DEF At

(* Whoever neither enters nor leaves a semaphore is not counted. *)
LEMMA SameCalls ==
  ASSUME \A c \in Callers :
           \/ call'[c] = call[c]
           \/ {call[c].at, call'[c].at} \cap {"queued", "running"} = {},
         NEW p, NEW h
  PROVE  At("running", p, h)' = At("running", p, h) /\ At("queued", p, h)' = At("queued", p, h)
  BY DEF At

(* The slots of a pool that is built now. *)
LEMMA NewSlotsType ==
  ASSUME NEW limits \in [Hosts -> Nat]
  PROVE  NewSlots(limits) \in [Hosts -> Slot]
  BY EmptySeq DEF NewSlots, Slot

LEMMA NoSlotType == NoSlot \in Slot
  BY EmptySeq DEF NoSlot, Slot

LEMMA EmptyCounted ==
  ASSUME NEW slot, slot.active = 0, slot.queue = <<>>, slot.max \in Nat
  PROVE  Counted(slot, {}, {})
  BY FS_EmptySet, EmptySeq DEF Counted, Holds

LEMMA LimitsType ==
  ASSUME TypeOK, NEW limits \in Settings[kind]
  PROVE  limits \in [Hosts -> Nat]
  BY SettingsAssumption DEF TypeOK

(* Nobody is in a pool that is not built. *)
LEMMA UnbuiltEmpty ==
  ASSUME PoolInv, NEW p \in Pools, p > built, NEW h \in Hosts
  PROVE  At("running", p, h) = {} /\ At("queued", p, h) = {}
  <1>1. slots[p][h] = NoSlot
    BY DEF PoolInv, BuiltInv
  <1>2. Counted(NoSlot, At("running", p, h), At("queued", p, h))
    BY <1>1 DEF PoolInv, SlotsCounted
  <1>3. Cardinality(At("running", p, h)) = 0
    BY <1>2 DEF Counted, NoSlot
  <1>4. At("running", p, h) = {}
    BY <1>3, AtFinite, FS_EmptySet
  <1>5. Holds(<<>>, At("queued", p, h))
    BY <1>2 DEF Counted, NoSlot
  <1>6. At("queued", p, h) = {}
    BY <1>5, EmptySeq DEF Holds
  <1>7. QED
    BY <1>4, <1>6

(* A pool that is built changes no count. *)
LEMMA BuildCounted ==
  ASSUME PoolInv, NEW limits \in [Hosts -> Nat], built + 1 \in Pools
  PROVE  /\ [slots EXCEPT ![built + 1] = NewSlots(limits)] \in [Pools -> [Hosts -> Slot]]
         /\ CountedIn([slots EXCEPT ![built + 1] = NewSlots(limits)])
         /\ \A p \in Pools : p > built + 1 =>
              [slots EXCEPT ![built + 1] = NewSlots(limits)][p] = [h \in Hosts |-> NoSlot]
  <1> DEFINE pools == [slots EXCEPT ![built + 1] = NewSlots(limits)]
  <1>1. pools \in [Pools -> [Hosts -> Slot]]
    BY NewSlotsType DEF PoolInv, TypeOK
  <1>2. \A p \in Pools : pools[p] = IF p = built + 1 THEN NewSlots(limits) ELSE slots[p]
    BY DEF PoolInv, TypeOK
  <1>3. built \in Nat
    BY SettingsAssumption DEF PoolInv, TypeOK
  <1> HIDE DEF pools
  <1>4. CountedIn(pools)
    <2> SUFFICES ASSUME NEW p \in Pools, NEW h \in Hosts
                 PROVE  Counted(pools[p][h], At("running", p, h), At("queued", p, h))
      BY DEF CountedIn
    <2>1. CASE p = built + 1
      <3>1. At("running", p, h) = {} /\ At("queued", p, h) = {}
        BY <2>1, <1>3, UnbuiltEmpty
      <3>2. pools[p][h].active = 0 /\ pools[p][h].queue = <<>> /\ pools[p][h].max \in Nat
        <4>1. pools[p] = NewSlots(limits)
          BY <2>1, <1>2
        <4>2. limits[h] \in Nat
          OBVIOUS
        <4>3. QED
          BY <4>1, <4>2 DEF NewSlots
      <3>3. QED
        BY <3>1, <3>2, EmptyCounted
    <2>2. CASE p # built + 1
      BY <2>2, <1>2 DEF PoolInv, SlotsCounted
    <2>3. QED
      BY <2>1, <2>2
  <1>5. \A p \in Pools : p > built + 1 => pools[p] = [h \in Hosts |-> NoSlot]
    BY <1>2, <1>3 DEF PoolInv, BuiltInv, Pools
  <1>6. QED
    BY <1>1, <1>4, <1>5 DEF pools

(* A lookup finds a pool that exists, or builds it. *)
LEMMA LookupFinds ==
  ASSUME PoolInv
  PROVE  /\ PoolNow \in Pools
         /\ SlotsNow \in [Pools -> [Hosts -> Slot]]
         /\ CountedIn(SlotsNow)
         /\ Lookup => /\ built' \in 0 .. MaxPools /\ built <= built' /\ PoolNow <= built'
                      /\ current' = PoolNow /\ current' # NoPool
                      /\ \A p \in Pools : p > built' => SlotsNow[p] = [h \in Hosts |-> NoSlot]
  <1>0. built \in 0 .. MaxPools /\ MaxPools \in Nat /\ current \in Pools \cup {NoPool}
    BY SettingsAssumption DEF PoolInv, TypeOK
  <1>1. CASE current = NoPool
    <2>1. built + 1 \in Pools
      BY <1>0, <1>1 DEF PoolInv, BuiltInv, Pools
    <2>2. endpoints \in [Hosts -> Nat]
      BY LimitsType DEF PoolInv, TypeOK
    <2>3. PoolNow = built + 1 /\ SlotsNow = [slots EXCEPT ![built + 1] = NewSlots(endpoints)]
      BY <1>1 DEF PoolNow, SlotsNow
    <2>4. Lookup => built' = built + 1 /\ current' = PoolNow
      BY <1>1 DEF Lookup
    <2>5. /\ SlotsNow \in [Pools -> [Hosts -> Slot]]
          /\ CountedIn(SlotsNow)
          /\ \A p \in Pools : p > built + 1 => SlotsNow[p] = [h \in Hosts |-> NoSlot]
      BY <2>1, <2>2, <2>3, BuildCounted
    <2>6. built + 1 \in 0 .. MaxPools /\ built <= built + 1 /\ built + 1 # NoPool
      BY <1>0, <2>1 DEF Pools, NoPool
    <2>7. QED
      BY <2>1, <2>3, <2>4, <2>5, <2>6
  <1>2. CASE current # NoPool
    <2>1. PoolNow = current /\ SlotsNow = slots /\ current \in Pools
      BY <1>0, <1>2 DEF PoolNow, SlotsNow
    <2>2. Lookup => built' = built
      BY <1>2 DEF Lookup
    <2>3. QED
      BY <1>0, <1>2, <2>1, <2>2
      DEF Lookup, PoolInv, TypeOK, BuiltInv, SlotsCounted, CountedIn, Pools, NoPool
  <1>3. QED
    BY <1>1, <1>2

---------------------------------------------------------------------------
(* The initial states *)

LEMMA InitPools == Init => PoolInv
  <1> SUFFICES ASSUME Init PROVE PoolInv
    OBVIOUS
  <1>1. endpoints \in [Hosts -> Nat] /\ MaxPools \in Nat /\ MaxPools > 0 /\ MaxTries \in Nat
    BY SettingsAssumption DEF Init
  <1>2. current \in {0, 1} /\ built = current /\ 1 \in Pools
    BY <1>1 DEF Init, NoPool, Pools
  <1>3. slots \in [Pools -> [Hosts -> Slot]]
    BY <1>1, NewSlotsType, NoSlotType DEF Init
  <1>4. TypeOK
    <2>1. NoCall \in Call
      BY <1>1 DEF NoCall, Call, CallStep
    <2>2. probe \in [Pools -> [Hosts -> ProbeStep]]
      BY DEF Init, FirstProbes, ProbeStep
    <2>3. heard \in [Pools -> SUBSET Hosts]
      BY DEF Init, Named
    <2>4. built \in 0 .. MaxPools /\ current \in Pools \cup {NoPool}
      BY <1>1, <1>2 DEF Pools, NoPool
    <2>5. call \in [Callers -> Call]
      BY <2>1 DEF Init
    <2>6. kind \in Kinds /\ endpoints \in Settings[kind] /\ up \subseteq Named
      BY DEF Init
    <2>7. disposed \subseteq Pools /\ probing \subseteq Pools
      BY DEF Init
    <2>8. QED
      BY <1>3, <2>2, <2>3, <2>4, <2>5, <2>6, <2>7 DEF TypeOK
  <1>5. BuiltInv
    <2>1. ASSUME NEW p \in Pools, p > built
          PROVE  slots[p] = [h \in Hosts |-> NoSlot] /\ probe[p] = [h \in Hosts |-> "idle"]
      <3>1. slots[p] = [h \in Hosts |-> NoSlot]
        BY <2>1, <1>2 DEF Init
      <3>2. Listed(slots[p]) = {}
        BY <3>1 DEF Listed, NoSlot
      <3>3. QED
        BY <3>1, <3>2 DEF Init, FirstProbes
    <2>2. QED
      BY <1>1, <1>2, <2>1 DEF Init, BuiltInv, NoCall, NoPool
  <1>6. SlotsCounted
    <2> SUFFICES ASSUME NEW p \in Pools, NEW h \in Hosts
                 PROVE  Counted(slots[p][h], At("running", p, h), At("queued", p, h))
      BY DEF SlotsCounted
    <2>1. At("running", p, h) = {} /\ At("queued", p, h) = {}
      BY DEF Init, At, NoCall
    <2>2. slots[p][h].active = 0 /\ slots[p][h].queue = <<>> /\ slots[p][h].max \in Nat
      BY <1>1 DEF Init, NewSlots, NoSlot
    <2>3. QED
      BY <2>1, <2>2, EmptyCounted
  <1>7. QED
    BY <1>4, <1>5, <1>6 DEF PoolInv

---------------------------------------------------------------------------
(* Steps that neither enter nor leave a semaphore *)

SameCounts ==
  \A c \in Callers :
    \/ call'[c] = call[c]
    \/ {call[c].at, call'[c].at} \cap {"queued", "running"} = {}

LEMMA CountsKept ==
  ASSUME CountedIn(slots'), SameCounts
  PROVE  SlotsCounted'
  <1> SUFFICES ASSUME NEW p \in Pools, NEW h \in Hosts
               PROVE  Counted(slots'[p][h], At("running", p, h)', At("queued", p, h)')
    BY DEF SlotsCounted
  <1>1. At("running", p, h)' = At("running", p, h) /\ At("queued", p, h)' = At("queued", p, h)
    BY SameCalls DEF SameCounts
  <1>2. QED
    BY <1>1 DEF CountedIn

LEMMA PoolsAsTheyAre == PoolInv => CountedIn(slots)
  BY DEF PoolInv, SlotsCounted, CountedIn

(* A round of a pool that exists. *)
LEMMA RoundType ==
  ASSUME PoolInv, NEW p \in Pools, NEW pool, StartRound(p, pool)
  PROVE  /\ probing' \subseteq Pools
         /\ probe' \in [Pools -> [Hosts -> ProbeStep]]
         /\ heard' \in [Pools -> SUBSET Hosts]
         /\ \A q \in Pools : q # p => probe'[q] = probe[q]
  <1>1. FirstProbes(pool) \in [Hosts -> ProbeStep]
    BY DEF FirstProbes, ProbeStep
  <1>2. up \in SUBSET Hosts
    BY DEF PoolInv, TypeOK, Named
  <1>3. QED
    BY <1>1, <1>2 DEF StartRound, PoolInv, TypeOK

LEMMA TickKeeps == PoolInv /\ TimerTick => PoolInv'
  <1> SUFFICES ASSUME PoolInv, TimerTick PROVE PoolInv'
    OBVIOUS
  <1>1. current \in Pools /\ StartRound(current, slots[current])
    BY DEF TimerTick, PoolInv, TypeOK
  <1>2. SlotsCounted'
    BY CountsKept, PoolsAsTheyAre DEF TimerTick, SameCounts
  <1>3. TypeOK'
    BY <1>1, RoundType DEF TimerTick, PoolInv, TypeOK, poolVars, Named
  <1>4. BuiltInv'
    <2>1. built \in Nat /\ current <= built /\ \A p \in Pools : p > built => p # current
      BY SettingsAssumption, <1>1 DEF PoolInv, TypeOK, BuiltInv, Pools
    <2>2. QED
      BY <1>1, <2>1, RoundType DEF TimerTick, PoolInv, BuiltInv, poolVars
  <1>5. QED
    BY <1>2, <1>3, <1>4 DEF PoolInv

LEMMA AnswerKeeps ==
  ASSUME PoolInv, NEW p \in Pools, NEW h \in Hosts, HostAnswers(p, h)
  PROVE  PoolInv'
  <1>1. SlotsCounted'
    BY CountsKept, PoolsAsTheyAre DEF HostAnswers, SameCounts
  <1>2. TypeOK'
    BY DEF HostAnswers, PoolInv, TypeOK, poolVars, Named, ProbeStep
  <1>3. BuiltInv'
    <2>1. ~ p > built
      BY DEF HostAnswers, PoolInv, BuiltInv
    <2>2. \A q \in Pools : q # p => probe'[q] = probe[q]
      BY DEF HostAnswers, PoolInv, TypeOK
    <2>3. QED
      BY <2>1, <2>2 DEF HostAnswers, PoolInv, BuiltInv, poolVars
  <1>4. QED
    BY <1>1, <1>2, <1>3 DEF PoolInv

LEMMA ReportKeeps ==
  ASSUME PoolInv, NEW p \in Pools, NEW h \in Hosts, ProbeReports(p, h)
  PROVE  PoolInv'
  <1> DEFINE slot == slots[p][h]
  <1>1. /\ slot \in Slot
        /\ slots \in [Pools -> [Hosts -> Slot]]
        /\ Answered(p, h) \in BOOLEAN
        /\ slots' = [slots EXCEPT ![p][h] = [slot EXCEPT !.healthy = Answered(p, h)]]
    BY DEF ProbeReports, PoolInv, TypeOK, Answered, Slot
  <1>2. [slot EXCEPT !.healthy = Answered(p, h)] \in Slot
    BY <1>1 DEF Slot
  <1>3. CountedIn(slots')
    <2> SUFFICES ASSUME NEW q \in Pools, NEW g \in Hosts
                 PROVE  Counted(slots'[q][g], At("running", q, g), At("queued", q, g))
      BY DEF CountedIn
    <2>1. Counted(slots[q][g], At("running", q, g), At("queued", q, g))
      BY DEF PoolInv, SlotsCounted
    <2>2. CASE q = p /\ g = h
      <3>1. slots'[q][g] = [slot EXCEPT !.healthy = Answered(p, h)]
        BY <1>1, <2>2
      <3>2. QED
        BY <1>1, <2>1, <2>2, <3>1, HealthKeepsCount
    <2>3. CASE ~ (q = p /\ g = h)
      <3>1. slots'[q][g] = slots[q][g]
        BY <1>1, <2>3
      <3>2. QED
        BY <2>1, <3>1
    <2>4. QED
      BY <2>2, <2>3
  <1>4. /\ call' \in [Callers -> Call]
        /\ SameCounts
        /\ \A c \in Callers : call'[c].held = call[c].held
        /\ \A c \in Callers : call'[c].at \in {"queued", "running"} => call'[c] = call[c]
    <2>1. /\ call \in [Callers -> Call]
          /\ call' = call \/ \E next \in {"ready", "asleep"} :
               call' = [c \in Callers |-> IF call[c].at = "probing" /\ call[c].pool = p
                                         THEN [call[c] EXCEPT !.at = next, !.pool = NoPool]
                                         ELSE call[c]]
      BY DEF ProbeReports, PoolInv, TypeOK
    <2>2. CASE call' = call
      BY <2>1, <2>2 DEF SameCounts
    <2>3. ASSUME NEW next \in {"ready", "asleep"},
                 call' = [c \in Callers |-> IF call[c].at = "probing" /\ call[c].pool = p
                                           THEN [call[c] EXCEPT !.at = next, !.pool = NoPool]
                                           ELSE call[c]]
          PROVE  /\ call' \in [Callers -> Call]
                 /\ SameCounts
                 /\ \A c \in Callers : call'[c].held = call[c].held
                 /\ \A c \in Callers : call'[c].at \in {"queued", "running"} => call'[c] = call[c]
      <3>1. ASSUME NEW c \in Callers, call'[c] # call[c]
            PROVE  /\ call'[c] \in Call
                   /\ call[c].at = "probing" /\ call'[c].at = next
                   /\ call'[c].held = call[c].held
        <4>1. call[c].at = "probing" /\ call'[c] = [call[c] EXCEPT !.at = next, !.pool = NoPool]
          BY <2>3, <3>1
        <4>2. call[c] \in Call
          BY <2>1
        <4>3. QED
          BY <4>1, <4>2 DEF Call, CallStep
      <3>2. call' \in [Callers -> Call]
        BY <2>1, <2>3, <3>1
      <3>3. QED
        BY <3>1, <3>2 DEF SameCounts
    <2>4. QED
      BY <2>1, <2>2, <2>3
  <1>5. SlotsCounted'
    BY <1>3, <1>4, CountsKept
  <1>6. TypeOK'
    <2>1. slots' \in [Pools -> [Hosts -> Slot]]
      BY <1>1, <1>2
    <2>2. probing' \subseteq Pools /\ heard' \in [Pools -> SUBSET Hosts]
      BY DEF ProbeReports, PoolInv, TypeOK
    <2>3. probe' \in [Pools -> [Hosts -> ProbeStep]]
      BY DEF ProbeReports, PoolInv, TypeOK, ProbeStep
    <2>4. QED
      BY <1>4, <2>1, <2>2, <2>3 DEF ProbeReports, PoolInv, TypeOK, poolVars, Named
  <1>7. BuiltInv'
    <2>1. ~ p > built
      BY DEF ProbeReports, PoolInv, BuiltInv
    <2>2. \A q \in Pools : q # p => probe'[q] = probe[q] /\ slots'[q] = slots[q]
      BY <1>1 DEF ProbeReports, PoolInv, TypeOK
    <2>3. QED
      BY <1>4, <2>1, <2>2 DEF ProbeReports, PoolInv, BuiltInv, poolVars
  <1>8. QED
    BY <1>5, <1>6, <1>7 DEF PoolInv

(* A caller that moves on outside of the pools. *)
LEMMA MoveKeeps ==
  ASSUME PoolInv, NEW c \in Callers,
         CallOutside(c) \/ CallInJob(c) \/ Retry(c) \/ GiveUp(c)
  PROVE  PoolInv'
  <1>1. UNCHANGED <<kind, poolVars, slots, probing, probe, up, heard>>
    BY DEF CallOutside, CallInJob, Retry, GiveUp
  <1>2. /\ call' \in [Callers -> Call]
        /\ SameCounts
        /\ \A d \in Callers : call'[d].held = call[d].held \/ call'[d].held = NoPool
        /\ \A d \in Callers : call'[d].at \in {"queued", "running"} => call'[d] = call[d]
    <2>1. \A d \in Callers : call[d] \in Call
      BY DEF PoolInv, TypeOK
    <2>2. /\ call' = [call EXCEPT ![c] = call'[c]]
          /\ call'[c] \in Call
          /\ {call[c].at, call'[c].at} \cap {"queued", "running"} = {}
          /\ call'[c].held \in {call[c].held, NoPool}
      <3>1. CASE CallOutside(c)
        BY <3>1, <2>1 DEF CallOutside, PoolInv, TypeOK, Call, CallStep
      <3>2. CASE CallInJob(c)
        BY <3>2, <2>1 DEF CallInJob, PoolInv, TypeOK, Call, CallStep
      <3>3. CASE Retry(c)
        BY <3>3, <2>1, SettingsAssumption DEF Retry, PoolInv, TypeOK, Call, CallStep
      <3>4. CASE GiveUp(c)
        BY <3>4, <2>1, SettingsAssumption DEF GiveUp, NoCall, PoolInv, TypeOK, Call, CallStep
      <3>5. QED
        BY <3>1, <3>2, <3>3, <3>4
    <2>3. QED
      BY <2>1, <2>2 DEF SameCounts, PoolInv, TypeOK
  <1>3. SlotsCounted'
    BY <1>1, <1>2, CountsKept, PoolsAsTheyAre
  <1>4. TypeOK'
    BY <1>1, <1>2 DEF PoolInv, TypeOK, poolVars, Named
  <1>5. BuiltInv'
    BY <1>1, <1>2, SettingsAssumption DEF PoolInv, BuiltInv, poolVars, TypeOK, NoPool
  <1>6. QED
    BY <1>3, <1>4, <1>5 DEF PoolInv

LEMMA HostsKeep ==
  ASSUME PoolInv, NEW h \in Hosts, HostComes(h) \/ HostGoes(h)
  PROVE  PoolInv'
  <1>1. UNCHANGED <<kind, poolVars, slots, probing, probe, call>>
    BY DEF HostComes, HostGoes
  <1>2. SlotsCounted'
    BY <1>1, CountsKept, PoolsAsTheyAre DEF SameCounts
  <1>3. up' \subseteq Named' /\ heard' \in [Pools -> SUBSET Hosts]
    BY <1>1 DEF HostComes, HostGoes, PoolInv, TypeOK, Named
  <1>4. TypeOK' /\ BuiltInv'
    BY <1>1, <1>3 DEF PoolInv, TypeOK, BuiltInv, poolVars
  <1>5. QED
    BY <1>2, <1>4 DEF PoolInv

LEMMA UpdateKeeps ==
  ASSUME PoolInv, NEW limits \in Settings[kind], UpdateRegistry(limits)
  PROVE  PoolInv'
  <1>1. UNCHANGED <<kind, built, slots, probing, probe, call, up, heard>> /\ current' = NoPool
    BY DEF UpdateRegistry
  <1>2. SlotsCounted'
    BY <1>1, CountsKept, PoolsAsTheyAre DEF SameCounts
  <1>3. TypeOK'
    BY <1>1 DEF UpdateRegistry, Replaced, PoolInv, TypeOK, Named
  <1>4. BuiltInv'
    BY <1>1 DEF UpdateRegistry, PoolInv, TypeOK, BuiltInv, NoPool
  <1>5. QED
    BY <1>2, <1>3, <1>4 DEF PoolInv

LEMMA SyncKeeps ==
  ASSUME PoolInv, NEW limits \in Settings[kind], SyncChatPool(limits)
  PROVE  PoolInv'
  <1>1. /\ UNCHANGED <<kind, call, up>>
        /\ built' = built + 1 /\ current' = built + 1 /\ endpoints' = limits
        /\ slots' = [slots EXCEPT ![built + 1] = NewSlots(limits)]
        /\ disposed' = Replaced
    BY DEF SyncChatPool
  <1>2. limits \in [Hosts -> Nat]
    BY LimitsType DEF PoolInv
  <1>3. built \in Nat /\ built + 1 \in Pools /\ built + 1 \in 0 .. MaxPools
    BY SettingsAssumption DEF SyncChatPool, PoolInv, TypeOK, Pools
  <1>4. SlotsCounted'
    BY <1>1, <1>2, <1>3, BuildCounted, CountsKept DEF SameCounts
  <1>5. /\ probing' \subseteq Pools
        /\ probe' \in [Pools -> [Hosts -> ProbeStep]]
        /\ heard' \in [Pools -> SUBSET Hosts]
        /\ \A q \in Pools : q # built + 1 => probe'[q] = probe[q]
    <2>1. CASE StartRound(built + 1, slots'[built + 1])
      BY <1>3, <2>1, RoundType
    <2>2. CASE UNCHANGED <<probing, probe, heard>>
      BY <2>2 DEF PoolInv, TypeOK
    <2>3. QED
      BY <2>1, <2>2 DEF SyncChatPool
  <1>6. TypeOK'
    <2>1. slots' \in [Pools -> [Hosts -> Slot]]
      BY <1>1, <1>2, <1>3, BuildCounted
    <2>2. QED
      BY <1>1, <1>3, <1>5, <2>1 DEF Replaced, PoolInv, TypeOK, Named
  <1>7. BuiltInv'
    <2>1. \A p \in Pools : p > built + 1 => slots'[p] = [h \in Hosts |-> NoSlot]
      BY <1>1, <1>2, <1>3, BuildCounted
    <2>2. \A p \in Pools : p > built + 1 => p > built /\ p # built + 1
      BY <1>3 DEF Pools
    <2>3. \A c \in Callers : call[c].held <= built + 1
      <3>1. \A c \in Callers : call[c].held \in Nat
        BY DEF PoolInv, TypeOK, Call, Pools, NoPool
      <3>2. QED
        BY <1>3, <3>1 DEF PoolInv, BuiltInv
    <2>4. QED
      BY <1>1, <1>3, <1>5, <2>1, <2>2, <2>3 DEF PoolInv, BuiltInv, NoPool
  <1>8. QED
    BY <1>4, <1>6, <1>7 DEF PoolInv

---------------------------------------------------------------------------
(* Steps of a call that look a pool up *)

(* A lookup finds or builds a pool and leaves the others alone. *)
LEMMA LookupKeeps ==
  ASSUME PoolInv, Lookup, slots' = SlotsNow
  PROVE  /\ PoolNow \in Pools /\ PoolNow <= built' /\ current' = PoolNow /\ current' # NoPool
         /\ built' \in 0 .. MaxPools /\ built <= built'
         /\ slots' \in [Pools -> [Hosts -> Slot]]
         /\ CountedIn(slots')
         /\ \A p \in Pools : p > built' => /\ p > built
                                           /\ p # PoolNow
                                           /\ slots'[p] = [h \in Hosts |-> NoSlot]
         /\ \A n \in 0 .. MaxPools : n <= built => n <= built'
  <1>1. built \in 0 .. MaxPools /\ MaxPools \in Nat
    BY SettingsAssumption DEF PoolInv, TypeOK
  <1>2. /\ PoolNow \in Pools /\ PoolNow <= built' /\ current' = PoolNow /\ current' # NoPool
        /\ built' \in 0 .. MaxPools /\ built <= built'
        /\ slots' \in [Pools -> [Hosts -> Slot]]
        /\ CountedIn(slots')
        /\ \A p \in Pools : p > built' => slots'[p] = [h \in Hosts |-> NoSlot]
    BY LookupFinds
  <1>3. QED
    BY <1>1, <1>2 DEF Pools

LEMMA HeldType ==
  ASSUME PoolInv, NEW c \in Callers
  PROVE  call[c] \in Call /\ call[c].held \in 0 .. MaxPools /\ call[c].held <= built
  BY SettingsAssumption DEF PoolInv, TypeOK, BuiltInv, Call, Pools, NoPool

LEMMA HoldingKeeps ==
  ASSUME PoolInv, NEW c \in Callers, CallHolding(c)
  PROVE  PoolInv'
  <1>1. UNCHANGED <<kind, probing, probe, up, heard>> /\ Lookup /\ slots' = SlotsNow
    BY DEF CallHolding
  <1>2. /\ call' \in [Callers -> Call]
        /\ SameCounts
        /\ \A d \in Callers : call'[d].held \in {call[d].held, PoolNow}
        /\ \A d \in Callers : call'[d].at \in {"queued", "running"} => call'[d] = call[d]
    <2>1. call \in [Callers -> Call] /\ call[c].at = "idle" /\ PoolNow \in Pools
      BY <1>1, LookupKeeps DEF CallHolding, PoolInv, TypeOK
    <2>2. CASE call' = call
      BY <2>1, <2>2 DEF SameCounts
    <2>3. CASE call' = [call EXCEPT ![c].at = "wait", ![c].held = PoolNow]
      <3>1. call'[c] \in Call /\ call'[c].at = "wait" /\ call'[c].held = PoolNow
        BY <2>1, <2>3 DEF Call, CallStep
      <3>2. \A d \in Callers : d # c => call'[d] = call[d]
        BY <2>1, <2>3
      <3>3. call' \in [Callers -> Call]
        BY <2>1, <2>3, <3>1, <3>2
      <3>4. QED
        BY <2>1, <3>1, <3>2, <3>3 DEF SameCounts
    <2>4. QED
      BY <2>2, <2>3 DEF CallHolding
  <1>3. SlotsCounted'
    BY <1>1, <1>2, LookupKeeps, CountsKept
  <1>4. TypeOK'
    <2>1. current' \in Pools \cup {NoPool} /\ built' \in 0 .. MaxPools
          /\ slots' \in [Pools -> [Hosts -> Slot]]
      BY <1>1, LookupKeeps
    <2>2. QED
      BY <1>1, <1>2, <2>1 DEF Lookup, PoolInv, TypeOK, Named
  <1>5. BuiltInv'
    <2>1. \A d \in Callers : call'[d].held <= built'
      BY <1>1, <1>2, LookupKeeps, HeldType
    <2>2. \A p \in Pools : p > built' => /\ slots'[p] = [h \in Hosts |-> NoSlot]
                                         /\ probe'[p] = [h \in Hosts |-> "idle"]
      BY <1>1, LookupKeeps DEF PoolInv, BuiltInv
    <2>3. current' <= built' /\ current' # NoPool
      BY <1>1, LookupKeeps
    <2>4. QED
      BY <1>2, <2>1, <2>2, <2>3 DEF PoolInv, BuiltInv
  <1>6. QED
    BY <1>3, <1>4, <1>5 DEF PoolInv

LEMMA AskKeeps ==
  ASSUME PoolInv, NEW c \in Callers, AskHealth(c)
  PROVE  PoolInv'
  <1>1. UNCHANGED <<kind, up>> /\ Lookup /\ slots' = SlotsNow
    BY DEF AskHealth
  <1>2. /\ call' \in [Callers -> Call]
        /\ SameCounts
        /\ \A d \in Callers : call'[d].held = call[d].held
        /\ \A d \in Callers : call'[d].at \in {"queued", "running"} => call'[d] = call[d]
    <2>1. call \in [Callers -> Call] /\ call[c].at = "wait" /\ PoolNow \in Pools
      BY <1>1, LookupKeeps DEF AskHealth, PoolInv, TypeOK
    <2>2. /\ call'[c] \in Call /\ call'[c].at \in {"asleep", "probing"}
          /\ call'[c].held = call[c].held
          /\ call' = [call EXCEPT ![c] = call'[c]]
      <3>1. CASE call' = [call EXCEPT ![c].at = "asleep"]
        BY <2>1, <3>1 DEF Call, CallStep
      <3>2. CASE call' = [call EXCEPT ![c].at = "probing", ![c].pool = PoolNow]
        BY <2>1, <3>2 DEF Call, CallStep
      <3>3. QED
        BY <3>1, <3>2 DEF AskHealth
    <2>3. \A d \in Callers : d # c => call'[d] = call[d]
      BY <2>1, <2>2
    <2>4. call' \in [Callers -> Call]
      BY <2>1, <2>2
    <2>5. QED
      BY <2>1, <2>2, <2>3, <2>4 DEF SameCounts
  <1>3. SlotsCounted'
    BY <1>1, <1>2, LookupKeeps, CountsKept
  <1>4. /\ probing' \subseteq Pools
        /\ probe' \in [Pools -> [Hosts -> ProbeStep]]
        /\ heard' \in [Pools -> SUBSET Hosts]
        /\ \A q \in Pools : q # PoolNow => probe'[q] = probe[q]
    <2>1. CASE StartRound(PoolNow, slots'[PoolNow])
      BY <1>1, <2>1, LookupKeeps, RoundType
    <2>2. CASE UNCHANGED <<probing, probe, heard>>
      BY <2>2 DEF PoolInv, TypeOK
    <2>3. QED
      BY <2>1, <2>2 DEF AskHealth
  <1>5. TypeOK'
    <2>1. current' \in Pools \cup {NoPool} /\ built' \in 0 .. MaxPools
          /\ slots' \in [Pools -> [Hosts -> Slot]]
      BY <1>1, LookupKeeps
    <2>2. QED
      BY <1>1, <1>2, <1>4, <2>1 DEF Lookup, PoolInv, TypeOK, Named
  <1>6. BuiltInv'
    <2>1. \A d \in Callers : call'[d].held <= built'
      BY <1>1, <1>2, LookupKeeps, HeldType
    <2>2. \A p \in Pools : p > built' => /\ slots'[p] = [h \in Hosts |-> NoSlot]
                                         /\ probe'[p] = [h \in Hosts |-> "idle"]
      BY <1>1, <1>4, LookupKeeps DEF PoolInv, BuiltInv
    <2>3. current' <= built' /\ current' # NoPool
      BY <1>1, LookupKeeps
    <2>4. QED
      BY <1>2, <2>1, <2>2, <2>3 DEF PoolInv, BuiltInv
  <1>7. QED
    BY <1>3, <1>5, <1>6 DEF PoolInv

(* The pool of a call that runs now. *)
LEMMA FoundFor ==
  ASSUME PoolInv, NEW c \in Callers, LookupFor(c)
  PROVE  /\ PoolOf(c) \in Pools
         /\ PoolOf(c) <= built'
         /\ built' \in 0 .. MaxPools
         /\ current' \in Pools \cup {NoPool}
         /\ current' <= built' /\ (current' = NoPool => built' < MaxPools)
         /\ endpoints' = endpoints /\ disposed' = disposed
         /\ SlotsFor(c) \in [Pools -> [Hosts -> Slot]]
         /\ CountedIn(SlotsFor(c))
         /\ \A p \in Pools : p > built' => /\ p > built /\ p # PoolOf(c)
                                           /\ SlotsFor(c)[p] = [h \in Hosts |-> NoSlot]
         /\ \A d \in Callers : call[d].held <= built'
  <1>1. /\ built \in 0 .. MaxPools /\ MaxPools \in Nat /\ current \in Pools \cup {NoPool}
        /\ slots \in [Pools -> [Hosts -> Slot]]
    BY SettingsAssumption DEF PoolInv, TypeOK
  <1>2. \A d \in Callers : call[d].held \in 0 .. MaxPools /\ call[d].held <= built
    BY HeldType
  <1>3. CASE call[c].held = NoPool
    <2>1. Lookup /\ PoolOf(c) = PoolNow /\ SlotsFor(c) = SlotsNow
      BY <1>3 DEF LookupFor, PoolOf, SlotsFor
    <2>2. /\ PoolNow \in Pools /\ PoolNow <= built' /\ current' = PoolNow /\ current' # NoPool
          /\ built' \in 0 .. MaxPools /\ built <= built'
          /\ SlotsNow \in [Pools -> [Hosts -> Slot]]
          /\ CountedIn(SlotsNow)
          /\ \A p \in Pools : p > built' => SlotsNow[p] = [h \in Hosts |-> NoSlot]
      BY <2>1, LookupFinds
    <2>3. \A d \in Callers : call[d].held <= built'
      BY <1>1, <1>2, <2>2
    <2>4. \A p \in Pools : p > built' => p > built /\ p # PoolNow
      BY <1>1, <2>2 DEF Pools
    <2>5. endpoints' = endpoints /\ disposed' = disposed
      BY <2>1 DEF Lookup
    <2>6. QED
      BY <2>1, <2>2, <2>3, <2>4, <2>5
  <1>4. CASE call[c].held # NoPool
    <2>1. /\ UNCHANGED poolVars
          /\ PoolOf(c) = call[c].held
          /\ SlotsFor(c) = slots
      BY <1>4 DEF LookupFor, PoolOf, SlotsFor
    <2>2. built' = built /\ current' = current /\ endpoints' = endpoints /\ disposed' = disposed
      BY <2>1 DEF poolVars
    <2>3. PoolOf(c) \in Pools /\ PoolOf(c) <= built
      BY <1>1, <1>2, <1>4, <2>1 DEF Pools, NoPool
    <2>4. \A p \in Pools : p > built => p # PoolOf(c) /\ slots[p] = [h \in Hosts |-> NoSlot]
      BY <1>1, <2>3 DEF PoolInv, BuiltInv, Pools
    <2>5. current <= built /\ (current = NoPool => built < MaxPools)
      BY DEF PoolInv, BuiltInv
    <2>6. QED
      BY <1>1, <1>2, <2>1, <2>2, <2>3, <2>4, <2>5, PoolsAsTheyAre
  <1>5. QED
    BY <1>3, <1>4

LEMMA RejectKeeps ==
  ASSUME PoolInv, NEW c \in Callers, Reject(c)
  PROVE  PoolInv'
  <1>1. /\ UNCHANGED <<kind, probing, probe, up, heard>> /\ LookupFor(c) /\ slots' = SlotsFor(c)
        /\ call[c].at = "ready" /\ call' = [call EXCEPT ![c] = NoCall]
    BY DEF Reject
  <1>2. /\ call' \in [Callers -> Call]
        /\ SameCounts
        /\ \A d \in Callers : call'[d].held \in {call[d].held, NoPool}
        /\ \A d \in Callers : call'[d].at \in {"queued", "running"} => call'[d] = call[d]
    <2>1. call \in [Callers -> Call]
      BY DEF PoolInv, TypeOK
    <2>2. NoCall \in Call /\ NoCall.at = "idle" /\ NoCall.held = NoPool
      BY SettingsAssumption DEF NoCall, Call, CallStep
    <2>3. \A d \in Callers : call'[d] = IF d = c THEN NoCall ELSE call[d]
      BY <1>1, <2>1
    <2>4. QED
      BY <1>1, <2>1, <2>2, <2>3 DEF SameCounts
  <1>3. SlotsCounted'
    BY <1>1, <1>2, FoundFor, CountsKept
  <1>4. TypeOK'
    BY <1>1, <1>2, FoundFor DEF PoolInv, TypeOK, Named
  <1>5. BuiltInv'
    <2>1. \A d \in Callers : call'[d].held <= built'
      BY <1>1, <1>2, FoundFor DEF NoPool
    <2>2. \A p \in Pools : p > built' => /\ slots'[p] = [h \in Hosts |-> NoSlot]
                                         /\ probe'[p] = [h \in Hosts |-> "idle"]
      BY <1>1, FoundFor DEF PoolInv, BuiltInv
    <2>3. current' <= built' /\ (current' = NoPool => built' < MaxPools)
      BY <1>1, FoundFor
    <2>4. QED
      BY <1>2, <2>1, <2>2, <2>3 DEF PoolInv, BuiltInv
  <1>6. QED
    BY <1>3, <1>4, <1>5 DEF PoolInv

LEMMA DispatchKeeps ==
  ASSUME PoolInv, NEW c \in Callers, Dispatch(c)
  PROVE  PoolInv'
  <1> DEFINE p == PoolOf(c)  pools == SlotsFor(c)
  <1>1. /\ UNCHANGED <<kind, probing, probe, up, heard>> /\ LookupFor(c)
        /\ call[c].at = "ready" /\ call \in [Callers -> Call]
    BY DEF Dispatch, PoolInv, TypeOK
  <1>2. PICK h \in Candidates(pools[p]) :
          LET free == Free(pools[p][h]) IN
          /\ slots' = [pools EXCEPT ![p][h] = IF free THEN Enter(@) ELSE Wait(@, c)]
          /\ call' = [call EXCEPT ![c] = [NoCall EXCEPT !.at = IF free THEN "running" ELSE "queued",
                                                        !.pool = p, !.host = h]]
    BY DEF Dispatch
  <1> DEFINE slot == pools[p][h]
             new == IF Free(slot) THEN Enter(slot) ELSE Wait(slot, c)
             step == IF Free(slot) THEN "running" ELSE "queued"
  <1>3. h \in Hosts
    BY DEF Candidates, Healthy
  <1>4. /\ p \in Pools /\ p <= built' /\ pools \in [Pools -> [Hosts -> Slot]] /\ CountedIn(pools)
        /\ \A q \in Pools : q > built' => q > built /\ q # p /\ pools[q] = [g \in Hosts |-> NoSlot]
    BY <1>1, FoundFor
  <1>5. slot \in Slot /\ Counted(slot, At("running", p, h), At("queued", p, h))
    BY <1>3, <1>4 DEF CountedIn
  <1>6. call'[c].at = step /\ call'[c].pool = p /\ call'[c].host = h /\ call'[c].held = NoPool
        /\ call'[c] \in Call /\ \A d \in Callers : d # c => call'[d] = call[d]
    <2>1. /\ call'[c] = [NoCall EXCEPT !.at = step, !.pool = p, !.host = h]
          /\ \A d \in Callers : d # c => call'[d] = call[d]
      BY <1>1, <1>2
    <2>2. step \in CallStep
      BY DEF CallStep
    <2> HIDE DEF step, p
    <2>3. /\ call'[c].at = step /\ call'[c].pool = p /\ call'[c].host = h
          /\ call'[c].held = NoPool /\ call'[c].tries = 0
          /\ call'[c] = [at |-> step, pool |-> p, held |-> NoPool, host |-> h, tries |-> 0]
      BY <2>1 DEF NoCall
    <2>4. p \in Pools /\ 0 \in 0 .. MaxTries
      BY <1>4, SettingsAssumption
    <2>5. call'[c] \in Call
      BY <1>3, <2>2, <2>3, <2>4 DEF Call
    <2>6. QED
      BY <2>1, <2>3, <2>5
  <1>7. \A q \in Pools, g \in Hosts : slots'[q][g] = IF q = p /\ g = h THEN new ELSE pools[q][g]
    BY <1>2, <1>3, <1>4
  <1>8. /\ new \in Slot
        /\ Counted(new, At("running", p, h) \cup {d \in {c} : Free(slot)},
                        At("queued", p, h) \cup {d \in {c} : ~ Free(slot)})
    <2>1. c \notin At("running", p, h) /\ c \notin At("queued", p, h)
      BY <1>1 DEF At
    <2>2. CASE Free(slot)
      <3>1. {d \in {c} : Free(slot)} = {c} /\ {d \in {c} : ~ Free(slot)} = {}
        BY <2>2
      <3>2. Counted(new, At("running", p, h) \cup {c}, At("queued", p, h)) /\ new \in Slot
        BY <1>5, <2>1, <2>2, EnterCounts, AtFinite
      <3>3. At("queued", p, h) \cup {} = At("queued", p, h)
        OBVIOUS
      <3>4. QED
        BY <3>1, <3>2, <3>3
    <2>3. CASE ~ Free(slot)
      <3>1. {d \in {c} : Free(slot)} = {} /\ {d \in {c} : ~ Free(slot)} = {c}
        BY <2>3
      <3>2. Counted(new, At("running", p, h), At("queued", p, h) \cup {c}) /\ new \in Slot
        BY <1>5, <2>1, <2>3, WaitCounts
      <3>3. At("running", p, h) \cup {} = At("running", p, h)
        OBVIOUS
      <3>4. QED
        BY <3>1, <3>2, <3>3
    <2>4. QED
      BY <2>2, <2>3
  <1> HIDE DEF new, slot, pools, p
  <1>9. slots' \in [Pools -> [Hosts -> Slot]]
    BY <1>2, <1>3, <1>4, <1>8 DEF new, slot, pools, p
  <1>10. SlotsCounted'
    <2> SUFFICES ASSUME NEW q \in Pools, NEW g \in Hosts
                 PROVE  Counted(slots'[q][g], At("running", q, g)', At("queued", q, g)')
      BY DEF SlotsCounted
    <2>1. CASE q = p /\ g = h
      <3>1. At("running", q, g)' = At("running", p, h) \cup {d \in {c} : Free(slot)}
        BY <1>1, <1>6, <2>1 DEF At
      <3>2. At("queued", q, g)' = At("queued", p, h) \cup {d \in {c} : ~ Free(slot)}
        BY <1>1, <1>6, <2>1 DEF At
      <3>3. slots'[q][g] = new
        BY <1>7, <2>1
      <3>4. QED
        BY <1>8, <3>1, <3>2, <3>3
    <2>2. CASE ~ (q = p /\ g = h)
      <3>1. At("running", q, g)' = At("running", q, g) /\ At("queued", q, g)' = At("queued", q, g)
        BY <1>1, <1>6, <2>2 DEF At
      <3>2. slots'[q][g] = pools[q][g]
        BY <1>7, <2>2
      <3>3. QED
        BY <1>4, <3>1, <3>2 DEF CountedIn
    <2>3. QED
      BY <2>1, <2>2
  <1>11. call' \in [Callers -> Call]
    BY <1>1, <1>2, <1>6
  <1>12. TypeOK'
    BY <1>1, <1>9, <1>11, FoundFor DEF PoolInv, TypeOK, Named
  <1>13. BuiltInv'
    <2>1. \A d \in Callers : call'[d].held <= built'
      <3>1. \A d \in Callers : call[d].held <= built'
        BY <1>1, FoundFor
      <3>2. NoPool <= built'
        BY <1>1, FoundFor DEF NoPool
      <3>3. QED
        BY <1>6, <3>1, <3>2
    <2>2. \A q \in Pools : q > built' => /\ slots'[q] = [g \in Hosts |-> NoSlot]
                                         /\ probe'[q] = [g \in Hosts |-> "idle"]
      <3>1. ASSUME NEW q \in Pools, q > built'
            PROVE  slots'[q] = pools[q]
        BY <1>2, <1>4, <3>1 DEF pools, p
      <3>2. QED
        BY <1>1, <1>4, <3>1 DEF PoolInv, BuiltInv
    <2>3. current' <= built' /\ (current' = NoPool => built' < MaxPools)
      BY <1>1, FoundFor
    <2>4. \A d \in Callers : call'[d].at \in {"queued", "running"} =>
                              call'[d].pool \in Pools /\ call'[d].host \in Hosts
      BY <1>3, <1>4, <1>6 DEF PoolInv, BuiltInv
    <2>5. QED
      BY <2>1, <2>2, <2>3, <2>4 DEF BuiltInv
  <1>14. QED
    BY <1>10, <1>12, <1>13 DEF PoolInv

---------------------------------------------------------------------------
(* Steps that leave a semaphore *)

LEMMA LeaveKeeps ==
  ASSUME PoolInv, NEW c \in Callers, NEW p \in Pools, NEW h \in Hosts, NEW healthy \in BOOLEAN,
         call[c].at = "running", call[c].pool = p, call[c].host = h,
         Leave(c, [slots[p][h] EXCEPT !.healthy = healthy]),
         UNCHANGED <<kind, poolVars, probing, probe, up, heard>>
  PROVE  PoolInv'
  <1> DEFINE slot == [slots[p][h] EXCEPT !.healthy = healthy]
             after == Release(slot)  first == Head(slot.queue)
             running == At("running", p, h)  queued == At("queued", p, h)
  <1>1. /\ call \in [Callers -> Call]
        /\ slots \in [Pools -> [Hosts -> Slot]] /\ slots[p][h] \in Slot
    BY DEF PoolInv, TypeOK
  <1>2. Counted(slots[p][h], running, queued)
    BY <1>1 DEF PoolInv, SlotsCounted
  <1>3. slot \in Slot /\ Counted(slot, running, queued)
    BY <1>1, <1>2, HealthKeepsCount
  <1>4. c \in running /\ IsFiniteSet(running) /\ running \cap queued = {}
    <2>1. IsFiniteSet(running)
      BY AtFinite
    <2>2. QED
      BY <2>1 DEF At
  <1>5. /\ slots' = [slots EXCEPT ![p][h] = after]
        /\ \A d \in Callers : call'[d] = IF d = c THEN NoCall
                                           ELSE IF after.queue # slot.queue /\ d = first
                                                THEN [call[d] EXCEPT !.at = "running"] ELSE call[d]
        /\ call' = [d \in Callers |-> call'[d]]
    BY DEF Leave
  <1>6. NoCall \in Call /\ NoCall.at = "idle" /\ NoCall.held = NoPool
    BY SettingsAssumption DEF NoCall, Call, CallStep
  <1> HIDE DEF slot
  <1>7. /\ after \in Slot
        /\ Counted(after, At("running", p, h)', At("queued", p, h)')
        /\ \A d \in Callers : d # c => \/ call'[d] = call[d]
                                       \/ /\ d \in queued
                                          /\ call'[d] = [call[d] EXCEPT !.at = "running"]
    <2>1. CASE slot.queue = <<>>
      <3>1. after.queue = slot.queue
        BY <1>3, <2>1 DEF Release, Slot
      <3>2. \A d \in Callers : call'[d] = IF d = c THEN NoCall ELSE call[d]
        BY <1>5, <3>1
      <3>3. At("running", p, h)' = running \ {c} /\ At("queued", p, h)' = queued
        BY <1>4, <1>6, <3>2 DEF At
      <3>4. Counted(after, running \ {c}, queued) /\ after \in Slot
        BY <1>3, <1>4, <2>1, LastLeaves
      <3>5. QED
        BY <3>2, <3>3, <3>4
    <2>2. CASE slot.queue # <<>>
      <3>1. /\ first \in queued
            /\ Counted(after, (running \ {c}) \cup {first}, queued \ {first})
            /\ after \in Slot
            /\ after.queue # slot.queue
        BY <1>3, <1>4, <2>2, PlaceHandedOver
      <3>2. \A d \in Callers : call'[d] = IF d = c THEN NoCall
                                           ELSE IF d = first THEN [call[d] EXCEPT !.at = "running"]
                                                ELSE call[d]
        BY <1>5, <3>1
      <3>3. first \in Callers /\ first # c
        BY <1>4, <3>1 DEF At
      <3>4. call'[first].at = "running" /\ call'[first].pool = p /\ call'[first].host = h
        <4>1. call[first] \in Call /\ call[first].pool = p /\ call[first].host = h
          BY <1>1, <3>1, <3>3 DEF At
        <4>2. call'[first] = [call[first] EXCEPT !.at = "running"]
          BY <3>2, <3>3
        <4>3. QED
          BY <4>1, <4>2 DEF Call
      <3>5. At("running", p, h)' = (running \ {c}) \cup {first}
        BY <1>6, <3>1, <3>2, <3>3, <3>4 DEF At
      <3>6. At("queued", p, h)' = queued \ {first}
        BY <1>6, <3>1, <3>2, <3>3, <3>4 DEF At
      <3>7. QED
        BY <3>1, <3>2, <3>5, <3>6
    <2>3. QED
      BY <2>1, <2>2
  <1> HIDE DEF after, queued
  <1>8. \A d \in Callers :
          /\ call'[d] \in Call
          /\ call'[d].held \in {call[d].held, NoPool}
          /\ call'[d].at \in {"queued", "running"} =>
               /\ call[d].at \in {"queued", "running"}
               /\ call'[d].pool = call[d].pool /\ call'[d].host = call[d].host
    <2> SUFFICES ASSUME NEW d \in Callers
                 PROVE  /\ call'[d] \in Call
                        /\ call'[d].held \in {call[d].held, NoPool}
                        /\ call'[d].at \in {"queued", "running"} =>
                             /\ call[d].at \in {"queued", "running"}
                             /\ call'[d].pool = call[d].pool /\ call'[d].host = call[d].host
      OBVIOUS
    <2>1. call[d] \in Call
      BY <1>1
    <2>2. CASE d = c
      BY <1>5, <1>6, <2>2
    <2>3. CASE d # c /\ call'[d] = call[d]
      BY <2>1, <2>3
    <2>4. CASE d \in queued /\ call'[d] = [call[d] EXCEPT !.at = "running"]
      <3>1. call[d].at = "queued"
        BY <2>4 DEF queued, At
      <3>2. QED
        BY <2>1, <2>4, <3>1 DEF Call, CallStep
    <2>5. QED
      BY <1>7, <2>2, <2>3, <2>4
  <1>9. \A q \in Pools, g \in Hosts :
          slots'[q][g] = IF q = p /\ g = h THEN after ELSE slots[q][g]
    BY <1>1, <1>5
  <1>10. SlotsCounted'
    <2> SUFFICES ASSUME NEW q \in Pools, NEW g \in Hosts
                 PROVE  Counted(slots'[q][g], At("running", q, g)', At("queued", q, g)')
      BY DEF SlotsCounted
    <2>1. CASE q = p /\ g = h
      BY <1>7, <1>9, <2>1
    <2>2. CASE ~ (q = p /\ g = h)
      <3>1. ASSUME NEW d \in Callers, call'[d] # call[d]
            PROVE  /\ ~ (call[d].pool = q /\ call[d].host = g)
                   /\ \/ call'[d].at = "idle"
                      \/ ~ (call'[d].pool = q /\ call'[d].host = g)
        <4>1. CASE d = c
          BY <1>5, <1>6, <2>2, <4>1
        <4>2. CASE d # c
          <5>1. d \in queued /\ call'[d] = [call[d] EXCEPT !.at = "running"] /\ call[d] \in Call
            BY <1>1, <1>7, <3>1, <4>2
          <5>2. call[d].pool = p /\ call[d].host = h
            BY <5>1 DEF queued, At
          <5>3. call'[d].pool = p /\ call'[d].host = h
            BY <5>1, <5>2 DEF Call
          <5>4. QED
            BY <2>2, <5>2, <5>3
        <4>3. QED
          BY <4>1, <4>2
      <3>2. At("running", q, g)' = At("running", q, g) /\ At("queued", q, g)' = At("queued", q, g)
        BY <3>1 DEF At
      <3>3. slots'[q][g] = slots[q][g]
        BY <1>9, <2>2
      <3>4. QED
        BY <3>2, <3>3 DEF PoolInv, SlotsCounted
    <2>3. QED
      BY <2>1, <2>2
  <1>11. TypeOK'
    <2>1. slots' \in [Pools -> [Hosts -> Slot]]
      BY <1>1, <1>5, <1>7
    <2>2. call' = [d \in Callers |-> call'[d]]
      BY <1>5
    <2>3. \A d \in Callers : call'[d] \in Call
      BY <1>8
    <2>4. call' \in [Callers -> Call]
      BY <2>2, <2>3
    <2>5. QED
      BY <2>1, <2>4 DEF PoolInv, TypeOK, poolVars, Named
  <1>12. BuiltInv'
    <2>1. \A d \in Callers : call'[d].held <= built
      <3>1. built \in Nat
        BY SettingsAssumption DEF PoolInv, TypeOK
      <3>2. \A d \in Callers : call'[d].held \in {call[d].held, NoPool}
        BY <1>8
      <3>3. QED
        BY <3>1, <3>2, HeldType DEF NoPool
    <2>2. \A q \in Pools : q > built => slots'[q] = slots[q]
      <3>1. slots[p][h] # NoSlot
        <4>1. slots[p][h].active = Cardinality(running) /\ Cardinality(running) # 0
          BY <1>2, <1>4, FS_EmptySet DEF Counted
        <4>2. QED
          BY <4>1 DEF NoSlot
      <3>2. ~ p > built
        BY <1>1, <3>1 DEF PoolInv, BuiltInv
      <3>3. QED
        BY <1>1, <1>5, <3>2
    <2>3. \A d \in Callers : call'[d].at \in {"queued", "running"} =>
                              call'[d].pool \in Pools /\ call'[d].host \in Hosts
      BY <1>8 DEF PoolInv, BuiltInv
    <2>4. built' = built /\ current' = current /\ probe' = probe
      BY DEF poolVars
    <2>5. QED
      BY <2>1, <2>2, <2>3, <2>4 DEF PoolInv, BuiltInv
  <1>13. QED
    BY <1>10, <1>11, <1>12 DEF PoolInv

LEMMA EndKeeps ==
  ASSUME PoolInv, NEW c \in Callers, CallReturns(c) \/ CallRefused(c)
  PROVE  PoolInv'
  <1>1. call[c].at = "running" /\ UNCHANGED <<kind, poolVars, probing, probe, up, heard>>
    BY DEF CallReturns, CallRefused
  <1>2. PICK p \in Pools, h \in Hosts : call[c].pool = p /\ call[c].host = h
    BY <1>1 DEF PoolInv, BuiltInv
  <1>3. slots[p][h] \in Slot
    BY DEF PoolInv, TypeOK
  <1>4. PICK healthy \in BOOLEAN : Leave(c, [slots[p][h] EXCEPT !.healthy = healthy])
    <2>1. CASE CallReturns(c)
      <3>1. /\ slots[p][h].healthy \in BOOLEAN
            /\ [slots[p][h] EXCEPT !.healthy = slots[p][h].healthy] = slots[p][h]
        BY <1>3 DEF Slot
      <3>2. QED
        BY <1>2, <2>1, <3>1 DEF CallReturns
    <2>2. CASE CallRefused(c)
      BY <1>2, <2>2 DEF CallRefused
    <2>3. QED
      BY <2>1, <2>2
  <1>5. QED
    BY <1>1, <1>2, <1>4, LeaveKeeps

---------------------------------------------------------------------------
(* The theorems *)

LEMMA StepKeeps == PoolInv /\ [Next]_vars => PoolInv'
  <1> SUFFICES ASSUME PoolInv, [Next]_vars PROVE PoolInv'
    OBVIOUS
  <1>1. CASE TimerTick
    BY <1>1, TickKeeps
  <1>2. ASSUME NEW p \in Pools, NEW h \in Hosts, HostAnswers(p, h) \/ ProbeReports(p, h)
        PROVE  PoolInv'
    BY <1>2, AnswerKeeps, ReportKeeps
  <1>3. ASSUME NEW c \in Callers, CallerNext(c)
        PROVE  PoolInv'
    BY <1>3, MoveKeeps, HoldingKeeps, AskKeeps, RejectKeeps, DispatchKeeps, EndKeeps DEF CallerNext
  <1>4. ASSUME NEW limits \in Settings[kind], UpdateRegistry(limits) \/ SyncChatPool(limits)
        PROVE  PoolInv'
    BY <1>4, UpdateKeeps, SyncKeeps
  <1>5. ASSUME NEW h \in Hosts, HostComes(h) \/ HostGoes(h)
        PROVE  PoolInv'
    BY <1>5, HostsKeep
  <1>6. CASE UNCHANGED vars
    <2>1. SlotsCounted'
      BY <1>6, CountsKept, PoolsAsTheyAre DEF vars, SameCounts
    <2>2. TypeOK' /\ BuiltInv'
      BY <1>6 DEF PoolInv, TypeOK, BuiltInv, vars, poolVars, Named
    <2>3. QED
      BY <2>1, <2>2 DEF PoolInv
  <1>7. QED
    BY <1>1, <1>2, <1>3, <1>4, <1>5, <1>6 DEF Next

LEMMA PoolInvariant == Spec => []PoolInv
  BY InitPools, StepKeeps, PTL DEF Spec

(* The semaphores of services/pool.ts count the calls that run under them:  *)
(* in every pool ever built no limit is exceeded, no caller is queued while *)
(* a place is free, none is queued twice and none is forgotten.             *)
THEOREM SemaphoresCount == Spec => []SlotsCounted
  <1>1. PoolInv => SlotsCounted
    BY DEF PoolInv
  <1>2. QED
    BY <1>1, PoolInvariant, PTL

(* The pools, slots, probes and calls keep the shapes that TypeOK gives     *)
(* them, and a call in a pool is at one of its hosts.                       *)
THEOREM PoolTypes == Spec => []TypeOK
  <1>1. PoolInv => TypeOK
    BY DEF PoolInv
  <1>2. QED
    BY <1>1, PoolInvariant, PTL

---------------------------------------------------------------------------
(* Rounds tell the truth *)

(* Who has nothing to report any more and is healthy, or is about to report  *)
(* that it is.                                                               *)
Vouched(p, h) == probe[p][h] = "ok" \/ (probe[p][h] = "idle" /\ slots[p][h].healthy)

(* Only listed hosts are probed or offered; probes are out only in a round,  *)
(* a round keeps track of who was up; and unless the pool was replaced, it   *)
(* vouches for nobody who was not.                                           *)
RoundInv ==
  /\ \A p \in Pools, h \in Hosts : slots[p][h].healthy \/ probe[p][h] # "idle" => slots[p][h].max > 0
  /\ \A p \in Pools, h \in Hosts : probe[p][h] # "idle" => p \in probing
  /\ \A p \in probing : p <= built /\ up \subseteq heard[p]
  /\ \A p \in probing \ disposed, h \in Hosts : Vouched(p, h) => h \in heard[p]

(* A slot that can only lose its health, or one of a pool built just now.    *)
QuietSlot(p, h) ==
  \/ slots'[p][h].max = slots[p][h].max /\ (slots'[p][h].healthy => slots[p][h].healthy)
  \/ p > built /\ (slots'[p][h].healthy => slots'[p][h].max > 0)
QuietSlots == \A p \in Pools, h \in Hosts : QuietSlot(p, h)

LEMMA RoundFrame ==
  ASSUME PoolInv, RoundInv, QuietSlots, UNCHANGED <<probing, probe>>,
         built' \in Nat, built <= built', disposed \subseteq disposed',
         \A p \in probing : heard[p] \cup up' \subseteq heard'[p]
  PROVE  RoundInv'
  <1>1. built \in Nat /\ probing \subseteq Pools /\ Pools \subseteq Nat
    BY SettingsAssumption DEF PoolInv, TypeOK, Pools
  <1>2. ASSUME NEW p \in Pools, p > built
        PROVE  p \notin probing /\ \A h \in Hosts : probe[p][h] = "idle"
    BY <1>1, <1>2 DEF RoundInv
  <1>3. \A p \in Pools, h \in Hosts :
          slots'[p][h].healthy \/ probe'[p][h] # "idle" => slots'[p][h].max > 0
    BY <1>2 DEF RoundInv, QuietSlots, QuietSlot
  <1>4. \A p \in probing' : p <= built' /\ up' \subseteq heard'[p]
    BY <1>1 DEF RoundInv
  <1>5. ASSUME NEW p \in probing' \ disposed', NEW h \in Hosts, Vouched(p, h)'
        PROVE  h \in heard'[p]
    <2>1. p \in Pools /\ p \in probing /\ p \notin disposed /\ heard[p] \subseteq heard'[p]
      BY <1>1
    <2>2. slots'[p][h].healthy => slots[p][h].healthy
      BY <1>2, <2>1 DEF QuietSlots, QuietSlot
    <2>3. Vouched(p, h)
      BY <1>5, <2>2 DEF Vouched
    <2>4. QED
      BY <2>1, <2>3 DEF RoundInv
  <1>6. QED
    BY <1>3, <1>4, <1>5 DEF RoundInv

(* At the start of a round every listed host is still to be asked.           *)
LEMMA RoundStarts ==
  ASSUME PoolInv, RoundInv, QuietSlots, NEW p \in Pools, StartRound(p, slots'[p]),
         UNCHANGED up, built' \in Nat, built <= built', p <= built', disposed \subseteq disposed'
  PROVE  RoundInv'
  <1>1. /\ built \in Nat /\ probing \subseteq Pools /\ Pools \subseteq Nat
        /\ probe \in [Pools -> [Hosts -> ProbeStep]] /\ heard \in [Pools -> SUBSET Hosts]
    BY SettingsAssumption DEF PoolInv, TypeOK, Pools
  <1>2. /\ probing' = probing \cup {p}
        /\ \A q \in Pools : q # p => probe'[q] = probe[q] /\ heard'[q] = heard[q]
        /\ heard'[p] = up /\ probe'[p] = FirstProbes(slots'[p])
    BY <1>1 DEF StartRound
  <1>3. \A h \in Hosts : probe'[p][h] = IF slots'[p][h].max > 0 THEN "sent" ELSE "idle"
    BY <1>2 DEF FirstProbes, Listed
  <1>4. ASSUME NEW q \in Pools, q > built
        PROVE  q \notin probing /\ \A h \in Hosts : probe[q][h] = "idle"
    BY <1>1, <1>4 DEF RoundInv
  <1>5. \A q \in Pools, h \in Hosts : slots'[q][h].healthy => slots'[q][h].max > 0
    BY DEF RoundInv, QuietSlots, QuietSlot
  <1>6. ASSUME NEW q \in Pools, NEW h \in Hosts, probe'[q][h] # "idle"
        PROVE  slots'[q][h].max > 0 /\ q \in probing'
    <2>1. CASE q = p
      BY <1>2, <1>3, <1>6, <2>1
    <2>2. CASE q # p
      <3>1. probe[q][h] # "idle"
        BY <1>2, <1>6, <2>2
      <3>2. ~(q > built) /\ slots[q][h].max > 0 /\ q \in probing
        BY <1>4, <3>1 DEF RoundInv
      <3>3. slots'[q][h].max = slots[q][h].max
        BY <3>2 DEF QuietSlots, QuietSlot
      <3>4. QED
        BY <1>2, <3>2, <3>3
    <2>3. QED
      BY <2>1, <2>2
  <1>7. ASSUME NEW q \in probing'
        PROVE  q <= built' /\ up' \subseteq heard'[q]
    BY <1>1, <1>2 DEF RoundInv
  <1>8. ASSUME NEW q \in probing' \ disposed', NEW h \in Hosts, Vouched(q, h)'
        PROVE  h \in heard'[q]
    <2>1. q # p
      BY <1>3, <1>5, <1>8 DEF Vouched
    <2>2. q \in probing /\ q \in Pools /\ q \notin disposed
      BY <1>1, <1>2, <2>1
    <2>3. slots'[q][h].healthy => slots[q][h].healthy
      BY <1>4, <2>2 DEF QuietSlots, QuietSlot
    <2>4. Vouched(q, h)
      BY <1>2, <1>8, <2>1, <2>2, <2>3 DEF Vouched
    <2>5. QED
      BY <1>2, <2>1, <2>2, <2>4 DEF RoundInv
  <1>9. QED
    BY <1>5, <1>6, <1>7, <1>8 DEF RoundInv

(* The slots a lookup finds are quiet: the pool in use, or one built for it. *)
LEMMA BuildQuiet ==
  ASSUME PoolInv, NEW limits \in [Hosts -> Nat], NEW p \in Pools, NEW h \in Hosts,
         NEW pools, pools = [slots EXCEPT ![built + 1] = NewSlots(limits)]
  PROVE  \/ pools[p][h] = slots[p][h]
         \/ p > built /\ (pools[p][h].healthy => pools[p][h].max > 0)
  <1>1. built \in Nat /\ slots \in [Pools -> [Hosts -> Slot]]
    BY SettingsAssumption DEF PoolInv, TypeOK
  <1>2. pools[p] = IF p = built + 1 THEN NewSlots(limits) ELSE slots[p]
    BY <1>1
  <1>3. NewSlots(limits)[h].healthy => NewSlots(limits)[h].max > 0
    BY DEF NewSlots
  <1>4. CASE p = built + 1
    BY <1>1, <1>2, <1>3, <1>4
  <1>5. CASE p # built + 1
    BY <1>2, <1>5
  <1>6. QED
    BY <1>4, <1>5

LEMMA LookupQuiet ==
  ASSUME PoolInv, NEW p \in Pools, NEW h \in Hosts
  PROVE  \/ SlotsNow[p][h] = slots[p][h]
         \/ p > built /\ (SlotsNow[p][h].healthy => SlotsNow[p][h].max > 0)
  <1>1. endpoints \in [Hosts -> Nat]
    BY LimitsType DEF PoolInv, TypeOK
  <1>2. QED
    BY <1>1, BuildQuiet DEF SlotsNow

LEMMA InitRounds == Init => RoundInv
  <1> SUFFICES ASSUME Init PROVE RoundInv
    OBVIOUS
  <1>1. endpoints \in [Hosts -> Nat] /\ current \in Nat /\ built = current
    BY SettingsAssumption DEF Init, NoPool
  <1>2. ASSUME NEW p \in Pools, NEW h \in Hosts
        PROVE  /\ slots[p][h].healthy => slots[p][h].max > 0
               /\ probe[p][h] = IF slots[p][h].max > 0 THEN "sent" ELSE "idle"
               /\ slots[p][h].max > 0 => p = current
    <2>1. slots[p][h] = IF p = current THEN [max |-> endpoints[h], active |-> 0, queue |-> <<>>,
                                             healthy |-> endpoints[h] > 0]
                                       ELSE NoSlot
      BY DEF Init, NewSlots
    <2>2. NoSlot.max = 0 /\ NoSlot.healthy = FALSE
      BY DEF NoSlot
    <2>3. probe[p][h] = IF slots[p][h].max > 0 THEN "sent" ELSE "idle"
      BY DEF Init, FirstProbes, Listed
    <2>4. CASE p = current
      <3>1. slots[p][h].max = endpoints[h] /\ slots[p][h].healthy = (endpoints[h] > 0)
        BY <2>1, <2>4
      <3>2. slots[p][h].healthy => slots[p][h].max > 0
        <4> DEFINE limit == endpoints[h]
        <4>1. slots[p][h].max = limit /\ slots[p][h].healthy = (limit > 0)
          BY <3>1
        <4> HIDE DEF limit
        <4>2. QED
          BY <4>1
      <3>3. QED
        BY <2>3, <2>4, <3>2
    <2>5. CASE p # current
      BY <2>1, <2>2, <2>3, <2>5
    <2>6. QED
      BY <2>4, <2>5
  <1>3. \A p \in Pools, h \in Hosts : probe[p][h] # "idle" => p \in probing
    BY <1>2 DEF Init, Listed
  <1>4. \A p \in probing : p <= built /\ up \subseteq heard[p] /\ p \in Pools
    BY <1>1 DEF Init
  <1>5. \A p \in probing, h \in Hosts : ~Vouched(p, h)
    BY <1>2, <1>4 DEF Vouched
  <1>6. QED
    BY <1>2, <1>3, <1>4, <1>5 DEF RoundInv

(* One probe has its answer: whoever answers is up, and was heard of.        *)
LEMMA AnswerRounds ==
  ASSUME PoolInv, RoundInv, NEW p \in Pools, NEW h \in Hosts, HostAnswers(p, h)
  PROVE  RoundInv'
  <1>1. probe \in [Pools -> [Hosts -> ProbeStep]]
    BY DEF PoolInv, TypeOK
  <1>2. /\ probe[p][h] = "sent" /\ UNCHANGED <<poolVars, slots, probing, up, heard>>
        /\ probe'[p][h] = IF h \in up THEN "ok" ELSE "bad"
        /\ \A q \in Pools, g \in Hosts : q # p \/ g # h => probe'[q][g] = probe[q][g]
    BY <1>1 DEF HostAnswers
  <1>3. p \in probing /\ slots[p][h].max > 0 /\ up \subseteq heard[p]
    BY <1>2 DEF RoundInv
  <1>4. \A q \in Pools, g \in Hosts :
          /\ slots[q][g].healthy \/ probe'[q][g] # "idle" => slots[q][g].max > 0
          /\ probe'[q][g] # "idle" => q \in probing
    BY <1>2, <1>3 DEF RoundInv
  <1>5. ASSUME NEW q \in probing \ disposed, NEW g \in Hosts, Vouched(q, g)'
        PROVE  g \in heard[q]
    <2>1. q \in Pools
      BY DEF PoolInv, TypeOK
    <2>2. CASE q = p /\ g = h
      BY <1>2, <1>3, <1>5, <2>2 DEF Vouched
    <2>3. CASE q # p \/ g # h
      <3>1. Vouched(q, g)
        BY <1>2, <1>5, <2>1, <2>3 DEF Vouched
      <3>2. QED
        BY <3>1 DEF RoundInv
    <2>4. QED
      BY <2>2, <2>3
  <1>6. QED
    BY <1>2, <1>4, <1>5 DEF RoundInv, poolVars

(* One probe of a round reports.  In a pool that is still in use the slot    *)
(* now says what the probe said.                                             *)
LEMMA ReportRounds ==
  ASSUME PoolInv, RoundInv, NEW p \in Pools, NEW h \in Hosts, ProbeReports(p, h)
  PROVE  RoundInv'
  <1>1. /\ probe \in [Pools -> [Hosts -> ProbeStep]] /\ slots \in [Pools -> [Hosts -> Slot]]
        /\ heard \in [Pools -> SUBSET Hosts] /\ probing \subseteq Pools
    BY DEF PoolInv, TypeOK
  <1>2. /\ probe[p][h] \in {"ok", "bad"} /\ probe'[p][h] = "idle"
        /\ \A q \in Pools, g \in Hosts : q # p \/ g # h => probe'[q][g] = probe[q][g]
    BY <1>1 DEF ProbeReports
  <1>3. /\ slots'[p][h] = [slots[p][h] EXCEPT !.healthy = Answered(p, h)]
        /\ \A q \in Pools, g \in Hosts : q # p \/ g # h => slots'[q][g] = slots[q][g]
    BY <1>1 DEF ProbeReports
  <1>4. slots'[p][h].max = slots[p][h].max /\ (slots'[p][h].healthy => Answered(p, h))
    <2>1. slots[p][h] \in Slot
      BY <1>1
    <2>2. QED
      BY <1>3, <2>1 DEF Slot
  <1>5. \/ /\ \A g \in Hosts \ {h} : probe[p][g] = "idle"
           /\ probing' = probing \ {p} /\ \A q \in Pools : q # p => heard'[q] = heard[q]
        \/ probing' = probing /\ heard' = heard
    BY <1>1 DEF ProbeReports
  <1>6. p \in probing /\ slots[p][h].max > 0 /\ UNCHANGED <<built, disposed, up>>
    BY <1>2 DEF RoundInv, ProbeReports, poolVars
  <1>7. \A q \in Pools, g \in Hosts :
          slots'[q][g].healthy \/ probe'[q][g] # "idle" => slots'[q][g].max > 0
    <2> TAKE q \in Pools, g \in Hosts
    <2>1. CASE q = p /\ g = h
      BY <1>4, <1>6, <2>1
    <2>2. CASE q # p \/ g # h
      BY <1>2, <1>3, <2>2 DEF RoundInv
    <2>3. QED
      BY <2>1, <2>2
  <1>8. \A q \in Pools, g \in Hosts : probe'[q][g] # "idle" => q \in probing'
    <2> SUFFICES ASSUME NEW q \in Pools, NEW g \in Hosts, probe'[q][g] # "idle"
                 PROVE  q \in probing'
      OBVIOUS
    <2>1. (q # p \/ g # h) /\ probe[q][g] # "idle"
      BY <1>2
    <2>2. q \in probing
      BY <2>1 DEF RoundInv
    <2>3. QED
      BY <1>5, <2>1, <2>2
  <1>9. \A q \in probing' : q \in probing /\ q \in Pools /\ heard'[q] = heard[q]
    BY <1>1, <1>5
  <1>10. ASSUME NEW q \in probing' \ disposed, NEW g \in Hosts, Vouched(q, g)'
         PROVE  g \in heard[q]
    <2>1. q \in Pools /\ q \in probing
      BY <1>9
    <2>2. CASE q = p /\ g = h
      <3>1. slots'[p][h].healthy
        BY <1>2, <1>10, <2>2 DEF Vouched
      <3>2. probe[p][h] = "ok"
        BY <1>4, <1>10, <2>2, <3>1 DEF Answered
      <3>3. QED
        BY <1>10, <2>1, <2>2, <3>2 DEF RoundInv, Vouched
    <2>3. CASE q # p \/ g # h
      <3>1. Vouched(q, g)
        BY <1>2, <1>3, <1>10, <2>1, <2>3 DEF Vouched
      <3>2. QED
        BY <1>10, <2>1, <3>1 DEF RoundInv
    <2>4. QED
      BY <2>2, <2>3
  <1>11. QED
    BY <1>6, <1>7, <1>8, <1>9, <1>10 DEF RoundInv

(* A call that leaves its semaphore can only take the health of a slot.      *)
LEMMA EndRounds ==
  ASSUME PoolInv, RoundInv, NEW c \in Callers, CallReturns(c) \/ CallRefused(c)
  PROVE  RoundInv'
  <1>1. call[c].at = "running" /\ UNCHANGED <<kind, poolVars, probing, probe, up, heard>>
    BY DEF CallReturns, CallRefused
  <1>2. PICK p \in Pools, h \in Hosts : call[c].pool = p /\ call[c].host = h
    BY <1>1 DEF PoolInv, BuiltInv
  <1>3. slots[p][h] \in Slot /\ slots \in [Pools -> [Hosts -> Slot]]
    BY DEF PoolInv, TypeOK
  <1>4. PICK slot : /\ slot \in {slots[p][h], [slots[p][h] EXCEPT !.healthy = FALSE]}
                    /\ slots' = [slots EXCEPT ![p][h] = Release(slot)]
    BY <1>2 DEF CallReturns, CallRefused, Leave
  <1>5. slot.max = slots[p][h].max /\ (slot.healthy => slots[p][h].healthy) /\ slot \in [max : Nat, active : Nat, queue : Seq(Callers), healthy : BOOLEAN]
    BY <1>3, <1>4 DEF Slot
  <1>6. Release(slot).max = slot.max /\ Release(slot).healthy = slot.healthy
    BY <1>5 DEF Release
  <1>7. QuietSlots
    <2> SUFFICES ASSUME NEW q \in Pools, NEW g \in Hosts
                 PROVE  QuietSlot(q, g)
      BY DEF QuietSlots
    <2>1. CASE q = p /\ g = h
      <3>1. slots'[q][g] = Release(slot)
        BY <1>3, <1>4, <2>1
      <3>2. QED
        BY <1>5, <1>6, <2>1, <3>1 DEF QuietSlot
    <2>2. CASE q # p \/ g # h
      <3>1. slots'[q][g] = slots[q][g]
        BY <1>3, <1>4, <2>2
      <3>2. QED
        BY <3>1 DEF QuietSlot
    <2>3. QED
      BY <2>1, <2>2
  <1>8. built \in Nat /\ probing \subseteq Pools
    BY SettingsAssumption DEF PoolInv, TypeOK
  <1>9. QED
    BY <1>1, <1>7, <1>8, RoundFrame DEF poolVars, RoundInv

(* A call that looks its pool up, and one that is placed in it.              *)
LEMMA LookupRounds ==
  ASSUME PoolInv, RoundInv, NEW c \in Callers, CallHolding(c) \/ Reject(c) \/ Dispatch(c)
  PROVE  RoundInv'
  <1>1. UNCHANGED <<kind, probing, probe, up, heard>> /\ (Lookup \/ UNCHANGED poolVars)
    BY DEF CallHolding, Reject, Dispatch, LookupFor
  <1>2. /\ built \in Nat /\ built' \in Nat /\ built <= built' /\ disposed' = disposed
        /\ slots \in [Pools -> [Hosts -> Slot]] /\ SlotsNow \in [Pools -> [Hosts -> Slot]]
    BY <1>1, SettingsAssumption, LookupFinds DEF Lookup, poolVars, PoolInv, TypeOK
  <1>3. PICK pools \in {slots, SlotsNow} :
          \/ slots' = pools
          \/ \E p \in Pools, h \in Hosts : \E slot \in {Enter(pools[p][h]), Wait(pools[p][h], c)} :
               slots' = [pools EXCEPT ![p][h] = slot]
    <2>1. CASE CallHolding(c)
      BY <2>1 DEF CallHolding
    <2>2. CASE Reject(c)
      BY <2>2 DEF Reject, SlotsFor
    <2>3. CASE Dispatch(c)
      <3>1. SlotsFor(c) \in {slots, SlotsNow}
        BY DEF SlotsFor
      <3>2. PoolOf(c) \in Pools
        <4>1. call[c].held \in Pools \cup {NoPool}
          BY DEF PoolInv, TypeOK, Call
        <4>2. QED
          BY <4>1, LookupFinds DEF PoolOf
      <3>3. PICK h \in Candidates(SlotsFor(c)[PoolOf(c)]) :
              slots' = [SlotsFor(c) EXCEPT ![PoolOf(c)][h] =
                          IF Free(SlotsFor(c)[PoolOf(c)][h]) THEN Enter(@) ELSE Wait(@, c)]
        BY <2>3 DEF Dispatch
      <3>4. h \in Hosts
        BY DEF Candidates, Healthy
      <3>5. PICK slot \in {Enter(SlotsFor(c)[PoolOf(c)][h]), Wait(SlotsFor(c)[PoolOf(c)][h], c)} :
              slots' = [SlotsFor(c) EXCEPT ![PoolOf(c)][h] = slot]
        BY <3>3
      <3>6. QED
        BY <3>1, <3>2, <3>4, <3>5
    <2>4. QED
      BY <2>1, <2>2, <2>3
  <1>4. \A p \in Pools, h \in Hosts :
          slots'[p][h].max = pools[p][h].max /\ (slots'[p][h].healthy <=> pools[p][h].healthy)
    <2>1. CASE slots' = pools
      BY <2>1
    <2>2. ASSUME NEW p \in Pools, NEW h \in Hosts, NEW slot \in {Enter(pools[p][h]), Wait(pools[p][h], c)},
                 slots' = [pools EXCEPT ![p][h] = slot]
          PROVE  \A q \in Pools, g \in Hosts :
                   slots'[q][g].max = pools[q][g].max /\ (slots'[q][g].healthy <=> pools[q][g].healthy)
      <3>1. pools \in [Pools -> [Hosts -> Slot]]
        BY <1>2, <1>3
      <3>2. pools[p][h] \in Slot
        BY <3>1
      <3>3. slot.max = pools[p][h].max /\ (slot.healthy <=> pools[p][h].healthy)
        BY <2>2, <3>2 DEF Enter, Wait, Slot
      <3> TAKE q \in Pools, g \in Hosts
      <3>4. CASE q = p /\ g = h
        <4>1. slots'[q][g] = slot
          BY <2>2, <3>1, <3>4
        <4>2. QED
          BY <3>3, <3>4, <4>1
      <3>5. CASE q # p \/ g # h
        <4>1. slots'[q][g] = pools[q][g]
          BY <2>2, <3>1, <3>5
        <4>2. QED
          BY <4>1
      <3>6. QED
        BY <3>4, <3>5
    <2>3. QED
      BY <1>3, <2>1, <2>2
  <1>5. QuietSlots
    <2> SUFFICES ASSUME NEW p \in Pools, NEW h \in Hosts
                 PROVE  QuietSlot(p, h)
      BY DEF QuietSlots
    <2>1. \/ pools[p][h] = slots[p][h]
          \/ p > built /\ (pools[p][h].healthy => pools[p][h].max > 0)
      BY <1>3, LookupQuiet
    <2>2. QED
      BY <1>4, <2>1 DEF QuietSlot
  <1>6. \A p \in probing : heard[p] \cup up' \subseteq heard'[p]
    BY <1>1 DEF RoundInv
  <1>7. QED
    BY <1>1, <1>2, <1>5, <1>6, RoundFrame

(* A wait that asks for the health of its pool.                              *)
LEMMA AskRounds ==
  ASSUME PoolInv, RoundInv, NEW c \in Callers, AskHealth(c)
  PROVE  RoundInv'
  <1>1. Lookup /\ slots' = SlotsNow /\ UNCHANGED <<kind, up>>
    BY DEF AskHealth
  <1>2. /\ PoolNow \in Pools /\ PoolNow <= built' /\ built \in Nat /\ built' \in Nat /\ built <= built'
        /\ disposed' = disposed
    BY <1>1, SettingsAssumption, LookupFinds DEF Lookup, PoolInv, TypeOK
  <1>3. QuietSlots
    BY <1>1, LookupQuiet DEF QuietSlots, QuietSlot
  <1>4. CASE UNCHANGED <<probing, probe, heard>>
    <2>1. \A p \in probing : heard[p] \cup up' \subseteq heard'[p]
      BY <1>1, <1>4 DEF RoundInv
    <2>2. QED
      BY <1>2, <1>3, <1>4, <2>1, RoundFrame
  <1>5. CASE StartRound(PoolNow, slots'[PoolNow])
    BY <1>1, <1>2, <1>3, <1>5, RoundStarts
  <1>6. QED
    BY <1>4, <1>5 DEF AskHealth

(* The settings change.                                                      *)
LEMMA SettingsRounds ==
  ASSUME PoolInv, RoundInv, NEW limits \in Settings[kind], UpdateRegistry(limits) \/ SyncChatPool(limits)
  PROVE  RoundInv'
  <1>1. built \in Nat /\ MaxPools \in Nat /\ built < MaxPools /\ disposed \subseteq disposed' /\ up' = up
    BY SettingsAssumption DEF UpdateRegistry, SyncChatPool, Replaced, PoolInv, TypeOK
  <1>2. CASE UNCHANGED <<built, slots, probing, probe, heard>>
    <2>1. QuietSlots /\ \A p \in probing : heard[p] \cup up' \subseteq heard'[p]
      BY <1>1, <1>2 DEF QuietSlots, QuietSlot, RoundInv
    <2>2. QED
      BY <1>1, <1>2, <2>1, RoundFrame
  <1>3. CASE SyncChatPool(limits)
    <2>1. built + 1 \in Pools /\ built' = built + 1 /\ built' \in Nat /\ built <= built'
      BY <1>1, <1>3 DEF SyncChatPool, Pools
    <2>2. QuietSlots
      <3>1. limits \in [Hosts -> Nat]
        BY LimitsType DEF PoolInv
      <3>2. slots' = [slots EXCEPT ![built + 1] = NewSlots(limits)]
        BY <1>3 DEF SyncChatPool
      <3>3. QED
        BY <3>1, <3>2, BuildQuiet DEF QuietSlots, QuietSlot
    <2>3. CASE StartRound(built + 1, slots'[built + 1])
      BY <1>1, <2>1, <2>2, <2>3, RoundStarts
    <2>4. CASE UNCHANGED <<probing, probe, heard>>
      <3>1. \A p \in probing : heard[p] \cup up' \subseteq heard'[p]
        BY <1>1, <2>4 DEF RoundInv
      <3>2. QED
        BY <1>1, <2>1, <2>2, <2>4, <3>1, RoundFrame
    <2>5. QED
      BY <1>3, <2>3, <2>4 DEF SyncChatPool
  <1>4. QED
    BY <1>2, <1>3 DEF UpdateRegistry

LEMMA StepRounds ==
  ASSUME PoolInv, RoundInv, [Next]_vars
  PROVE  RoundInv'
  <1>1. CASE TimerTick
    <2>1. current \in Pools /\ StartRound(current, slots'[current]) /\ UNCHANGED <<built, disposed, slots, up>>
      BY <1>1 DEF TimerTick, PoolInv, TypeOK, poolVars
    <2>2. QuietSlots /\ built \in Nat /\ current <= built
      BY <2>1, SettingsAssumption DEF QuietSlots, QuietSlot, PoolInv, TypeOK, BuiltInv
    <2>3. QED
      BY <2>1, <2>2, RoundStarts
  <1>2. ASSUME NEW p \in Pools, NEW h \in Hosts, HostAnswers(p, h) \/ ProbeReports(p, h)
        PROVE  RoundInv'
    BY <1>2, AnswerRounds, ReportRounds
  (* Steps that touch no slot and no probe. *)
  <1>3. ASSUME UNCHANGED <<poolVars, slots, probing, probe>>,
               \A p \in probing : heard[p] \cup up' \subseteq heard'[p]
        PROVE  RoundInv'
    <2>1. QuietSlots /\ built \in Nat /\ built' = built /\ disposed' = disposed
      BY <1>3, SettingsAssumption DEF QuietSlots, QuietSlot, PoolInv, TypeOK, poolVars
    <2>2. QED
      BY <1>3, <2>1, RoundFrame
  <1>4. ASSUME UNCHANGED <<poolVars, slots, probing, probe, up, heard>>
        PROVE  RoundInv'
    BY <1>3, <1>4 DEF RoundInv
  <1>5. ASSUME NEW c \in Callers, CallerNext(c)
        PROVE  RoundInv'
    <2>1. CASE CallOutside(c) \/ CallInJob(c) \/ Retry(c) \/ GiveUp(c)
      BY <1>4, <2>1 DEF CallOutside, CallInJob, Retry, GiveUp
    <2>2. QED
      BY <1>5, <2>1, LookupRounds, AskRounds, EndRounds DEF CallerNext
  <1>6. ASSUME NEW limits \in Settings[kind], UpdateRegistry(limits) \/ SyncChatPool(limits)
        PROVE  RoundInv'
    BY <1>6, SettingsRounds
  <1>7. ASSUME NEW h \in Hosts, HostComes(h) \/ HostGoes(h)
        PROVE  RoundInv'
    <2>1. \A p \in probing : heard[p] \cup up' \subseteq heard'[p]
      BY <1>7 DEF HostComes, HostGoes, RoundInv, PoolInv, TypeOK
    <2>2. QED
      BY <1>3, <1>7, <2>1 DEF HostComes, HostGoes
  <1>8. CASE UNCHANGED vars
    BY <1>4, <1>8 DEF vars
  <1>9. QED
    BY <1>1, <1>2, <1>5, <1>6, <1>7, <1>8 DEF Next

(* The last report of a round wakes a wait for good news only when somebody  *)
(* the round heard of is healthy.                                            *)
LEMMA ReportTruth ==
  ASSUME PoolInv, RoundInv, NEW p \in Pools, NEW h \in Hosts, ProbeReports(p, h),
         NEW c \in Callers, call[c].at = "probing", call'[c].at = "ready"
  PROVE  call[c].pool \in disposed \/ heard[call[c].pool] \cap Listed(slots[call[c].pool]) # {}
  <1>1. /\ probe \in [Pools -> [Hosts -> ProbeStep]] /\ slots \in [Pools -> [Hosts -> Slot]]
        /\ probing \subseteq Pools /\ call[c] \in Call
    BY DEF PoolInv, TypeOK
  <1>2. /\ \A g \in Hosts \ {h} : probe[p][g] = "idle"
        /\ call[c].pool = p
        /\ Verdict(slots'[p])
    <2>1. \A g \in Hosts \ {h} : probe[p][g] = "idle"
      BY DEF ProbeReports
    <2>2. call'[c] = IF call[c].at = "probing" /\ call[c].pool = p
                     THEN [call[c] EXCEPT !.at = IF Verdict(slots'[p]) THEN "ready" ELSE "asleep",
                                          !.pool = NoPool]
                     ELSE call[c]
      BY <2>1 DEF ProbeReports
    <2>3. call[c].pool = p
      BY <2>2
    <2>4. call'[c].at = IF Verdict(slots'[p]) THEN "ready" ELSE "asleep"
      BY <1>1, <2>2, <2>3 DEF Call
    <2>5. QED
      BY <2>1, <2>3, <2>4
  <1>3. PICK g \in Hosts : slots'[p][g].healthy
    BY <1>2 DEF Verdict, Healthy
  <1>4. p \in probing
    BY DEF ProbeReports, RoundInv
  <1> SUFFICES ASSUME p \notin disposed
               PROVE  g \in heard[p] /\ slots[p][g].max > 0
    BY <1>2 DEF Listed
  <1>5. CASE g = h
    <2>1. probe[p][h] = "ok"
      <3>1. slots'[p][h] = [slots[p][h] EXCEPT !.healthy = Answered(p, h)] /\ slots[p][h] \in Slot
        BY <1>1 DEF ProbeReports
      <3>2. Answered(p, h)
        BY <1>3, <1>5, <3>1 DEF Slot
      <3>3. QED
        BY <3>2 DEF Answered
    <2>2. QED
      BY <1>4, <1>5, <2>1 DEF RoundInv, Vouched
  <1>6. CASE g # h
    <2>1. slots'[p][g] = slots[p][g]
      BY <1>1, <1>6 DEF ProbeReports
    <2>2. slots[p][g].healthy /\ probe[p][g] = "idle"
      BY <1>2, <1>3, <1>6, <2>1
    <2>3. QED
      BY <1>4, <2>2 DEF RoundInv, Vouched
  <1>7. QED
    BY <1>5, <1>6

(* Nothing but the end of its round wakes a wait.                            *)
LEMMA OnlyReportsWake ==
  ASSUME PoolInv, [Next]_vars, NEW c \in Callers, call[c].at = "probing", call'[c].at = "ready"
  PROVE  \E p \in Pools, h \in Hosts : ProbeReports(p, h)
  <1>1. ASSUME NEW d \in Callers, CallerNext(d)
        PROVE  FALSE
    <2>1. d # c => call'[c] = call[c] \/ call'[c].at = "running"
      <3>1. call[c] \in Call /\ call \in [Callers -> Call]
        BY DEF PoolInv, TypeOK
      <3>2. CASE CallReturns(d) \/ CallRefused(d)
        <4>1. PICK slot : Leave(d, slot)
          BY <3>2 DEF CallReturns, CallRefused
        <4>2. d # c => \/ call'[c] = call[c]
                       \/ call'[c] = [call[c] EXCEPT !.at = "running"]
          BY <4>1 DEF Leave
        <4>3. QED
          BY <3>1, <4>2 DEF Call
      <3>3. CASE ~(CallReturns(d) \/ CallRefused(d))
        BY <1>1, <3>1, <3>3
           DEF CallerNext, CallOutside, CallInJob, CallHolding, AskHealth, Retry, GiveUp, Reject, Dispatch
      <3>4. QED
        BY <3>2, <3>3
    <2>2. d = c => FALSE
      BY <1>1
         DEF CallerNext, CallOutside, CallInJob, CallHolding, AskHealth, Retry, GiveUp, Reject, Dispatch,
             CallReturns, CallRefused
    <2>3. QED
      BY <2>1, <2>2
  <1>2. call' # call
    OBVIOUS
  <1>3. CASE TimerTick
    BY <1>2, <1>3 DEF TimerTick
  <1>4. ASSUME NEW p \in Pools, NEW h \in Hosts, HostAnswers(p, h)
        PROVE  FALSE
    BY <1>2, <1>4 DEF HostAnswers
  <1>5. ASSUME NEW limits \in Settings[kind], UpdateRegistry(limits) \/ SyncChatPool(limits)
        PROVE  FALSE
    BY <1>2, <1>5 DEF UpdateRegistry, SyncChatPool
  <1>6. ASSUME NEW h \in Hosts, HostComes(h) \/ HostGoes(h)
        PROVE  FALSE
    BY <1>2, <1>6 DEF HostComes, HostGoes
  <1>7. CASE UNCHANGED vars
    BY <1>2, <1>7 DEF vars
  <1>8. QED
    BY <1>1, <1>3, <1>4, <1>5, <1>6, <1>7 DEF Next

(* waitForServiceReady believes a round of probes (WaitTellsTruth): whatever *)
(* calls, timers, settings changes and hosts do during the round, good news  *)
(* rests on a host that was up while it ran, unless the pool was replaced.   *)
THEOREM WaitsTellTruth == Spec => WaitTellsTruth
  <1>1. PoolInv /\ RoundInv /\ [Next]_vars => [\A c \in Callers : ToldTruth(c)]_vars
    <2> SUFFICES ASSUME PoolInv, RoundInv, [Next]_vars, NEW c \in Callers,
                        call[c].at = "probing", call'[c].at = "ready"
                 PROVE  \/ call[c].pool \in disposed
                        \/ heard[call[c].pool] \cap Listed(slots[call[c].pool]) # {}
      BY DEF ToldTruth
    <2>1. QED
      BY OnlyReportsWake, ReportTruth
  <1>2. QED
    BY <1>1, PoolInvariant, InitRounds, StepRounds, PTL DEF Spec, WaitTellsTruth

===========================================================================
