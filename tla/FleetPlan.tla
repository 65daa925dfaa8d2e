----------------------------- MODULE FleetPlan -----------------------------
(*************************************************************************)
(* The fleet scheduler's decision (planFleet): which GPU services to     *)
(* start and which to stop, from the controller's view of each service   *)
(* and the kinds that jobs want.  Pure; FleetController calls it.        *)
(*************************************************************************)
EXTENDS Integers, Sequences, FiniteSets, Functions

CONSTANTS
  ServiceOrder,  \* the services, in the order of the inventory
  KindOrder,     \* the service kinds, in the order demand lists them
  KindsOf,       \* kinds a service provides, in its own order
  GpuOf,         \* the GPU a service is pinned to, or NoGpu
  NoGpu,
  Vram,          \* what a service holds once it is up
  Capacity,      \* what a GPU has
  Priority,
  Keep,          \* services held up whether or not a job needs them
  IdleUnload     \* ticks without demand before a service may be stopped

Services == Range(ServiceOrder)
KindSet  == Range(KindOrder)

ASSUME InventoryAssumption ==
  /\ ServiceOrder \in Seq(Services) /\ KindOrder \in Seq(KindSet)
  /\ \A s \in Services : KindsOf[s] \in Seq(KindSet) /\ KindsOf[s] # <<>>
  /\ Keep \subseteq Services

(* Cards are hosts' own: NoGpu names none of them. *)
ASSUME NumbersAssumption ==
  /\ NoGpu \notin DOMAIN Capacity
  /\ \A gpu \in DOMAIN Capacity : Capacity[gpu] \in Nat
  /\ \A s \in Services :
       /\ GpuOf[s] \in DOMAIN Capacity \cup {NoGpu}
       /\ Vram[s] \in Nat /\ Priority[s] \in Int /\ IdleUnload[s] \in Nat

(* A missing container is treated like a stopped one. *)
Status == {"running", "starting", "stopping", "stopped", "failed"}

---------------------------------------------------------------------------

Provides(s, kind)    == kind \in Range(KindsOf[s])
Wanted(s, wants)     == \E kind \in wants : Provides(s, kind)
OnGpu(gpu)           == {s \in Services : GpuOf[s] = gpu}
(* What some services hold together, megabyte by megabyte. *)
VramOf(some)         == Cardinality(UNION {{s} \X (1 .. Vram[s]) : s \in some})

(* The members of a set as a sequence, each one after those before it. *)
InOrder(some, before) ==
  [i \in 1 .. Cardinality(some) |->
     CHOOSE s \in some : Cardinality({t \in some : <<t, s>> \in before}) = i - 1]

Place(x, list)    == CHOOSE i \in DOMAIN list : list[i] = x
Earlier(list)     == {p \in Range(list) \X Range(list) : Place(p[1], list) < Place(p[2], list)}
(* Higher priority first, or lower, then inventory order. *)
Prefer == {p \in Services \X Services :
             \/ Priority[p[1]] > Priority[p[2]]
             \/ Priority[p[1]] = Priority[p[2]] /\ p \in Earlier(ServiceOrder)}
Sooner == {p \in Services \X Services :
             \/ Priority[p[1]] < Priority[p[2]]
             \/ Priority[p[1]] = Priority[p[2]] /\ p \in Earlier(ServiceOrder)}

(* Mutant of Holding: a service on its way up takes nothing yet. *)
HoldingReady == {"running", "stopping"}
(* The statuses whose VRAM the scheduler counts as taken. *)
Holding == {"running", "starting", "stopping"}
CommittedMb(status, gpu) == VramOf({s \in OnGpu(gpu) : status[s] \in Holding})

(* A CPU service contends with nothing. *)
Fits(status, s) ==
  GpuOf[s] = NoGpu \/ Vram[s] + CommittedMb(status, GpuOf[s]) <= Capacity[GpuOf[s]]

---------------------------------------------------------------------------
(* What is needed *)

(* An operator's stop comes first and wins over everything. *)
OperatorStops(view) ==
  {s \in Services : view.manual[s] = "stop" /\ view.status[s] \in {"running", "starting"}}

Covered(view, kind) ==
  \E s \in Services \ OperatorStops(view) :
    /\ Provides(s, kind)
    /\ \/ view.status[s] = "starting"
       \/ view.status[s] = "running" /\ s \in view.healthy

(* First the wanted kinds nobody covers, then the services that somebody    *)
(* insists on.                                                              *)
Uncovered(view, wants) ==
  {kind \in wants \cap KindSet : (\E s \in Services : Provides(s, kind)) /\ ~Covered(view, kind)}
Pinned(view) ==
  {s \in Services : /\ view.status[s] = "stopped"
                    /\ \/ view.manual[s] = "start"
                       \/ s \in Keep /\ view.manual[s] # "stop"}
Needs(view, wants) ==
  LET kinds  == InOrder(Uncovered(view, wants), Earlier(KindOrder))
      pinned == InOrder(Pinned(view), Earlier(ServiceOrder))
  IN  [i \in 1 .. Cardinality(Uncovered(view, wants)) |-> {s \in Services : Provides(s, kinds[i])}]
        \o [i \in 1 .. Cardinality(Pinned(view)) |-> {pinned[i]}]

---------------------------------------------------------------------------
(* How a need is met *)

(* A failed service is no candidate until its cooldown has passed, one that *)
(* an operator asked for comes before the others.                           *)
Startable(view, plan, providers) ==
  {s \in providers : plan.status[s] = "stopped" /\ view.manual[s] # "stop"}
Candidate(view, startable) ==
  LET asked == {s \in startable : view.manual[s] = "start"}
      pool  == IF asked = {} THEN startable ELSE asked
  IN  InOrder(pool, Prefer)[1]

IsWanted(view, wants, s) == view.manual[s] = "start" \/ s \in Keep \/ Wanted(s, wants)

(* Mutant of Evictable: nobody waits for a service to idle. *)
EvictableAtOnce(view, wants, plan, starting) ==
  {s \in OnGpu(GpuOf[starting]) \ {starting} :
    /\ plan.status[s] = "running"
    /\ s \notin plan.leaving
    /\ ~IsWanted(view, wants, s)}

(* Residents of the same GPU that nobody wants and that idled long enough. *)
Evictable(view, wants, plan, starting) ==
  {s \in OnGpu(GpuOf[starting]) \ {starting} :
    /\ plan.status[s] = "running"
    /\ s \notin plan.leaving
    /\ ~IsWanted(view, wants, s)
    /\ view.idle[s] > IdleUnload[s]}

(* No more of them than it takes, be it enough or not. *)
Victims(view, wants, plan, starting) ==
  LET gpu  == GpuOf[starting]
      some == Evictable(view, wants, plan, starting)
      Freed(s) == VramOf({t \in some : <<t, s>> \in Sooner})
  IN  {s \in some : Vram[starting] + CommittedMb(plan.status, gpu) > Capacity[gpu] + Freed(s)}

Act(type, s) == [type |-> type, service |-> s]
Stops(list)  == [i \in DOMAIN list |-> Act("stop", list[i])]

WithStart(plan, s) ==
  [plan EXCEPT !.status[s] = "starting", !.actions = Append(@, Act("start", s))]
WithStops(plan, victims) ==
  [plan EXCEPT !.leaving = @ \cup victims, !.actions = @ \o Stops(InOrder(victims, Sooner))]

Meet(view, wants, plan, providers) ==
  LET startable == Startable(view, plan, providers)
      s         == Candidate(view, startable)
  IN  IF startable = {} THEN plan
      ELSE IF Fits(plan.status, s) THEN WithStart(plan, s)
      ELSE WithStops(plan, Victims(view, wants, plan, s))

FirstPlan(view) ==
  [status  |-> view.status,
   leaving |-> OperatorStops(view),
   actions |-> Stops(InOrder(OperatorStops(view), Earlier(ServiceOrder)))]
(* The plan after so many needs. *)
Plans(view, wants) ==
  LET needs == Needs(view, wants)
      plan[i \in 0 .. Len(needs)] ==
        IF i = 0 THEN FirstPlan(view) ELSE Meet(view, wants, plan[i - 1], needs[i])
  IN  plan
(* Starts and stops, in the order they are carried out. *)
PlanFleet(view, wants) == Plans(view, wants)[Len(Needs(view, wants))].actions

===========================================================================
