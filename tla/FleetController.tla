-------------------------- MODULE FleetController --------------------------
(*************************************************************************)
(* The fleet controller's loop (observe, decide, act, tell the registry) *)
(* next to the containers it drives, the queues and operator overrides   *)
(* it reads, and the settings page that writes the same project setting. *)
(* Time is counted in ticks.                                             *)
(*************************************************************************)
EXTENDS FleetPlan

CONSTANTS
  Composite,     \* services of an engine and a gateway
  StartTimeout,  \* ticks a start may take, and a failed service cools down
  HandRows,      \* endpoint rows an operator may write by hand
  MaxFaults,     \* bound: failed commands, unreadable or dying containers, restarts
  MaxOverrides,  \* bound: operator overrides set, cleared or expired
  MaxSaves       \* bound: saves of the settings page

ASSUME TimeoutAssumption == StartTimeout \in Nat
ASSUME CompositeAssumption == Composite \subseteq Services

VARIABLES
  \* the world
  up,        \* services whose containers all run
  leftover,  \* services of which only the engine runs, with its VRAM
  ready,     \* services that answer their health probe
  wants,     \* kinds a queue or a waiting job asks for
  override,  \* operator override of each service in Redis
  rows,      \* project setting services.endpoints
  page,      \* rows an open settings page was loaded with, if any
  \* the controller
  at,        \* step of the tick
  watch,     \* services still to observe
  todo,      \* actions still to carry out
  seen,      \* demand and overrides as this tick read them
  status, healthy, manual,
  age,       \* ticks since a service went starting or failed
  idle,      \* 0 while wanted, else ticks without demand plus one
  draft,     \* hand-written rows read for the write to come
  written,   \* managed rows of the last write, if any
  \* bounds and history
  spent,
  doubted    \* services that failed, or whose container could not be read

worldVars == <<up, leftover, ready, wants, override, rows, page>>
viewVars  == <<status, healthy, manual, age, idle>>
loopVars  == <<at, watch, todo, seen, draft, written>>
vars == <<worldVars, viewVars, loopVars, spent, doubted>>

Override  == {"none", "start", "stop"}
Endpoints == [hand : SUBSET HandRows, managed : SUBSET Services]
Budget    == {"faults", "overrides", "saves"}
Action    == [type : {"start", "stop"}, service : Services]

TypeOK ==
  /\ up \subseteq Services /\ ready \subseteq up
  /\ leftover \subseteq Composite \ up
  /\ wants \subseteq KindSet
  /\ override \in [Services -> Override]
  /\ rows \in Endpoints /\ page \subseteq Endpoints
  /\ at \in {"idle", "observe", "execute", "write"}
  /\ watch \in Seq(Services) /\ todo \in Seq(Action)
  /\ seen \in [wants : SUBSET KindSet, override : [Services -> Override]]
  /\ status \in [Services -> Status]
  /\ healthy \subseteq Services
  /\ manual \in [Services -> Override]
  /\ age \in [Services -> 0 .. StartTimeout + 1]
  /\ idle \in [Services -> Nat] /\ \A s \in Services : idle[s] <= IdleUnload[s] + 1
  /\ draft \subseteq HandRows
  /\ written \subseteq SUBSET Services
  /\ spent \in [Budget -> Nat]
  /\ doubted \subseteq Services

(* What a tick read goes with the tick. *)
NothingSeen == [wants |-> {}, override |-> [s \in Services |-> "none"]]

Init ==
  /\ up = {} /\ leftover = {} /\ ready = {}
  /\ wants = {}
  /\ override = [s \in Services |-> "none"]
  /\ rows = [hand |-> {}, managed |-> {}]
  /\ page = {}
  /\ at = "idle"
  /\ watch = <<>> /\ todo = <<>>
  /\ seen = NothingSeen
  /\ status = [s \in Services |-> "stopped"]
  /\ healthy = {}
  /\ manual = [s \in Services |-> "none"]
  /\ age = [s \in Services |-> 0]
  /\ idle = [s \in Services |-> 0]
  /\ draft = {}
  /\ written = {}
  /\ spent = [b \in Budget |-> 0]
  /\ doubted = {}

Spend(b, bound) == spent[b] < bound /\ spent' = [spent EXCEPT ![b] = @ + 1]
Fault == Spend("faults", MaxFaults)

---------------------------------------------------------------------------
(* The tick *)

(* readDemand and readOverrides, read together; the clock moves on. *)
TickStart ==
  /\ at = "idle"
  /\ at' = "observe"
  /\ watch' = ServiceOrder
  /\ seen' = [wants |-> wants, override |-> override]
  /\ age' = [s \in Services |-> IF age[s] > StartTimeout THEN age[s] ELSE age[s] + 1]
  /\ UNCHANGED <<worldVars, status, healthy, manual, idle, todo, draft, written, spent, doubted>>

Late(s) == age[s] > StartTimeout

(* All containers of the service run; one that does not makes it read as    *)
(* stopped, whatever the others hold.                                       *)
StatusWhenUp(s, ok) ==
  CASE status[s] = "starting" -> IF ok THEN "running" ELSE IF Late(s) THEN "failed" ELSE "starting"
    [] status[s] = "failed"   -> IF ok THEN "running" ELSE IF Late(s) THEN "stopped" ELSE "failed"
    [] status[s] = "stopping" -> "stopping"
    [] OTHER                  -> "running"


(* Mutant of StatusWhenDown: Docker's own word is taken over. *)
StatusWhenDownRaw(s) == IF status[s] \in {"starting", "failed"} THEN status[s] ELSE "exited"

StatusWhenDown(s) ==
  CASE status[s] = "starting" -> IF Late(s) THEN "failed" ELSE "starting"
    [] status[s] = "failed"   -> IF Late(s) THEN "stopped" ELSE "failed"
    [] OTHER                  -> "stopped"

(* One service: its container, then (if it runs) its probe, then the        *)
(* bookkeeping of demand.                                                   *)
Observe(s) ==
  LET wanted  == seen.override[s] = "start" \/ Wanted(s, seen.wants)
      See(new) ==
        /\ status' = [status EXCEPT ![s] = new]
        /\ age' = [age EXCEPT ![s] = IF new = "failed" /\ status[s] # "failed" THEN 0 ELSE @]
        /\ doubted' = IF new = "failed" THEN doubted \cup {s} ELSE doubted
  IN  /\ at = "observe"
      /\ watch # <<>> /\ s = Head(watch)
      /\ watch' = Tail(watch)
      /\ manual' = [manual EXCEPT ![s] = seen.override[s]]
      /\ idle' = [idle EXCEPT ![s] = IF wanted THEN 0 ELSE IF @ > IdleUnload[s] THEN @ ELSE @ + 1]
      /\ \/ /\ s \in up
            /\ healthy' = IF s \in ready THEN healthy \cup {s} ELSE healthy \ {s}
            /\ See(StatusWhenUp(s, s \in ready))
            /\ UNCHANGED spent
         \/ /\ s \notin up
            /\ healthy' = healthy \ {s}
            /\ See(StatusWhenDown(s))
            /\ UNCHANGED spent
         \/ /\ Fault                    \* the container state cannot be read
            /\ doubted' = doubted \cup {s}
            /\ UNCHANGED <<status, healthy, age>>
      /\ UNCHANGED <<worldVars, at, todo, seen, draft, written>>

Decide ==
  /\ at = "observe"
  /\ watch = <<>>
  /\ at' = "execute"
  /\ todo' = PlanFleet([status |-> status, healthy |-> healthy, manual |-> manual, idle |-> idle],
                       seen.wants)
  /\ UNCHANGED <<worldVars, viewVars, watch, seen, draft, written, spent, doubted>>

(* What a command, or a fault, makes of a service's containers: all run,    *)
(* none does, or the engine is left and the gateway is not up.              *)
Whole(s)  == up' = up \cup {s} /\ leftover' = leftover \ {s}
Gone(s)   == up' = up \ {s} /\ leftover' = leftover \ {s}
Halved(s) == s \in Composite /\ up' = up \ {s} /\ leftover' = leftover \cup {s}
Untouched == UNCHANGED <<up, leftover>>

(* Carrying out the next action; a command that throws may have had its     *)
(* effect all the same, or half of it.                                      *)
Next1(type, s) == at = "execute" /\ todo # <<>> /\ Head(todo) = Act(type, s) /\ todo' = Tail(todo)
executeKeeps == <<wants, override, rows, page, manual, idle, at, watch, seen, draft, written>>

StartService(s) ==
  /\ Next1("start", s)
  /\ Whole(s)
  /\ status' = [status EXCEPT ![s] = "starting"]
  /\ age' = [age EXCEPT ![s] = 0]
  /\ healthy' = healthy \ {s}
  /\ UNCHANGED <<ready, spent, doubted, executeKeeps>>

StartThrows(s) ==
  /\ Next1("start", s)
  /\ Fault
  /\ Untouched \/ Whole(s) \/ (s \notin up /\ Halved(s))
  /\ status' = [status EXCEPT ![s] = "failed"]
  /\ age' = [age EXCEPT ![s] = 0]
  /\ doubted' = doubted \cup {s}
  /\ UNCHANGED <<ready, healthy, executeKeeps>>

StopService(s) ==
  /\ Next1("stop", s)
  /\ Gone(s) /\ ready' = ready \ {s}
  /\ status' = [status EXCEPT ![s] = "stopping"]
  /\ healthy' = healthy \ {s}
  /\ UNCHANGED <<age, spent, doubted, executeKeeps>>

StopThrows(s) ==
  /\ Next1("stop", s)
  /\ Fault
  /\ Untouched \/ Gone(s) \/ (s \in up /\ Halved(s))
  /\ ready' = ready \cap up'
  /\ UNCHANGED <<status, age, healthy, doubted, executeKeeps>>

(* Managed rows are what is up and healthy; they are written only when they *)
(* differ from what was written last.                                       *)
Managed == {s \in healthy : status[s] = "running"}
acted   == at = "execute" /\ todo = <<>>

SyncSkip ==
  /\ acted
  /\ Managed \in written
  /\ at' = "idle" /\ seen' = NothingSeen
  /\ UNCHANGED <<worldVars, viewVars, watch, todo, draft, written, spent, doubted>>

SyncRead ==
  /\ acted
  /\ Managed \notin written
  /\ draft' = rows.hand
  /\ at' = "write"
  /\ UNCHANGED <<worldVars, viewVars, watch, todo, seen, written, spent, doubted>>

SyncWrite ==
  /\ at = "write"
  /\ rows' = [hand |-> draft, managed |-> Managed]
  /\ written' = {Managed}
  /\ draft' = {}
  /\ at' = "idle" /\ seen' = NothingSeen
  /\ UNCHANGED <<up, leftover, ready, wants, override, page, viewVars, watch, todo, spent, doubted>>

(* The database is away: the tick throws, the next one starts afresh. *)
SyncFails ==
  /\ acted \/ at = "write"
  /\ Fault
  /\ draft' = {}
  /\ at' = "idle" /\ seen' = NothingSeen
  /\ UNCHANGED <<worldVars, viewVars, watch, todo, written, doubted>>

(* The controller process is restarted and knows nothing. *)
Restart ==
  /\ Fault
  /\ at' = "idle" /\ watch' = <<>> /\ todo' = <<>>
  /\ seen' = NothingSeen
  /\ status' = [s \in Services |-> "stopped"]
  /\ healthy' = {}
  /\ manual' = [s \in Services |-> "none"]
  /\ age' = [s \in Services |-> 0]
  /\ idle' = [s \in Services |-> 0]
  /\ draft' = {} /\ written' = {}
  /\ UNCHANGED <<worldVars, doubted>>

---------------------------------------------------------------------------
(* The world *)

worldKeeps == <<viewVars, loopVars, doubted>>

(* Only the start of a tick reads demand and overrides, so that they change *)
(* between ticks only loses nothing.                                        *)
DemandChanges ==
  /\ at = "idle"
  /\ wants' \in SUBSET KindSet
  /\ wants' # wants
  /\ UNCHANGED <<up, leftover, ready, override, rows, page, spent, worldKeeps>>

OverrideChanges(s) ==
  /\ at = "idle"
  /\ Spend("overrides", MaxOverrides)
  /\ \E o \in Override : override' = [override EXCEPT ![s] = o]
  /\ UNCHANGED <<up, leftover, ready, wants, rows, page, worldKeeps>>

(* The models are loaded: the service answers its probe. *)
Serve(s) ==
  /\ s \in up \ ready
  /\ ready' = ready \cup {s}
  /\ UNCHANGED <<up, leftover, wants, override, rows, page, spent, worldKeeps>>

(* A container hangs or dies: the gateway alone, or all there is. *)
Break(s) ==
  /\ s \in up \cup leftover
  /\ Fault
  /\ ready' = ready \ {s}
  /\ \/ s \in up /\ (Untouched \/ Halved(s))
     \/ Gone(s)
  /\ UNCHANGED <<wants, override, rows, page, worldKeeps>>

(* The settings page shows managed rows read-only, and sends them back.     *)
PageOpen ==
  /\ page = {} /\ spent["saves"] < MaxSaves
  /\ page' = {rows}
  /\ UNCHANGED <<up, leftover, ready, wants, override, rows, spent, worldKeeps>>

PageSave ==
  /\ \E loaded \in page, edited \in SUBSET HandRows :
       rows' = [loaded EXCEPT !.hand = edited]
  /\ Spend("saves", MaxSaves)
  /\ page' = {}
  /\ UNCHANGED <<up, leftover, ready, wants, override, worldKeeps>>

TickNext ==
  \/ TickStart
  \/ \E s \in Services : Observe(s)
  \/ Decide
  \/ \E s \in Services : StartService(s) \/ StartThrows(s) \/ StopService(s) \/ StopThrows(s)
  \/ SyncSkip
  \/ SyncRead
  \/ SyncWrite
  \/ SyncFails

Next ==
  \/ TickNext
  \/ Restart
  \/ DemandChanges
  \/ \E s \in Services : OverrideChanges(s) \/ Serve(s) \/ Break(s)
  \/ PageOpen
  \/ PageSave

Spec == Init /\ [][Next]_vars

(* The loop never stops, and a container that runs comes to answer.         *)
Fairness == WF_vars(TickNext) /\ \A s \in Services : WF_vars(Serve(s))
FairSpec == Spec /\ Fairness

---------------------------------------------------------------------------
(* Properties *)

Load(gpu)    == VramOf((up \cup leftover) \cap OnGpu(gpu))
Residue(gpu) == VramOf(leftover \cap OnGpu(gpu))

(* While nothing failed to start and every container could be read, what    *)
(* runs on a GPU fits on it: across evictions, operator overrides, dying    *)
(* containers and restarts of the controller.  It is over-committed by no   *)
(* more than what engines hold whose gateway is not up: their service reads *)
(* as stopped, so the scheduler counts nothing for it.                      *)
GpuFits ==
  \A gpu \in DOMAIN Capacity :
    Load(gpu) <= Capacity[gpu] + Residue(gpu) \/ doubted \cap OnGpu(gpu) # {}

(* Nobody's service is stopped under them: unless the operator said so, a   *)
(* stop hits a service that this tick's demand does not want, that is not   *)
(* kept and has idled, and that stands in the way of one that is wanted.    *)
StopsJustified ==
  [][\A s \in Services :
       at = "execute" /\ todo # <<>> /\ Head(todo) = Act("stop", s) =>
         \/ manual[s] = "stop"
         \/ /\ manual[s] # "start" /\ s \notin Keep
            /\ ~Wanted(s, seen.wants) /\ idle[s] > IdleUnload[s]
            /\ \E t \in OnGpu(GpuOf[s]) \ {s} :
                 status[t] = "stopped" /\ (Wanted(t, seen.wants) \/ t \in Keep \/ manual[t] = "start")
    ]_vars


============================================================================
