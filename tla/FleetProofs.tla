---------------------------- MODULE FleetProofs ----------------------------
(*************************************************************************)
(* Proofs about FleetPlan and FleetController for every inventory, every *)
(* set of hand-written rows and every bound: first the planner as a      *)
(* function, then the loop around it.                                    *)
(*************************************************************************)
EXTENDS FleetController, TLAPS, FiniteSetTheorems, SequenceTheorems

---------------------------------------------------------------------------
(* Induction up to a number, stated with a set in the place of a predicate *)

(* The least of some natural numbers, and what is true all the way up. *)
LEMMA Least ==
  ASSUME NEW T \in SUBSET Nat, T # {}
  PROVE  \E n \in T : \A m \in T : n <= m
  <1>1. IsWellFoundedOn(OpToRel(<, Nat), Nat)
    BY NatLessThanWellFounded
  <1>2. PICK n \in T : \A m \in T : ~(<<m, n>> \in OpToRel(<, Nat))
    BY <1>1, WFMin
  <1>3. \A m \in T : ~ (m < n)
    BY <1>2 DEF OpToRel
  <1>4. QED
    BY <1>3

LEMMA Climb ==
  ASSUME NEW n \in Nat, NEW T, 0 \in T, \A i \in 0 .. n - 1 : i \in T => i + 1 \in T
  PROVE  0 .. n \subseteq T
  <1> SUFFICES ASSUME (0 .. n) \ T # {}
               PROVE  FALSE
    OBVIOUS
  <1> DEFINE U == (0 .. n) \ T
  <1>0. U \in SUBSET Nat /\ U # {}
    OBVIOUS
  <1>1. PICK m \in U : \A k \in U : m <= k
    <2> HIDE DEF U
    <2>1. QED
      BY <1>0, Least
  <1>2. m - 1 \in 0 .. n /\ m - 1 \in T
    BY <1>1
  <1>3. QED
    BY <1>1, <1>2

---------------------------------------------------------------------------
(* A set in order *)

(* A strict order on all members of a set. *)
Orders(before, some) ==
  /\ \A s \in some : <<s, s>> \notin before
  /\ \A s, t \in some : s # t => (<<s, t>> \in before \/ <<t, s>> \in before)
  /\ \A s, t, u \in some : <<s, t>> \in before /\ <<t, u>> \in before => <<s, u>> \in before

(* Each place has its member: as many are before one as there are before    *)
(* its place, and no two have equally many before them.                    *)
LEMMA InOrderMembers ==
  ASSUME NEW some, IsFiniteSet(some), NEW before, Orders(before, some)
  PROVE  /\ InOrder(some, before) \in [1 .. Cardinality(some) -> some]
         /\ Cardinality(some) \in Nat
         /\ \A s \in some : \E i \in 1 .. Cardinality(some) : InOrder(some, before)[i] = s
  <1> DEFINE n == Cardinality(some)
             Below(s) == {t \in some : <<t, s>> \in before}
             f == [s \in some |-> Cardinality(Below(s))]
  <1>1. n \in Nat
    BY FS_CardinalityType
  <1>2. ASSUME NEW s \in some
        PROVE  IsFiniteSet(Below(s)) /\ f[s] \in 0 .. n - 1
    <2>1. Below(s) \in SUBSET (some \ {s})
      BY DEF Orders
    <2>2. IsFiniteSet(some \ {s}) /\ Cardinality(some \ {s}) = n - 1
      BY FS_RemoveElement
    <2>3. IsFiniteSet(Below(s)) /\ Cardinality(Below(s)) <= n - 1
      <3> HIDE DEF Below, n
      <3>1. QED
        BY <2>1, <2>2, FS_Subset
    <2>4. Cardinality(Below(s)) \in Nat
      BY <2>3, FS_CardinalityType
    <2>5. QED
      BY <1>1, <2>3, <2>4
  <1>3. ASSUME NEW s \in some, NEW t \in some, <<s, t>> \in before
        PROVE  f[s] < f[t]
    <2>1. IsFiniteSet(Below(s)) /\ IsFiniteSet(Below(t)) /\ f[s] \in Nat /\ f[t] \in Nat
      BY <1>1, <1>2
    <2>2. Below(s) \in SUBSET Below(t) /\ s \in Below(t) /\ s \notin Below(s)
      BY <1>3 DEF Orders
    <2>3. Cardinality(Below(s)) <= Cardinality(Below(t))
          /\ (Cardinality(Below(s)) = Cardinality(Below(t)) => Below(s) = Below(t))
      BY <2>1, <2>2, FS_Subset
    <2>4. QED
      BY <2>1, <2>2, <2>3
  <1>4. f \in Injection(some, 0 .. n - 1)
    <2>1. f \in [some -> 0 .. n - 1]
      BY <1>2
    <2>2. \A s, t \in some : f[s] = f[t] => s = t
      <3> SUFFICES ASSUME NEW s \in some, NEW t \in some, s # t
                   PROVE  f[s] # f[t]
        OBVIOUS
      <3>1. f[s] \in Int /\ f[t] \in Int
        BY <1>1, <1>2
      <3>2. f[s] < f[t] \/ f[t] < f[s]
        BY <1>3 DEF Orders
      <3> HIDE DEF f
      <3>3. QED
        BY <3>1, <3>2
    <2> HIDE DEF f
    <2>3. QED
      BY <2>1, <2>2 DEF Injection, IsInjective
  <1>5. IsFiniteSet(0 .. n - 1) /\ Cardinality(0 .. n - 1) = n
    BY <1>1, FS_Interval
  <1>6. f \in Surjection(some, 0 .. n - 1)
    <2> HIDE DEF f, n
    <2>1. Cardinality(some) = n
      BY DEF n
    <2>2. QED
      BY <1>4, <1>5, <2>1, FS_Injection
  <1>7. ASSUME NEW i \in 1 .. n
        PROVE  \E s \in some : Cardinality(Below(s)) = i - 1
    <2>1. i - 1 \in 0 .. n - 1
      BY <1>1
    <2>2. PICK s \in some : f[s] = i - 1
      <3> HIDE DEF f
      <3>1. QED
        BY <1>6, <2>1 DEF Surjection
    <2>3. QED
      BY <2>2
  <1>8. ASSUME NEW i \in 1 .. n
        PROVE  (CHOOSE s \in some : Cardinality(Below(s)) = i - 1) \in some
    BY <1>7, <1>8
  <1>9. ASSUME NEW s \in some
        PROVE  \E i \in 1 .. n : InOrder(some, before)[i] = s
    <2> DEFINE i == f[s] + 1
               t == CHOOSE t \in some : Cardinality(Below(t)) = i - 1
    <2>1. i \in 1 .. n /\ f[s] = i - 1 /\ Cardinality(Below(s)) = i - 1
      BY <1>1, <1>2
    <2>2. t \in some /\ Cardinality(Below(t)) = i - 1
      BY <2>1
    <2>3. f[t] = f[s]
      BY <2>1, <2>2
    <2>4. t = s
      <3> HIDE DEF f, t, i
      <3>1. QED
        BY <1>4, <2>2, <2>3 DEF Injection, IsInjective
    <2>5. InOrder(some, before)[i] = t
      BY <2>1 DEF InOrder
    <2> HIDE DEF i, t
    <2>6. QED
      BY <2>1, <2>4, <2>5
  <1>10. InOrder(some, before) \in [1 .. n -> some]
    BY <1>8 DEF InOrder
  <1>11. QED
    BY <1>1, <1>9, <1>10
---------------------------------------------------------------------------
(* The inventory *)

LEMMA FiniteInventory == IsFiniteSet(Services) /\ IsFiniteSet(KindSet)
  <1>1. ASSUME NEW list, list \in Seq(Range(list))
        PROVE  IsFiniteSet(Range(list))
    <2>1. Len(list) \in Nat /\ DOMAIN list = 1 .. Len(list) /\ list \in [1 .. Len(list) -> Range(list)]
      BY <1>1, LenProperties
    <2>2. list \in Surjection(1 .. Len(list), Range(list))
      BY <2>1 DEF Surjection, Range
    <2>3. IsFiniteSet(1 .. Len(list))
      BY <2>1, FS_Interval
    <2>4. QED
      BY <2>2, <2>3, FS_Surjection
  <1>2. QED
    BY <1>1, InventoryAssumption DEF Services, KindSet

LEMMA PlaceIn ==
  ASSUME NEW list, list \in Seq(Range(list)), NEW x \in Range(list)
  PROVE  Place(x, list) \in Nat /\ list[Place(x, list)] = x
  <1>1. DOMAIN list = 1 .. Len(list) /\ Len(list) \in Nat
    BY LenProperties
  <1>2. \E i \in DOMAIN list : list[i] = x
    BY DEF Range
  <1>3. Place(x, list) \in DOMAIN list /\ list[Place(x, list)] = x
    BY <1>2 DEF Place
  <1>4. QED
    BY <1>1, <1>3

LEMMA EarlierOrders ==
  ASSUME NEW list, list \in Seq(Range(list)), NEW some \in SUBSET Range(list)
  PROVE  Orders(Earlier(list), some)
  <1> DEFINE P(x) == Place(x, list)
  <1>1. \A x \in some : P(x) \in Nat
    BY PlaceIn
  <1>2. \A x, y \in some : x # y => P(x) # P(y)
    BY PlaceIn
  <1>3. \A x, y \in some : <<x, y>> \in Earlier(list) <=> P(x) < P(y)
    BY DEF Earlier
  <1> HIDE DEF P
  <1>4. QED
    BY <1>1, <1>2, <1>3 DEF Orders

LEMMA PriorityOrders ==
  ASSUME NEW some \in SUBSET Services
  PROVE  Orders(Prefer, some) /\ Orders(Sooner, some)
  <1> DEFINE P(x) == Place(x, ServiceOrder)
  <1>0. ServiceOrder \in Seq(Range(ServiceOrder))
    BY InventoryAssumption DEF Services
  <1>1. \A x \in some : P(x) \in Nat /\ Priority[x] \in Int
    BY <1>0, PlaceIn, NumbersAssumption DEF Services
  <1>2. \A x, y \in some : x # y => P(x) # P(y)
    BY <1>0, PlaceIn DEF Services
  <1>3. \A x, y \in some : <<x, y>> \in Earlier(ServiceOrder) <=> P(x) < P(y)
    BY DEF Earlier, Services
  <1>4. \A x, y \in some :
          /\ <<x, y>> \in Prefer <=> Priority[x] > Priority[y] \/ (Priority[x] = Priority[y] /\ P(x) < P(y))
          /\ <<x, y>> \in Sooner <=> Priority[x] < Priority[y] \/ (Priority[x] = Priority[y] /\ P(x) < P(y))
    BY <1>3 DEF Prefer, Sooner
  <1> HIDE DEF P
  <1>5. Orders(Prefer, some)
    BY <1>1, <1>2, <1>4 DEF Orders
  <1>6. Orders(Sooner, some)
    BY <1>1, <1>2, <1>4 DEF Orders
  <1>7. QED
    BY <1>5, <1>6

---------------------------------------------------------------------------
(* Memory *)

Cells(some) == UNION {{s} \X (1 .. Vram[s]) : s \in some}

LEMMA CellsFinite ==
  ASSUME NEW some \in SUBSET Services
  PROVE  IsFiniteSet(Cells(some)) /\ VramOf(some) = Cardinality(Cells(some)) /\ VramOf(some) \in Nat
  <1> DEFINE f == [s \in some |-> {s} \X (1 .. Vram[s])]
             T == {{s} \X (1 .. Vram[s]) : s \in some}
  <1>1. IsFiniteSet(some)
    BY FiniteInventory, FS_Subset
  <1>2. f \in Surjection(some, T)
    BY DEF Surjection
  <1>3. IsFiniteSet(T)
    <2> HIDE DEF f, T
    <2>1. QED
      BY <1>1, <1>2, FS_Surjection
  <1>4. ASSUME NEW s \in some
        PROVE  IsFiniteSet({s} \X (1 .. Vram[s]))
    <2>1. IsFiniteSet({s})
      BY FS_Singleton
    <2>2. IsFiniteSet(1 .. Vram[s])
      BY NumbersAssumption, FS_Interval
    <2>3. QED
      BY <2>1, <2>2, FS_Product
  <1>5. IsFiniteSet(UNION T)
    BY <1>3, <1>4, FS_UNION
  <1>6. QED
    BY <1>5, FS_CardinalityType DEF Cells, VramOf

(* What more services hold is no less. *)
LEMMA VramGrows ==
  ASSUME NEW more \in SUBSET Services, NEW some \in SUBSET more
  PROVE  VramOf(some) <= VramOf(more)
  <1>1. Cells(some) \in SUBSET Cells(more)
    BY DEF Cells
  <1>2. IsFiniteSet(Cells(more)) /\ some \in SUBSET Services
    BY CellsFinite
  <1>3. QED
    BY <1>1, <1>2, CellsFinite, FS_Subset

(* One service more adds what it holds. *)
LEMMA VramAdds ==
  ASSUME NEW some \in SUBSET Services, NEW s \in Services \ some
  PROVE  VramOf(some \cup {s}) = Vram[s] + VramOf(some)
  <1> DEFINE new == {s} \X (1 .. Vram[s])
  <1>1. Cells(some \cup {s}) = Cells(some) \cup new
    BY DEF Cells
  <1>2. Cells(some) \cap new = {}
    BY DEF Cells
  <1>3. IsFiniteSet(new) /\ Cardinality(new) = Vram[s]
    <2>1. Vram[s] \in Nat
      BY NumbersAssumption
    <2>2. IsFiniteSet(1 .. Vram[s]) /\ Cardinality(1 .. Vram[s]) = Vram[s]
      BY <2>1, FS_Interval
    <2>3. IsFiniteSet({s}) /\ Cardinality({s}) = 1
      BY FS_Singleton
    <2>4. IsFiniteSet(new) /\ Cardinality(new) = 1 * Vram[s]
      BY <2>2, <2>3, FS_Product
    <2>5. QED
      BY <2>1, <2>4
  <1>4. IsFiniteSet(Cells(some)) /\ Cardinality(Cells(some)) \in Nat
    BY CellsFinite, FS_CardinalityType
  <1> HIDE DEF new
  <1>5. Cardinality(Cells(some) \cup new)
          = Cardinality(Cells(some)) + Cardinality(new) - Cardinality(Cells(some) \cap new)
    BY <1>3, <1>4, FS_Union
  <1>6. Cardinality(Cells(some) \cap new) = 0
    BY <1>2, FS_EmptySet
  <1>7. Vram[s] \in Nat
    BY NumbersAssumption
  <1>8. some \cup {s} \in SUBSET Services
    OBVIOUS
  <1>9. VramOf(some \cup {s}) = Cardinality(Cells(some \cup {s})) /\ VramOf(some) = Cardinality(Cells(some))
    BY <1>8, CellsFinite
  <1>10. Cardinality(Cells(some) \cup new) = Vram[s] + Cardinality(Cells(some))
    BY <1>3, <1>4, <1>5, <1>6, <1>7
  <1>11. QED
    BY <1>1, <1>9, <1>10

(* Services together hold no more than each group on its own. *)
LEMMA VramJoins ==
  ASSUME NEW some \in SUBSET Services, NEW others \in SUBSET Services
  PROVE  VramOf(some \cup others) <= VramOf(some) + VramOf(others) /\ VramOf(some \cup others) \in Nat
  <1> DEFINE A == Cells(some)
             B == Cells(others)
  <1>1. /\ IsFiniteSet(A) /\ VramOf(some) = Cardinality(A) /\ VramOf(some) \in Nat
        /\ IsFiniteSet(B) /\ VramOf(others) = Cardinality(B) /\ VramOf(others) \in Nat
    BY CellsFinite
  <1>2. some \cup others \in SUBSET Services
    OBVIOUS
  <1>3. Cells(some \cup others) = A \cup B
    BY DEF Cells
  <1>4. VramOf(some \cup others) = Cardinality(A \cup B) /\ VramOf(some \cup others) \in Nat
    BY <1>2, <1>3, CellsFinite
  <1> HIDE DEF A, B
  <1>5. Cardinality(A \cup B) = Cardinality(A) + Cardinality(B) - Cardinality(A \cap B)
    BY <1>1, FS_Union
  <1>6. Cardinality(A \cap B) \in Nat
    BY <1>1, FS_Intersection, FS_CardinalityType
  <1>7. QED
    BY <1>1, <1>4, <1>5, <1>6

---------------------------------------------------------------------------
(* The planner *)

View == [status : [Services -> Status], healthy : SUBSET Services,
         manual : [Services -> Override], idle : [Services -> Nat]]
Plan == [status : [Services -> Status], leaving : SUBSET Services, actions : Seq(Action)]

Listed(type, list) == {s \in Services : \E i \in 1 .. Len(list) : list[i] = Act(type, s)}

(* A stop is the operator's, or hits one nobody wants for one who is wanted, *)
(* is down, and does not fit.                                               *)
InTheWay(view, demand, plan, s) ==
  /\ ~IsWanted(view, demand, s) /\ view.idle[s] > IdleUnload[s]
  /\ \E t \in OnGpu(GpuOf[s]) \ {s} :
       plan.status[t] = "stopped" /\ IsWanted(view, demand, t) /\ ~Fits(plan.status, t)

PlanOK(view, demand, plan) ==
  /\ plan \in Plan
  /\ \A s \in Services : \/ plan.status[s] = view.status[s]
                         \/ view.status[s] = "stopped" /\ plan.status[s] = "starting"
  /\ \A s \in Listed("start", plan.actions) :
       /\ view.status[s] = "stopped" /\ view.manual[s] # "stop" /\ IsWanted(view, demand, s)
       /\ plan.status[s] = "starting"
       /\ GpuOf[s] # NoGpu => CommittedMb(plan.status, GpuOf[s]) <= Capacity[GpuOf[s]]
  /\ \A s \in Listed("stop", plan.actions) :
       /\ view.status[s] \in {"running", "starting"}
       /\ view.manual[s] = "stop" \/ InTheWay(view, demand, plan, s)

(* The members of a set in order, as a sequence. *)
LEMMA InOrderSeq ==
  ASSUME NEW some, IsFiniteSet(some), NEW before, Orders(before, some)
  PROVE  /\ InOrder(some, before) \in Seq(some) /\ Len(InOrder(some, before)) = Cardinality(some)
         /\ \A s \in some : \E i \in 1 .. Len(InOrder(some, before)) : InOrder(some, before)[i] = s
  <1>1. /\ InOrder(some, before) \in [1 .. Cardinality(some) -> some] /\ Cardinality(some) \in Nat
        /\ \A s \in some : \E i \in 1 .. Cardinality(some) : InOrder(some, before)[i] = s
    BY InOrderMembers
  <1>2. QED
    BY <1>1

LEMMA StopsOfOrder ==
  ASSUME NEW list, NEW some \in SUBSET Services, list \in Seq(some)
  PROVE  /\ Stops(list) \in Seq(Action)
         /\ Listed("start", Stops(list)) = {} /\ Listed("stop", Stops(list)) \subseteq some
         /\ \A i \in 1 .. Len(list) : list[i] \in Listed("stop", Stops(list))
  <1>1. DOMAIN list = 1 .. Len(list) /\ Len(list) \in Nat /\ \A i \in 1 .. Len(list) : list[i] \in some
    BY LenProperties
  <1>2. \A i \in 1 .. Len(list) : Act("stop", list[i]) \in Action
    BY <1>1 DEF Act, Action
  <1>3. Stops(list) = [i \in 1 .. Len(list) |-> Act("stop", list[i])]
    BY <1>1 DEF Stops
  <1>4. Stops(list) \in Seq(Action) /\ Len(Stops(list)) = Len(list)
    BY <1>1, <1>2, <1>3
  <1>5. \A i \in 1 .. Len(Stops(list)) : Stops(list)[i] = Act("stop", list[i]) /\ list[i] \in some
    BY <1>1, <1>3, <1>4
  <1>6. \A s, t : Act("stop", t) # Act("start", s) /\ (Act("stop", t) = Act("stop", s) => t = s)
    BY DEF Act
  <1>7. QED
    BY <1>4, <1>5, <1>6 DEF Listed

LEMMA ListedGrows ==
  ASSUME NEW a \in Seq(Action), NEW b \in Seq(Action), NEW type
  PROVE  Listed(type, a \o b) = Listed(type, a) \cup Listed(type, b)
  <1>1. Len(a) \in Nat /\ Len(b) \in Nat /\ Len(a \o b) = Len(a) + Len(b)
        /\ \A i \in 1 .. Len(a) + Len(b) : (a \o b)[i] = IF i <= Len(a) THEN a[i] ELSE b[i - Len(a)]
    BY ConcatProperties
  <1>2. \A i \in 1 .. Len(a) : (a \o b)[i] = a[i] /\ i \in 1 .. Len(a \o b)
    BY <1>1
  <1>3. \A i \in 1 .. Len(b) : (a \o b)[Len(a) + i] = b[i] /\ Len(a) + i \in 1 .. Len(a \o b)
    BY <1>1
  <1>4. \A i \in 1 .. Len(a \o b) : i \in 1 .. Len(a) \/ i - Len(a) \in 1 .. Len(b)
    BY <1>1
  <1>5. \A i \in 1 .. Len(a \o b) : (a \o b)[i] = IF i \in 1 .. Len(a) THEN a[i] ELSE b[i - Len(a)]
    BY <1>1
  <1>6. Listed(type, a) \cup Listed(type, b) \subseteq Listed(type, a \o b)
    BY <1>2, <1>3 DEF Listed
  <1>7. Listed(type, a \o b) \subseteq Listed(type, a) \cup Listed(type, b)
    BY <1>4, <1>5 DEF Listed
  <1>8. QED
    BY <1>6, <1>7

LEMMA ListedAppends ==
  ASSUME NEW a \in Seq(Action), NEW type \in {"start", "stop"}, NEW s \in Services, NEW other
  PROVE  /\ Append(a, Act(type, s)) \in Seq(Action)
         /\ Listed(other, Append(a, Act(type, s))) =
              IF other = type THEN Listed(other, a) \cup {s} ELSE Listed(other, a)
  <1>1. Act(type, s) \in Action /\ \A t \in Services : Act(other, t) = Act(type, s) <=> (other = type /\ t = s)
    BY DEF Act, Action
  <1> DEFINE b == Append(a, Act(type, s))
  <1>2. b \in Seq(Action) /\ Len(b) = Len(a) + 1 /\ Len(a) \in Nat
        /\ (\A i \in 1 .. Len(a) : b[i] = a[i]) /\ b[Len(a) + 1] = Act(type, s)
    BY <1>1, AppendProperties
  <1> HIDE DEF b
  <1>3. \A t \in Services : t \in Listed(other, b) <=> t \in Listed(other, a) \/ b[Len(a) + 1] = Act(other, t)
    <2>1. \A i : i \in 1 .. Len(b) <=> i \in 1 .. Len(a) \/ i = Len(a) + 1
      BY <1>2
    <2>2. QED
      BY <1>2, <2>1 DEF Listed
  <1>4. Listed(other, b) = IF other = type THEN Listed(other, a) \cup {s} ELSE Listed(other, a)
    BY <1>1, <1>2, <1>3 DEF Listed
  <1>5. QED
    BY <1>2, <1>4 DEF b

(* Whatever a need names is wanted. *)
LEMMA NeedsWanted ==
  ASSUME NEW view, NEW demand
  PROVE  /\ Len(Needs(view, demand)) \in Nat
         /\ \A i \in 1 .. Len(Needs(view, demand)) :
              /\ Needs(view, demand)[i] \subseteq Services
              /\ \A s \in Needs(view, demand)[i] : IsWanted(view, demand, s)
  <1> DEFINE U == Uncovered(view, demand)
             V == Pinned(view)
             kinds == InOrder(U, Earlier(KindOrder))
             pinned == InOrder(V, Earlier(ServiceOrder))
             S == {P \in SUBSET Services : \A s \in P : IsWanted(view, demand, s)}
             a == [i \in 1 .. Cardinality(U) |-> {s \in Services : Provides(s, kinds[i])}]
             b == [i \in 1 .. Cardinality(V) |-> {pinned[i]}]
  <1>1. /\ IsFiniteSet(U) /\ U \in SUBSET KindSet /\ Cardinality(U) \in Nat
        /\ IsFiniteSet(V) /\ V \in SUBSET Services /\ Cardinality(V) \in Nat
    <2>1. U \in SUBSET KindSet /\ V \in SUBSET Services
      BY DEF Uncovered, Pinned
    <2>2. IsFiniteSet(U) /\ IsFiniteSet(V)
      BY <2>1, FiniteInventory, FS_Subset
    <2>3. QED
      BY <2>1, <2>2, FS_CardinalityType
  <1>2. kinds \in [1 .. Cardinality(U) -> U]
    <2>1. Orders(Earlier(KindOrder), U)
      BY <1>1, EarlierOrders, InventoryAssumption DEF KindSet
    <2>2. QED
      BY <1>1, <2>1, InOrderMembers
  <1>3. pinned \in [1 .. Cardinality(V) -> V]
    <2>1. Orders(Earlier(ServiceOrder), V)
      BY <1>1, EarlierOrders, InventoryAssumption DEF Services
    <2>2. QED
      BY <1>1, <2>1, InOrderMembers
  <1>4. \A kind \in U, s \in Services : Provides(s, kind) => IsWanted(view, demand, s)
    BY DEF Uncovered, IsWanted, Wanted
  <1>5. \A s \in V : s \in Services /\ IsWanted(view, demand, s)
    BY DEF Pinned, IsWanted
  <1> HIDE DEF U, V, kinds, pinned
  <1>6. \A i \in 1 .. Cardinality(U) : {s \in Services : Provides(s, kinds[i])} \in S
    BY <1>2, <1>4
  <1>7. \A i \in 1 .. Cardinality(V) : {pinned[i]} \in S
    BY <1>3, <1>5
  <1> HIDE DEF S
  <1>8. a \in Seq(S) /\ b \in Seq(S)
    BY <1>1, <1>6, <1>7
  <1>9. Needs(view, demand) = a \o b
    BY DEF Needs, U, V, kinds, pinned
  <1> HIDE DEF a, b
  <1>10. Needs(view, demand) \in Seq(S)
    BY <1>8, <1>9, ConcatProperties
  <1>11. QED
    BY <1>10, LenProperties DEF S

(* What is committed does not shrink from plan to plan. *)
LEMMA CommittedGrows ==
  ASSUME NEW old, NEW new, NEW gpu,
         \A s \in Services : old[s] \in Holding => new[s] \in Holding
  PROVE  /\ CommittedMb(old, gpu) <= CommittedMb(new, gpu)
         /\ CommittedMb(old, gpu) \in Nat /\ CommittedMb(new, gpu) \in Nat
  <1> DEFINE A == {s \in OnGpu(gpu) : old[s] \in Holding}
             B == {s \in OnGpu(gpu) : new[s] \in Holding}
  <1>1. A \in SUBSET B /\ B \in SUBSET Services
    BY DEF OnGpu
  <1>2. VramOf(A) <= VramOf(B) /\ VramOf(A) \in Nat /\ VramOf(B) \in Nat
    <2> HIDE DEF A, B
    <2>1. A \in SUBSET Services
      BY <1>1
    <2>2. QED
      BY <1>1, <2>1, VramGrows, CellsFinite
  <1>3. QED
    BY <1>2 DEF CommittedMb

LEMMA CandidateStartable ==
  ASSUME NEW view, NEW startable \in SUBSET Services, startable # {}
  PROVE  Candidate(view, startable) \in startable
  <1> DEFINE asked == {s \in startable : view.manual[s] = "start"}
             pool == IF asked = {} THEN startable ELSE asked
  <1>1. pool \in SUBSET startable /\ pool # {}
    OBVIOUS
  <1>2. Candidate(view, startable) = InOrder(pool, Prefer)[1]
    BY DEF Candidate
  <1> HIDE DEF asked, pool
  <1>3. IsFiniteSet(pool) /\ pool \in SUBSET Services
    BY <1>1, FiniteInventory, FS_Subset
  <1>4. Cardinality(pool) \in Nat /\ Cardinality(pool) # 0
    BY <1>1, <1>3, FS_EmptySet, FS_CardinalityType
  <1>5. InOrder(pool, Prefer) \in [1 .. Cardinality(pool) -> pool]
    BY <1>3, PriorityOrders, InOrderMembers
  <1>6. 1 \in 1 .. Cardinality(pool)
    BY <1>4
  <1>7. InOrder(pool, Prefer)[1] \in pool
    BY <1>5, <1>6
  <1>8. QED
    BY <1>1, <1>2, <1>7

LEMMA FirstPlanOK ==
  ASSUME NEW view \in View, NEW demand
  PROVE  PlanOK(view, demand, FirstPlan(view))
  <1> DEFINE some == OperatorStops(view)
             list == InOrder(some, Earlier(ServiceOrder))
  <1>1. some \in SUBSET Services /\ IsFiniteSet(some)
    BY FiniteInventory, FS_Subset DEF OperatorStops
  <1>2. Orders(Earlier(ServiceOrder), some)
    BY <1>1, EarlierOrders, InventoryAssumption DEF Services
  <1>3. list \in Seq(some)
    BY <1>1, <1>2, InOrderSeq
  <1>4. /\ Stops(list) \in Seq(Action)
        /\ Listed("start", Stops(list)) = {} /\ Listed("stop", Stops(list)) \subseteq some
    BY <1>1, <1>3, StopsOfOrder
  <1>5. \A s \in some : view.manual[s] = "stop" /\ view.status[s] \in {"running", "starting"}
    BY DEF OperatorStops
  <1>6. FirstPlan(view) = [status |-> view.status, leaving |-> some, actions |-> Stops(list)]
    BY DEF FirstPlan
  <1> HIDE DEF some, list
  <1>7. FirstPlan(view) \in Plan
    BY <1>1, <1>4, <1>6 DEF Plan, View
  <1>8. FirstPlan(view).status = view.status /\ FirstPlan(view).actions = Stops(list)
    BY <1>6
  <1>9. QED
    BY <1>4, <1>5, <1>7, <1>8 DEF PlanOK

(* What is in the way stays so: nobody who did not fit fits later. *)
LEMMA StopsStay ==
  ASSUME NEW view \in View, NEW demand, NEW plan \in Plan, NEW next \in Plan, NEW s \in Services,
         \A t \in Services : plan.status[t] \in Holding => next.status[t] \in Holding,
         \A t \in Services : ~Fits(plan.status, t) => next.status[t] = plan.status[t],
         InTheWay(view, demand, plan, s)
  PROVE  InTheWay(view, demand, next, s)
  <1>1. PICK t \in OnGpu(GpuOf[s]) \ {s} :
          plan.status[t] = "stopped" /\ IsWanted(view, demand, t) /\ ~Fits(plan.status, t)
    BY DEF InTheWay
  <1>2. t \in Services /\ next.status[t] = "stopped"
    BY <1>1 DEF OnGpu
  <1>3. ~Fits(next.status, t)
    <2>1. CommittedMb(plan.status, GpuOf[t]) <= CommittedMb(next.status, GpuOf[t])
          /\ CommittedMb(plan.status, GpuOf[t]) \in Nat /\ CommittedMb(next.status, GpuOf[t]) \in Nat
      BY CommittedGrows
    <2>2. GpuOf[t] # NoGpu /\ ~(Vram[t] + CommittedMb(plan.status, GpuOf[t]) <= Capacity[GpuOf[t]])
      BY <1>1 DEF Fits
    <2>3. Vram[t] \in Nat /\ Capacity[GpuOf[t]] \in Nat
      BY <1>2, <2>2, NumbersAssumption
    <2>4. QED
      BY <2>1, <2>2, <2>3 DEF Fits
  <1>4. QED
    BY <1>1, <1>2, <1>3 DEF InTheWay

LEMMA MeetStarts ==
  ASSUME NEW view \in View, NEW demand, NEW plan, PlanOK(view, demand, plan),
         NEW s \in Services, plan.status[s] = "stopped", Fits(plan.status, s),
         view.manual[s] # "stop", IsWanted(view, demand, s)
  PROVE  PlanOK(view, demand, WithStart(plan, s))
  <1> DEFINE next == WithStart(plan, s)
  <1>0. plan \in Plan
    BY DEF PlanOK
  <1>1. /\ next.status = [plan.status EXCEPT ![s] = "starting"]
        /\ next.actions = Append(plan.actions, Act("start", s))
        /\ next.leaving = plan.leaving
    BY <1>0 DEF Plan, WithStart
  <1>2. /\ next.actions \in Seq(Action)
        /\ Listed("start", next.actions) = Listed("start", plan.actions) \cup {s}
        /\ Listed("stop", next.actions) = Listed("stop", plan.actions)
    <2>1. plan.actions \in Seq(Action)
      BY <1>0 DEF Plan
    <2>2. QED
      BY <1>1, <2>1, ListedAppends
  <1>3. next \in Plan
    BY <1>0, <1>2 DEF Plan, Status, WithStart
  <1>4. \A t \in Services : next.status[t] = IF t = s THEN "starting" ELSE plan.status[t]
    BY <1>0, <1>1 DEF Plan
  <1> HIDE DEF next
  <1>5. \A t \in Services : plan.status[t] \in Holding => next.status[t] \in Holding
    BY <1>4 DEF Holding
  <1>6. \A t \in Services : ~Fits(plan.status, t) => next.status[t] = plan.status[t]
    BY <1>4
  <1>7. ASSUME NEW gpu, gpu # GpuOf[s]
        PROVE  CommittedMb(next.status, gpu) = CommittedMb(plan.status, gpu)
    BY <1>4, <1>7 DEF CommittedMb, OnGpu
  <1>8. GpuOf[s] # NoGpu => CommittedMb(next.status, GpuOf[s]) <= Capacity[GpuOf[s]]
    <2> DEFINE A == {t \in OnGpu(GpuOf[s]) : plan.status[t] \in Holding}
               B == {t \in OnGpu(GpuOf[s]) : next.status[t] \in Holding}
    <2>1. A \in SUBSET Services /\ s \notin A /\ B = A \cup {s}
      BY <1>4 DEF OnGpu, Holding
    <2>2. CommittedMb(plan.status, GpuOf[s]) = VramOf(A) /\ CommittedMb(next.status, GpuOf[s]) = VramOf(B)
      BY DEF CommittedMb
    <2> HIDE DEF A, B
    <2>3. VramOf(B) = Vram[s] + VramOf(A)
      BY <2>1, VramAdds
    <2>4. QED
      BY <2>2, <2>3 DEF Fits
  <1>9. \A t \in Listed("start", next.actions) :
          /\ view.status[t] = "stopped" /\ view.manual[t] # "stop" /\ IsWanted(view, demand, t)
          /\ next.status[t] = "starting"
          /\ GpuOf[t] # NoGpu => CommittedMb(next.status, GpuOf[t]) <= Capacity[GpuOf[t]]
    <2> TAKE t \in Listed("start", next.actions)
    <2>1. t \in Services
      BY DEF Listed
    <2>2. CASE GpuOf[t] = GpuOf[s]
      BY <1>2, <1>4, <1>8, <2>1, <2>2 DEF PlanOK
    <2>3. CASE GpuOf[t] # GpuOf[s]
      BY <1>2, <1>4, <1>7, <2>1, <2>3 DEF PlanOK
    <2>4. QED
      BY <2>2, <2>3
  <1>10. \A t \in Listed("stop", next.actions) :
           /\ view.status[t] \in {"running", "starting"}
           /\ view.manual[t] = "stop" \/ InTheWay(view, demand, next, t)
    <2> TAKE t \in Listed("stop", next.actions)
    <2>1. t \in Services
      BY DEF Listed
    <2>2. QED
      BY <1>0, <1>2, <1>3, <1>5, <1>6, <2>1, StopsStay DEF PlanOK
  <1>11. \A t \in Services : \/ next.status[t] = view.status[t]
                             \/ view.status[t] = "stopped" /\ next.status[t] = "starting"
    BY <1>4 DEF PlanOK
  <1>12. QED
    BY <1>3, <1>9, <1>10, <1>11 DEF PlanOK, next

LEMMA MeetEvicts ==
  ASSUME NEW view \in View, NEW demand, NEW plan, PlanOK(view, demand, plan),
         NEW s \in Services, plan.status[s] = "stopped", ~Fits(plan.status, s), IsWanted(view, demand, s),
         NEW victims, victims = Victims(view, demand, plan, s)
  PROVE  PlanOK(view, demand, WithStops(plan, victims))
  <1> DEFINE list == Stops(InOrder(victims, Sooner))
             next == WithStops(plan, victims)
  <1>0. plan \in Plan
    BY DEF PlanOK
  <1>1. victims \in SUBSET Services /\ victims \subseteq Evictable(view, demand, plan, s)
    BY DEF Victims, Evictable, OnGpu
  <1>2. IsFiniteSet(victims)
    BY <1>1, FiniteInventory, FS_Subset
  <1>3. InOrder(victims, Sooner) \in Seq(victims)
    BY <1>1, <1>2, PriorityOrders, InOrderSeq
  <1>4. list \in Seq(Action) /\ Listed("start", list) = {} /\ Listed("stop", list) \subseteq victims
    BY <1>1, <1>3, StopsOfOrder
  <1>5. /\ next.status = plan.status /\ next.actions = plan.actions \o list
        /\ next.leaving = plan.leaving \cup victims
    BY <1>0 DEF Plan, WithStops
  <1> HIDE DEF list
  <1>6. /\ next.actions \in Seq(Action)
        /\ Listed("start", next.actions) = Listed("start", plan.actions)
        /\ Listed("stop", next.actions) \subseteq Listed("stop", plan.actions) \cup victims
    <2>1. plan.actions \in Seq(Action)
      BY <1>0 DEF Plan
    <2>2. plan.actions \o list \in Seq(Action)
      BY <1>4, <2>1, ConcatProperties
    <2>3. /\ Listed("start", plan.actions \o list) = Listed("start", plan.actions) \cup Listed("start", list)
          /\ Listed("stop", plan.actions \o list) = Listed("stop", plan.actions) \cup Listed("stop", list)
      BY <1>4, <2>1, ListedGrows
    <2> HIDE DEF next
    <2>4. QED
      BY <1>4, <1>5, <2>2, <2>3
  <1>7. next \in Plan
    BY <1>0, <1>1, <1>6 DEF Plan, WithStops
  <1> HIDE DEF next
  <1>8. \A t \in victims : /\ plan.status[t] = "running"
                           /\ InTheWay(view, demand, next, t)
    <2> TAKE t \in victims
    <2>1. /\ t \in OnGpu(GpuOf[s]) \ {s} /\ plan.status[t] = "running"
          /\ ~IsWanted(view, demand, t) /\ view.idle[t] > IdleUnload[t]
      BY <1>1 DEF Evictable
    <2>2. s \in OnGpu(GpuOf[t]) \ {t}
      BY <2>1 DEF OnGpu
    <2>3. QED
      BY <1>5, <2>1, <2>2 DEF InTheWay
  <1>9. \A t \in Listed("stop", next.actions) :
          /\ view.status[t] \in {"running", "starting"}
          /\ view.manual[t] = "stop" \/ InTheWay(view, demand, next, t)
    <2> TAKE t \in Listed("stop", next.actions)
    <2>1. t \in Services
      BY DEF Listed
    <2>2. CASE t \in victims
      BY <1>8, <2>1, <2>2 DEF PlanOK
    <2>3. CASE t \in Listed("stop", plan.actions)
      BY <1>5, <2>3 DEF PlanOK, InTheWay
    <2>4. QED
      BY <1>6, <2>2, <2>3
  <1>10. QED
    BY <1>5, <1>6, <1>7, <1>9 DEF PlanOK, next

LEMMA MeetOK ==
  ASSUME NEW view \in View, NEW demand, NEW plan, PlanOK(view, demand, plan),
         NEW providers \in SUBSET Services, \A s \in providers : IsWanted(view, demand, s)
  PROVE  PlanOK(view, demand, Meet(view, demand, plan, providers))
  <1> DEFINE startable == Startable(view, plan, providers)
             s == Candidate(view, startable)
             victims == Victims(view, demand, plan, s)
  <1>1. /\ startable \in SUBSET providers
        /\ \A t \in startable : plan.status[t] = "stopped" /\ view.manual[t] # "stop"
    BY DEF Startable
  <1>2. CASE startable = {}
    BY <1>2 DEF Meet
  <1>3. CASE startable # {}
    <2>1. s \in startable
      BY <1>1, <1>3, CandidateStartable
    <2>2. s \in Services /\ plan.status[s] = "stopped" /\ view.manual[s] # "stop" /\ IsWanted(view, demand, s)
      BY <1>1, <2>1
    <2>3. Meet(view, demand, plan, providers) =
            IF Fits(plan.status, s) THEN WithStart(plan, s) ELSE WithStops(plan, victims)
      BY <1>3 DEF Meet
    <2>4. victims = Victims(view, demand, plan, s)
      OBVIOUS
    <2> HIDE DEF s, victims, startable
    <2>5. CASE Fits(plan.status, s)
      BY <2>2, <2>3, <2>5, MeetStarts
    <2>6. CASE ~Fits(plan.status, s)
      BY <2>2, <2>3, <2>4, <2>6, MeetEvicts
    <2>7. QED
      BY <2>5, <2>6
  <1>4. QED
    BY <1>2, <1>3

(* The plans one need after the other: the recursion has a solution. *)
Steps(view, demand, f, n) ==
  f = [i \in 0 .. n |-> IF i = 0 THEN FirstPlan(view)
                        ELSE Meet(view, demand, f[i - 1], Needs(view, demand)[i])]

LEMMA PlansSteps ==
  ASSUME NEW view, NEW demand, Len(Needs(view, demand)) \in Nat
  PROVE  Steps(view, demand, Plans(view, demand), Len(Needs(view, demand)))
  <1> DEFINE needs == Needs(view, demand)
             Q(f, n) == Steps(view, demand, f, n)
             T == {n \in Nat : \E f : Q(f, n)}
  <1>1. 0 \in T
    <2>1. Q([i \in 0 .. 0 |-> FirstPlan(view)], 0)
      BY DEF Steps
    <2>2. QED
      BY <2>1
  <1>2. ASSUME NEW n \in Nat, n \in T
        PROVE  n + 1 \in T
    <2>1. PICK f : Q(f, n)
      BY <1>2
    <2> DEFINE g == [i \in 0 .. n + 1 |-> IF i = n + 1 THEN Meet(view, demand, f[n], needs[i]) ELSE f[i]]
    <2>2. ASSUME NEW i \in 0 .. n + 1
          PROVE  g[i] = IF i = 0 THEN FirstPlan(view) ELSE Meet(view, demand, g[i - 1], needs[i])
      <3>1. CASE i = n + 1
        BY <3>1
      <3>2. CASE i \in 0 .. n
        <4>1. g[i] = f[i] /\ (i # 0 => g[i - 1] = f[i - 1])
          BY <3>2
        <4>2. f[i] = IF i = 0 THEN FirstPlan(view) ELSE Meet(view, demand, f[i - 1], needs[i])
          BY <2>1, <3>2 DEF Steps
        <4>3. QED
          BY <4>1, <4>2
      <3>3. QED
        BY <3>1, <3>2
    <2>3. g = [i \in 0 .. n + 1 |-> IF i = 0 THEN FirstPlan(view) ELSE Meet(view, demand, g[i - 1], needs[i])]
      BY <2>2
    <2>4. Q(g, n + 1)
      BY <2>3 DEF Steps
    <2> HIDE DEF g, Q
    <2>5. QED
      BY <2>4
  <1>3. Len(needs) \in T
    <2> HIDE DEF T, needs
    <2>1. Len(needs) \in Nat
      BY DEF needs
    <2>2. \A i \in 0 .. Len(needs) - 1 : i \in T => i + 1 \in T
      BY <1>2, <2>1
    <2>3. 0 .. Len(needs) \subseteq T
      BY <1>1, <2>1, <2>2, Climb
    <2>4. QED
      BY <2>1, <2>3
  <1>4. \E f : Q(f, Len(needs))
    BY <1>3
  <1>5. QED
    BY <1>4 DEF Plans, Steps

---------------------------------------------------------------------------
(* What a plan leaves unmet *)

(* Residents of the same card that nobody wants and that idled long enough. *)
Idlers(view, demand, s) ==
  {t \in OnGpu(GpuOf[s]) \ {s} :
    view.status[t] = "running" /\ ~IsWanted(view, demand, t) /\ view.idle[t] > IdleUnload[t]}

(* The plan stops them all, or frees what the service lacks.                *)
RoomMade(view, demand, actions, s) ==
  LET leaving == Listed("stop", actions) \cap OnGpu(GpuOf[s])
  IN  \/ Idlers(view, demand, s) \subseteq leaving
      \/ Vram[s] + CommittedMb(view.status, GpuOf[s]) <= Capacity[GpuOf[s]] + VramOf(leaving)

(* Somebody is started for it, or nobody can be, or somebody is kept out by  *)
(* a full card and room is being made.                                      *)
NeedMet(view, demand, plan, providers) ==
  \/ \E s \in providers : s \in Listed("start", plan.actions)
  \/ \A s \in providers : view.status[s] # "stopped" \/ view.manual[s] = "stop"
  \/ \E s \in providers :
       /\ view.status[s] = "stopped" /\ view.manual[s] # "stop" /\ ~Fits(plan.status, s)
       /\ RoomMade(view, demand, plan.actions, s)

(* The actions of a plan account for everything it changed.                 *)
Booked(view, plan) ==
  /\ \A s \in Services : plan.status[s] # view.status[s] => s \in Listed("start", plan.actions)
  /\ plan.leaving \subseteq Listed("stop", plan.actions)

Later(plan, next) ==
  /\ Listed("start", plan.actions) \subseteq Listed("start", next.actions)
  /\ Listed("stop", plan.actions) \subseteq Listed("stop", next.actions)
  /\ \A s \in Services : plan.status[s] \in Holding => next.status[s] \in Holding

(* In a strict order some member of a finite set comes first.               *)
LEMMA First ==
  ASSUME NEW some, IsFiniteSet(some), some # {}, NEW before, Orders(before, some)
  PROVE  \E u \in some : \A t \in some : <<t, u>> \notin before
  <1> DEFINE Below(u) == {t \in some : <<t, u>> \in before}
             Ranks == {Cardinality(Below(u)) : u \in some}
  <1>1. \A u \in some : IsFiniteSet(Below(u)) /\ Cardinality(Below(u)) \in Nat
    <2> TAKE u \in some
    <2>1. Below(u) \in SUBSET some
      OBVIOUS
    <2> HIDE DEF Below
    <2>2. IsFiniteSet(Below(u))
      BY <2>1, FS_Subset
    <2>3. QED
      BY <2>2, FS_CardinalityType
  <1>2. PICK n \in Ranks : \A m \in Ranks : n <= m
    <2>1. Ranks \in SUBSET Nat /\ Ranks # {}
      BY <1>1
    <2> HIDE DEF Ranks
    <2>2. QED
      BY <2>1, Least
  <1>3. PICK u \in some : n = Cardinality(Below(u))
    OBVIOUS
  <1>4. ASSUME NEW t \in some, <<t, u>> \in before
        PROVE  FALSE
    <2>1. Below(t) \in SUBSET Below(u) /\ t \in Below(u) /\ t \notin Below(t)
      BY <1>3, <1>4 DEF Orders
    <2>2. Cardinality(Below(u)) <= Cardinality(Below(t))
      BY <1>2, <1>3
    <2> HIDE DEF Below
    <2>3. /\ Cardinality(Below(t)) <= Cardinality(Below(u))
          /\ Cardinality(Below(t)) = Cardinality(Below(u)) => Below(t) = Below(u)
      BY <1>1, <2>1, FS_Subset
    <2>4. QED
      BY <1>1, <2>1, <2>2, <2>3
  <1>5. QED
    BY <1>4

(* The chosen victims are everybody that may go, or free enough.            *)
LEMMA VictimsFree ==
  ASSUME NEW view, NEW demand, NEW plan, NEW s \in Services, GpuOf[s] # NoGpu
  PROVE  \/ Victims(view, demand, plan, s) = Evictable(view, demand, plan, s)
         \/ Vram[s] + CommittedMb(plan.status, GpuOf[s])
              <= Capacity[GpuOf[s]] + VramOf(Victims(view, demand, plan, s))
  <1> DEFINE some == Evictable(view, demand, plan, s)
             victims == Victims(view, demand, plan, s)
             rest == some \ victims
             needed == Vram[s] + CommittedMb(plan.status, GpuOf[s])
             Sooners(u) == {t \in some : <<t, u>> \in Sooner}
  <1>1. some \in SUBSET Services
    BY DEF Evictable, OnGpu
  <1>2. victims = {u \in some : needed > Capacity[GpuOf[s]] + VramOf(Sooners(u))}
    BY DEF Victims
  <1>3. needed \in Nat /\ Capacity[GpuOf[s]] \in Nat
    <2>1. CommittedMb(plan.status, GpuOf[s]) \in Nat
      BY CommittedGrows
    <2>2. QED
      BY <2>1, NumbersAssumption
  <1> HIDE DEF some, victims, needed
  <1>4. CASE victims = some
    BY <1>4 DEF some, victims
  <1>5. CASE victims # some
    <2>1. rest # {} /\ rest \in SUBSET Services
      BY <1>1, <1>2, <1>5
    <2>2. IsFiniteSet(rest) /\ Orders(Sooner, rest)
      BY <2>1, FiniteInventory, FS_Subset, PriorityOrders
    <2>3. PICK u \in rest : \A t \in rest : <<t, u>> \notin Sooner
      <3> HIDE DEF rest
      <3>1. QED
        BY <2>1, <2>2, First
    <2>4. ~ (needed > Capacity[GpuOf[s]] + VramOf(Sooners(u)))
      BY <1>2, <2>3
    <2>5. Sooners(u) \in SUBSET victims /\ victims \in SUBSET Services
      BY <1>1, <1>2, <2>3
    <2> HIDE DEF Sooners
    <2>6. VramOf(Sooners(u)) <= VramOf(victims) /\ VramOf(Sooners(u)) \in Nat /\ VramOf(victims) \in Nat
      <3>1. Sooners(u) \in SUBSET Services
        BY <2>5
      <3>2. QED
        BY <2>5, <3>1, VramGrows, CellsFinite
    <2>7. needed <= Capacity[GpuOf[s]] + VramOf(victims)
      BY <1>3, <2>4, <2>6
    <2>8. QED
      BY <2>7 DEF needed, victims
  <1>6. QED
    BY <1>4, <1>5

(* A need once met, or given up for lack of room, is so to the end.         *)
LEMMA MetStays ==
  ASSUME NEW view, NEW demand, NEW plan, NEW next, Later(plan, next),
         NEW providers \in SUBSET Services, NeedMet(view, demand, plan, providers)
  PROVE  NeedMet(view, demand, next, providers)
  <1>1. CASE \E s \in providers : s \in Listed("start", plan.actions)
    BY <1>1 DEF NeedMet, Later
  <1>2. CASE \A s \in providers : view.status[s] # "stopped" \/ view.manual[s] = "stop"
    BY <1>2 DEF NeedMet
  <1>3. ASSUME NEW s \in providers,
               view.status[s] = "stopped" /\ view.manual[s] # "stop" /\ ~Fits(plan.status, s),
               RoomMade(view, demand, plan.actions, s)
        PROVE  NeedMet(view, demand, next, providers)
    <2> DEFINE gpu == GpuOf[s]
               A == Listed("stop", plan.actions) \cap OnGpu(gpu)
               B == Listed("stop", next.actions) \cap OnGpu(gpu)
    <2>1. gpu # NoGpu /\ ~ (Vram[s] + CommittedMb(plan.status, gpu) <= Capacity[gpu])
      BY <1>3 DEF Fits
    <2>2. Vram[s] \in Nat /\ Capacity[gpu] \in Nat
      BY <2>1, NumbersAssumption
    <2>3. /\ CommittedMb(plan.status, gpu) <= CommittedMb(next.status, gpu)
          /\ CommittedMb(plan.status, gpu) \in Nat /\ CommittedMb(next.status, gpu) \in Nat
      BY CommittedGrows DEF Later
    <2>4. ~Fits(next.status, s)
      BY <2>1, <2>2, <2>3 DEF Fits
    <2>5. A \in SUBSET B /\ B \in SUBSET Services
      BY DEF Later, Listed
    <2>6. VramOf(A) <= VramOf(B) /\ VramOf(A) \in Nat /\ VramOf(B) \in Nat
      <3> HIDE DEF A, B
      <3>1. A \in SUBSET Services
        BY <2>5
      <3>2. QED
        BY <2>5, <3>1, VramGrows, CellsFinite
    <2>7. CommittedMb(view.status, gpu) \in Nat
      BY CommittedGrows
    <2>8. \/ Idlers(view, demand, s) \subseteq A
          \/ Vram[s] + CommittedMb(view.status, gpu) <= Capacity[gpu] + VramOf(A)
      BY <1>3 DEF RoomMade
    <2> HIDE DEF A, B
    <2>9. \/ Idlers(view, demand, s) \subseteq B
          \/ Vram[s] + CommittedMb(view.status, gpu) <= Capacity[gpu] + VramOf(B)
      BY <2>2, <2>5, <2>6, <2>7, <2>8
    <2>10. RoomMade(view, demand, next.actions, s)
      BY <2>9 DEF RoomMade, B
    <2>11. QED
      BY <1>3, <2>4, <2>10 DEF NeedMet
  <1>4. QED
    BY <1>1, <1>2, <1>3 DEF NeedMet

(* One service more is started.                                             *)
LEMMA StartBooks ==
  ASSUME NEW view, NEW plan \in Plan, Booked(view, plan), NEW s \in Services, plan.status[s] = "stopped"
  PROVE  /\ Booked(view, WithStart(plan, s)) /\ Later(plan, WithStart(plan, s))
         /\ s \in Listed("start", WithStart(plan, s).actions)
  <1> DEFINE next == WithStart(plan, s)
  <1>1. /\ next.actions = Append(plan.actions, Act("start", s)) /\ next.leaving = plan.leaving
        /\ \A t \in Services : next.status[t] = IF t = s THEN "starting" ELSE plan.status[t]
    BY DEF Plan, WithStart
  <1>2. /\ Listed("start", next.actions) = Listed("start", plan.actions) \cup {s}
        /\ Listed("stop", next.actions) = Listed("stop", plan.actions)
    <2>1. plan.actions \in Seq(Action)
      BY DEF Plan
    <2>2. QED
      BY <1>1, <2>1, ListedAppends
  <1> HIDE DEF next
  <1>3. Booked(view, next) /\ s \in Listed("start", next.actions)
    BY <1>1, <1>2 DEF Booked
  <1>4. Later(plan, next)
    BY <1>1, <1>2 DEF Later, Holding
  <1>5. QED
    BY <1>3, <1>4 DEF next

(* Some more are stopped, and every one of them is on the list.             *)
LEMMA StopsBook ==
  ASSUME NEW view, NEW plan \in Plan, Booked(view, plan), NEW victims \in SUBSET Services
  PROVE  /\ Booked(view, WithStops(plan, victims)) /\ Later(plan, WithStops(plan, victims))
         /\ WithStops(plan, victims).status = plan.status
         /\ victims \subseteq Listed("stop", WithStops(plan, victims).actions)
  <1> DEFINE order == InOrder(victims, Sooner)
             list == Stops(order)
             next == WithStops(plan, victims)
  <1>1. IsFiniteSet(victims) /\ Orders(Sooner, victims)
    BY FiniteInventory, FS_Subset, PriorityOrders
  <1>2. order \in Seq(victims) /\ \A s \in victims : \E i \in 1 .. Len(order) : order[i] = s
    BY <1>1, InOrderSeq
  <1>3. /\ next.status = plan.status /\ next.actions = plan.actions \o list
        /\ next.leaving = plan.leaving \cup victims
    BY DEF Plan, WithStops
  <1> HIDE DEF order
  <1>4. list \in Seq(Action) /\ victims \subseteq Listed("stop", list)
    BY <1>2, StopsOfOrder
  <1> HIDE DEF list, next
  <1>5. /\ Listed("start", next.actions) = Listed("start", plan.actions) \cup Listed("start", list)
        /\ Listed("stop", next.actions) = Listed("stop", plan.actions) \cup Listed("stop", list)
    <2>1. plan.actions \in Seq(Action)
      BY DEF Plan
    <2>2. QED
      BY <1>3, <1>4, <2>1, ListedGrows
  <1>6. Booked(view, next)
    BY <1>3, <1>4, <1>5 DEF Booked
  <1>7. Later(plan, next) /\ victims \subseteq Listed("stop", next.actions)
    BY <1>3, <1>4, <1>5 DEF Later
  <1>8. QED
    BY <1>3, <1>6, <1>7 DEF next

LEMMA MeetMeets ==
  ASSUME NEW view \in View, NEW demand, NEW plan, PlanOK(view, demand, plan), Booked(view, plan),
         NEW providers \in SUBSET Services
  PROVE  LET next == Meet(view, demand, plan, providers)
         IN  Booked(view, next) /\ Later(plan, next) /\ NeedMet(view, demand, next, providers)
  <1> DEFINE startable == Startable(view, plan, providers)
             s == Candidate(view, startable)
             victims == Victims(view, demand, plan, s)
             next == Meet(view, demand, plan, providers)
  <1>0. /\ plan \in Plan
        /\ \A t \in Services : \/ plan.status[t] = view.status[t]
                               \/ view.status[t] = "stopped" /\ plan.status[t] = "starting"
    BY DEF PlanOK
  <1>1. startable = {t \in providers : plan.status[t] = "stopped" /\ view.manual[t] # "stop"}
    BY DEF Startable
  <1>2. CASE startable = {}
    <2>1. next = plan
      BY <1>2 DEF Meet
    <2>2. Later(plan, plan)
      BY DEF Later
    <2>3. \A t \in providers :
            \/ view.status[t] # "stopped" \/ view.manual[t] = "stop"
            \/ t \in Listed("start", plan.actions)
      BY <1>1, <1>2 DEF Booked
    <2>4. NeedMet(view, demand, plan, providers)
      BY <2>3 DEF NeedMet
    <2> HIDE DEF next
    <2>5. QED
      BY <2>1, <2>2, <2>4 DEF next
  <1>3. CASE startable # {}
    <2>1. s \in startable
      <3>1. startable \in SUBSET Services
        BY <1>1
      <3> HIDE DEF startable
      <3>2. QED
        BY <1>3, <3>1, CandidateStartable
    <2>2. /\ s \in providers /\ s \in Services
          /\ plan.status[s] = "stopped" /\ view.manual[s] # "stop"
      BY <1>1, <2>1
    <2>3. view.status[s] = "stopped"
      BY <1>0, <2>2
    <2>4. next = IF Fits(plan.status, s) THEN WithStart(plan, s) ELSE WithStops(plan, victims)
      BY <1>3 DEF Meet
    <2> HIDE DEF s, startable
    <2>5. CASE Fits(plan.status, s)
      <3>1. next = WithStart(plan, s)
        BY <2>4, <2>5
      <3> HIDE DEF next
      <3>2. Booked(view, next) /\ Later(plan, next) /\ s \in Listed("start", next.actions)
        BY <1>0, <2>2, <3>1, StartBooks
      <3>3. NeedMet(view, demand, next, providers)
        BY <2>2, <3>2 DEF NeedMet
      <3>4. QED
        BY <3>2, <3>3 DEF next
    <2>6. CASE ~Fits(plan.status, s)
      <3> DEFINE some == Evictable(view, demand, plan, s)
                 leaving == Listed("stop", next.actions) \cap OnGpu(GpuOf[s])
      <3>1. next = WithStops(plan, victims)
        BY <2>4, <2>6
      <3>2. victims \in SUBSET some /\ some \in SUBSET OnGpu(GpuOf[s]) /\ OnGpu(GpuOf[s]) \in SUBSET Services
        BY DEF Victims, Evictable, OnGpu
      <3>3. victims \in SUBSET Services
        BY <3>2
      <3>4. \/ victims = some
            \/ Vram[s] + CommittedMb(plan.status, GpuOf[s]) <= Capacity[GpuOf[s]] + VramOf(victims)
        <4>1. GpuOf[s] # NoGpu
          BY <2>6 DEF Fits
        <4>2. QED
          BY <2>2, <4>1, VictimsFree
      <3> HIDE DEF victims, next
      <3>5. /\ Booked(view, next) /\ Later(plan, next) /\ next.status = plan.status
            /\ victims \subseteq Listed("stop", next.actions)
        BY <1>0, <3>1, <3>3, StopsBook
      <3>6. RoomMade(view, demand, next.actions, s)
        <4>1. CASE victims = some
          <5>1. \A t \in Idlers(view, demand, s) :
                  /\ t \in OnGpu(GpuOf[s]) \ {s} /\ plan.status[t] = "running"
                  /\ ~IsWanted(view, demand, t) /\ view.idle[t] > IdleUnload[t]
            BY <1>0 DEF Idlers, OnGpu
          <5>2. \A t \in Idlers(view, demand, s) : t \in plan.leaving \/ t \in some
            BY <5>1 DEF Evictable
          <5>3. plan.leaving \subseteq Listed("stop", next.actions)
            BY <3>5 DEF Booked, Later
          <5> HIDE DEF some
          <5>4. Idlers(view, demand, s) \subseteq leaving
            BY <3>5, <4>1, <5>1, <5>2, <5>3
          <5>5. QED
            BY <5>4 DEF RoomMade
        <4>2. CASE Vram[s] + CommittedMb(plan.status, GpuOf[s]) <= Capacity[GpuOf[s]] + VramOf(victims)
          <5>1. \A t \in Services : view.status[t] \in Holding => plan.status[t] \in Holding
            BY <1>0 DEF Holding
          <5>2. /\ CommittedMb(view.status, GpuOf[s]) <= CommittedMb(plan.status, GpuOf[s])
                /\ CommittedMb(view.status, GpuOf[s]) \in Nat /\ CommittedMb(plan.status, GpuOf[s]) \in Nat
            BY <5>1, CommittedGrows
          <5>3. victims \in SUBSET leaving /\ leaving \in SUBSET Services
            BY <3>2, <3>5
          <5> HIDE DEF leaving
          <5>4. VramOf(victims) <= VramOf(leaving) /\ VramOf(victims) \in Nat /\ VramOf(leaving) \in Nat
            BY <3>3, <5>3, VramGrows, CellsFinite
          <5>5. Vram[s] \in Nat /\ Capacity[GpuOf[s]] \in Nat
            BY <2>2, <2>6, NumbersAssumption DEF Fits
          <5>6. Vram[s] + CommittedMb(view.status, GpuOf[s]) <= Capacity[GpuOf[s]] + VramOf(leaving)
            BY <4>2, <5>2, <5>4, <5>5
          <5>7. QED
            BY <5>6 DEF RoomMade, leaving
        <4>3. QED
          BY <3>4, <4>1, <4>2
      <3>7. NeedMet(view, demand, next, providers)
        BY <2>2, <2>3, <2>6, <3>5, <3>6 DEF NeedMet
      <3>8. QED
        BY <3>5, <3>7 DEF next
    <2>7. QED
      BY <2>5, <2>6
  <1>4. QED
    BY <1>2, <1>3

LEMMA FirstPlanBooked ==
  ASSUME NEW view \in View
  PROVE  Booked(view, FirstPlan(view))
  <1> DEFINE some == OperatorStops(view)
             list == InOrder(some, Earlier(ServiceOrder))
  <1>1. some \in SUBSET Services /\ IsFiniteSet(some)
    BY FiniteInventory, FS_Subset DEF OperatorStops
  <1>2. Orders(Earlier(ServiceOrder), some)
    BY <1>1, EarlierOrders, InventoryAssumption DEF Services
  <1>3. list \in Seq(some) /\ \A s \in some : \E i \in 1 .. Len(list) : list[i] = s
    BY <1>1, <1>2, InOrderSeq
  <1>4. FirstPlan(view) = [status |-> view.status, leaving |-> some, actions |-> Stops(list)]
    BY DEF FirstPlan
  <1> HIDE DEF some, list
  <1>5. some \subseteq Listed("stop", Stops(list))
    BY <1>1, <1>3, StopsOfOrder
  <1>6. QED
    BY <1>4, <1>5 DEF Booked

(* A plan passes over no need: for a kind that nobody covers, and for a      *)
(* service that somebody insists on, it starts a provider, unless none is    *)
(* down and allowed to start, or one does not fit on its card; then it stops *)
(* all that idle there or as many as make the room.                         *)
THEOREM NeedsServed ==
  ASSUME NEW view \in View, NEW demand
  PROVE  \E plan :
           /\ PlanOK(view, demand, plan) /\ PlanFleet(view, demand) = plan.actions
           /\ \A i \in 1 .. Len(Needs(view, demand)) : NeedMet(view, demand, plan, Needs(view, demand)[i])
  <1> DEFINE needs == Needs(view, demand)
             n == Len(needs)
             f == Plans(view, demand)
             T == {i \in 0 .. n : /\ PlanOK(view, demand, f[i]) /\ Booked(view, f[i])
                                  /\ \A j \in 1 .. i : NeedMet(view, demand, f[i], needs[j])}
  <1>1. n \in Nat /\ \A i \in 1 .. n : /\ needs[i] \in SUBSET Services
                                       /\ \A s \in needs[i] : IsWanted(view, demand, s)
    BY NeedsWanted
  <1>2. f = [i \in 0 .. n |-> IF i = 0 THEN FirstPlan(view) ELSE Meet(view, demand, f[i - 1], needs[i])]
    BY <1>1, PlansSteps DEF Steps
  <1>3. 0 \in T
    <2>1. 0 \in 0 .. n /\ 1 .. 0 = {}
      BY <1>1
    <2>2. f[0] = FirstPlan(view)
      BY <1>2, <2>1
    <2> HIDE DEF f, needs, n
    <2>3. QED
      BY <2>1, <2>2, FirstPlanOK, FirstPlanBooked
  <1>4. ASSUME NEW i \in 0 .. n - 1, i \in T
        PROVE  i + 1 \in T
    <2> DEFINE k == i + 1
    <2>1. k \in 0 .. n /\ k \in 1 .. n /\ k # 0 /\ k - 1 = i /\ \A j \in 1 .. k : j \in 1 .. i \/ j = k
      BY <1>1
    <2>2. f[k] = Meet(view, demand, f[k - 1], needs[k]) /\ f[k - 1] = f[i]
      BY <1>2, <2>1
    <2>3. f[k] = Meet(view, demand, f[i], needs[k])
      BY <2>2
    <2>4. /\ PlanOK(view, demand, f[i]) /\ Booked(view, f[i])
          /\ \A j \in 1 .. i : NeedMet(view, demand, f[i], needs[j])
      BY <1>4
    <2>5. \A j \in 1 .. i : j \in 1 .. n
      BY <1>1
    <2> HIDE DEF f, needs, n, k
    <2>6. PlanOK(view, demand, f[k])
      BY <1>1, <2>1, <2>3, <2>4, MeetOK
    <2>7. Booked(view, f[k]) /\ Later(f[i], f[k]) /\ NeedMet(view, demand, f[k], needs[k])
      BY <1>1, <2>1, <2>3, <2>4, MeetMeets
    <2>8. \A j \in 1 .. i : NeedMet(view, demand, f[k], needs[j])
      BY <1>1, <2>4, <2>5, <2>7, MetStays
    <2>9. k \in T
      BY <2>1, <2>6, <2>7, <2>8
    <2>10. QED
      BY <2>9 DEF k
  <1>5. n \in T
    <2> HIDE DEF T, f, needs, n
    <2>1. \A i \in 0 .. n - 1 : i \in T => i + 1 \in T
      BY <1>4
    <2>2. 0 .. n \subseteq T
      BY <1>1, <1>3, <2>1, Climb
    <2>3. QED
      BY <1>1, <2>2
  <1>6. PlanOK(view, demand, f[n]) /\ \A i \in 1 .. n : NeedMet(view, demand, f[n], needs[i])
    BY <1>5
  <1>7. PlanFleet(view, demand) = f[n].actions
    BY DEF PlanFleet
  <1>8. QED
    BY <1>6, <1>7

(* Whatever the controller sees and whoever wants what: a plan starts only   *)
(* services that are down, asked for and not stopped by the operator, and    *)
(* that fit beside all that is up or on its way; it stops only what the      *)
(* operator stopped or what is in the way of a service that is asked for.    *)
THEOREM PlanSound ==
  ASSUME NEW view \in View, NEW demand
  PROVE  \E plan : PlanOK(view, demand, plan) /\ PlanFleet(view, demand) = plan.actions
  BY NeedsServed

---------------------------------------------------------------------------
(* Types *)

LEMMA TypeInit == Init => TypeOK
  <1> SUFFICES ASSUME Init
               PROVE  TypeOK
    OBVIOUS
  <1>1. \A s \in Services : IdleUnload[s] \in Nat
    BY NumbersAssumption
  <1>2. 0 \in 0 .. StartTimeout + 1
    BY TimeoutAssumption
  <1>3. <<>> \in Seq(Services) /\ <<>> \in Seq(Action)
    BY EmptySeq
  <1>4. \A s \in Services : 0 <= IdleUnload[s] + 1
    BY <1>1
  <1>5. QED
    BY <1>2, <1>3, <1>4 DEF Init, TypeOK, Override, Endpoints, Status, NothingSeen

ViewNow == [status |-> status, healthy |-> healthy, manual |-> manual, idle |-> idle]

LEMMA Observed ==
  ASSUME TypeOK, NEW s \in Services, Observe(s)
  PROVE  TypeOK'
  <1>1. watch' \in Seq(Services)
    BY HeadTailProperties DEF Observe, TypeOK
  <1>2. manual' \in [Services -> Override]
    BY DEF Observe, TypeOK
  <1>3. idle' \in [Services -> Nat] /\ \A t \in Services : idle'[t] <= IdleUnload[t] + 1
    <2> DEFINE wanted == seen.override[s] = "start" \/ Wanted(s, seen.wants)
               now == IF wanted THEN 0 ELSE IF idle[s] > IdleUnload[s] THEN idle[s] ELSE idle[s] + 1
    <2>1. idle' = [idle EXCEPT ![s] = now]
      BY DEF Observe
    <2>2. IdleUnload[s] \in Nat /\ idle[s] \in Nat /\ idle[s] <= IdleUnload[s] + 1
      BY NumbersAssumption DEF TypeOK
    <2>3. now \in Nat /\ now <= IdleUnload[s] + 1
      BY <2>2
    <2> HIDE DEF now
    <2>4. QED
      BY <2>1, <2>3 DEF TypeOK
  <1>4. StatusWhenUp(s, s \in ready) \in Status /\ StatusWhenDown(s) \in Status
    BY DEF TypeOK, StatusWhenUp, StatusWhenDown, Status
  <1>5. status' \in [Services -> Status] /\ healthy' \subseteq Services /\ doubted' \subseteq Services
    <2>1. \/ \E new \in Status : status' = [status EXCEPT ![s] = new]
          \/ status' = status
      BY <1>4 DEF Observe
    <2>2. healthy' \subseteq healthy \cup {s} /\ doubted' \subseteq doubted \cup {s}
      BY DEF Observe
    <2>3. status \in [Services -> Status] /\ healthy \subseteq Services /\ doubted \subseteq Services
      BY DEF TypeOK
    <2>4. status' \in [Services -> Status]
      BY <2>1, <2>3
    <2>5. QED
      BY <2>2, <2>3, <2>4
  <1>6. age' \in [Services -> 0 .. StartTimeout + 1]
    BY TimeoutAssumption DEF Observe, TypeOK
  <1>7. spent' \in [Budget -> Nat]
    BY DEF Observe, Fault, Spend, TypeOK, Budget
  <1>8. QED
    BY <1>1, <1>2, <1>3, <1>5, <1>6, <1>7 DEF Observe, TypeOK, worldVars

LEMMA ViewTyped ==
  ASSUME TypeOK
  PROVE  ViewNow \in View
  BY DEF TypeOK, ViewNow, View

LEMMA NextTyped ==
  ASSUME TypeOK, [Next]_vars
  PROVE  TypeOK'
  <1> USE DEF worldVars, viewVars, loopVars
  <1>0. NothingSeen \in [wants : SUBSET KindSet, override : [Services -> Override]]
    BY DEF NothingSeen, Override
  <1>s. ASSUME NEW b \in Budget, NEW bound, Spend(b, bound)
        PROVE  spent' \in [Budget -> Nat]
    BY <1>s DEF Spend, TypeOK
  <1>f. ASSUME Fault
        PROVE  spent' \in [Budget -> Nat]
    BY <1>f, <1>s DEF Fault, Budget
  <1>1. CASE TickStart
    <2>1. age' \in [Services -> 0 .. StartTimeout + 1]
      BY <1>1, TimeoutAssumption DEF TickStart, TypeOK
    <2>2. watch' \in Seq(Services)
      BY <1>1, InventoryAssumption DEF TickStart
    <2>3. QED
      BY <1>1, <2>1, <2>2 DEF TickStart, TypeOK
  <1>2. CASE \E s \in Services : Observe(s)
    BY <1>2, Observed
  <1>3. CASE Decide
    <2>1. PICK plan : PlanOK(ViewNow, seen.wants, plan) /\ PlanFleet(ViewNow, seen.wants) = plan.actions
      BY ViewTyped, PlanSound
    <2>2. plan.actions \in Seq(Action)
      BY <2>1 DEF PlanOK, Plan
    <2>3. todo' = PlanFleet(ViewNow, seen.wants)
      BY <1>3 DEF Decide, ViewNow
    <2>4. todo' \in Seq(Action)
      BY <2>1, <2>2, <2>3
    <2>5. QED
      BY <1>3, <2>4 DEF Decide, TypeOK
  <1>4. ASSUME NEW s \in Services, StartService(s) \/ StartThrows(s) \/ StopService(s) \/ StopThrows(s)
        PROVE  TypeOK'
    <2>1. todo' \in Seq(Action)
      <3>1. todo \in Seq(Action) /\ todo # <<>> /\ todo' = Tail(todo)
        BY <1>4 DEF StartService, StartThrows, StopService, StopThrows, Next1, TypeOK
      <3>2. QED
        BY <3>1, HeadTailProperties
    <2>2. spent' \in [Budget -> Nat]
      BY <1>4, <1>f DEF StartService, StartThrows, StopService, StopThrows, TypeOK
    <2>3. age' \in [Services -> 0 .. StartTimeout + 1] /\ status' \in [Services -> Status]
      <3>1. age' \in {age, [age EXCEPT ![s] = 0]}
        BY <1>4 DEF StartService, StartThrows, StopService, StopThrows
      <3>2. \E new \in Status : status' \in {status, [status EXCEPT ![s] = new]}
        BY <1>4 DEF StartService, StartThrows, StopService, StopThrows, Status
      <3>3. age \in [Services -> 0 .. StartTimeout + 1] /\ status \in [Services -> Status]
        BY DEF TypeOK
      <3>4. 0 \in 0 .. StartTimeout + 1
        BY TimeoutAssumption
      <3>5. QED
        BY <3>1, <3>2, <3>3, <3>4
    <2>4. /\ up' \subseteq Services /\ ready' \subseteq up' /\ leftover' \subseteq Composite \ up'
          /\ healthy' \subseteq Services /\ doubted' \subseteq Services
      BY <1>4 DEF StartService, StartThrows, StopService, StopThrows, TypeOK, Whole, Gone, Halved, Untouched
    <2>5. UNCHANGED executeKeeps
      BY <1>4 DEF StartService, StartThrows, StopService, StopThrows
    <2>6. QED
      BY <2>1, <2>2, <2>3, <2>4, <2>5 DEF TypeOK, executeKeeps
  <1>5. CASE SyncSkip
    BY <1>0, <1>5 DEF SyncSkip, TypeOK
  <1>6. CASE SyncRead
    BY <1>6 DEF SyncRead, TypeOK, Endpoints
  <1>7. CASE SyncWrite
    <2>1. Managed \subseteq Services
      BY DEF Managed, TypeOK
    <2>2. rows' \in Endpoints
      BY <1>7, <2>1 DEF SyncWrite, TypeOK, Endpoints
    <2>3. written' \subseteq SUBSET Services
      BY <1>7, <2>1 DEF SyncWrite
    <2>4. QED
      BY <1>0, <1>7, <2>2, <2>3 DEF SyncWrite, TypeOK
  <1>8. CASE SyncFails
    BY <1>0, <1>8, <1>f DEF SyncFails, TypeOK
  <1>9. CASE Restart
    <2>1. <<>> \in Seq(Services) /\ <<>> \in Seq(Action)
      BY EmptySeq
    <2>2. \A s \in Services : 0 <= IdleUnload[s] + 1
      BY NumbersAssumption
    <2>3. 0 \in 0 .. StartTimeout + 1
      BY TimeoutAssumption
    <2>4. QED
      BY <1>0, <1>9, <1>f, <2>1, <2>2, <2>3 DEF Restart, TypeOK, Override, Status
  <1>10. CASE DemandChanges
    BY <1>10 DEF DemandChanges, worldKeeps, TypeOK
  <1>11. ASSUME NEW s \in Services, OverrideChanges(s)
         PROVE  TypeOK'
    <2>1. spent' \in [Budget -> Nat]
      BY <1>11, <1>s DEF OverrideChanges, Budget
    <2>2. QED
      BY <1>11, <2>1 DEF OverrideChanges, worldKeeps, TypeOK
  <1>12. ASSUME NEW s \in Services, Serve(s)
         PROVE  TypeOK'
    BY <1>12 DEF Serve, worldKeeps, TypeOK
  <1>13. ASSUME NEW s \in Services, Break(s)
         PROVE  TypeOK'
    <2>1. ready' \subseteq up' /\ up' \subseteq Services /\ leftover' \subseteq Composite \ up'
      BY <1>13 DEF Break, TypeOK, Whole, Gone, Halved, Untouched
    <2>2. QED
      BY <1>13, <1>f, <2>1 DEF Break, worldKeeps, TypeOK
  <1>14. CASE PageOpen
    BY <1>14 DEF PageOpen, worldKeeps, TypeOK
  <1>15. CASE PageSave
    <2>1. spent' \in [Budget -> Nat]
      BY <1>15, <1>s DEF PageSave, Budget
    <2>2. rows' \in Endpoints
      BY <1>15 DEF PageSave, TypeOK, Endpoints
    <2>3. QED
      BY <1>15, <2>1, <2>2 DEF PageSave, worldKeeps, TypeOK
  <1>16. CASE UNCHANGED vars
    BY <1>16 DEF vars, TypeOK
  <1>17. QED
    BY <1>1, <1>2, <1>3, <1>4, <1>5, <1>6, <1>7, <1>8, <1>9, <1>10, <1>11, <1>12, <1>13, <1>14, <1>15, <1>16
       DEF Next, TickNext

(* Every variable of the controller and its world keeps its type; that the   *)
(* actions a plan asks for are actions rests on PlanSound.                   *)
THEOREM FleetTypes == Spec => []TypeOK
  BY TypeInit, NextTyped, PTL DEF Spec

---------------------------------------------------------------------------
(* What runs fits *)

Pending(type) == Listed(type, todo)
(* What a GPU holds by the controller's books, its starts to come included.  *)
Held(gpu) == {s \in OnGpu(gpu) : status[s] \in Holding \/ s \in Pending("start")}
Settled(s) == status[s] \in Holding \/ s \in doubted

FailuresDoubted == \A s \in Services : status[s] = "failed" => s \in doubted
(* Whatever runs is on the books once it has been observed: either it is     *)
(* held, or something went wrong with it.                                    *)
UpSeen     == at = "observe" => \A s \in up : Settled(s) \/ \E i \in 1 .. Len(watch) : watch[i] = s
UpSettled  == at = "execute" => \A s \in up : Settled(s)
(* The books stay within the card until the list is done.                    *)
StartsFit  ==
  at = "execute" =>
    \A s \in Pending("start") : GpuOf[s] # NoGpu => VramOf(Held(GpuOf[s])) <= Capacity[GpuOf[s]]
(* What is to be stopped is held, and nobody starts it meanwhile.            *)
StopsHeld  == at = "execute" => \A s \in Pending("stop") : status[s] \in Holding /\ s \notin Pending("start")
(* What is whole fits: engines that are left over are on nobody's books.     *)
UpLoad(gpu) == VramOf(up \cap OnGpu(gpu))
UpFits      == \A gpu \in DOMAIN Capacity : UpLoad(gpu) <= Capacity[gpu] \/ doubted \cap OnGpu(gpu) # {}
FitInv == TypeOK /\ FailuresDoubted /\ UpSeen /\ UpSettled /\ StartsFit /\ StopsHeld /\ UpFits

LEMMA ListHead ==
  ASSUME NEW list \in Seq(Action), list # <<>>, NEW type, NEW s \in Services
  PROVE  /\ Head(list) = Act(type, s) => s \in Listed(type, list)
         /\ Listed(type, Tail(list)) \subseteq Listed(type, list)
         /\ Tail(list) \in Seq(Action)
  <1>1. /\ Len(list) \in Nat /\ Len(list) # 0 /\ Head(list) = list[1]
        /\ Tail(list) \in Seq(Action) /\ Len(Tail(list)) = Len(list) - 1
        /\ \A i \in 1 .. Len(Tail(list)) : Tail(list)[i] = list[i + 1]
    BY HeadTailProperties, LenProperties, EmptySeq
  <1>2. ASSUME NEW t \in Listed(type, Tail(list))
        PROVE  t \in Listed(type, list)
    <2>1. PICK i \in 1 .. Len(Tail(list)) : Tail(list)[i] = Act(type, t)
      BY DEF Listed
    <2>2. i + 1 \in 1 .. Len(list) /\ list[i + 1] = Act(type, t)
      BY <1>1, <2>1
    <2>3. QED
      BY <2>2 DEF Listed
  <1>3. Head(list) = Act(type, s) => s \in Listed(type, list)
    <2>1. 1 \in 1 .. Len(list)
      BY <1>1
    <2>2. QED
      BY <1>1, <2>1 DEF Listed
  <1>4. QED
    BY <1>1, <1>2, <1>3

LEMMA FitInit == Init => FitInv
  <1> SUFFICES ASSUME Init
               PROVE  FitInv
    OBVIOUS
  <1>1. TypeOK
    BY TypeInit
  <1>2. UpFits
    <2> SUFFICES ASSUME NEW gpu \in DOMAIN Capacity
                 PROVE  UpLoad(gpu) <= Capacity[gpu]
      BY DEF UpFits
    <2>1. UpLoad(gpu) = VramOf({})
      BY DEF UpLoad, Init
    <2>2. UNION {{s} \X (1 .. Vram[s]) : s \in {}} = {}
      OBVIOUS
    <2>3. VramOf({}) = 0
      BY <2>2, FS_EmptySet DEF VramOf
    <2>4. QED
      BY <2>1, <2>3, NumbersAssumption
  <1>3. QED
    BY <1>1, <1>2 DEF Init, FitInv, FailuresDoubted, UpSeen, UpSettled, StartsFit, StopsHeld

(* Nothing new runs: what fitted fits.                                       *)
LEMMA FitsStay ==
  ASSUME TypeOK, UpFits, up' \subseteq up, doubted \subseteq doubted'
  PROVE  UpFits'
  <1> SUFFICES ASSUME NEW gpu \in DOMAIN Capacity, doubted' \cap OnGpu(gpu) = {}
               PROVE  UpLoad(gpu)' <= Capacity[gpu]
    BY DEF UpFits
  <1>1. up \cap OnGpu(gpu) \in SUBSET Services /\ up' \cap OnGpu(gpu) \in SUBSET (up \cap OnGpu(gpu))
    BY DEF OnGpu
  <1>2. VramOf(up' \cap OnGpu(gpu)) <= VramOf(up \cap OnGpu(gpu))
    BY <1>1, VramGrows
  <1>3. VramOf(up' \cap OnGpu(gpu)) \in Nat /\ VramOf(up \cap OnGpu(gpu)) \in Nat /\ Capacity[gpu] \in Nat
    BY <1>1, CellsFinite, NumbersAssumption
  <1>4. UpLoad(gpu) <= Capacity[gpu]
    BY DEF UpFits
  <1>5. QED
    BY <1>2, <1>3, <1>4 DEF UpLoad

(* An action on service s, of a list that fits: the books only shrink.       *)
LEMMA BooksStay ==
  ASSUME FitInv, at = "execute", NEW s \in Services,
         todo # <<>>, todo' = Tail(todo),
         \A t \in Services \ {s} : status'[t] = status[t],
         status'[s] \in Holding => s \in Pending("start") \/ status[s] \in Holding
  PROVE  StartsFit'
  <1>1. Listed("start", todo') \subseteq Listed("start", todo)
    BY ListHead DEF FitInv, TypeOK
  <1> SUFFICES ASSUME NEW t \in Listed("start", todo'), GpuOf[t] # NoGpu
               PROVE  VramOf(Held(GpuOf[t])') <= Capacity[GpuOf[t]]
    BY DEF StartsFit, Pending
  <1>2. t \in Services /\ Held(GpuOf[t]) \in SUBSET Services
    BY DEF Listed, Held, OnGpu
  <1>3. Held(GpuOf[t])' \in SUBSET Held(GpuOf[t])
    BY <1>1 DEF Held, Pending, OnGpu
  <1>4. VramOf(Held(GpuOf[t])') <= VramOf(Held(GpuOf[t]))
    BY <1>2, <1>3, VramGrows
  <1>5. VramOf(Held(GpuOf[t])') \in Nat /\ VramOf(Held(GpuOf[t])) \in Nat /\ Capacity[GpuOf[t]] \in Nat
    BY <1>2, <1>3, CellsFinite, NumbersAssumption
  <1>6. VramOf(Held(GpuOf[t])) <= Capacity[GpuOf[t]]
    BY <1>1 DEF FitInv, StartsFit, Pending
  <1>7. QED
    BY <1>4, <1>5, <1>6

(* A start that was pending adds nothing that is not on the books.           *)
LEMMA StartFits ==
  ASSUME FitInv, at = "execute", NEW s \in Pending("start"),
         up' \subseteq up \cup {s}, doubted \subseteq doubted'
  PROVE  UpFits'
  <1> SUFFICES ASSUME NEW gpu \in DOMAIN Capacity, doubted' \cap OnGpu(gpu) = {}
               PROVE  UpLoad(gpu)' <= Capacity[gpu]
    BY DEF UpFits
  <1>1. CASE s \in OnGpu(gpu)
    <2>1. GpuOf[s] = gpu /\ gpu # NoGpu
      BY <1>1, NumbersAssumption DEF OnGpu
    <2>2. VramOf(Held(gpu)) <= Capacity[gpu]
      BY <2>1 DEF FitInv, StartsFit
    <2>3. up' \cap OnGpu(gpu) \in SUBSET Held(gpu) /\ Held(gpu) \in SUBSET Services
      BY DEF FitInv, UpSettled, Settled, Held, OnGpu
    <2>4. VramOf(up' \cap OnGpu(gpu)) <= VramOf(Held(gpu))
      BY <2>3, VramGrows
    <2>5. VramOf(up' \cap OnGpu(gpu)) \in Nat /\ VramOf(Held(gpu)) \in Nat /\ Capacity[gpu] \in Nat
      BY <2>3, CellsFinite, NumbersAssumption
    <2>6. QED
      BY <2>2, <2>4, <2>5 DEF UpLoad
  <1>2. CASE s \notin OnGpu(gpu)
    <2>1. up \cap OnGpu(gpu) \in SUBSET Services /\ up' \cap OnGpu(gpu) \in SUBSET (up \cap OnGpu(gpu))
      BY <1>2 DEF OnGpu
    <2>2. VramOf(up' \cap OnGpu(gpu)) <= VramOf(up \cap OnGpu(gpu))
      BY <2>1, VramGrows
    <2>3. VramOf(up' \cap OnGpu(gpu)) \in Nat /\ VramOf(up \cap OnGpu(gpu)) \in Nat /\ Capacity[gpu] \in Nat
      BY <2>1, CellsFinite, NumbersAssumption
    <2>4. UpLoad(gpu) <= Capacity[gpu]
      BY DEF FitInv, UpFits
    <2>5. QED
      BY <2>2, <2>3, <2>4 DEF UpLoad
  <1>3. QED
    BY <1>1, <1>2

LEMMA ObserveFits ==
  ASSUME FitInv, NEW s \in Services, Observe(s)
  PROVE  FitInv'
  <1>1. TypeOK'
    BY Observed DEF FitInv
  <1>2. /\ doubted \subseteq doubted' /\ up' = up /\ at = "observe" /\ at' = "observe"
        /\ s = Head(watch) /\ watch # <<>> /\ watch' = Tail(watch)
    BY DEF Observe, worldVars
  <1>3. /\ \A t \in Services \ {s} : status'[t] = status[t]
        /\ status'[s] = "failed" => s \in doubted'
        /\ s \in up => status'[s] \in Holding \/ s \in doubted'
    <2>1. CASE s \in up /\ status' = [status EXCEPT ![s] = StatusWhenUp(s, s \in ready)]
               /\ doubted' = IF StatusWhenUp(s, s \in ready) = "failed" THEN doubted \cup {s} ELSE doubted
      <3>1. status'[s] = StatusWhenUp(s, s \in ready) /\ \A t \in Services \ {s} : status'[t] = status[t]
        BY <2>1 DEF FitInv, TypeOK
      <3>2. StatusWhenUp(s, s \in ready) \in Holding \cup {"failed"} \/ status[s] = "failed"
        BY DEF StatusWhenUp, Holding
      <3>3. status[s] = "failed" => s \in doubted
        BY DEF FitInv, FailuresDoubted
      <3>4. QED
        BY <2>1, <3>1, <3>2, <3>3
    <2>2. CASE s \notin up /\ status' = [status EXCEPT ![s] = StatusWhenDown(s)]
               /\ doubted' = IF StatusWhenDown(s) = "failed" THEN doubted \cup {s} ELSE doubted
      <3>1. status'[s] = StatusWhenDown(s) /\ \A t \in Services \ {s} : status'[t] = status[t]
        BY <2>2 DEF FitInv, TypeOK
      <3>2. QED
        BY <2>2, <3>1
    <2>3. CASE status' = status /\ doubted' = doubted \cup {s}
      BY <2>3
    <2>4. QED
      BY <2>1, <2>2, <2>3 DEF Observe
  <1>4. FailuresDoubted'
    BY <1>2, <1>3 DEF FitInv, FailuresDoubted
  <1>5. UpSeen'
    <2> SUFFICES ASSUME NEW t \in up, ~Settled(t)'
                 PROVE  \E i \in 1 .. Len(watch') : watch'[i] = t
      BY <1>2 DEF UpSeen
    <2>1. t \in Services /\ t # s
      BY <1>3 DEF FitInv, TypeOK, Settled
    <2>2. PICK i \in 1 .. Len(watch) : watch[i] = t
      BY <1>2, <1>3, <2>1 DEF FitInv, UpSeen, Settled
    <2>3. /\ Len(watch) \in Nat /\ Len(watch') = Len(watch) - 1 /\ watch[1] = s
          /\ \A j \in 1 .. Len(watch') : watch'[j] = watch[j + 1]
      BY <1>2, HeadTailProperties, LenProperties DEF FitInv, TypeOK
    <2>4. i - 1 \in 1 .. Len(watch')
      BY <2>1, <2>2, <2>3
    <2>5. watch'[i - 1] = watch[i]
      BY <2>3, <2>4
    <2>6. QED
      BY <2>2, <2>4, <2>5
  <1>6. UpFits'
    BY <1>2, FitsStay DEF FitInv
  <1>7. QED
    BY <1>1, <1>2, <1>4, <1>5, <1>6 DEF FitInv, UpSettled, StartsFit, StopsHeld

(* What the plan promised about the view it was made from holds of the list. *)
LEMMA DecideFits ==
  ASSUME FitInv, Decide
  PROVE  FitInv'
  <1>1. TypeOK'
    BY NextTyped DEF FitInv, Next, TickNext
  <1>2. PICK plan : PlanOK(ViewNow, seen.wants, plan) /\ PlanFleet(ViewNow, seen.wants) = plan.actions
    BY ViewTyped, PlanSound DEF FitInv
  <1>3. /\ todo' = plan.actions /\ at = "observe" /\ at' = "execute" /\ watch = <<>>
        /\ up' = up /\ status' = status /\ doubted' = doubted
    BY <1>2 DEF Decide, ViewNow, worldVars, viewVars
  <1>4. ViewNow.status = status
    BY DEF ViewNow
  <1>5. StartsFit'
    <2> SUFFICES ASSUME NEW s \in Listed("start", plan.actions), GpuOf[s] # NoGpu
                 PROVE  VramOf(Held(GpuOf[s])') <= Capacity[GpuOf[s]]
      BY <1>3 DEF StartsFit, Pending
    <2> DEFINE gpu == GpuOf[s]
               booked == {t \in OnGpu(gpu) : plan.status[t] \in Holding}
    <2>1. s \in Services
      BY DEF Listed
    <2>2. VramOf(booked) <= Capacity[gpu]
      BY <1>2 DEF PlanOK, CommittedMb
    <2>3. booked \in SUBSET Services /\ Held(gpu)' \in SUBSET booked
      <3>1. booked \in SUBSET Services /\ Held(gpu)' \subseteq OnGpu(gpu) /\ OnGpu(gpu) \subseteq Services
        BY DEF Held, OnGpu
      <3>2. ASSUME NEW t \in Held(gpu)'
            PROVE  plan.status[t] \in Holding
        <4>1. t \in Services /\ (status[t] \in Holding \/ t \in Listed("start", plan.actions))
          BY <1>3, <3>1 DEF Held, Pending
        <4>2. t \in Listed("start", plan.actions) => plan.status[t] = "starting"
          BY <1>2 DEF PlanOK
        <4>3. plan.status[t] = status[t] \/ plan.status[t] = "starting"
          BY <1>2, <1>4, <4>1 DEF PlanOK
        <4>4. QED
          BY <4>1, <4>2, <4>3 DEF Holding
      <3>3. QED
        BY <3>1, <3>2
    <2>4. gpu \in DOMAIN Capacity
      BY <2>1, NumbersAssumption
    <2> HIDE DEF gpu, booked
    <2>5. VramOf(Held(gpu)') <= VramOf(booked)
      BY <2>3, VramGrows
    <2>6. VramOf(Held(gpu)') \in Nat /\ VramOf(booked) \in Nat /\ Capacity[gpu] \in Nat
      <3>1. Held(gpu)' \in SUBSET Services
        BY <2>3
      <3>2. QED
        BY <2>3, <2>4, <3>1, CellsFinite, NumbersAssumption
    <2>7. QED
      BY <2>2, <2>5, <2>6 DEF gpu
  <1>6. StopsHeld'
    <2> SUFFICES ASSUME NEW s \in Listed("stop", plan.actions)
                 PROVE  status[s] \in Holding /\ s \notin Listed("start", plan.actions)
      BY <1>3 DEF StopsHeld, Pending
    <2>1. status[s] \in {"running", "starting"}
      BY <1>2, <1>4 DEF PlanOK
    <2>2. s \in Listed("start", plan.actions) => status[s] = "stopped"
      BY <1>2, <1>4 DEF PlanOK
    <2>3. QED
      BY <2>1, <2>2 DEF Holding
  <1>7. UpSettled'
    BY <1>3 DEF FitInv, UpSeen, UpSettled, Settled
  <1>8. UpFits'
    BY <1>3, FitsStay DEF FitInv
  <1>9. QED
    BY <1>1, <1>3, <1>5, <1>6, <1>7, <1>8 DEF FitInv, FailuresDoubted, UpSeen

LEMMA ExecuteFits ==
  ASSUME FitInv, NEW s \in Services, StartService(s) \/ StartThrows(s) \/ StopService(s) \/ StopThrows(s)
  PROVE  FitInv'
  <1>1. TypeOK'
    BY NextTyped DEF FitInv, Next, TickNext
  <1>2. /\ at = "execute" /\ at' = "execute" /\ todo # <<>> /\ todo' = Tail(todo) /\ todo \in Seq(Action)
        /\ doubted \subseteq doubted'
        /\ \A t \in Services \ {s} : status'[t] = status[t]
    BY DEF FitInv, TypeOK, StartService, StartThrows, StopService, StopThrows, Next1, executeKeeps
  <1>3. \A type : Listed(type, todo') \subseteq Listed(type, todo)
    BY <1>2, ListHead
  <1>4. ASSUME NEW new, status' = [status EXCEPT ![s] = new]
        PROVE  status'[s] = new
    BY <1>4 DEF FitInv, TypeOK
  <1>5. CASE StartService(s)
    <2>1. /\ s \in Pending("start") /\ up' = up \cup {s} /\ doubted' = doubted /\ status'[s] = "starting"
      <3>1. s \in Pending("start")
        BY <1>2, <1>5, ListHead DEF StartService, Next1, Pending
      <3>2. QED
        BY <1>4, <1>5, <3>1 DEF StartService, Whole
    <2>2. StopsHeld'
      BY <1>2, <1>3, <2>1 DEF FitInv, StopsHeld, Pending, Listed, Holding
    <2>3. StartsFit'
      BY <1>2, <2>1, BooksStay
    <2>4. UpFits'
      BY <1>2, <2>1, StartFits
    <2>5. UpSettled' /\ FailuresDoubted'
      BY <1>2, <2>1 DEF FitInv, TypeOK, UpSettled, FailuresDoubted, Settled, Holding
    <2>6. QED
      BY <1>1, <1>2, <2>2, <2>3, <2>4, <2>5 DEF FitInv, UpSeen
  <1>6. CASE StartThrows(s)
    <2>1. /\ s \in Pending("start") /\ up' \subseteq up \cup {s} /\ doubted' = doubted \cup {s}
          /\ status'[s] = "failed"
      <3>1. s \in Pending("start")
        BY <1>2, <1>6, ListHead DEF StartThrows, Next1, Pending
      <3>2. QED
        BY <1>4, <1>6, <3>1 DEF StartThrows, Whole, Halved, Untouched
    <2>2. StopsHeld'
      BY <1>2, <1>3, <2>1 DEF FitInv, StopsHeld, Pending, Listed
    <2>3. StartsFit'
      BY <1>2, <2>1, BooksStay DEF Holding
    <2>4. UpFits'
      BY <1>2, <2>1, StartFits
    <2>5. UpSettled' /\ FailuresDoubted'
      BY <1>2, <2>1 DEF FitInv, TypeOK, UpSettled, FailuresDoubted, Settled
    <2>6. QED
      BY <1>1, <1>2, <2>2, <2>3, <2>4, <2>5 DEF FitInv, UpSeen
  <1>7. CASE StopService(s)
    <2>1. /\ s \in Pending("stop") /\ up' = up \ {s} /\ doubted' = doubted /\ status'[s] = "stopping"
      <3>1. s \in Pending("stop")
        BY <1>2, <1>7, ListHead DEF StopService, Next1, Pending
      <3>2. QED
        BY <1>4, <1>7, <3>1 DEF StopService, Gone
    <2>2. StopsHeld'
      BY <1>2, <1>3, <2>1 DEF FitInv, StopsHeld, Pending, Listed, Holding
    <2>3. StartsFit'
      BY <1>2, <2>1, BooksStay DEF FitInv, StopsHeld
    <2>4. UpFits'
      BY <2>1, FitsStay DEF FitInv
    <2>5. UpSettled' /\ FailuresDoubted'
      BY <1>2, <2>1 DEF FitInv, TypeOK, UpSettled, FailuresDoubted, Settled
    <2>6. QED
      BY <1>1, <1>2, <2>2, <2>3, <2>4, <2>5 DEF FitInv, UpSeen
  <1>8. CASE StopThrows(s)
    <2>1. up' \subseteq up /\ doubted' = doubted /\ status' = status
      BY <1>8 DEF StopThrows, Gone, Halved, Untouched
    <2>2. StopsHeld'
      BY <1>2, <1>3, <2>1 DEF FitInv, StopsHeld, Pending
    <2>3. StartsFit'
      BY <1>2, <2>1, BooksStay
    <2>4. UpFits'
      BY <2>1, FitsStay DEF FitInv
    <2>5. UpSettled' /\ FailuresDoubted'
      BY <1>2, <2>1 DEF FitInv, TypeOK, UpSettled, FailuresDoubted, Settled
    <2>6. QED
      BY <1>1, <1>2, <2>2, <2>3, <2>4, <2>5 DEF FitInv, UpSeen
  <1>9. QED
    BY <1>5, <1>6, <1>7, <1>8

LEMMA FitNext ==
  ASSUME FitInv, [Next]_vars
  PROVE  FitInv'
  <1> USE DEF worldVars, viewVars, loopVars
  <1>1. TypeOK'
    BY NextTyped DEF FitInv
  (* Steps that leave the books, the list and the step of the tick alone.    *)
  <1>2. ASSUME up' \subseteq up, UNCHANGED <<status, doubted, at, watch, todo>>
        PROVE  FitInv'
    <2>1. UpFits'
      BY <1>2, FitsStay DEF FitInv
    <2>2. FailuresDoubted' /\ UpSeen' /\ UpSettled'
      BY <1>2 DEF FitInv, FailuresDoubted, UpSeen, UpSettled, Settled
    <2>3. StartsFit' /\ StopsHeld'
      BY <1>2 DEF FitInv, StartsFit, StopsHeld, Held, Pending
    <2>4. QED
      BY <1>1, <2>1, <2>2, <2>3 DEF FitInv
  (* Steps out of a tick, or to its write.                                   *)
  <1>3. ASSUME up' = up, UNCHANGED doubted, at' \in {"idle", "write"},
               \A s \in Services : status'[s] \in {status[s], "stopped"}
        PROVE  FitInv'
    <2>1. UpFits'
      BY <1>3, FitsStay DEF FitInv
    <2>2. FailuresDoubted'
      BY <1>3 DEF FitInv, FailuresDoubted
    <2>3. QED
      BY <1>1, <1>3, <2>1, <2>2 DEF FitInv, UpSeen, UpSettled, StartsFit, StopsHeld
  <1>4. CASE TickStart
    <2>1. at' = "observe" /\ watch' = ServiceOrder /\ UNCHANGED <<up, status, doubted>>
      BY <1>4 DEF TickStart
    <2>2. UpFits' /\ FailuresDoubted'
      BY <2>1, FitsStay DEF FitInv, FailuresDoubted
    <2>3. \A s \in Services : \E i \in 1 .. Len(ServiceOrder) : ServiceOrder[i] = s
      <3> TAKE s \in Services
      <3>1. DOMAIN ServiceOrder = 1 .. Len(ServiceOrder)
        BY InventoryAssumption, LenProperties
      <3>2. QED
        BY <3>1 DEF Services, Range
    <2>4. UpSeen'
      BY <2>1, <2>3 DEF UpSeen, FitInv, TypeOK
    <2>5. QED
      BY <1>1, <2>1, <2>2, <2>4 DEF FitInv, UpSettled, StartsFit, StopsHeld
  <1>5. CASE \E s \in Services : Observe(s)
    BY <1>5, ObserveFits
  <1>6. CASE Decide
    BY <1>6, DecideFits
  <1>7. CASE \E s \in Services : StartService(s) \/ StartThrows(s) \/ StopService(s) \/ StopThrows(s)
    BY <1>7, ExecuteFits
  <1>8. CASE SyncSkip \/ SyncRead \/ SyncWrite \/ SyncFails
    BY <1>3, <1>8 DEF SyncSkip, SyncRead, SyncWrite, SyncFails
  <1>9. CASE Restart
    BY <1>3, <1>9 DEF Restart
  <1>10. CASE DemandChanges \/ PageOpen \/ PageSave
    BY <1>2, <1>10 DEF DemandChanges, PageOpen, PageSave, worldKeeps
  <1>11. CASE \E s \in Services : OverrideChanges(s) \/ Serve(s) \/ Break(s)
    BY <1>2, <1>11 DEF OverrideChanges, Serve, Break, Gone, Halved, Untouched, worldKeeps
  <1>12. CASE UNCHANGED vars
    BY <1>2, <1>12 DEF vars
  <1>13. QED
    BY <1>4, <1>5, <1>6, <1>7, <1>8, <1>9, <1>10, <1>11, <1>12 DEF Next, TickNext

(* Left-over engines add what they hold, and no more. *)
LEMMA LoadParts ==
  ASSUME TypeOK, NEW gpu \in DOMAIN Capacity
  PROVE  Load(gpu) <= UpLoad(gpu) + Residue(gpu) /\ Load(gpu) \in Nat /\ UpLoad(gpu) \in Nat /\ Residue(gpu) \in Nat
  <1> DEFINE whole == up \cap OnGpu(gpu)
             half  == leftover \cap OnGpu(gpu)
  <1>1. whole \in SUBSET Services /\ half \in SUBSET Services
    BY DEF OnGpu
  <1>2. (up \cup leftover) \cap OnGpu(gpu) = whole \cup half
    OBVIOUS
  <1> HIDE DEF whole, half
  <1>3. VramOf(whole \cup half) <= VramOf(whole) + VramOf(half) /\ VramOf(whole \cup half) \in Nat
    BY <1>1, VramJoins
  <1>4. VramOf(whole) \in Nat /\ VramOf(half) \in Nat
    BY <1>1, CellsFinite
  <1>5. QED
    BY <1>2, <1>3, <1>4 DEF Load, UpLoad, Residue, whole, half

(* While no start failed and every container could be read, what runs on a   *)
(* GPU is over the card by no more than engines hold whose gateway is not up *)
(* (GpuFits): the controller's books run ahead of what is up, and the        *)
(* planner keeps the books within the card.                                  *)
THEOREM CardsFit == Spec => []GpuFits
  <1>1. ASSUME FitInv
        PROVE  GpuFits
    <2> SUFFICES ASSUME NEW gpu \in DOMAIN Capacity, doubted \cap OnGpu(gpu) = {}
                 PROVE  Load(gpu) <= Capacity[gpu] + Residue(gpu)
      BY DEF GpuFits
    <2>1. UpLoad(gpu) <= Capacity[gpu]
      BY <1>1 DEF FitInv, UpFits
    <2>2. Load(gpu) <= UpLoad(gpu) + Residue(gpu) /\ Load(gpu) \in Nat /\ UpLoad(gpu) \in Nat /\ Residue(gpu) \in Nat
      BY <1>1, LoadParts DEF FitInv
    <2>3. Capacity[gpu] \in Nat
      BY NumbersAssumption
    <2>4. QED
      BY <2>1, <2>2, <2>3
  <1>2. QED
    BY <1>1, FitInit, FitNext, PTL DEF Spec

---------------------------------------------------------------------------
(* Why a service is stopped *)

(* The operator's word, or a service that is asked for, down, and neither to *)
(* be started nor stopped by what is left of the list.                       *)
Reason(s) ==
  \/ manual[s] = "stop"
  \/ /\ manual[s] # "start" /\ s \notin Keep
     /\ ~Wanted(s, seen.wants) /\ idle[s] > IdleUnload[s]
     /\ \E t \in OnGpu(GpuOf[s]) \ {s} :
          /\ status[t] = "stopped" /\ (Wanted(t, seen.wants) \/ t \in Keep \/ manual[t] = "start")
          /\ t \notin Pending("start") \cup Pending("stop")
StopsReasoned == at = "execute" => \A s \in Pending("stop") : Reason(s)

LEMMA DecideReasons ==
  ASSUME TypeOK, Decide
  PROVE  StopsReasoned'
  <1>1. PICK plan : PlanOK(ViewNow, seen.wants, plan) /\ PlanFleet(ViewNow, seen.wants) = plan.actions
    BY ViewTyped, PlanSound
  <1>2. todo' = plan.actions /\ UNCHANGED <<status, manual, idle, seen>>
    BY <1>1 DEF Decide, ViewNow, viewVars
  <1>3. ViewNow.status = status /\ ViewNow.manual = manual /\ ViewNow.idle = idle
    BY DEF ViewNow
  <1> SUFFICES ASSUME NEW s \in Listed("stop", plan.actions)
               PROVE  Reason(s)'
    BY <1>2 DEF StopsReasoned, Pending
  <1>4. CASE manual[s] = "stop"
    BY <1>2, <1>4 DEF Reason
  <1>5. CASE InTheWay(ViewNow, seen.wants, plan, s)
    <2>1. PICK t \in OnGpu(GpuOf[s]) \ {s} : plan.status[t] = "stopped" /\ IsWanted(ViewNow, seen.wants, t)
      BY <1>5 DEF InTheWay
    <2>2. t \in Services /\ status[t] = "stopped"
      BY <1>1, <1>3, <2>1 DEF PlanOK, OnGpu
    <2>3. t \notin Listed("start", plan.actions) /\ t \notin Listed("stop", plan.actions)
      BY <1>1, <1>3, <2>1, <2>2 DEF PlanOK
    <2>4. manual[s] # "start" /\ s \notin Keep /\ ~Wanted(s, seen.wants) /\ idle[s] > IdleUnload[s]
      BY <1>3, <1>5 DEF InTheWay, IsWanted
    <2>5. Wanted(t, seen.wants) \/ t \in Keep \/ manual[t] = "start"
      BY <1>3, <2>1 DEF IsWanted
    <2>6. QED
      BY <1>2, <2>1, <2>2, <2>3, <2>4, <2>5 DEF Reason, Pending
  <1>6. QED
    BY <1>1, <1>3, <1>4, <1>5 DEF PlanOK

LEMMA ExecuteReasons ==
  ASSUME TypeOK, StopsReasoned,
         NEW s \in Services, StartService(s) \/ StartThrows(s) \/ StopService(s) \/ StopThrows(s)
  PROVE  StopsReasoned'
  <1>1. /\ at = "execute" /\ todo # <<>> /\ todo' = Tail(todo) /\ todo \in Seq(Action)
        /\ UNCHANGED <<manual, idle, seen>>
        /\ \A t \in Services \ {s} : status'[t] = status[t]
    BY DEF TypeOK, StartService, StartThrows, StopService, StopThrows, Next1, executeKeeps
  <1>2. \A type : Listed(type, todo') \subseteq Listed(type, todo)
    BY <1>1, ListHead
  <1>3. s \in Pending("start") \cup Pending("stop")
    BY <1>1, ListHead DEF StartService, StartThrows, StopService, StopThrows, Next1, Pending
  <1> SUFFICES ASSUME NEW u \in Listed("stop", todo')
               PROVE  Reason(u)'
    BY DEF StopsReasoned, Pending
  <1>4. Reason(u)
    BY <1>1, <1>2 DEF StopsReasoned, Pending
  <1>5. CASE manual[u] = "stop"
    BY <1>1, <1>5 DEF Reason
  <1>6. CASE manual[u] # "stop"
    <2>1. PICK t \in OnGpu(GpuOf[u]) \ {u} :
            /\ status[t] = "stopped" /\ (Wanted(t, seen.wants) \/ t \in Keep \/ manual[t] = "start")
            /\ t \notin Pending("start") \cup Pending("stop")
      BY <1>4, <1>6 DEF Reason
    <2>2. t \in Services /\ t # s
      BY <1>3, <2>1 DEF OnGpu
    <2>3. status'[t] = "stopped" /\ t \notin Listed("start", todo') \cup Listed("stop", todo')
      BY <1>1, <1>2, <2>1, <2>2 DEF Pending
    <2>4. QED
      BY <1>1, <1>4, <1>6, <2>1, <2>3 DEF Reason, Pending
  <1>7. QED
    BY <1>5, <1>6

LEMMA NextReasons ==
  ASSUME TypeOK, StopsReasoned, [Next]_vars
  PROVE  StopsReasoned'
  <1> USE DEF worldVars, viewVars, loopVars
  <1>1. ASSUME UNCHANGED <<at, todo, seen, status, manual, idle>>
        PROVE  StopsReasoned'
    BY <1>1 DEF StopsReasoned, Reason, Pending
  <1>2. CASE TickStart \/ SyncSkip \/ SyncRead \/ SyncWrite \/ SyncFails \/ Restart
    BY <1>2 DEF TickStart, SyncSkip, SyncRead, SyncWrite, SyncFails, Restart, StopsReasoned
  <1>3. CASE \E s \in Services : Observe(s)
    BY <1>3 DEF Observe, StopsReasoned
  <1>4. CASE Decide
    BY <1>4, DecideReasons
  <1>5. CASE \E s \in Services : StartService(s) \/ StartThrows(s) \/ StopService(s) \/ StopThrows(s)
    BY <1>5, ExecuteReasons
  <1>6. CASE DemandChanges \/ PageOpen \/ PageSave
    BY <1>1, <1>6 DEF DemandChanges, PageOpen, PageSave, worldKeeps
  <1>7. CASE \E s \in Services : OverrideChanges(s) \/ Serve(s) \/ Break(s)
    BY <1>1, <1>7 DEF OverrideChanges, Serve, Break, worldKeeps
  <1>8. CASE UNCHANGED vars
    BY <1>1, <1>8 DEF vars
  <1>9. QED
    BY <1>2, <1>3, <1>4, <1>5, <1>6, <1>7, <1>8 DEF Next, TickNext

(* No stop is carried out without a reason that still holds when its turn    *)
(* comes (StopsJustified), though starts and stops before it may have thrown. *)
THEOREM StopsHaveReasons == Spec => StopsJustified
  <1>1. Init => StopsReasoned
    BY DEF Init, StopsReasoned
  <1>2. TypeOK /\ StopsReasoned =>
          [\A s \in Services :
             at = "execute" /\ todo # <<>> /\ Head(todo) = Act("stop", s) =>
               \/ manual[s] = "stop"
               \/ /\ manual[s] # "start" /\ s \notin Keep
                  /\ ~Wanted(s, seen.wants) /\ idle[s] > IdleUnload[s]
                  /\ \E t \in OnGpu(GpuOf[s]) \ {s} :
                       status[t] = "stopped" /\ (Wanted(t, seen.wants) \/ t \in Keep \/ manual[t] = "start")
          ]_vars
    <2> SUFFICES ASSUME TypeOK, StopsReasoned, NEW s \in Services,
                        at = "execute", todo # <<>>, Head(todo) = Act("stop", s)
                 PROVE  Reason(s)
      BY DEF Reason
    <2>1. s \in Pending("stop")
      BY ListHead DEF TypeOK, Pending
    <2>2. QED
      BY <2>1 DEF StopsReasoned
  <1>3. QED
    BY <1>1, <1>2, NextReasons, FleetTypes, PTL DEF Spec, StopsJustified

============================================================================
