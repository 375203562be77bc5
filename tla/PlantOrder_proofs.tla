-------------------------- MODULE PlantOrder_proofs --------------------------
(***************************************************************************)
(* Theorems of PlantOrder, for every number of orders, plans, slots, lots  *)
(* and clients.                                                            *)
(***************************************************************************)
EXTENDS PlantOrder, Sums, TLAPS

-----------------------------------------------------------------------------
(* No machine slot is booked twice, for every number of orders, plans and  *)
(* clients: what a booking has checked holds until it is written.          *)

Bookings == {"create", "update"}

\* Plans and requests as far as a booking reads them.
BookingsTyped ==
    /\ plan \in [Plans -> {NoPlan} \cup PlanRecords]
    /\ tx = [c \in Clients |-> tx[c]]
    /\ \A c \in Clients :
         /\ tx[c].op \in {"create", "update", "release"} => tx[c].plan \in Plans
         /\ tx[c].op \in Bookings => /\ tx[c].slot \in Slots /\ tx[c].quantity \in Quantities
                                     /\ tx[c].order \in Orders

\* Who books a slot found it free, and it stays free until the booking is written.
SlotFree(c) ==
    \A q \in Plans \ running :
      (q # tx[c].plan /\ plan[q] # NoPlan) => plan[q].slot # tx[c].slot

\* Two bookings under way are of different slots, by the locks of the machines.
SlotsApart ==
    \A c, d \in Clients : (c # d /\ tx[c].op \in Bookings /\ tx[d].op \in Bookings) => tx[c].slot # tx[d].slot

\* An update or release holds its plan, which exists.
PlanHeld ==
    /\ \A c \in Clients : tx[c].op \in {"update", "release"} => plan[tx[c].plan] # NoPlan
    /\ \A c, d \in Clients : (/\ c # d
                              /\ tx[c].op \in {"update", "release"}
                              /\ tx[d].op \in {"update", "release"}) => tx[c].plan # tx[d].plan

BookingInv ==
    /\ BookingsTyped
    /\ NoDoubleBooking
    /\ \A c \in Clients : tx[c].op \in Bookings => SlotFree(c)
    /\ SlotsApart
    /\ PlanHeld

LEMMA InitBooking == Init => BookingInv
  BY DEF Init, BookingInv, BookingsTyped, NoDoubleBooking, SlotsApart, PlanHeld, Bookings, Idle

\* Requests end, or stay as they are; plans stay, or start to run.
LEMMA BookingKept ==
    ASSUME BookingInv, plan' = plan, running \subseteq running',
           tx' = [c \in Clients |-> tx'[c]],
           \A c \in Clients : \/ tx'[c] = tx[c]
                              \/ tx'[c].op \notin {"create", "update", "release"}
    PROVE  BookingInv'
<1>1. BookingsTyped'
  BY DEF BookingInv, BookingsTyped, Bookings
<1>2. NoDoubleBooking'
  BY DEF BookingInv, NoDoubleBooking
<1>3. \A c \in Clients : tx'[c].op \in Bookings => SlotFree(c)'
  BY DEF BookingInv, SlotFree, Bookings
<1>4. SlotsApart'
  BY DEF BookingInv, SlotsApart, Bookings
<1>5. PlanHeld'
  BY DEF BookingInv, PlanHeld
<1> QED BY <1>1, <1>2, <1>3, <1>4, <1>5 DEF BookingInv

\* A booking begins with the machine locked and no clash on the slot.
LEMMA BookingBegins ==
    ASSUME BookingInv, NEW c \in Clients, NEW p \in Plans, NEW s \in Slots, NEW request,
           request.op \in Bookings, request.plan = p, request.slot = s,
           request.quantity \in Quantities, request.order \in Orders,
           request.op = "update" => plan[p] # NoPlan /\ PlanLockFree(p),
           MachineLockFree(Machine[s]), ~Clash(s, p), Start(c, request), OnlyTx
    PROVE  BookingInv'
<1>1. /\ tx[c] = Idle /\ tx' = [tx EXCEPT ![c] = request]
      /\ tx'[c] = request /\ \A d \in Clients \ {c} : tx'[d] = tx[d]
      /\ plan' = plan /\ running' = running
  BY DEF Start, OnlyTx, BookingInv, BookingsTyped
<1>2. BookingsTyped'
  BY <1>1 DEF BookingInv, BookingsTyped
<1>3. NoDoubleBooking'
  BY <1>1 DEF BookingInv, NoDoubleBooking
<1>4. \A d \in Clients : tx'[d].op \in Bookings => SlotFree(d)'
  <2>1. SlotFree(c)'
    BY <1>1 DEF SlotFree, Clash
  <2>2. ASSUME NEW d \in Clients \ {c}, tx'[d].op \in Bookings PROVE SlotFree(d)'
    BY <1>1, <2>2 DEF BookingInv, SlotFree
  <2> QED BY <2>1, <2>2
<1>5. SlotsApart'
  <2>1. \A d \in Clients \ {c} : tx[d].op \in Bookings => tx[d].slot # s
    BY DEF MachineLockFree, Active, Bookings
  <2> QED BY <1>1, <2>1 DEF BookingInv, SlotsApart
<1>6. PlanHeld'
  <2>1. request.op = "update" => \A d \in Clients \ {c} :
          tx[d].op \in {"update", "release"} => tx[d].plan # p
    BY DEF PlanLockFree, Active
  <2>2. request.op \in {"update", "release"} => request.op = "update"
    BY DEF Bookings
  <2> QED BY <1>1, <2>1, <2>2 DEF BookingInv, PlanHeld
<1> QED BY <1>2, <1>3, <1>4, <1>5, <1>6 DEF BookingInv

\* A booking is written: the plan takes the slot that was free.
LEMMA BookingWrites ==
    ASSUME BookingInv, NEW c \in Clients, tx[c].op \in Bookings,
           plan' = [plan EXCEPT ![tx[c].plan] = plan'[tx[c].plan]],
           plan'[tx[c].plan] \in PlanRecords, plan'[tx[c].plan].slot = tx[c].slot,
           running' = running,
           tx' = [d \in Clients |-> tx'[d]], tx'[c] = Idle,
           \A d \in Clients : tx'[d] = tx[d] \/ tx'[d] = Idle,
           NoPlan \notin PlanRecords
    PROVE  BookingInv'
<1> DEFINE p == tx[c].plan
<1>1. /\ \A q \in Plans \ {p} : plan'[q] = plan[q]
      /\ plan' \in [Plans -> {NoPlan} \cup PlanRecords]
      /\ Idle.op \notin {"create", "update", "release"}
  BY DEF BookingInv, BookingsTyped, Idle
<1>2. BookingsTyped'
  BY <1>1 DEF BookingInv, BookingsTyped, Bookings
<1>3. SlotFree(c)
  BY DEF BookingInv
<1>4. NoDoubleBooking'
  BY <1>1, <1>3 DEF BookingInv, NoDoubleBooking, SlotFree
<1>5. ASSUME NEW d \in Clients, tx'[d].op \in Bookings PROVE SlotFree(d)'
  <2>1. d # c /\ tx'[d] = tx[d] /\ tx[d].op \in Bookings /\ SlotFree(d)
    BY <1>1, <1>5 DEF BookingInv, Bookings
  <2>2. tx[d].slot # tx[c].slot
    BY <2>1 DEF BookingInv, SlotsApart
  <2> QED BY <1>1, <2>1, <2>2 DEF SlotFree
<1>6. SlotsApart'
  BY <1>1 DEF BookingInv, SlotsApart, Bookings
<1>7. PlanHeld'
  BY <1>1 DEF BookingInv, PlanHeld, BookingsTyped
<1> QED BY <1>2, <1>4, <1>5, <1>6, <1>7 DEF BookingInv

\* A release begins with the plan locked, and removes it.
LEMMA ReleaseBegins ==
    ASSUME BookingInv, NEW c \in Clients, NEW p \in Plans, BeginReleasePlan(c, p)
    PROVE  BookingInv'
<1>1. /\ tx'[c].op = "release" /\ tx'[c].plan = p /\ \A d \in Clients \ {c} : tx'[d] = tx[d]
      /\ tx' = [d \in Clients |-> tx'[d]]
      /\ plan' = plan /\ running' = running
      /\ plan[p] # NoPlan /\ PlanLockFree(p)
  BY DEF BeginReleasePlan, Start, OnlyTx, BookingInv, BookingsTyped
<1>2. BookingsTyped'
  BY <1>1 DEF BookingInv, BookingsTyped, Bookings
<1>3. NoDoubleBooking'
  BY <1>1 DEF BookingInv, NoDoubleBooking
<1>4. \A d \in Clients : tx'[d].op \in Bookings => SlotFree(d)'
  BY <1>1 DEF BookingInv, SlotFree, Bookings
<1>5. SlotsApart'
  BY <1>1 DEF BookingInv, SlotsApart, Bookings
<1>6. PlanHeld'
  BY <1>1 DEF BookingInv, PlanHeld, PlanLockFree, Active
<1> QED BY <1>2, <1>3, <1>4, <1>5, <1>6 DEF BookingInv

LEMMA ReleaseWrites ==
    ASSUME BookingInv, NEW c \in Clients, CommitReleasePlan(c)
    PROVE  BookingInv'
<1> DEFINE p == tx[c].plan
<1>1. /\ tx[c].op = "release" /\ p \in Plans
      /\ plan' = [plan EXCEPT ![p] = NoPlan] /\ running' = running
      /\ tx' = [d \in Clients |-> tx'[d]] /\ tx'[c] = Idle
      /\ \A d \in Clients : tx'[d] = tx[d] \/ tx'[d] = Idle
      /\ Idle.op \notin {"create", "update", "release"}
  BY DEF CommitReleasePlan, DropRequestsOn, BookingInv, BookingsTyped, Idle
<1>2. /\ plan'[p] = NoPlan /\ \A q \in Plans \ {p} : plan'[q] = plan[q]
      /\ plan' \in [Plans -> {NoPlan} \cup PlanRecords]
  BY <1>1 DEF BookingInv, BookingsTyped
<1>3. BookingsTyped'
  BY <1>1, <1>2 DEF BookingInv, BookingsTyped, Bookings
<1>4. NoDoubleBooking'
  BY <1>1, <1>2 DEF BookingInv, NoDoubleBooking
<1>5. \A d \in Clients : tx'[d].op \in Bookings => SlotFree(d)'
  BY <1>1, <1>2 DEF BookingInv, SlotFree, Bookings
<1>6. SlotsApart'
  BY <1>1 DEF BookingInv, SlotsApart, Bookings
<1>7. PlanHeld'
  BY <1>1, <1>2 DEF BookingInv, PlanHeld, BookingsTyped
<1> QED BY <1>3, <1>4, <1>5, <1>6, <1>7 DEF BookingInv

LEMMA NextBooking == PlantAssumption /\ BookingInv /\ [Next]_vars => BookingInv'
<1> SUFFICES ASSUME PlantAssumption, BookingInv, [Next]_vars PROVE BookingInv'
  OBVIOUS
<1> USE DEF bookVars
<1>1. ASSUME UNCHANGED <<plan, running, tx>> PROVE BookingInv'
  BY <1>1, BookingKept DEF BookingInv, BookingsTyped
<1>2. ASSUME NEW c \in Clients, NEW p \in Plans, NEW o \in Orders, NEW s \in Slots, NEW q \in Quantities,
             BeginCreatePlan(c, p, o, s, q)
      PROVE  BookingInv'
  BY <1>2, BookingBegins DEF BeginCreatePlan, Bookings
<1>3. ASSUME NEW c \in Clients, NEW p \in Plans, NEW s \in Slots, NEW q \in Quantities,
             BeginUpdatePlan(c, p, s, q)
      PROVE  BookingInv'
  <2>1. plan[p].order \in Orders
    BY <1>3 DEF BeginUpdatePlan, BookingInv, BookingsTyped, PlanRecords
  <2> QED BY <1>3, <2>1, BookingBegins DEF BeginUpdatePlan, Bookings
<1>4. ASSUME NEW c \in Clients, CommitCreatePlan(c) PROVE BookingInv'
  <2> DEFINE t == tx[c]
  <2>1. /\ t.op \in Bookings /\ t.plan \in Plans
        /\ [order |-> t.order, slot |-> t.slot, quantity |-> t.quantity] \in PlanRecords
    BY <1>4 DEF CommitCreatePlan, BookingInv, BookingsTyped, Bookings, PlanRecords
  <2>2. /\ plan' = [plan EXCEPT ![t.plan] = plan'[t.plan]]
        /\ plan'[t.plan] \in PlanRecords /\ plan'[t.plan].slot = t.slot
        /\ running' = running
    BY <1>4, <2>1 DEF CommitCreatePlan, BookingInv, BookingsTyped
  <2>3. /\ tx' = [d \in Clients |-> tx'[d]] /\ tx'[c] = Idle
        /\ \A d \in Clients : tx'[d] = tx[d] \/ tx'[d] = Idle
    BY <1>4 DEF CommitCreatePlan, Done, BookingInv, BookingsTyped
  <2> QED BY <2>1, <2>2, <2>3, BookingWrites DEF PlantAssumption
<1>5. ASSUME NEW c \in Clients, NEW changed \in BOOLEAN, CommitUpdatePlan(c, changed) PROVE BookingInv'
  <2> DEFINE t == tx[c]
  <2>1. t.op \in Bookings /\ t.plan \in Plans /\ plan[t.plan] \in PlanRecords
    BY <1>5 DEF CommitUpdatePlan, BookingInv, BookingsTyped, PlanHeld, Bookings
  <2>2. /\ plan' = [plan EXCEPT ![t.plan] = plan'[t.plan]]
        /\ plan'[t.plan] \in PlanRecords /\ plan'[t.plan].slot = t.slot
        /\ running' = running
    BY <1>5, <2>1 DEF CommitUpdatePlan, BookingInv, BookingsTyped, PlanRecords
  <2>3. /\ tx' = [d \in Clients |-> tx'[d]] /\ tx'[c] = Idle
        /\ \A d \in Clients : tx'[d] = tx[d] \/ tx'[d] = Idle
    BY <1>5 DEF CommitUpdatePlan, Done, DropRequestsOn, BookingInv, BookingsTyped
  <2> QED BY <2>1, <2>2, <2>3, BookingWrites DEF PlantAssumption
<1>6. ASSUME NEW c \in Clients, NEW request, request.op \notin {"create", "update", "release"},
             Start(c, request), OnlyTx
      PROVE  BookingInv'
  BY <1>6, BookingKept DEF Start, OnlyTx, BookingInv, BookingsTyped
<1>7. ASSUME NEW c \in Clients, Done(c), UNCHANGED plan, running \subseteq running' PROVE BookingInv'
  <2>1. tx' = [d \in Clients |-> tx'[d]] /\ \A d \in Clients : tx'[d] = tx[d] \/ tx'[d] = Idle
    BY <1>7 DEF Done, BookingInv, BookingsTyped
  <2>2. Idle.op \notin {"create", "update", "release"}
    BY DEF Idle
  <2> QED BY <1>7, <2>1, <2>2, BookingKept
<1>8. ASSUME NEW c \in Clients, NEW p \in Plans,
             (\E sheet \in Sheets : BeginEdit(c, p, sheet)) \/ BeginSubmit(c, p)
      PROVE  BookingInv'
  BY <1>8, <1>6 DEF BeginEdit, BeginSubmit
<1>9. ASSUME NEW c \in Clients, NEW o \in Orders, NEW q \in Quantities, BeginDispatch(c, o, q)
      PROVE  BookingInv'
  BY <1>9, <1>6 DEF BeginDispatch
<1>10. ASSUME NEW c \in Clients, CommitEdit(c) \/ CommitSubmit(c) \/ CommitDispatch(c) \/ Abort(c)
       PROVE  BookingInv'
  BY <1>10, <1>7 DEF CommitEdit, CommitSubmit, CommitDispatch, Abort, OnlyTx
<1>11. ASSUME NEW l \in Lots, NEW d \in {"pass", "hold", "fail"}, Inspect(l, d) PROVE BookingInv'
  BY <1>11, <1>1 DEF Inspect
<1> QED BY <1>1, <1>2, <1>3, <1>4, <1>5, <1>8, <1>9, <1>10, <1>11, ReleaseBegins, ReleaseWrites DEF Next, vars

\* No two scheduled plans share a machine slot, however plans of several orders are created,
\* moved and released at once (planning/service.ts: assertNoClash under the machine locks).
THEOREM SlotsBookedOnce == PlantAssumption => (Spec => []NoDoubleBooking)
<1> SUFFICES ASSUME PlantAssumption PROVE Spec => []NoDoubleBooking
  OBVIOUS
<1>1. Init => BookingInv
  BY InitBooking
<1>2. BookingInv /\ [Next]_vars => BookingInv'
  BY NextBooking
<1>3. BookingInv => NoDoubleBooking
  BY DEF BookingInv
<1> QED BY <1>1, <1>2, <1>3, PTL DEF Spec

-----------------------------------------------------------------------------
(* Types.  What a request in flight knows of its plan, its order and its   *)
(* sheet is part of what keeps them.                                       *)

\* What is written when the request t commits is of the right type then.
Lasting(t) ==
    /\ t.op = "create" => plan[t.plan] = NoPlan
    /\ t.op \in {"update", "release"} => t.plan \notin submitted
    /\ t.op \in {"edit", "submit"} => plan[t.plan] # NoPlan
    /\ t.op = "edit" => t.sheet # Blank
    /\ t.op = "submit" => t.sheet # Blank /\ logbook[t.plan] # Blank

\* Two plans about to be created are two plans.
CreatesApart ==
    \A c, d \in Clients : (c # d /\ tx[c].op = "create" /\ tx[d].op = "create") => tx[c].plan # tx[d].plan

\* Two order commands in flight are about two orders, by the lock of the order row.
OrdersApart ==
    \A c, d \in Active(OrderCommands) : c # d => tx[c].order # tx[d].order

\* What a request says of the order and of what is planned of it is so until it commits.
Fits(t) ==
    /\ t.op = "create" => /\ t.before = PlannedBy(PlansOf(t.order))
                          /\ t.quantity > 0 /\ t.before + t.quantity <= OrderQuantity[t.order]
    /\ t.op \in {"update", "release"} => plan[t.plan] # NoPlan /\ plan[t.plan].order = t.order
    /\ t.op = "update" => /\ t.quantity > 0
                          /\ PlannedBy(PlansOf(t.order) \ {t.plan}) + t.quantity <= OrderQuantity[t.order]
    /\ t.op = "dispatch" => dispatched[t.order] + t.quantity <= OrderQuantity[t.order]

\* The quantities of the orders.
Totals == NoOverPlanning /\ StatusTellsPlanning /\ NoOverDispatch

OrderInv ==
    /\ TypeOK
    /\ Totals
    /\ CreatesApart /\ OrdersApart
    /\ \A c \in Clients : Lasting(tx[c]) /\ Fits(tx[c])

\* The quantities are natural numbers, up to that of every order.
LEMMA QuantityFacts ==
    ASSUME PlantAssumption
    PROVE  /\ Quantities \subseteq Nat
           /\ \A o \in Orders : OrderQuantity[o] \in Nat /\ OrderQuantity[o] > 0 /\ 0..OrderQuantity[o] \subseteq Quantities
  BY DEF PlantAssumption, Quantities

\* What each kind of request holds.
LEMMA RequestFacts ==
    ASSUME NEW t \in Requests
    PROVE  /\ t.op \in {"idle", "create", "update", "release", "dispatch", "edit", "submit"}
           /\ t.op \in {"create", "update", "release", "edit", "submit"} => t.plan \in Plans
           /\ t.op \in OrderCommands => t.order \in Orders
           /\ t.op \in {"create", "update"} => t.slot \in Slots
           /\ t.op \in {"create", "update", "dispatch"} => t.quantity \in Quantities
           /\ t.op = "create" => t.before \in Quantities
           /\ t.op \in {"edit", "submit"} => t.sheet \in Sheets \cup {Blank}
           /\ t.op = "idle" => t = Idle
<1>1. CASE t = Idle
  BY <1>1 DEF Idle, OrderCommands
<1>2. CASE t \in [op : {"create"}, plan : Plans, order : Orders, slot : Slots, quantity : Quantities, before : Quantities]
  BY <1>2
<1>3. CASE t \in [op : {"update"}, plan : Plans, order : Orders, slot : Slots, quantity : Quantities]
  BY <1>3
<1>4. CASE t \in [op : {"release"}, plan : Plans, order : Orders]
  BY <1>4
<1>5. CASE t \in [op : {"dispatch"}, order : Orders, quantity : Quantities]
  BY <1>5
<1>6. CASE t \in [op : {"edit", "submit"}, plan : Plans, sheet : Sheets \cup {Blank}]
  BY <1>6 DEF OrderCommands
<1> QED BY <1>1, <1>2, <1>3, <1>4, <1>5, <1>6 DEF Requests

-----------------------------------------------------------------------------
(* What the plans of an order amount to.                                   *)

Amount(f, S) == SumFunction([p \in S |-> f[p].quantity])

\* The amount of some plans is a natural number: that of any one of them and that of the others.
LEMMA AmountFacts ==
    ASSUME IsFiniteSet(Plans), NEW f, NEW S \in SUBSET Plans, \A p \in S : f[p].quantity \in Nat
    PROVE  /\ Amount(f, S) \in Nat
           /\ \A p \in S : Amount(f, S) = f[p].quantity + Amount(f, S \ {p})
<1> DEFINE h == [p \in S |-> f[p].quantity]
<1>1. IsFiniteSet(S) /\ h \in [S -> Nat]
  BY FS_Subset
<1>2. h \in [S -> Int] /\ Amount(f, S) = SumFunction(h)
  BY DEF Amount
<1>3. ASSUME NEW p \in S PROVE Amount(f, S \ {p}) = SumFunction([q \in S \ {p} |-> h[q]]) /\ h[p] = f[p].quantity
  <2>1. [q \in S \ {p} |-> h[q]] = [q \in S \ {p} |-> f[q].quantity]
    OBVIOUS
  <2> HIDE DEF h
  <2> QED BY <2>1 DEF Amount, h
<1> HIDE DEF h
<1>4. SumFunction(h) \in Nat
  BY <1>1, SumOfNaturals
<1>5. \A p \in S : SumFunction(h) = h[p] + SumFunction([q \in S \ {p} |-> h[q]])
  BY <1>1, <1>2, SumOfOthers
<1> QED BY <1>2, <1>3, <1>4, <1>5

\* It depends on the records of those plans alone.
LEMMA AmountSame ==
    ASSUME NEW f, NEW g, NEW S, \A p \in S : g[p] = f[p]
    PROVE  Amount(g, S) = Amount(f, S)
<1>1. [p \in S |-> g[p].quantity] = [p \in S |-> f[p].quantity]
  OBVIOUS
<1> QED BY <1>1 DEF Amount

PlansTyped == plan \in [Plans -> {NoPlan} \cup PlanRecords]

\* What some plans of an order amount to is a natural number.
LEMMA PlannedNat ==
    ASSUME PlantAssumption, PlansTyped, NEW o \in Orders, NEW S \in SUBSET PlansOf(o)
    PROVE  PlannedBy(S) \in Nat
<1>1. S \in SUBSET Plans /\ \A p \in S : plan[p].quantity \in Nat
  BY QuantityFacts DEF PlansTyped, PlansOf, PlanRecords
<1>2. Amount(plan, S) \in Nat
  BY <1>1, AmountFacts DEF PlantAssumption
<1> QED BY <1>2 DEF Amount, PlannedBy

\* One plan, of one order, is created, changed or removed.
LEMMA OnePlanChanges ==
    ASSUME PlantAssumption, PlansTyped, PlansTyped', NEW p \in Plans, NEW o \in Orders,
           \A q \in Plans \ {p} : plan'[q] = plan[q],
           plan[p] = NoPlan \/ plan[p].order = o, plan'[p] = NoPlan \/ plan'[p].order = o
    PROVE  /\ \A u \in Orders \ {o} : PlansOf(u)' = PlansOf(u) /\ p \notin PlansOf(u)
           /\ \A u \in Orders \ {o} : PlannedBy(PlansOf(u))' = PlannedBy(PlansOf(u))
           /\ PlansOf(o)' \ {p} = PlansOf(o) \ {p}
           /\ plan'[p] = NoPlan => PlannedBy(PlansOf(o))' = PlannedBy(PlansOf(o) \ {p})
           /\ plan'[p] # NoPlan => PlannedBy(PlansOf(o))' = PlannedBy(PlansOf(o) \ {p}) + plan'[p].quantity
<1>1. ASSUME NEW S \in SUBSET (Plans \ {p})
      PROVE  Amount(plan', S) = Amount(plan, S)
  BY AmountSame
<1>2. \A u \in Orders \ {o} : PlansOf(u)' = PlansOf(u) /\ p \notin PlansOf(u)
  BY DEF PlansOf
<1>3. \A u \in Orders \ {o} : PlannedBy(PlansOf(u))' = PlannedBy(PlansOf(u))
  <2> SUFFICES ASSUME NEW u \in Orders \ {o} PROVE PlannedBy(PlansOf(u))' = PlannedBy(PlansOf(u))
    OBVIOUS
  <2>1. PlansOf(u) \in SUBSET (Plans \ {p})
    BY <1>2 DEF PlansOf
  <2>2. PlannedBy(PlansOf(u))' = Amount(plan', PlansOf(u)) /\ PlannedBy(PlansOf(u)) = Amount(plan, PlansOf(u))
    BY <1>2 DEF Amount, PlannedBy
  <2> QED BY <1>1, <2>1, <2>2
<1>4. PlansOf(o)' \ {p} = PlansOf(o) \ {p} /\ PlansOf(o) \ {p} \in SUBSET (Plans \ {p})
  BY DEF PlansOf
<1>5. PlannedBy(PlansOf(o))' = Amount(plan', PlansOf(o)') /\ PlannedBy(PlansOf(o) \ {p}) = Amount(plan, PlansOf(o) \ {p})
  BY DEF Amount, PlannedBy
<1>6. plan'[p] = NoPlan => PlannedBy(PlansOf(o))' = PlannedBy(PlansOf(o) \ {p})
  <2>1. plan'[p] = NoPlan => PlansOf(o)' = PlansOf(o) \ {p}
    BY <1>4 DEF PlansOf
  <2>2. Amount(plan', PlansOf(o) \ {p}) = PlannedBy(PlansOf(o) \ {p})
    BY <1>1, <1>4, <1>5
  <2> QED BY <1>5, <2>1, <2>2
<1>7. ASSUME plan'[p] # NoPlan
      PROVE  PlannedBy(PlansOf(o))' = PlannedBy(PlansOf(o) \ {p}) + plan'[p].quantity
  <2>1. p \in PlansOf(o)' /\ PlansOf(o)' \in SUBSET Plans /\ \A q \in PlansOf(o)' : plan'[q].quantity \in Nat
    BY <1>7, QuantityFacts DEF PlansOf, PlansTyped, PlanRecords
  <2>2. Amount(plan', PlansOf(o)') = plan'[p].quantity + Amount(plan', PlansOf(o)' \ {p})
    BY <2>1, AmountFacts DEF PlantAssumption
  <2>3. Amount(plan', PlansOf(o)' \ {p}) = PlannedBy(PlansOf(o) \ {p})
    BY <1>1, <1>4, <1>5
  <2>4. PlannedBy(PlansOf(o) \ {p}) \in Nat /\ plan'[p].quantity \in Nat
    BY <2>1, PlannedNat
  <2>5. PlannedBy(PlansOf(o))' = plan'[p].quantity + PlannedBy(PlansOf(o) \ {p})
    BY <1>5, <2>2, <2>3
  <2> QED BY <2>4, <2>5
<1> QED BY <1>2, <1>3, <1>4, <1>6, <1>7

-----------------------------------------------------------------------------
(* Steps.                                                                  *)

\* A request begins.
LEMMA BeginKeeps ==
    ASSUME OrderInv, NEW c \in Clients, NEW r \in Requests, Start(c, r), OnlyTx,
           Lasting(r), Fits(r), r.op \in OrderCommands => OrderLockFree(r.order),
           r.op = "create" => \A d \in Active({"create"}) : tx[d].plan # r.plan
    PROVE  OrderInv'
<1>1. /\ tx[c] = Idle /\ tx' = [tx EXCEPT ![c] = r]
      /\ tx \in [Clients -> Requests]
      /\ tx'[c] = r /\ \A d \in Clients \ {c} : tx'[d] = tx[d]
      /\ UNCHANGED <<status, plan, running, bookVars, verdict, dispatched>>
      /\ UNCHANGED <<logbook, submitted, actuals>>
  BY DEF Start, OnlyTx, OrderInv, TypeOK, bookVars
<1>2. TypeOK'
  BY <1>1 DEF OrderInv, TypeOK
<1>3. Totals'
  BY <1>1 DEF OrderInv, Totals, NoOverPlanning, StatusTellsPlanning, NoOverDispatch, PlannedBy, PlansOf
<1>4. CreatesApart'
  BY <1>1 DEF OrderInv, CreatesApart, Active
<1>5. OrdersApart'
  <2>1. \A d \in Clients : d \in Active(OrderCommands) <=> tx[d].op \in OrderCommands
    BY DEF Active
  <2>2. \A d \in Clients : d \in Active(OrderCommands)' <=> tx'[d].op \in OrderCommands
    BY DEF Active
  <2>3. \A d \in Active(OrderCommands)' : d \in Clients
    BY DEF Active
  <2>4. r.op \in OrderCommands => \A d \in Clients \ {c} : tx[d].op \in OrderCommands => tx[d].order # r.order
    BY <2>1 DEF OrderLockFree
  <2>5. \A d, e \in Clients : (d # e /\ tx[d].op \in OrderCommands /\ tx[e].op \in OrderCommands) => tx[d].order # tx[e].order
    BY <2>1 DEF OrderInv, OrdersApart
  <2> QED BY <1>1, <2>2, <2>3, <2>4, <2>5 DEF OrdersApart
<1>6. ASSUME NEW d \in Clients PROVE Lasting(tx[d])' /\ Fits(tx[d])'
  <2>1. CASE d = c
    BY <1>1, <2>1 DEF Lasting, Fits, PlannedBy, PlansOf
  <2>2. CASE d # c
    <3>1. Lasting(tx[d]) /\ Fits(tx[d]) /\ tx'[d] = tx[d]
      BY <1>1, <2>2 DEF OrderInv
    <3> QED BY <1>1, <3>1 DEF Lasting, Fits, PlannedBy, PlansOf
  <2> QED BY <2>1, <2>2
<1> QED BY <1>2, <1>3, <1>4, <1>5, <1>6 DEF OrderInv

\* Requests end; what the others have seen still holds.
LEMMA EndKeeps ==
    ASSUME OrderInv, TypeOK', Totals',
           \A d \in Clients : tx'[d] = Idle \/ (tx'[d] = tx[d] /\ Lasting(tx[d])' /\ Fits(tx[d])')
    PROVE  OrderInv'
<1>1. Idle.op \notin OrderCommands \cup {"edit", "submit"} /\ Idle.op = "idle"
  BY DEF Idle, OrderCommands
<1>2. CreatesApart'
  BY <1>1 DEF OrderInv, CreatesApart, OrderCommands
<1>3. OrdersApart'
  BY <1>1 DEF OrderInv, OrdersApart, Active
<1>4. \A d \in Clients : Lasting(tx[d])' /\ Fits(tx[d])'
  BY <1>1 DEF Lasting, Fits, OrderCommands
<1> QED BY <1>2, <1>3, <1>4 DEF OrderInv

\* Nothing changes for a request when plans and dispatches stay as they are.
LEMMA RequestUntouched ==
    ASSUME OrderInv, NEW d \in Clients, tx'[d] = tx[d], plan' = plan,
           tx[d].op = "dispatch" => dispatched'[tx[d].order] = dispatched[tx[d].order],
           tx[d].op \in {"update", "release"} => tx[d].plan \notin submitted',
           tx[d].op = "submit" => logbook'[tx[d].plan] # Blank
    PROVE  Lasting(tx[d])' /\ Fits(tx[d])'
<1>1. Lasting(tx[d]) /\ Fits(tx[d])
  BY DEF OrderInv
<1> QED BY <1>1 DEF Lasting, Fits, PlannedBy, PlansOf

\* Nor when another order's plan changes.
LEMMA RequestElsewhere ==
    ASSUME PlantAssumption, OrderInv, PlansTyped, PlansTyped', NEW p \in Plans, NEW o \in Orders,
           \A q \in Plans \ {p} : plan'[q] = plan[q],
           plan[p] = NoPlan \/ plan[p].order = o, plan'[p] = NoPlan \/ plan'[p].order = o,
           \A q \in Plans \ {p} : logbook'[q] = logbook[q], submitted' = submitted, dispatched' = dispatched,
           NEW d \in Clients, tx'[d] = tx[d], tx[d].op \in OrderCommands => tx[d].order # o,
           tx[d].op \in {"create", "update", "release", "edit", "submit"} => tx[d].plan # p
    PROVE  Lasting(tx[d])' /\ Fits(tx[d])'
<1> DEFINE t == tx[d]
<1>1. Lasting(t) /\ Fits(t) /\ t \in Requests
  BY DEF OrderInv, TypeOK
<1>2. /\ t.op \in {"create", "update", "release", "edit", "submit"} => t.plan \in Plans
      /\ t.op \in OrderCommands => t.order \in Orders
  BY <1>1, RequestFacts
<1>3. Lasting(tx[d])'
  BY <1>1, <1>2 DEF Lasting
<1>4. ASSUME t.op \in OrderCommands
      PROVE  /\ PlannedBy(PlansOf(tx[d].order))' = PlannedBy(PlansOf(t.order))
             /\ PlannedBy(PlansOf(tx[d].order) \ {tx[d].plan})' = PlannedBy(PlansOf(t.order) \ {t.plan})
  <2> DEFINE S == PlansOf(t.order)
             R == S \ {t.plan}
  <2>1. t.order \in Orders \ {o}
    BY <1>2, <1>4
  <2>2. PlansOf(tx[d].order)' = S /\ p \notin S
    <3>1. \A u \in Orders \ {o} : PlansOf(u)' = PlansOf(u) /\ p \notin PlansOf(u)
      BY OnePlanChanges
    <3> QED BY <2>1, <3>1 DEF PlansOf
  <2>3. S \in SUBSET (Plans \ {p}) /\ R \in SUBSET (Plans \ {p})
    BY <2>2 DEF PlansOf
  <2>4. \A T \in SUBSET (Plans \ {p}) : Amount(plan', T) = Amount(plan, T)
    BY AmountSame
  <2>5. PlannedBy(PlansOf(tx[d].order))' = Amount(plan', S)
    BY <2>2 DEF Amount, PlannedBy
  <2>6. PlannedBy(PlansOf(tx[d].order) \ {tx[d].plan})' = Amount(plan', R)
    BY <2>2 DEF Amount, PlannedBy
  <2>7. PlannedBy(S) = Amount(plan, S) /\ PlannedBy(R) = Amount(plan, R)
    BY DEF Amount, PlannedBy
  <2> QED BY <2>3, <2>4, <2>5, <2>6, <2>7
<1>5. Fits(tx[d])'
  <2>1. CASE t.op = "create"
    BY <1>1, <1>4, <2>1 DEF Fits, OrderCommands
  <2>2. CASE t.op = "update"
    BY <1>1, <1>2, <1>4, <2>2 DEF Fits, OrderCommands
  <2>3. CASE t.op \notin {"create", "update"}
    BY <1>1, <1>2, <2>3 DEF Fits
  <2> QED BY <2>1, <2>2, <2>3
<1> QED BY <1>3, <1>5

\* The quantities when a plan of order o has changed and n is planned of it.
LEMMA TotalsChange ==
    ASSUME PlantAssumption, OrderInv, TypeOK', NEW p \in Plans, NEW o \in Orders,
           \A q \in Plans \ {p} : plan'[q] = plan[q],
           plan[p] = NoPlan \/ plan[p].order = o, plan'[p] = NoPlan \/ plan'[p].order = o,
           NEW n, n = PlannedBy(PlansOf(o))', n <= OrderQuantity[o],
           status' = [status EXCEPT ![o] = PlanningStatus(n, o)], dispatched' = dispatched
    PROVE  Totals'
<1>1. PlansTyped /\ PlansTyped' /\ status'[o] = PlanningStatus(n, o) /\ \A u \in Orders \ {o} : status'[u] = status[u]
  BY DEF OrderInv, TypeOK, PlansTyped
<1>2. \A u \in Orders \ {o} : PlannedBy(PlansOf(u))' = PlannedBy(PlansOf(u))
  BY <1>1, OnePlanChanges
<1>3. ASSUME NEW u \in Orders
      PROVE  /\ PlannedBy(PlansOf(u))' <= OrderQuantity[u]
             /\ status'[u] \in {"ready_to_plan", "partially_planned", "planned"} =>
                  status'[u] = PlanningStatus(PlannedBy(PlansOf(u))', u)
             /\ dispatched'[u] <= OrderQuantity[u]
  <2>1. dispatched[u] <= OrderQuantity[u]
    BY DEF OrderInv, Totals, NoOverDispatch
  <2>2. CASE u = o
    BY <1>1, <2>1, <2>2
  <2>3. CASE u # o
    <3>1. PlannedBy(PlansOf(u)) <= OrderQuantity[u]
      BY DEF OrderInv, Totals, NoOverPlanning
    <3>2. status[u] \in {"ready_to_plan", "partially_planned", "planned"} => status[u] = PlanningStatus(PlannedBy(PlansOf(u)), u)
      BY DEF OrderInv, Totals, StatusTellsPlanning
    <3> QED BY <1>1, <1>2, <2>1, <2>3, <3>1, <3>2
  <2> QED BY <2>2, <2>3
<1>4. NoOverPlanning'
  BY <1>3 DEF NoOverPlanning
<1>5. StatusTellsPlanning'
  BY <1>3 DEF StatusTellsPlanning, PlanningStatus
<1>6. NoOverDispatch'
  BY <1>3 DEF NoOverDispatch
<1> QED BY <1>4, <1>5, <1>6 DEF Totals

\* A booking or a release of client c is written: plan p of order o is created, changed or
\* removed, and the status of the order follows from the n that is planned of it then.
PlanWritten(c, p, o, n) ==
    /\ tx[c].op \in {"create", "update", "release"} /\ tx[c].plan = p /\ tx[c].order = o
    /\ \A q \in Plans \ {p} : plan'[q] = plan[q] /\ logbook'[q] = logbook[q]
    /\ plan[p] = NoPlan \/ plan[p].order = o
    /\ plan'[p] = NoPlan \/ plan'[p].order = o
    /\ n = PlannedBy(PlansOf(o))' /\ n <= OrderQuantity[o]
    /\ status' = [status EXCEPT ![o] = PlanningStatus(n, o)]
    /\ dispatched' = dispatched /\ submitted' = submitted
    /\ tx'[c] = Idle
    /\ \A d \in Clients : \/ tx'[d] = Idle
                          \/ tx'[d] = tx[d] /\ (tx[d].op \in {"edit", "submit"} /\ tx[d].plan = p =>
                                                  plan'[p] # NoPlan /\ logbook'[p] = logbook[p])

\* A committed write of plan p of order o by c, and of the status it implies, keeps OrderInv.
LEMMA PlanCommits ==
    ASSUME PlantAssumption, OrderInv, BookingInv, TypeOK',
           NEW c \in Clients, NEW p \in Plans, NEW o \in Orders, NEW n, PlanWritten(c, p, o, n)
    PROVE  OrderInv'
<1> USE DEF PlanWritten
<1>1. Totals'
  BY TotalsChange
<1>2. PlansTyped /\ PlansTyped' /\ \A q \in Plans \ {p} : plan'[q] = plan[q]
  BY DEF OrderInv, TypeOK, PlansTyped
<1>3. ASSUME NEW d \in Clients, tx'[d] # Idle PROVE tx'[d] = tx[d] /\ Lasting(tx[d])' /\ Fits(tx[d])'
  <2>1. /\ d # c /\ tx'[d] = tx[d]
        /\ tx[d].op \in {"edit", "submit"} /\ tx[d].plan = p => plan'[p] # NoPlan /\ logbook'[p] = logbook[p]
    BY <1>3
  <2>2. tx[d].op \in OrderCommands => tx[d].order # o
    BY <2>1 DEF OrderInv, OrdersApart, Active, OrderCommands
  <2>3. /\ tx[c].op = "create" => plan[p] = NoPlan
        /\ tx[c].op \in {"update", "release"} => plan[p] # NoPlan
        /\ tx[d].op = "create" => plan[tx[d].plan] = NoPlan
        /\ tx[d].op \in {"update", "release"} => plan[tx[d].plan] # NoPlan
    BY DEF OrderInv, Lasting, Fits
  <2>4. tx[d].op \in {"create", "update", "release"} => tx[d].plan # p
    BY <2>1, <2>3 DEF OrderInv, CreatesApart, BookingInv, PlanHeld
  <2>5. CASE tx[d].op \in {"edit", "submit"} /\ tx[d].plan = p
    <3>1. Lasting(tx[d])
      BY DEF OrderInv
    <3>2. Lasting(tx[d])'
      BY <2>1, <2>5, <3>1 DEF Lasting
    <3>3. Fits(tx[d])'
      BY <2>1, <2>5 DEF Fits
    <3> QED BY <2>1, <3>2, <3>3
  <2>6. CASE ~(tx[d].op \in {"edit", "submit"} /\ tx[d].plan = p)
    <3>1. tx[d].op \in {"create", "update", "release", "edit", "submit"} => tx[d].plan # p
      BY <2>4, <2>6
    <3> QED BY <1>2, <2>1, <2>2, <3>1, RequestElsewhere
  <2> QED BY <2>5, <2>6
<1>4. \A d \in Clients : tx'[d] = Idle \/ (tx'[d] = tx[d] /\ Lasting(tx[d])' /\ Fits(tx[d])')
  BY <1>3
<1> QED BY <1>1, <1>4, EndKeeps

\* planningStatus yields one of the statuses of an order.
LEMMA PlanningStatuses ==
    \A n, o : PlanningStatus(n, o) \in {"ready_to_plan", "partially_planned", "planned", "packed", "dispatched"}
  BY DEF PlanningStatus

\* createPlan wrote its plan, and the status from the sum it read under the lock of the order.
LEMMA CreateCommits ==
    ASSUME PlantAssumption, OrderInv, BookingInv, NEW c \in Clients, CommitCreatePlan(c)
    PROVE  OrderInv'
<1> DEFINE t == tx[c]
<1>1. /\ t \in Requests /\ t.op = "create" /\ Lasting(t) /\ Fits(t)
  BY DEF CommitCreatePlan, OrderInv, TypeOK
<1>2. PICK p \in Plans, o \in Orders, r \in PlanRecords, n \in Int :
        /\ p = t.plan /\ o = t.order /\ r = [order |-> o, slot |-> t.slot, quantity |-> t.quantity]
        /\ n = t.before + t.quantity /\ t.quantity \in Nat
  <2>1. /\ t.plan \in Plans /\ t.order \in Orders /\ t.slot \in Slots
        /\ t.quantity \in Quantities /\ t.before \in Quantities
    BY <1>1, RequestFacts DEF OrderCommands
  <2>2. t.quantity \in Nat /\ t.before \in Nat
    BY <2>1, QuantityFacts
  <2>3. /\ t.before + t.quantity \in Int
        /\ [order |-> t.order, slot |-> t.slot, quantity |-> t.quantity] \in PlanRecords
    BY <2>1, <2>2 DEF PlanRecords
  <2> HIDE DEF t
  <2> QED BY <2>1, <2>2, <2>3
<1>3. /\ plan[p] = NoPlan /\ r # NoPlan /\ r.order = o /\ r.quantity = t.quantity
      /\ t.before = PlannedBy(PlansOf(o)) /\ n <= OrderQuantity[o]
  BY <1>1, <1>2 DEF Lasting, Fits, PlantAssumption
<1>4. /\ status' = [status EXCEPT ![o] = PlanningStatus(n, o)]
      /\ plan' = [plan EXCEPT ![p] = r]
      /\ logbook' = [logbook EXCEPT ![p] = Blank] /\ actuals' = [actuals EXCEPT ![p] = {}]
      /\ tx' = [tx EXCEPT ![c] = Idle]
      /\ UNCHANGED <<running, submitted, verdict, dispatched>>
  BY <1>2 DEF CommitCreatePlan, Done
<1>5. /\ plan'[p] = r /\ \A q \in Plans \ {p} : plan'[q] = plan[q] /\ logbook'[q] = logbook[q]
      /\ tx'[c] = Idle /\ \A d \in Clients \ {c} : tx'[d] = tx[d]
      /\ Idle \in Requests
  BY <1>4 DEF OrderInv, TypeOK, Requests
<1>6. TypeOK'
  <2>1. plan' \in [Plans -> {NoPlan} \cup PlanRecords] /\ submitted' \subseteq {q \in Plans : plan'[q] # NoPlan}
    BY <1>3, <1>4, <1>5 DEF OrderInv, TypeOK
  <2>2. status' \in [Orders -> {"ready_to_plan", "partially_planned", "planned", "packed", "dispatched"}]
    BY <1>4, PlanningStatuses DEF OrderInv, TypeOK
  <2>3. logbook' \in [Plans -> Sheets \cup {Blank}] /\ tx' \in [Clients -> Requests]
    BY <1>4, <1>5 DEF OrderInv, TypeOK
  <2>4. actuals' \in [Plans -> SUBSET [by : Clients, consumed : Sheets, output : Sheets]]
    BY <1>4 DEF OrderInv, TypeOK
  <2> QED BY <1>4, <2>1, <2>2, <2>3, <2>4 DEF OrderInv, TypeOK
<1>7. n = PlannedBy(PlansOf(o))'
  <2>1. PlansTyped /\ PlansTyped'
    BY <1>6 DEF OrderInv, TypeOK, PlansTyped
  <2>2. PlannedBy(PlansOf(o))' = PlannedBy(PlansOf(o) \ {p}) + plan'[p].quantity
    BY <1>3, <1>5, <2>1, OnePlanChanges
  <2>3. PlansOf(o) \ {p} = PlansOf(o)
    BY <1>3 DEF PlansOf
  <2> QED BY <1>2, <1>3, <1>5, <2>2, <2>3
<1>8. \A d \in Clients : \/ tx'[d] = Idle
                         \/ tx'[d] = tx[d] /\ (tx[d].op \in {"edit", "submit"} /\ tx[d].plan = p =>
                                                 plan'[p] # NoPlan /\ logbook'[p] = logbook[p])
  BY <1>3, <1>5 DEF OrderInv, Lasting
<1>9. /\ tx[c].op \in {"create", "update", "release"} /\ tx[c].plan = p /\ tx[c].order = o
      /\ plan[p] = NoPlan /\ plan'[p].order = o /\ n <= OrderQuantity[o]
  BY <1>1, <1>2, <1>3, <1>5
<1>10. PlanWritten(c, p, o, n)
  BY <1>4, <1>5, <1>7, <1>8, <1>9 DEF PlanWritten
<1> QED BY <1>6, <1>10, PlanCommits

\* updatePlan rewrote its plan, and perhaps deleted the logbook with the requests on it.
LEMMA UpdateCommits ==
    ASSUME PlantAssumption, OrderInv, BookingInv, NEW c \in Clients, NEW changed \in BOOLEAN, CommitUpdatePlan(c, changed)
    PROVE  OrderInv'
<1> DEFINE t == tx[c]
<1>1. /\ t \in Requests /\ t.op = "update" /\ Lasting(t) /\ Fits(t)
  BY DEF CommitUpdatePlan, OrderInv, TypeOK
<1>2. t.plan \in Plans /\ t.order \in Orders /\ t.slot \in Slots /\ t.quantity \in Quantities /\ t.quantity \in Nat
  BY <1>1, RequestFacts, QuantityFacts DEF OrderCommands
<1>3. plan[t.plan] \in PlanRecords /\ plan[t.plan] # NoPlan /\ plan[t.plan].order = t.order
  BY <1>1, <1>2 DEF OrderInv, TypeOK, Fits
<1>4. PICK p \in Plans, o \in Orders, r \in PlanRecords, n \in Int :
        /\ p = t.plan /\ o = t.order /\ r = [order |-> o, slot |-> t.slot, quantity |-> t.quantity]
        /\ n = PlannedBy(PlansOf(o) \ {p}) + t.quantity
  <2>1. PlansOf(t.order) \ {t.plan} \in SUBSET PlansOf(t.order)
    OBVIOUS
  <2>2. PlansTyped
    BY DEF OrderInv, TypeOK, PlansTyped
  <2>3. PlannedBy(PlansOf(t.order) \ {t.plan}) \in Nat
    BY <1>2, <2>1, <2>2, PlannedNat
  <2>4. /\ PlannedBy(PlansOf(t.order) \ {t.plan}) + t.quantity \in Int
        /\ [order |-> t.order, slot |-> t.slot, quantity |-> t.quantity] \in PlanRecords
    BY <1>2, <2>3 DEF PlanRecords
  <2> HIDE DEF t
  <2> QED BY <1>2, <2>4
<1>5. /\ plan[p] # NoPlan /\ plan[p].order = o /\ r # NoPlan /\ r.order = o /\ r.quantity = t.quantity
      /\ n <= OrderQuantity[o]
  BY <1>1, <1>3, <1>4 DEF Fits, PlantAssumption
<1>6. plan' = [plan EXCEPT ![p] = r]
  <2>1. plan \in [Plans -> {NoPlan} \cup PlanRecords] /\ plan[p] \in PlanRecords
    BY <1>3, <1>4 DEF OrderInv, TypeOK
  <2>2. plan' = [plan EXCEPT ![p] = plan'[p]] /\ plan'[p] \in PlanRecords
    BY <1>2, <1>4, <2>1 DEF CommitUpdatePlan, PlanRecords
  <2>3. plan'[p].order = o /\ plan'[p].slot = t.slot /\ plan'[p].quantity = t.quantity
    BY <1>4, <1>5, <2>1 DEF CommitUpdatePlan, PlanRecords
  <2>4. plan'[p] = r
    BY <1>4, <2>2, <2>3 DEF PlanRecords
  <2> QED BY <2>2, <2>4
<1>7. /\ status' = [status EXCEPT ![o] = PlanningStatus(n, o)]
      /\ UNCHANGED <<running, submitted, actuals, verdict, dispatched>>
  BY <1>4 DEF CommitUpdatePlan
<1>8. \/ logbook' = [logbook EXCEPT ![p] = Blank] /\ DropRequestsOn(p, c)
      \/ logbook' = logbook /\ tx' = [tx EXCEPT ![c] = Idle]
  BY <1>4 DEF CommitUpdatePlan, Done
<1>9. /\ plan'[p] = r /\ \A q \in Plans \ {p} : plan'[q] = plan[q] /\ logbook'[q] = logbook[q]
      /\ Idle \in Requests
  BY <1>6, <1>8 DEF OrderInv, TypeOK, Requests
<1>10. /\ tx' \in [Clients -> Requests] /\ tx'[c] = Idle
       /\ \A d \in Clients : \/ tx'[d] = Idle
                             \/ tx'[d] = tx[d] /\ (tx[d].op \in {"edit", "submit"} /\ tx[d].plan = p =>
                                                     plan'[p] # NoPlan /\ logbook'[p] = logbook[p])
  BY <1>5, <1>8, <1>9 DEF OrderInv, TypeOK, DropRequestsOn
<1>11. TypeOK'
  <2>1. plan' \in [Plans -> {NoPlan} \cup PlanRecords] /\ submitted' \subseteq {q \in Plans : plan'[q] # NoPlan}
    BY <1>5, <1>6, <1>7, <1>9 DEF OrderInv, TypeOK
  <2>2. status' \in [Orders -> {"ready_to_plan", "partially_planned", "planned", "packed", "dispatched"}]
    BY <1>7, PlanningStatuses DEF OrderInv, TypeOK
  <2>3. logbook' \in [Plans -> Sheets \cup {Blank}]
    BY <1>8 DEF OrderInv, TypeOK
  <2> QED BY <1>7, <1>10, <2>1, <2>2, <2>3 DEF OrderInv, TypeOK
<1>12. n = PlannedBy(PlansOf(o))'
  <2>1. PlansTyped /\ PlansTyped'
    BY <1>11 DEF OrderInv, TypeOK, PlansTyped
  <2>2. PlannedBy(PlansOf(o))' = PlannedBy(PlansOf(o) \ {p}) + plan'[p].quantity
    BY <1>5, <1>9, <2>1, OnePlanChanges
  <2> QED BY <1>4, <1>5, <1>9, <2>2
<1>13. PlanWritten(c, p, o, n)
  BY <1>1, <1>4, <1>5, <1>7, <1>9, <1>10, <1>12 DEF PlanWritten
<1> QED BY <1>11, <1>13, PlanCommits

\* releasePlan deleted its plan and logbook.
LEMMA ReleaseCommits ==
    ASSUME PlantAssumption, OrderInv, BookingInv, NEW c \in Clients, CommitReleasePlan(c)
    PROVE  OrderInv'
<1> DEFINE t == tx[c]
<1>1. /\ t \in Requests /\ t.op = "release" /\ Lasting(t) /\ Fits(t)
  BY DEF CommitReleasePlan, OrderInv, TypeOK
<1>2. PICK p \in Plans, o \in Orders, n \in Int : p = t.plan /\ o = t.order /\ n = PlannedBy(PlansOf(o) \ {p})
  <2>1. t.plan \in Plans /\ t.order \in Orders
    BY <1>1, RequestFacts DEF OrderCommands
  <2>2. PlansOf(t.order) \ {t.plan} \in SUBSET PlansOf(t.order)
    OBVIOUS
  <2>3. PlansTyped
    BY DEF OrderInv, TypeOK, PlansTyped
  <2>4. PlannedBy(PlansOf(t.order) \ {t.plan}) \in Nat
    BY <2>1, <2>2, <2>3, PlannedNat
  <2>5. PlannedBy(PlansOf(t.order) \ {t.plan}) \in Int
    BY <2>4
  <2> HIDE DEF t
  <2> QED BY <2>1, <2>5
<1>3. plan[p] # NoPlan /\ plan[p].order = o /\ p \notin submitted
  BY <1>1, <1>2 DEF Fits, Lasting
<1>4. /\ plan' = [plan EXCEPT ![p] = NoPlan]
      /\ logbook' = [logbook EXCEPT ![p] = Blank] /\ DropRequestsOn(p, c)
      /\ status' = [status EXCEPT ![o] = PlanningStatus(n, o)]
      /\ UNCHANGED <<running, submitted, actuals, verdict, dispatched>>
  BY <1>2 DEF CommitReleasePlan
<1>5. /\ plan'[p] = NoPlan /\ \A q \in Plans \ {p} : plan'[q] = plan[q] /\ logbook'[q] = logbook[q]
      /\ Idle \in Requests
  BY <1>4 DEF OrderInv, TypeOK, Requests
<1>6. /\ tx' \in [Clients -> Requests] /\ tx'[c] = Idle
      /\ \A d \in Clients : \/ tx'[d] = Idle
                            \/ tx'[d] = tx[d] /\ ~(tx[d].op \in {"edit", "submit"} /\ tx[d].plan = p)
  BY <1>4, <1>5 DEF OrderInv, TypeOK, DropRequestsOn
<1>7. TypeOK'
  <2>1. plan' \in [Plans -> {NoPlan} \cup PlanRecords] /\ submitted' \subseteq {q \in Plans : plan'[q] # NoPlan}
    BY <1>3, <1>4, <1>5 DEF OrderInv, TypeOK
  <2>2. status' \in [Orders -> {"ready_to_plan", "partially_planned", "planned", "packed", "dispatched"}]
    BY <1>4, PlanningStatuses DEF OrderInv, TypeOK
  <2>3. logbook' \in [Plans -> Sheets \cup {Blank}]
    BY <1>4 DEF OrderInv, TypeOK
  <2> QED BY <1>4, <1>6, <2>1, <2>2, <2>3 DEF OrderInv, TypeOK
<1>8. n = PlannedBy(PlansOf(o))'
  <2>1. PlansTyped /\ PlansTyped'
    BY <1>7 DEF OrderInv, TypeOK, PlansTyped
  <2>2. PlannedBy(PlansOf(o))' = PlannedBy(PlansOf(o) \ {p})
    BY <1>3, <1>5, <2>1, OnePlanChanges
  <2> QED BY <1>2, <2>2
<1>9. n <= OrderQuantity[o]
  <2>1. PlansOf(o) \in SUBSET Plans /\ p \in PlansOf(o) /\ \A q \in PlansOf(o) : plan[q].quantity \in Nat
    BY <1>3, QuantityFacts DEF PlansOf, OrderInv, TypeOK, PlanRecords
  <2>2. Amount(plan, PlansOf(o)) = plan[p].quantity + Amount(plan, PlansOf(o) \ {p})
    BY <2>1, AmountFacts DEF PlantAssumption
  <2>3. Amount(plan, PlansOf(o) \ {p}) \in Nat
    <3>1. PlansOf(o) \ {p} \in SUBSET Plans /\ \A q \in PlansOf(o) \ {p} : plan[q].quantity \in Nat
      BY <2>1
    <3> QED BY <3>1, AmountFacts DEF PlantAssumption
  <2>4. Amount(plan, PlansOf(o)) = PlannedBy(PlansOf(o)) /\ Amount(plan, PlansOf(o) \ {p}) = n
    BY <1>2 DEF Amount, PlannedBy
  <2>5. PlannedBy(PlansOf(o)) <= OrderQuantity[o] /\ OrderQuantity[o] \in Nat /\ plan[p].quantity \in Nat
    BY <2>1, QuantityFacts DEF OrderInv, Totals, NoOverPlanning
  <2> QED BY <2>2, <2>3, <2>4, <2>5
<1>10. PlanWritten(c, p, o, n)
  BY <1>1, <1>2, <1>3, <1>4, <1>5, <1>6, <1>8, <1>9 DEF PlanWritten
<1> QED BY <1>7, <1>10, PlanCommits

\* What a booking or a command has read fits when it begins.
LEMMA CreateBegins ==
    ASSUME PlantAssumption, OrderInv, NEW c \in Clients, NEW p \in Plans, NEW o \in Orders, NEW s \in Slots,
           NEW q \in Quantities, BeginCreatePlan(c, p, o, s, q)
    PROVE  OrderInv'
<1> DEFINE before == PlannedBy(PlansOf(o))
           r == [op |-> "create", plan |-> p, order |-> o, slot |-> s, quantity |-> q, before |-> before]
<1>1. before \in Nat /\ q \in Nat /\ before <= OrderQuantity[o] /\ OrderQuantity[o] \in Nat
  <2>1. PlansTyped
    BY DEF OrderInv, TypeOK, PlansTyped
  <2> QED BY <2>1, PlannedNat, QuantityFacts DEF OrderInv, Totals, NoOverPlanning
<1> HIDE DEF before
<1>2. before \in Quantities
  BY <1>1, QuantityFacts
<1>3. /\ OrderLockFree(o) /\ q > 0 /\ q <= OrderQuantity[o] - before
      /\ plan[p] = NoPlan /\ \A d \in Active({"create"}) : tx[d].plan # p
      /\ Start(c, r) /\ OnlyTx
  BY DEF BeginCreatePlan, before
<1>4. r \in Requests /\ Lasting(r)
  BY <1>2, <1>3 DEF Requests, Lasting
<1>5. Fits(r)
  BY <1>1, <1>3 DEF Fits, before
<1> QED BY <1>3, <1>4, <1>5, BeginKeeps

\* updatePlan took its locks and checked the quantity against the other plans of the order.
LEMMA UpdateBegins ==
    ASSUME PlantAssumption, OrderInv, NEW c \in Clients, NEW p \in Plans, NEW s \in Slots,
           NEW q \in Quantities, BeginUpdatePlan(c, p, s, q)
    PROVE  OrderInv'
<1> DEFINE o == plan[p].order
           rest == PlannedBy(PlansOf(o) \ {p})
           r == [op |-> "update", plan |-> p, order |-> o, slot |-> s, quantity |-> q]
<1>1. /\ plan[p] # NoPlan /\ OrderLockFree(o) /\ p \notin submitted
      /\ q > 0 /\ q <= OrderQuantity[o] - rest
      /\ Start(c, r) /\ OnlyTx
  BY DEF BeginUpdatePlan
<1>2. o \in Orders
  BY <1>1 DEF OrderInv, TypeOK, PlanRecords
<1>3. rest \in Nat /\ q \in Nat /\ OrderQuantity[o] \in Nat
  <2>1. PlansTyped /\ PlansOf(o) \ {p} \in SUBSET PlansOf(o)
    BY DEF OrderInv, TypeOK, PlansTyped
  <2> QED BY <1>2, <2>1, PlannedNat, QuantityFacts
<1>4. r \in Requests /\ Lasting(r)
  BY <1>1, <1>2 DEF Requests, Lasting
<1>5. rest + q <= OrderQuantity[o]
  <2> HIDE DEF rest
  <2> QED BY <1>1, <1>3
<1>6. Fits(r)
  BY <1>1, <1>5 DEF Fits
<1> QED BY <1>1, <1>4, <1>6, BeginKeeps

\* releasePlan took its locks.
LEMMA OrderReleaseBegins ==
    ASSUME PlantAssumption, OrderInv, NEW c \in Clients, NEW p \in Plans, BeginReleasePlan(c, p)
    PROVE  OrderInv'
<1> DEFINE r == [op |-> "release", plan |-> p, order |-> plan[p].order]
<1>1. /\ plan[p] # NoPlan /\ OrderLockFree(plan[p].order) /\ p \notin submitted
      /\ Start(c, r) /\ OnlyTx
  BY DEF BeginReleasePlan
<1>2. r \in Requests /\ Lasting(r) /\ Fits(r)
  BY <1>1 DEF OrderInv, TypeOK, PlanRecords, Requests, Lasting, Fits
<1> QED BY <1>1, <1>2, BeginKeeps

\* dispatchOrder took the lock of the order and checked the quantity.
LEMMA DispatchBegins ==
    ASSUME PlantAssumption, OrderInv, NEW c \in Clients, NEW o \in Orders, NEW q \in Quantities, BeginDispatch(c, o, q),
           dispatched[o] + q <= OrderQuantity[o]
    PROVE  OrderInv'
<1> DEFINE r == [op |-> "dispatch", order |-> o, quantity |-> q]
<1>1. OrderLockFree(o) /\ Start(c, r) /\ OnlyTx
  BY DEF BeginDispatch
<1>2. r \in Requests /\ Lasting(r) /\ Fits(r)
  BY DEF Requests, Lasting, Fits
<1> QED BY <1>1, <1>2, BeginKeeps

\* A request on a logbook read it and found it open.
LEMMA SheetBegins ==
    ASSUME PlantAssumption, OrderInv, NEW c \in Clients, NEW p \in Plans,
           (\E sheet \in Sheets : BeginEdit(c, p, sheet)) \/ BeginSubmit(c, p)
    PROVE  OrderInv'
<1>1. ASSUME NEW sheet \in Sheets, BeginEdit(c, p, sheet) PROVE OrderInv'
  <2> DEFINE r == [op |-> "edit", plan |-> p, sheet |-> sheet]
  <2>1. plan[p] # NoPlan /\ Start(c, r) /\ OnlyTx
    BY <1>1 DEF BeginEdit
  <2>2. r \in Requests /\ Lasting(r) /\ Fits(r) /\ r.op \notin OrderCommands /\ r.op # "create"
    BY <2>1 DEF Requests, Lasting, Fits, PlantAssumption, OrderCommands
  <2> QED BY <2>1, <2>2, BeginKeeps
<1>2. ASSUME BeginSubmit(c, p) PROVE OrderInv'
  <2> DEFINE r == [op |-> "submit", plan |-> p, sheet |-> logbook[p]]
  <2>1. plan[p] # NoPlan /\ logbook[p] # Blank /\ Start(c, r) /\ OnlyTx
    BY <1>2 DEF BeginSubmit
  <2>2. r \in Requests /\ Lasting(r) /\ Fits(r) /\ r.op \notin OrderCommands /\ r.op # "create"
    BY <2>1 DEF OrderInv, TypeOK, Requests, Lasting, Fits, OrderCommands
  <2> QED BY <2>1, <2>2, BeginKeeps
<1> QED BY <1>1, <1>2

\* The logbook is written, the request ends, or QA decides: the order is not touched.
LEMMA OrderUntouched ==
    ASSUME OrderInv, TypeOK', UNCHANGED <<status, plan, dispatched>>,
           \A d \in Clients :
             \/ tx'[d] = Idle
             \/ /\ tx'[d] = tx[d]
                /\ tx[d].op \in {"update", "release"} => tx[d].plan \notin submitted'
                /\ tx[d].op = "submit" => logbook'[tx[d].plan] # Blank
    PROVE  OrderInv'
<1>1. Totals'
  BY DEF OrderInv, Totals, NoOverPlanning, StatusTellsPlanning, NoOverDispatch, PlannedBy, PlansOf
<1>2. ASSUME NEW d \in Clients, tx'[d] # Idle PROVE tx'[d] = tx[d] /\ Lasting(tx[d])' /\ Fits(tx[d])'
  BY <1>2, RequestUntouched
<1>3. \A d \in Clients : tx'[d] = Idle \/ (tx'[d] = tx[d] /\ Lasting(tx[d])' /\ Fits(tx[d])')
  BY <1>2
<1> QED BY <1>1, <1>3, EndKeeps

\* A request on a logbook wrote it, with the actuals it implies.
LEMMA LogbookCommits ==
    ASSUME PlantAssumption, OrderInv, NEW c \in Clients, CommitEdit(c) \/ CommitSubmit(c)
    PROVE  OrderInv'
<1> DEFINE t == tx[c]
           p == t.plan
<1>1. /\ t \in Requests /\ t.op \in {"edit", "submit"} /\ Lasting(t)
  BY DEF CommitEdit, CommitSubmit, OrderInv, TypeOK
<1>2. p \in Plans /\ plan[p] # NoPlan /\ t.sheet \in Sheets /\ Blank \notin Sheets
  BY <1>1, RequestFacts DEF Lasting, PlantAssumption
<1>3. /\ tx' = [tx EXCEPT ![c] = Idle] /\ tx' \in [Clients -> Requests]
      /\ tx'[c] = Idle /\ \A d \in Clients \ {c} : tx'[d] = tx[d]
  BY DEF CommitEdit, CommitSubmit, Done, OrderInv, TypeOK, Requests
<1>4. CASE CommitEdit(c)
  <2>1. /\ logbook' = [logbook EXCEPT ![p] = t.sheet]
        /\ UNCHANGED <<status, plan, running, submitted, actuals, verdict, dispatched>>
    BY <1>4 DEF CommitEdit
  <2>2. TypeOK'
    BY <1>2, <1>3, <2>1 DEF OrderInv, TypeOK
  <2>3. ASSUME NEW d \in Clients, d # c
        PROVE  /\ tx[d].op \in {"update", "release"} => tx[d].plan \notin submitted'
               /\ tx[d].op = "submit" => logbook'[tx[d].plan] # Blank
    <3>1. Lasting(tx[d]) /\ tx[d] \in Requests
      BY DEF OrderInv, TypeOK
    <3>2. tx[d].op = "submit" => tx[d].plan \in Plans
      BY <3>1, RequestFacts
    <3> QED BY <1>2, <2>1, <3>1, <3>2 DEF Lasting, OrderInv, TypeOK
  <2> QED BY <1>3, <2>1, <2>2, <2>3, OrderUntouched
<1>5. CASE CommitSubmit(c)
  <2>1. /\ PlanLockFree(p) /\ t.op = "submit"
        /\ submitted' = submitted \cup {p} /\ running' = running \cup {p}
        /\ actuals' = [actuals EXCEPT ![p] = @ \cup {[by |-> c, consumed |-> t.sheet, output |-> logbook[p]]}]
        /\ UNCHANGED <<status, plan, logbook, verdict, dispatched>>
    BY <1>5 DEF CommitSubmit
  <2>2. logbook[p] \in Sheets
    BY <1>1, <1>2, <2>1 DEF Lasting, OrderInv, TypeOK
  <2>3. actuals' \in [Plans -> SUBSET [by : Clients, consumed : Sheets, output : Sheets]]
    <3> DEFINE Booking == [by : Clients, consumed : Sheets, output : Sheets]
               b == [by |-> c, consumed |-> t.sheet, output |-> logbook[p]]
    <3>1. actuals \in [Plans -> SUBSET Booking]
      BY DEF OrderInv, TypeOK
    <3>2. b \in Booking
      BY <1>2, <2>2
    <3>3. actuals' = [actuals EXCEPT ![p] = @ \cup {b}]
      BY <2>1
    <3> HIDE DEF Booking, b
    <3>4. actuals' \in [Plans -> SUBSET Booking]
      BY <1>2, <3>1, <3>2, <3>3
    <3> QED BY <3>4 DEF Booking
  <2>4. TypeOK'
    BY <1>2, <1>3, <2>1, <2>3 DEF OrderInv, TypeOK
  <2>5. ASSUME NEW d \in Clients, d # c
        PROVE  /\ tx[d].op \in {"update", "release"} => tx[d].plan \notin submitted'
               /\ tx[d].op = "submit" => logbook'[tx[d].plan] # Blank
    <3>1. Lasting(tx[d])
      BY DEF OrderInv
    <3>2. tx[d].op \in {"update", "release"} => tx[d].plan # p
      BY <2>1 DEF PlanLockFree, Active
    <3> QED BY <2>1, <3>1, <3>2 DEF Lasting
  <2> QED BY <1>3, <2>1, <2>4, <2>5, OrderUntouched
<1> QED BY <1>4, <1>5

\* dispatchOrder wrote the quantity it checked, and the status.
LEMMA DispatchCommits ==
    ASSUME PlantAssumption, OrderInv, NEW c \in Clients, CommitDispatch(c)
    PROVE  OrderInv'
<1> DEFINE t == tx[c]
<1>1. /\ t \in Requests /\ t.op = "dispatch" /\ Fits(t)
  BY DEF CommitDispatch, OrderInv, TypeOK
<1>2. PICK o \in Orders, n \in Int : o = t.order /\ n = dispatched[o] + t.quantity
  <2>1. t.order \in Orders /\ t.quantity \in Nat
    BY <1>1, RequestFacts, QuantityFacts DEF OrderCommands
  <2>2. dispatched[t.order] \in Nat
    BY <2>1, QuantityFacts DEF OrderInv, TypeOK
  <2> QED BY <2>1, <2>2
<1>3. n \in Nat /\ n <= OrderQuantity[o] /\ n \in Quantities
  <2>1. t.quantity \in Nat /\ dispatched[o] \in Nat
    BY <1>1, RequestFacts, QuantityFacts DEF OrderInv, TypeOK
  <2>2. n <= OrderQuantity[o] /\ OrderQuantity[o] \in Nat
    BY <1>1, <1>2, QuantityFacts DEF Fits
  <2>3. n \in Nat
    BY <1>2, <2>1
  <2> QED BY <2>2, <2>3, QuantityFacts
<1>4. /\ dispatched' = [dispatched EXCEPT ![o] = n]
      /\ status' = [status EXCEPT ![o] = IF n >= OrderQuantity[o] THEN "dispatched" ELSE "packed"]
      /\ tx' = [tx EXCEPT ![c] = Idle]
      /\ UNCHANGED <<plan, running, logbook, submitted, actuals, verdict>>
  BY <1>2 DEF CommitDispatch, Done, bookVars
<1>5. /\ dispatched'[o] = n /\ \A u \in Orders \ {o} : dispatched'[u] = dispatched[u] /\ status'[u] = status[u]
      /\ status'[o] \in {"dispatched", "packed"}
      /\ tx'[c] = Idle /\ \A d \in Clients \ {c} : tx'[d] = tx[d]
      /\ Idle \in Requests
  BY <1>4 DEF OrderInv, TypeOK, Requests
<1>6. TypeOK'
  <2>1. status' \in [Orders -> {"ready_to_plan", "partially_planned", "planned", "packed", "dispatched"}]
    BY <1>4 DEF OrderInv, TypeOK
  <2>2. dispatched' \in [Orders -> Quantities] /\ tx' \in [Clients -> Requests]
    BY <1>3, <1>4, <1>5 DEF OrderInv, TypeOK
  <2> QED BY <1>4, <2>1, <2>2 DEF OrderInv, TypeOK
<1>7. Totals'
  <2>1. NoOverPlanning'
    BY <1>4 DEF OrderInv, Totals, NoOverPlanning, PlannedBy, PlansOf
  <2>2. StatusTellsPlanning'
    BY <1>4, <1>5 DEF OrderInv, Totals, StatusTellsPlanning, PlannedBy, PlansOf
  <2>3. NoOverDispatch'
    BY <1>3, <1>5 DEF OrderInv, Totals, NoOverDispatch
  <2> QED BY <2>1, <2>2, <2>3 DEF Totals
<1>8. ASSUME NEW d \in Clients, tx'[d] # Idle PROVE tx'[d] = tx[d] /\ Lasting(tx[d])' /\ Fits(tx[d])'
  <2>1. d # c /\ tx'[d] = tx[d] /\ Lasting(tx[d]) /\ tx[d] \in Requests
    BY <1>5, <1>8 DEF OrderInv, TypeOK
  <2>2. tx[d].op = "dispatch" => tx[d].order \in Orders /\ tx[d].order # o
    BY <1>1, <1>2, <2>1, RequestFacts DEF OrderInv, OrdersApart, Active, OrderCommands
  <2>3. /\ tx[d].op = "dispatch" => dispatched'[tx[d].order] = dispatched[tx[d].order]
        /\ tx[d].op \in {"update", "release"} => tx[d].plan \notin submitted'
        /\ tx[d].op = "submit" => logbook'[tx[d].plan] # Blank
    BY <1>4, <1>5, <2>1, <2>2 DEF Lasting
  <2> QED BY <1>4, <2>1, <2>3, RequestUntouched
<1>9. \A d \in Clients : tx'[d] = Idle \/ (tx'[d] = tx[d] /\ Lasting(tx[d])' /\ Fits(tx[d])')
  BY <1>8
<1> QED BY <1>6, <1>7, <1>9, EndKeeps

\* Aborts and the steps outside the transactions touch no plan, total or other request.
LEMMA OthersKeep ==
    ASSUME PlantAssumption, OrderInv,
           \/ UNCHANGED vars
           \/ \E c \in Clients : Abort(c)
           \/ \E l \in Lots, d \in {"pass", "hold", "fail"} : Inspect(l, d)
    PROVE  OrderInv'
<1>1. /\ UNCHANGED <<status, plan, running, logbook, submitted, actuals, dispatched>>
      /\ verdict' = verdict \/ \E l \in Lots, d \in {"pass", "hold", "fail"} : verdict' = [verdict EXCEPT ![l] = d]
      /\ tx' = tx \/ \E c \in Clients : tx' = [tx EXCEPT ![c] = Idle]
  BY DEF vars, bookVars, Abort, Done, OnlyTx, Inspect
<1>2. TypeOK'
  <2>1. verdict' \in [Lots -> {"none", "pass", "hold", "fail"}]
    BY <1>1 DEF OrderInv, TypeOK
  <2>2. tx' \in [Clients -> Requests]
    BY <1>1 DEF OrderInv, TypeOK, Requests
  <2> QED BY <1>1, <2>1, <2>2 DEF OrderInv, TypeOK
<1>3. ASSUME NEW d \in Clients
      PROVE  \/ tx'[d] = Idle
             \/ /\ tx'[d] = tx[d]
                /\ tx[d].op \in {"update", "release"} => tx[d].plan \notin submitted'
                /\ tx[d].op = "submit" => logbook'[tx[d].plan] # Blank
  <2>1. Lasting(tx[d])
    BY DEF OrderInv
  <2>2. tx'[d] = Idle \/ tx'[d] = tx[d]
    BY <1>1 DEF OrderInv, TypeOK
  <2> QED BY <1>1, <2>1, <2>2 DEF Lasting
<1> QED BY <1>1, <1>2, <1>3, OrderUntouched

-----------------------------------------------------------------------------
(* What may leave: completed in submitted logbooks, and released by QA.    *)

\* The least of three integers.
LEMMA LeastOfThree ==
    ASSUME NEW a \in Int, NEW b \in Int, NEW c \in Int
    PROVE  /\ Min({a, b, c}) <= a /\ Min({a, b, c}) <= b /\ Min({a, b, c}) <= c
           /\ Min({a, b, c}) \in Int
<1>1. \E x \in {a, b, c} : \A y \in {a, b, c} : x <= y
  <2>1. CASE a <= b /\ a <= c
    BY <2>1
  <2>2. CASE b <= a /\ b <= c
    BY <2>2
  <2>3. CASE c <= a /\ c <= b
    BY <2>3
  <2> QED BY <2>1, <2>2, <2>3
<1>2. Min({a, b, c}) \in {a, b, c} /\ \A y \in {a, b, c} : Min({a, b, c}) <= y
  BY <1>1 DEF Min
<1> QED BY <1>2

\* What a dispatch is checked against are natural numbers.
LEMMA GroundsTyped ==
    ASSUME PlantAssumption, TypeOK, NEW o \in Orders
    PROVE  /\ Completed(o) \in Nat
           /\ IsFiniteSet(ReleasedLots(o)) /\ Cardinality(ReleasedLots(o)) \in Nat
<1> DEFINE S == PlansOf(o) \cap submitted
           f == [p \in S |-> logbook[p].total]
<1>1. \A p \in Plans : logbook[p].total \in Nat /\ logbook[p].lots \in SUBSET Lots
  BY DEF TypeOK, PlantAssumption, Blank
<1>2. IsFiniteSet(S)
  BY FS_Subset DEF PlantAssumption, PlansOf
<1>3. f \in [S -> Nat]
  BY <1>1 DEF PlansOf
<1>4. Completed(o) \in Nat
  <2>1. Completed(o) = SumFunction(f)
    BY DEF Completed
  <2> HIDE DEF f, S
  <2> QED BY <1>2, <1>3, <2>1, SumOfNaturals
<1>5. ReleasedLots(o) \in SUBSET Lots
  BY <1>1 DEF ReleasedLots, PlansOf
<1>6. IsFiniteSet(ReleasedLots(o))
  BY <1>5, FS_Subset DEF PlantAssumption
<1> QED BY <1>4, <1>6, FS_CardinalityType

\* The same after a step.
LEMMA GroundsTypedAfter ==
    ASSUME PlantAssumption, TypeOK', NEW o \in Orders
    PROVE  Completed(o)' \in Nat /\ Cardinality(ReleasedLots(o)') \in Nat
<1> DEFINE S == PlansOf(o)' \cap submitted'
           f == [p \in S |-> logbook'[p].total]
<1>1. \A p \in Plans : logbook'[p].total \in Nat /\ logbook'[p].lots \in SUBSET Lots
  BY DEF TypeOK, PlantAssumption, Blank
<1>2. IsFiniteSet(S) /\ f \in [S -> Nat]
  BY <1>1, FS_Subset DEF PlantAssumption, PlansOf
<1>3. Completed(o)' = SumFunction(f)
  BY DEF Completed
<1>4. Completed(o)' \in Nat
  <2> HIDE DEF f, S
  <2> QED BY <1>2, <1>3, SumOfNaturals
<1>5. ReleasedLots(o)' \in SUBSET Lots
  BY <1>1 DEF ReleasedLots, PlansOf
<1> QED BY <1>4, <1>5, FS_Subset, FS_CardinalityType DEF PlantAssumption

\* What an order can dispatch is not more than any of the three.
LEMMA DispatchableBounds ==
    ASSUME PlantAssumption, OrderInv, NEW o \in Orders, NEW q \in Quantities, q <= Dispatchable(o)
    PROVE  /\ dispatched[o] + q <= OrderQuantity[o]
           /\ dispatched[o] + q <= Completed(o)
           /\ dispatched[o] + q <= Cardinality(ReleasedLots(o))
<1> DEFINE a == Completed(o)
           b == Cardinality(ReleasedLots(o))
           c == OrderQuantity[o]
           least == Min({a, b, c})
<1>1. a \in Int /\ b \in Int /\ c \in Int /\ dispatched[o] \in Nat /\ q \in Nat
  BY GroundsTyped, QuantityFacts DEF OrderInv, TypeOK
<1>2. q <= least - dispatched[o]
  BY DEF Dispatchable
<1> HIDE DEF a, b, c
<1>3. least <= a /\ least <= b /\ least <= c /\ least \in Int
  BY <1>1, LeastOfThree
<1> HIDE DEF least
<1>4. dispatched[o] + q <= a /\ dispatched[o] + q <= b /\ dispatched[o] + q <= c
  BY <1>1, <1>2, <1>3
<1> QED BY <1>4 DEF a, b, c

\* Every step keeps the invariant.
LEMMA NextOrder == PlantAssumption /\ BookingInv /\ OrderInv /\ [Next]_vars => OrderInv'
<1> SUFFICES ASSUME PlantAssumption, BookingInv, OrderInv, [Next]_vars PROVE OrderInv'
  OBVIOUS
<1>1. ASSUME NEW c \in Clients, NEW p \in Plans, NEW o \in Orders, NEW s \in Slots, NEW q \in Quantities,
             BeginCreatePlan(c, p, o, s, q)
      PROVE  OrderInv'
  BY <1>1, CreateBegins
<1>2. ASSUME NEW c \in Clients, NEW p \in Plans, NEW s \in Slots, NEW q \in Quantities,
             BeginUpdatePlan(c, p, s, q)
      PROVE  OrderInv'
  BY <1>2, UpdateBegins
<1>3. ASSUME NEW c \in Clients, NEW p \in Plans,
             BeginReleasePlan(c, p) \/ (\E sheet \in Sheets : BeginEdit(c, p, sheet)) \/ BeginSubmit(c, p)
      PROVE  OrderInv'
  BY <1>3, OrderReleaseBegins, SheetBegins
<1>4. ASSUME NEW c \in Clients, NEW o \in Orders, NEW q \in Quantities, BeginDispatch(c, o, q)
      PROVE  OrderInv'
  <2>1. dispatched[o] + q <= OrderQuantity[o]
    BY <1>4, DispatchableBounds DEF BeginDispatch
  <2> QED BY <1>4, <2>1, DispatchBegins
<1>5. ASSUME NEW c \in Clients, CommitCreatePlan(c) \/ CommitReleasePlan(c) PROVE OrderInv'
  BY <1>5, CreateCommits, ReleaseCommits
<1>6. ASSUME NEW c \in Clients, NEW changed \in BOOLEAN, CommitUpdatePlan(c, changed) PROVE OrderInv'
  BY <1>6, UpdateCommits
<1>7. ASSUME NEW c \in Clients, CommitEdit(c) \/ CommitSubmit(c) \/ CommitDispatch(c) PROVE OrderInv'
  BY <1>7, LogbookCommits, DispatchCommits
<1>8. ASSUME \/ UNCHANGED vars
             \/ \E c \in Clients : Abort(c)
             \/ \E l \in Lots, d \in {"pass", "hold", "fail"} : Inspect(l, d)
      PROVE  OrderInv'
  BY <1>8, OthersKeep
<1> QED BY <1>1, <1>2, <1>3, <1>4, <1>5, <1>6, <1>7, <1>8 DEF Next

\* OrderInv holds before anything was planned.
LEMMA InitOrder == PlantAssumption /\ Init => OrderInv
<1> SUFFICES ASSUME PlantAssumption, Init PROVE OrderInv
  OBVIOUS
<1>1. /\ \A o \in Orders : PlansOf(o) = {} /\ OrderQuantity[o] \in Nat /\ OrderQuantity[o] > 0 /\ 0 \in Quantities
      /\ PlannedBy({}) = 0
  <2>1. PlannedBy({}) = 0
    BY SumEmpty DEF PlannedBy, SumFunction
  <2> QED BY <2>1, QuantityFacts DEF Init, PlansOf
<1>2. TypeOK
  BY <1>1 DEF Init, TypeOK, Requests
<1>3. Totals
  <2>1. \A o \in Orders : PlannedBy(PlansOf(o)) = 0 /\ dispatched[o] = 0 /\ status[o] = "ready_to_plan"
    BY <1>1 DEF Init
  <2>2. \A o \in Orders : PlanningStatus(0, o) = "ready_to_plan"
    BY <1>1 DEF PlanningStatus
  <2> QED BY <1>1, <2>1, <2>2 DEF Totals, NoOverPlanning, StatusTellsPlanning, NoOverDispatch
<1>4. \A c \in Clients : tx[c].op = "idle"
  BY DEF Init, Idle
<1>5. CreatesApart /\ OrdersApart
  BY <1>4 DEF CreatesApart, OrdersApart, Active, OrderCommands
<1>6. \A c \in Clients : Lasting(tx[c]) /\ Fits(tx[c])
  BY <1>4 DEF Lasting, Fits
<1> QED BY <1>2, <1>3, <1>5, <1>6 DEF OrderInv

\* Both invariants hold at all times.
LEMMA OrderInductive == PlantAssumption => (Spec => [](BookingInv /\ OrderInv))
<1> SUFFICES ASSUME PlantAssumption PROVE Spec => [](BookingInv /\ OrderInv)
  OBVIOUS
<1>1. Init => BookingInv /\ OrderInv
  BY InitBooking, InitOrder
<1>2. BookingInv /\ OrderInv /\ [Next]_vars => BookingInv' /\ OrderInv'
  BY NextBooking, NextOrder
<1> QED BY <1>1, <1>2, PTL DEF Spec

\* Every variable keeps its type: a running plan is submitted and a submitted plan exists, a
\* logbook or a booking is a sheet an operator wrote (mesaops/planning, logbook, quality, dispatch).
THEOREM PlantOrderTyped == PlantAssumption => (Spec => []TypeOK)
<1>1. OrderInv => TypeOK
  BY DEF OrderInv
<1> QED BY <1>1, OrderInductive, PTL

\* No order is planned or dispatched beyond its quantity, however creations, updates and releases
\* of its plans and its dispatches overlap (planning/service.ts: the remaining quantity under the
\* order lock; dispatch/service.ts: the bound by what remains).
THEOREM QuantitiesBounded == PlantAssumption => (Spec => [](NoOverPlanning /\ NoOverDispatch))
<1>1. OrderInv => NoOverPlanning /\ NoOverDispatch
  BY DEF OrderInv, Totals
<1> QED BY <1>1, OrderInductive, PTL

\* The status of an order in planning is what its plans amount to, though a creation computes it
\* from the total it read before it inserted (planning/service.ts: the status writes of create,
\* update and release).
THEOREM StatusFollowsPlans == PlantAssumption => (Spec => []StatusTellsPlanning)
<1>1. OrderInv => StatusTellsPlanning
  BY DEF OrderInv, Totals
<1> QED BY <1>1, OrderInductive, PTL

-----------------------------------------------------------------------------
(* One client at a time: what has left was completed and released.  With   *)
(* two, an edit that was checked before a submission is written after it.  *)

\* An edit that is in flight is of a logbook that is not submitted.
EditsOpen == \A c \in Clients : tx[c].op = "edit" => tx[c].plan \notin submitted

\* A dispatch in flight is of what was completed and released when it was checked, and still is.
DispatchesCovered ==
    \A c \in Clients, o \in Orders : (tx[c].op = "dispatch" /\ tx[c].order = o) =>
      /\ dispatched[o] + tx[c].quantity <= Completed(o)
      /\ dispatched[o] + tx[c].quantity <= Cardinality(ReleasedLots(o))

BackedInv == DispatchBacked /\ EditsOpen /\ DispatchesCovered

\* No step takes back a submission or a release, or changes a submitted logbook.
LEMMA GroundsKept ==
    ASSUME PlantAssumption, OrderInv, EditsOpen, [Next]_vars
    PROVE  /\ submitted \subseteq submitted'
           /\ \A p \in submitted : plan'[p] = plan[p] /\ logbook'[p] = logbook[p]
           /\ \A l \in Lots : verdict[l] = "pass" => verdict'[l] = "pass"
<1> DEFINE Kept == /\ submitted \subseteq submitted'
                   /\ \A p \in submitted : plan'[p] = plan[p] /\ logbook'[p] = logbook[p]
                   /\ \A l \in Lots : verdict[l] = "pass" => verdict'[l] = "pass"
<1>1. ASSUME UNCHANGED <<plan, logbook, submitted, verdict>> PROVE Kept
  BY <1>1
<1>2. ASSUME OnlyTx PROVE Kept
  BY <1>2, <1>1 DEF OnlyTx, bookVars
<1>3. ASSUME NEW c \in Clients, CommitCreatePlan(c) \/ CommitReleasePlan(c) PROVE Kept
  <2>1. tx[c].op \in {"create", "release"} /\ Lasting(tx[c]) /\ submitted \subseteq {p \in Plans : plan[p] # NoPlan}
    BY <1>3 DEF CommitCreatePlan, CommitReleasePlan, OrderInv, TypeOK
  <2>2. tx[c].plan \notin submitted
    BY <2>1 DEF Lasting
  <2> QED BY <1>3, <2>1, <2>2 DEF CommitCreatePlan, CommitReleasePlan, OrderInv, TypeOK
<1>4. ASSUME NEW c \in Clients, NEW changed \in BOOLEAN, CommitUpdatePlan(c, changed) PROVE Kept
  <2>1. tx[c].op = "update" /\ Lasting(tx[c]) /\ submitted \subseteq Plans
    BY <1>4 DEF CommitUpdatePlan, OrderInv, TypeOK
  <2>2. tx[c].plan \notin submitted
    BY <2>1 DEF Lasting
  <2> QED BY <1>4, <2>1, <2>2 DEF CommitUpdatePlan, OrderInv, TypeOK
<1>5. ASSUME NEW c \in Clients, CommitEdit(c) PROVE Kept
  BY <1>5 DEF CommitEdit, EditsOpen, OrderInv, TypeOK
<1>6. ASSUME NEW c \in Clients, CommitSubmit(c) PROVE Kept
  BY <1>6 DEF CommitSubmit
<1>7. ASSUME NEW c \in Clients, CommitDispatch(c) PROVE Kept
  BY <1>7, <1>1 DEF CommitDispatch, bookVars
<1>8. ASSUME NEW l \in Lots, NEW d \in {"pass", "hold", "fail"}, Inspect(l, d) PROVE Kept
  BY <1>8 DEF Inspect, bookVars, OrderInv, TypeOK
<1>9. ASSUME UNCHANGED vars PROVE Kept
  BY <1>9, <1>1 DEF vars, bookVars
<1>10. ASSUME NEW c \in Clients, NEW p \in Plans,
              \/ \E s \in Slots, q \in Quantities :
                   BeginUpdatePlan(c, p, s, q) \/ \E o \in Orders : BeginCreatePlan(c, p, o, s, q)
              \/ BeginReleasePlan(c, p)
              \/ \E sheet \in Sheets : BeginEdit(c, p, sheet)
              \/ BeginSubmit(c, p)
       PROVE  Kept
  <2>1. OnlyTx
    BY <1>10 DEF BeginUpdatePlan, BeginCreatePlan, BeginReleasePlan, BeginEdit, BeginSubmit
  <2> QED BY <2>1, <1>2
<1>11. ASSUME NEW c \in Clients, Abort(c) \/ \E o \in Orders, q \in Quantities : BeginDispatch(c, o, q) PROVE Kept
  <2>1. OnlyTx
    BY <1>11 DEF Abort, BeginDispatch
  <2> QED BY <2>1, <1>2
<1> HIDE DEF Kept
<1>12. Kept
  BY <1>3, <1>4, <1>5, <1>6, <1>7, <1>8, <1>9, <1>10, <1>11 DEF Next
<1> QED BY <1>12 DEF Kept

\* So what is completed and released only grows.
LEMMA GroundsGrow ==
    ASSUME PlantAssumption, TypeOK, TypeOK', NEW o \in Orders,
           submitted \subseteq submitted',
           \A p \in submitted : plan'[p] = plan[p] /\ logbook'[p] = logbook[p],
           \A l \in Lots : verdict[l] = "pass" => verdict'[l] = "pass"
    PROVE  /\ Completed(o) <= Completed(o)'
           /\ Cardinality(ReleasedLots(o)) <= Cardinality(ReleasedLots(o))'
<1> DEFINE S == PlansOf(o) \cap submitted
           R == PlansOf(o)' \cap submitted'
           f == [p \in R |-> logbook'[p].total]
<1>1. S \in SUBSET R /\ S \subseteq submitted /\ R \subseteq Plans
  BY DEF PlansOf, TypeOK
<1>2. IsFiniteSet(R) /\ f \in [R -> Nat]
  <2>1. \A p \in Plans : logbook'[p].total \in Nat
    BY DEF TypeOK, PlantAssumption, Blank
  <2> QED BY <1>1, <2>1, FS_Subset DEF PlantAssumption
<1>3. [p \in S |-> f[p]] = [p \in S |-> logbook[p].total]
  BY <1>1
<1>4. Completed(o)' = SumFunction(f) /\ Completed(o) = SumFunction([p \in S |-> f[p]])
  BY <1>3 DEF Completed
<1> HIDE DEF S, R, f
<1>5. Completed(o) <= Completed(o)'
  BY <1>1, <1>2, <1>4, SumOfFewer
<1>6. ReleasedLots(o) \subseteq ReleasedLots(o)'
  BY <1>1 DEF ReleasedLots, S, R, TypeOK, PlantAssumption, Blank
<1>7. IsFiniteSet(ReleasedLots(o)')
  <2>1. \A p \in Plans : logbook'[p].lots \in SUBSET Lots
    BY DEF TypeOK, PlantAssumption, Blank
  <2>2. ReleasedLots(o)' \in SUBSET Lots
    BY <2>1 DEF ReleasedLots, PlansOf
  <2> QED BY <2>2, FS_Subset DEF PlantAssumption
<1>8. Cardinality(ReleasedLots(o)) <= Cardinality(ReleasedLots(o)')
  BY <1>6, <1>7, FS_Subset
<1> QED BY <1>5, <1>8

\* One request at a time: an edit in flight is of a logbook that nobody submits meanwhile.
LEMMA EditsStayOpen ==
    ASSUME OrderInv, EditsOpen, [Next]_vars, \A c, d \in Clients : c = d
    PROVE  EditsOpen'
<1>1. ASSUME NEW c \in Clients, Done(c) PROVE EditsOpen'
  BY <1>1 DEF Done, EditsOpen, OrderInv, TypeOK, Idle
<1>2. ASSUME NEW c \in Clients, NEW p \in Plans, p \notin submitted, NEW r, tx' = [tx EXCEPT ![c] = r],
             r.op = "edit" => r.plan = p, submitted' = submitted
      PROVE  EditsOpen'
  BY <1>2 DEF EditsOpen, OrderInv, TypeOK
<1>3. ASSUME NEW c \in Clients, NEW p \in Plans, DropRequestsOn(p, c) PROVE EditsOpen'
  BY <1>3 DEF DropRequestsOn, EditsOpen, OrderInv, TypeOK, Idle
<1>4. ASSUME UNCHANGED <<submitted, tx>> PROVE EditsOpen'
  BY <1>4 DEF EditsOpen
<1>5. ASSUME NEW c \in Clients, NEW p \in Plans,
             \/ \E s \in Slots, q \in Quantities :
                  BeginUpdatePlan(c, p, s, q) \/ \E o \in Orders : BeginCreatePlan(c, p, o, s, q)
             \/ BeginReleasePlan(c, p) \/ BeginSubmit(c, p)
      PROVE  EditsOpen'
  <2>1. ASSUME NEW s \in Slots, NEW q \in Quantities, BeginUpdatePlan(c, p, s, q) PROVE EditsOpen'
    BY <2>1 DEF BeginUpdatePlan, Start, OnlyTx, bookVars, EditsOpen, OrderInv, TypeOK
  <2>2. ASSUME NEW s \in Slots, NEW q \in Quantities, NEW o \in Orders, BeginCreatePlan(c, p, o, s, q) PROVE EditsOpen'
    BY <2>2 DEF BeginCreatePlan, Start, OnlyTx, bookVars, EditsOpen, OrderInv, TypeOK
  <2>3. CASE BeginReleasePlan(c, p)
    BY <2>3 DEF BeginReleasePlan, Start, OnlyTx, bookVars, EditsOpen, OrderInv, TypeOK
  <2>4. CASE BeginSubmit(c, p)
    BY <2>4 DEF BeginSubmit, Start, OnlyTx, bookVars, EditsOpen, OrderInv, TypeOK
  <2> QED BY <1>5, <2>1, <2>2, <2>3, <2>4
<1>6. ASSUME NEW c \in Clients, NEW p \in Plans, NEW sheet \in Sheets, BeginEdit(c, p, sheet) PROVE EditsOpen'
  BY <1>6, <1>2 DEF BeginEdit, Start, OnlyTx, bookVars
<1>7. ASSUME NEW c \in Clients, NEW o \in Orders, NEW q \in Quantities, BeginDispatch(c, o, q) PROVE EditsOpen'
  BY <1>7 DEF BeginDispatch, Start, OnlyTx, bookVars, EditsOpen, OrderInv, TypeOK
<1>8. ASSUME NEW c \in Clients,
             \/ CommitCreatePlan(c) \/ CommitEdit(c) \/ CommitSubmit(c) \/ CommitDispatch(c) \/ Abort(c)
      PROVE  EditsOpen'
  BY <1>8, <1>1 DEF CommitCreatePlan, CommitEdit, CommitSubmit, CommitDispatch, Abort
<1>9. ASSUME NEW c \in Clients, CommitReleasePlan(c) \/ \E changed \in BOOLEAN : CommitUpdatePlan(c, changed)
       PROVE  EditsOpen'
  <2>1. tx[c].plan \in Plans
    BY <1>9 DEF CommitReleasePlan, CommitUpdatePlan, OrderInv, TypeOK, Requests, Idle
  <2> QED BY <1>9, <2>1, <1>1, <1>3 DEF CommitReleasePlan, CommitUpdatePlan
<1>10. ASSUME NEW l \in Lots, NEW d \in {"pass", "hold", "fail"}, Inspect(l, d) PROVE EditsOpen'
  BY <1>10, <1>4 DEF Inspect, bookVars
<1>11. ASSUME UNCHANGED vars PROVE EditsOpen'
  BY <1>11, <1>4 DEF vars, bookVars
<1> QED BY <1>5, <1>6, <1>7, <1>8, <1>9, <1>10, <1>11 DEF Next

\* A dispatch is backed when it begins, and only then does one appear.
LEMMA DispatchesStart ==
    ASSUME PlantAssumption, OrderInv, [Next]_vars, NEW c \in Clients, tx'[c].op = "dispatch"
    PROVE  \/ tx'[c] = tx[c]
           \/ \E o \in Orders : /\ tx'[c].order = o /\ dispatched' = dispatched
                                /\ dispatched[o] + tx'[c].quantity <= Completed(o)
                                /\ dispatched[o] + tx'[c].quantity <= Cardinality(ReleasedLots(o))
<1>1. ASSUME NEW d \in Clients, Done(d) PROVE tx'[c] = tx[c]
  BY <1>1 DEF Done, OrderInv, TypeOK, Idle
<1>2. ASSUME NEW d \in Clients, NEW p \in Plans, DropRequestsOn(p, d) PROVE tx'[c] = tx[c]
  BY <1>2 DEF DropRequestsOn, OrderInv, TypeOK, Idle
<1>3. ASSUME NEW d \in Clients, NEW p \in Plans,
             \/ \E s \in Slots, q \in Quantities :
                  BeginUpdatePlan(d, p, s, q) \/ \E o \in Orders : BeginCreatePlan(d, p, o, s, q)
             \/ BeginReleasePlan(d, p) \/ BeginSubmit(d, p)
             \/ \E sheet \in Sheets : BeginEdit(d, p, sheet)
      PROVE  tx'[c] = tx[c]
  <2>1. ASSUME NEW s \in Slots, NEW q \in Quantities, BeginUpdatePlan(d, p, s, q) PROVE tx'[c] = tx[c]
    BY <2>1 DEF BeginUpdatePlan, Start, OrderInv, TypeOK
  <2>2. ASSUME NEW s \in Slots, NEW q \in Quantities, NEW o \in Orders, BeginCreatePlan(d, p, o, s, q) PROVE tx'[c] = tx[c]
    BY <2>2 DEF BeginCreatePlan, Start, OrderInv, TypeOK
  <2>3. CASE BeginReleasePlan(d, p)
    BY <2>3 DEF BeginReleasePlan, Start, OrderInv, TypeOK
  <2>4. CASE BeginSubmit(d, p)
    BY <2>4 DEF BeginSubmit, Start, OrderInv, TypeOK
  <2>5. CASE \E sheet \in Sheets : BeginEdit(d, p, sheet)
    BY <2>5 DEF BeginEdit, Start, OrderInv, TypeOK
  <2> QED BY <1>3, <2>1, <2>2, <2>3, <2>4, <2>5
<1>4. ASSUME NEW d \in Clients,
             \/ CommitCreatePlan(d) \/ CommitEdit(d) \/ CommitSubmit(d) \/ CommitDispatch(d) \/ Abort(d)
      PROVE  tx'[c] = tx[c]
  BY <1>4, <1>1 DEF CommitCreatePlan, CommitEdit, CommitSubmit, CommitDispatch, Abort
<1>5. ASSUME NEW d \in Clients, CommitReleasePlan(d) \/ \E changed \in BOOLEAN : CommitUpdatePlan(d, changed)
      PROVE  tx'[c] = tx[c]
  <2>1. tx[d].plan \in Plans
    BY <1>5 DEF CommitReleasePlan, CommitUpdatePlan, OrderInv, TypeOK, Requests, Idle
  <2> QED BY <1>5, <2>1, <1>1, <1>2 DEF CommitReleasePlan, CommitUpdatePlan
<1>6. ASSUME \/ \E l \in Lots, d \in {"pass", "hold", "fail"} : Inspect(l, d)
             \/ UNCHANGED vars
      PROVE  tx'[c] = tx[c]
  BY <1>6 DEF Inspect, vars
<1>7. ASSUME NEW d \in Clients, NEW o \in Orders, NEW q \in Quantities, BeginDispatch(d, o, q), tx'[c] # tx[c]
      PROVE  /\ tx'[c].order = o /\ dispatched' = dispatched
             /\ dispatched[o] + tx'[c].quantity <= Completed(o)
             /\ dispatched[o] + tx'[c].quantity <= Cardinality(ReleasedLots(o))
  <2>1. tx'[c].order = o /\ tx'[c].quantity = q
    BY <1>7 DEF BeginDispatch, Start, OrderInv, TypeOK
  <2>2. /\ dispatched[o] + q <= Completed(o)
        /\ dispatched[o] + q <= Cardinality(ReleasedLots(o))
    BY <1>7, DispatchableBounds DEF BeginDispatch
  <2> QED BY <1>7, <2>1, <2>2 DEF BeginDispatch, OnlyTx
<1> QED BY <1>3, <1>4, <1>5, <1>6, <1>7 DEF Next

\* The dispatched total of an order changes only as a backed request says.
LEMMA DispatchesWrite ==
    ASSUME OrderInv, [Next]_vars, NEW o \in Orders, dispatched'[o] # dispatched[o]
    PROVE  \E c \in Clients : /\ tx[c].op = "dispatch" /\ tx[c].order = o
                              /\ dispatched'[o] = dispatched[o] + tx[c].quantity
                              /\ \A d \in Clients : d # c => tx'[d] = tx[d]
                              /\ tx'[c] = Idle
<1>1. ASSUME OnlyTx PROVE FALSE
  BY <1>1 DEF OnlyTx
<1>2. ASSUME NEW c \in Clients, NEW p \in Plans,
             \/ \E s \in Slots, q \in Quantities :
                  BeginUpdatePlan(c, p, s, q) \/ \E u \in Orders : BeginCreatePlan(c, p, u, s, q)
             \/ BeginReleasePlan(c, p)
             \/ \E sheet \in Sheets : BeginEdit(c, p, sheet)
             \/ BeginSubmit(c, p)
      PROVE  FALSE
  <2>1. OnlyTx
    BY <1>2 DEF BeginUpdatePlan, BeginCreatePlan, BeginReleasePlan, BeginEdit, BeginSubmit
  <2> QED BY <2>1, <1>1
<1>3. ASSUME NEW c \in Clients, Abort(c) \/ \E u \in Orders, q \in Quantities : BeginDispatch(c, u, q) PROVE FALSE
  <2>1. OnlyTx
    BY <1>3 DEF Abort, BeginDispatch
  <2> QED BY <2>1, <1>1
<1>4. ASSUME NEW c \in Clients,
             \/ CommitCreatePlan(c) \/ CommitReleasePlan(c) \/ CommitEdit(c) \/ CommitSubmit(c)
             \/ \E changed \in BOOLEAN : CommitUpdatePlan(c, changed)
             \/ \E l \in Lots, d \in {"pass", "hold", "fail"} : Inspect(l, d)
      PROVE  FALSE
  BY <1>4 DEF CommitCreatePlan, CommitReleasePlan, CommitEdit, CommitSubmit, CommitUpdatePlan, Inspect
<1>5. PICK c \in Clients : CommitDispatch(c)
  BY <1>2, <1>3, <1>4 DEF Next, vars
<1> QED BY <1>5 DEF CommitDispatch, Done, OrderInv, TypeOK

\* With one client at work, BackedInv is inductive.
LEMMA NextBacked ==
    ASSUME PlantAssumption, OrderInv, OrderInv', BackedInv, [Next]_vars, \A c, d \in Clients : c = d
    PROVE  BackedInv'
<1>1. EditsOpen'
  BY EditsStayOpen DEF BackedInv
<1>2. ASSUME NEW o \in Orders
      PROVE  /\ Completed(o) <= Completed(o)'
             /\ Cardinality(ReleasedLots(o)) <= Cardinality(ReleasedLots(o))'
  <2>1. /\ submitted \subseteq submitted'
        /\ \A p \in submitted : plan'[p] = plan[p] /\ logbook'[p] = logbook[p]
        /\ \A l \in Lots : verdict[l] = "pass" => verdict'[l] = "pass"
    BY GroundsKept DEF BackedInv
  <2> QED BY <2>1, GroundsGrow DEF OrderInv
<1>3. ASSUME NEW o \in Orders
      PROVE  /\ Completed(o) \in Nat /\ Cardinality(ReleasedLots(o)) \in Nat
             /\ Completed(o)' \in Nat /\ Cardinality(ReleasedLots(o))' \in Nat
             /\ dispatched[o] \in Nat /\ dispatched'[o] \in Nat
  <2>1. Completed(o) \in Nat /\ Cardinality(ReleasedLots(o)) \in Nat
    BY GroundsTyped DEF OrderInv
  <2>2. Completed(o)' \in Nat /\ Cardinality(ReleasedLots(o))' \in Nat
    BY GroundsTypedAfter DEF OrderInv
  <2>3. dispatched[o] \in Nat /\ dispatched'[o] \in Nat
    BY QuantityFacts DEF OrderInv, TypeOK
  <2> QED BY <2>1, <2>2, <2>3
<1>4. ASSUME NEW o \in Orders
      PROVE  dispatched'[o] <= Completed(o)' /\ dispatched'[o] <= Cardinality(ReleasedLots(o))'
  <2>1. dispatched'[o] <= Completed(o) /\ dispatched'[o] <= Cardinality(ReleasedLots(o))
    <3>1. CASE dispatched'[o] = dispatched[o]
      BY <3>1 DEF BackedInv, DispatchBacked
    <3>2. CASE dispatched'[o] # dispatched[o]
      BY <3>2, DispatchesWrite DEF BackedInv, DispatchesCovered
    <3> QED BY <3>1, <3>2
  <2> QED BY <2>1, <1>2, <1>3
<1>5. ASSUME NEW c \in Clients, NEW o \in Orders, tx'[c].op = "dispatch", tx'[c].order = o
      PROVE  /\ dispatched'[o] + tx'[c].quantity <= Completed(o)'
             /\ dispatched'[o] + tx'[c].quantity <= Cardinality(ReleasedLots(o))'
  <2>1. PICK q \in Nat : tx'[c].quantity = q
    BY <1>5, QuantityFacts DEF OrderInv, TypeOK, Requests, Idle
  <2>2. dispatched'[o] + q <= Completed(o) /\ dispatched'[o] + q <= Cardinality(ReleasedLots(o))
    <3>1. CASE tx'[c] = tx[c]
      <4>1. dispatched'[o] = dispatched[o]
        BY <3>1, <1>5, DispatchesWrite DEF Idle
      <4> QED BY <3>1, <4>1, <1>5, <2>1 DEF BackedInv, DispatchesCovered
    <3>2. CASE tx'[c] # tx[c]
      BY <3>2, <1>5, <2>1, DispatchesStart
    <3> QED BY <3>1, <3>2
  <2>3. dispatched'[o] + q <= Completed(o)' /\ dispatched'[o] + q <= Cardinality(ReleasedLots(o))'
    BY <1>2, <1>3, <2>1, <2>2
  <2> QED BY <2>1, <2>3
<1> QED BY <1>1, <1>4, <1>5 DEF BackedInv, DispatchBacked, DispatchesCovered

\* BackedInv holds before anything was dispatched.
LEMMA InitBacked == PlantAssumption /\ Init => BackedInv
<1> SUFFICES ASSUME PlantAssumption, Init PROVE BackedInv
  OBVIOUS
<1>1. \A c \in Clients : tx[c].op = "idle"
  BY DEF Init, Idle
<1>2. ASSUME NEW o \in Orders PROVE dispatched[o] <= Completed(o) /\ dispatched[o] <= Cardinality(ReleasedLots(o))
  <2>1. Completed(o) \in Nat /\ Cardinality(ReleasedLots(o)) \in Nat
    BY InitOrder, GroundsTyped DEF OrderInv
  <2>2. dispatched[o] = 0
    BY DEF Init
  <2> QED BY <2>1, <2>2
<1> QED BY <1>1, <1>2 DEF BackedInv, DispatchBacked, EditsOpen, DispatchesCovered

\* One request at a time: what left the plant was completed in submitted logbooks and released by
\* QA (dispatch/service.ts: dispatchEvidence).  Overlapping requests break it, as the run
\* OrderDoubleSubmit shows of the write that this needs to be alone (logbook/service.ts).
THEOREM DispatchesBacked ==
    PlantAssumption /\ (\A c, d \in Clients : c = d) => (Spec => []DispatchBacked)
<1> SUFFICES ASSUME PlantAssumption, \A c, d \in Clients : c = d PROVE Spec => []DispatchBacked
  OBVIOUS
<1>1. Init => BackedInv
  BY InitBacked
<1>2. (BookingInv /\ OrderInv) /\ (BookingInv /\ OrderInv)' /\ BackedInv /\ [Next]_vars => BackedInv'
  BY NextBacked
<1>3. Spec => [](BookingInv /\ OrderInv)
  BY OrderInductive
<1>4. BackedInv => DispatchBacked
  BY DEF BackedInv
<1> QED BY <1>1, <1>2, <1>3, <1>4, PTL DEF Spec
=============================================================================
