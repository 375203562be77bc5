----------------------------- MODULE PlantOrder -----------------------------
(***************************************************************************)
(* An operational order of the plant from planning to dispatch: plans on   *)
(* machine slots (mesaops/planning/service.ts), the machine logbook of a   *)
(* plan (mesaops/logbook/service.ts), the QA decision on a packed lot      *)
(* (mesaops/quality/service.ts) and the dispatch of released quantity      *)
(* (mesaops/dispatch/service.ts).                                          *)
(*                                                                         *)
(* A request is a record in tx: Begin... is what it locks, reads and       *)
(* checks, Commit... what it writes.  Order commands carry the row version *)
(* they expect and run under the order lock, so a stale one is refused and *)
(* changes nothing; only current ones are actions.  The trigger that       *)
(* repeats the quantity and slot checks is left out: the locks and checks  *)
(* of the services must do without it.  Every lot is one unit.             *)
(***************************************************************************)
EXTENDS Integers, FiniteSets, FiniteSetsExt, Functions

CONSTANTS Orders, Plans, Clients,
          Slots,        \* machine, shift and business date
          Machine,      \* Slots -> machine
          Lots,         \* lot numbers written in logbooks
          OrderQuantity,\* Orders -> quantity
          Sheets,       \* what operators write: total produced and packed lots
          NoPlan

Blank == [total |-> 0, lots |-> {}]

Quantities == UNION {0..OrderQuantity[o] : o \in Orders}
PlanRecords == [order : Orders, slot : Slots, quantity : Quantities]

\* What the instances must satisfy.
PlantAssumption ==
    /\ OrderQuantity \in [Orders -> Nat \ {0}]
    /\ Sheets \subseteq [total : Nat, lots : SUBSET Lots] /\ Blank \notin Sheets
    /\ IsFiniteSet(Plans) /\ IsFiniteSet(Lots) /\ NoPlan \notin PlanRecords

VARIABLES status,      \* status[o]: OperationalOrder.status
          plan,        \* plan[p]: order, slot and planned quantity, or NoPlan
          running,     \* plans in status "running"; the others are "scheduled"
          logbook,     \* logbook[p]: sheet of the plan's machine logbook
          submitted,   \* plans whose logbook is submitted
          actuals,     \* actuals[p]: production actuals booked for the logbook
          verdict,     \* verdict[l]: QA decision on lot l
          dispatched,  \* dispatched[o]: sum of its dispatch records
          tx           \* tx[c]: request in flight of client c

bookVars == <<logbook, submitted, actuals>>
vars == <<status, plan, running, bookVars, verdict, dispatched, tx>>

Idle == [op |-> "idle"]
Requests ==
    {Idle}
    \cup [op : {"create"}, plan : Plans, order : Orders, slot : Slots, quantity : Quantities, before : Quantities]
    \cup [op : {"update"}, plan : Plans, order : Orders, slot : Slots, quantity : Quantities]
    \cup [op : {"release"}, plan : Plans, order : Orders]
    \cup [op : {"dispatch"}, order : Orders, quantity : Quantities]
    \cup [op : {"edit", "submit"}, plan : Plans, sheet : Sheets \cup {Blank}]

TypeOK ==
    /\ status \in [Orders -> {"ready_to_plan", "partially_planned", "planned", "packed", "dispatched"}]
    /\ plan \in [Plans -> {NoPlan} \cup PlanRecords]
    /\ running \subseteq submitted
    /\ logbook \in [Plans -> Sheets \cup {Blank}]
    /\ submitted \subseteq {p \in Plans : plan[p] # NoPlan}
    /\ actuals \in [Plans -> SUBSET [by : Clients, consumed : Sheets, output : Sheets]]
    /\ verdict \in [Lots -> {"none", "pass", "hold", "fail"}]
    /\ dispatched \in [Orders -> Quantities]
    /\ tx \in [Clients -> Requests]

Init ==
    /\ status = [o \in Orders |-> "ready_to_plan"]
    /\ plan = [p \in Plans |-> NoPlan]
    /\ running = {}
    /\ logbook = [p \in Plans |-> Blank]
    /\ submitted = {}
    /\ actuals = [p \in Plans |-> {}]
    /\ verdict = [l \in Lots |-> "none"]
    /\ dispatched = [o \in Orders |-> 0]
    /\ tx = [c \in Clients |-> Idle]

-----------------------------------------------------------------------------
(* Locks and reads.                                                        *)

Active(ops) == {c \in Clients : tx[c].op \in ops}
OrderCommands == {"create", "update", "release", "dispatch"}

\* Mutants of OrderLockFree and MachineLockFree: the row is read without a lock.
OrderLockIgnored(o) == TRUE
MachineLockIgnored(m) == TRUE

\* SELECT ... FOR UPDATE of the order row.
OrderLockFree(o) == \A c \in Active(OrderCommands) : tx[c].order # o

\* FOR UPDATE of a machine row; an update also holds the machine it leaves.
MachineLockFree(m) ==
    \A c \in Active({"create", "update"}) :
      /\ Machine[tx[c].slot] # m
      /\ tx[c].op = "update" => Machine[plan[tx[c].plan].slot] # m

\* FOR UPDATE of the plan row, which a submission updates too.
PlanLockFree(p) == \A c \in Active({"update", "release"}) : tx[c].plan # p

PlansOf(o) == {p \in Plans : plan[p] # NoPlan /\ plan[p].order = o}
PlannedBy(S) == SumFunction([p \in S |-> plan[p].quantity])

\* assertNoClash: another scheduled plan holds the slot.
Clash(s, p) ==
    \E q \in Plans \ {p} : plan[q] # NoPlan /\ q \notin running /\ plan[q].slot = s

\* The part of the logbook lots that QA passed, each lot counted once.
ReleasedLots(o) ==
    {l \in UNION {logbook[p].lots : p \in PlansOf(o) \cap submitted} : verdict[l] = "pass"}

Completed(o) == SumFunction([p \in PlansOf(o) \cap submitted |-> logbook[p].total])

\* Mutant of Dispatchable: QA release does not count.
DispatchableUnreleased(o) == Min({Completed(o), OrderQuantity[o]}) - dispatched[o]

\* dispatchEvidence, then the bound by what remains of the order.
Dispatchable(o) ==
    Min({Completed(o), Cardinality(ReleasedLots(o)), OrderQuantity[o]}) - dispatched[o]

Start(c, request) == tx[c] = Idle /\ tx' = [tx EXCEPT ![c] = request]
Done(c) == tx' = [tx EXCEPT ![c] = Idle]
OnlyTx == UNCHANGED <<status, plan, running, bookVars, verdict, dispatched>>

-----------------------------------------------------------------------------
(* Planning.                                                               *)

PlanningStatus(total, o) ==
    IF total >= OrderQuantity[o] THEN "planned"
    ELSE IF total = 0 THEN "ready_to_plan" ELSE "partially_planned"

BeginCreatePlan(c, p, o, s, q) ==
    LET before == PlannedBy(PlansOf(o)) IN
    /\ OrderLockFree(o)
    /\ status[o] \in {"ready_to_plan", "partially_planned"}
    /\ MachineLockFree(Machine[s])
    /\ ~Clash(s, p)
    /\ q > 0 /\ q <= OrderQuantity[o] - before
    /\ plan[p] = NoPlan /\ \A d \in Active({"create"}) : tx[d].plan # p   \* a fresh id
    /\ Start(c, [op |-> "create", plan |-> p, order |-> o, slot |-> s, quantity |-> q, before |-> before])
    /\ OnlyTx

\* Inserts the plan, seeds its draft logbook; the order status uses the total read before.
CommitCreatePlan(c) ==
    LET t == tx[c] IN
    /\ t.op = "create"
    /\ status' = [status EXCEPT ![t.order] =
                    PlanningStatus(t.before + t.quantity, t.order)]
    /\ plan' = [plan EXCEPT ![t.plan] = [order |-> t.order, slot |-> t.slot, quantity |-> t.quantity]]
    /\ logbook' = [logbook EXCEPT ![t.plan] = Blank]
    /\ actuals' = [actuals EXCEPT ![t.plan] = {}]
    /\ Done(c)
    /\ UNCHANGED <<running, submitted, verdict, dispatched>>

\* assertEditable; that the start of the slot has not passed is left to chance.
BeginUpdatePlan(c, p, s, q) ==
    LET o == plan[p].order IN
    /\ plan[p] # NoPlan
    /\ OrderLockFree(o) /\ PlanLockFree(p)
    /\ p \notin running /\ p \notin submitted
    /\ MachineLockFree(Machine[plan[p].slot]) /\ MachineLockFree(Machine[s])
    /\ ~Clash(s, p)
    /\ q > 0 /\ q <= OrderQuantity[o] - PlannedBy(PlansOf(o) \ {p})
    /\ Start(c, [op |-> "update", plan |-> p, order |-> o, slot |-> s, quantity |-> q])
    /\ OnlyTx

\* Requests in flight on a deleted logbook find no row to update and fail.
DropRequestsOn(p, c) ==
    tx' = [d \in Clients |->
             IF d = c \/ (tx[d].op \in {"edit", "submit"} /\ tx[d].plan = p) THEN Idle ELSE tx[d]]

\* syncDraftHeaderFromPlan keeps the sheet, or starts it anew on another template.
\* The order status follows the plans, whatever it was.
CommitUpdatePlan(c, templateChanged) ==
    LET t == tx[c] IN
    /\ t.op = "update"
    /\ plan' = [plan EXCEPT ![t.plan].slot = t.slot, ![t.plan].quantity = t.quantity]
    /\ status' = [status EXCEPT ![t.order] =
                    PlanningStatus(PlannedBy(PlansOf(t.order) \ {t.plan}) + t.quantity, t.order)]
    /\ IF templateChanged
         THEN logbook' = [logbook EXCEPT ![t.plan] = Blank] /\ DropRequestsOn(t.plan, c)
         ELSE UNCHANGED logbook /\ Done(c)
    /\ UNCHANGED <<running, submitted, actuals, verdict, dispatched>>

\* Mutant of BeginReleasePlan: a submitted logbook does not protect the plan.
BeginReleasePlanAnyTime(c, p) ==
    /\ plan[p] # NoPlan
    /\ OrderLockFree(plan[p].order) /\ PlanLockFree(p)
    /\ Start(c, [op |-> "release", plan |-> p, order |-> plan[p].order])
    /\ OnlyTx

BeginReleasePlan(c, p) ==
    /\ plan[p] # NoPlan
    /\ OrderLockFree(plan[p].order) /\ PlanLockFree(p)
    /\ p \notin submitted
    /\ Start(c, [op |-> "release", plan |-> p, order |-> plan[p].order])
    /\ OnlyTx

CommitReleasePlan(c) ==
    LET t == tx[c] IN
    /\ t.op = "release"
    /\ plan' = [plan EXCEPT ![t.plan] = NoPlan]
    /\ logbook' = [logbook EXCEPT ![t.plan] = Blank]
    /\ status' = [status EXCEPT ![t.order] =
                    PlanningStatus(PlannedBy(PlansOf(t.order) \ {t.plan}), t.order)]
    /\ DropRequestsOn(t.plan, c)
    /\ UNCHANGED <<running, submitted, actuals, verdict, dispatched>>

-----------------------------------------------------------------------------
(* Logbook: status and sheet are read before the transaction that writes.  *)

BeginEdit(c, p, sheet) ==
    /\ plan[p] # NoPlan
    /\ p \notin submitted
    /\ Start(c, [op |-> "edit", plan |-> p, sheet |-> sheet])
    /\ OnlyTx

CommitEdit(c) ==
    /\ tx[c].op = "edit"
    /\ logbook' = [logbook EXCEPT ![tx[c].plan] = tx[c].sheet]
    /\ Done(c)
    /\ UNCHANGED <<status, plan, running, submitted, actuals, verdict, dispatched>>

\* A blank sheet does not pass validation.
BeginSubmit(c, p) ==
    /\ plan[p] # NoPlan
    /\ p \notin submitted
    /\ logbook[p] # Blank
    /\ Start(c, [op |-> "submit", plan |-> p, sheet |-> logbook[p]])
    /\ OnlyTx

\* Raw material is booked for the sheet read before the transaction; the event
\* reports as output the sheet in the row.
CommitSubmit(c) ==
    LET p == tx[c].plan IN
    /\ tx[c].op = "submit"
    /\ PlanLockFree(p)
    /\ submitted' = submitted \cup {p}
    /\ running' = running \cup {p}
    /\ actuals' = [actuals EXCEPT ![p] =
                     @ \cup {[by |-> c, consumed |-> tx[c].sheet, output |-> logbook[p]]}]
    /\ Done(c)
    /\ UNCHANGED <<status, plan, logbook, verdict, dispatched>>

-----------------------------------------------------------------------------
(* Quality and dispatch.                                                   *)

\* One final decision per lot, under the advisory lock of the lot.
Inspect(l, decision) ==
    /\ l \in UNION {logbook[p].lots : p \in submitted}
    /\ verdict[l] = "none"
    /\ verdict' = [verdict EXCEPT ![l] = decision]
    /\ UNCHANGED <<status, plan, running, bookVars, dispatched, tx>>

BeginDispatch(c, o, q) ==
    /\ OrderLockFree(o)
    /\ status[o] # "dispatched"
    /\ q > 0 /\ q <= Dispatchable(o)
    /\ Start(c, [op |-> "dispatch", order |-> o, quantity |-> q])
    /\ OnlyTx

CommitDispatch(c) ==
    LET o == tx[c].order  total == dispatched[o] + tx[c].quantity IN
    /\ tx[c].op = "dispatch"
    /\ dispatched' = [dispatched EXCEPT ![o] = total]
    /\ status' = [status EXCEPT ![o] = IF total >= OrderQuantity[o] THEN "dispatched" ELSE "packed"]
    /\ Done(c)
    /\ UNCHANGED <<plan, running, bookVars, verdict>>

\* A crash, a time-out or a deadlock victim: nothing of the request is written.
Abort(c) == tx[c] # Idle /\ Done(c) /\ OnlyTx

Next ==
    \E c \in Clients :
      \/ \E p \in Plans :
           \/ \E s \in Slots, q \in Quantities :
                BeginUpdatePlan(c, p, s, q) \/ \E o \in Orders : BeginCreatePlan(c, p, o, s, q)
           \/ BeginReleasePlan(c, p)
           \/ \E sheet \in Sheets : BeginEdit(c, p, sheet)
           \/ BeginSubmit(c, p)
      \/ \E o \in Orders, q \in Quantities : BeginDispatch(c, o, q)
      \/ CommitCreatePlan(c) \/ CommitReleasePlan(c)
      \/ \E changed \in BOOLEAN : CommitUpdatePlan(c, changed)
      \/ CommitEdit(c) \/ CommitSubmit(c) \/ CommitDispatch(c) \/ Abort(c)
      \/ \E l \in Lots, d \in {"pass", "hold", "fail"} : Inspect(l, d)

Spec == Init /\ [][Next]_vars

-----------------------------------------------------------------------------
(* Properties.                                                             *)

\* Concurrent split plans cannot over-plan the order (planning/service.ts).
NoOverPlanning ==
    \A o \in Orders : PlannedBy(PlansOf(o)) <= OrderQuantity[o]

\* Nor double-book a machine slot, however plans of several orders move.
NoDoubleBooking ==
    \A p, q \in Plans \ running :
      (p # q /\ plan[p] # NoPlan /\ plan[q] # NoPlan) => plan[p].slot # plan[q].slot

\* What a queue shows of an order: while it is in planning its status is what
\* its plans amount to, so no order with quantity left to plan leaves the queue.
StatusTellsPlanning ==
    \A o \in Orders : status[o] \in {"ready_to_plan", "partially_planned", "planned"} =>
      status[o] = PlanningStatus(PlannedBy(PlansOf(o)), o)

\* Dispatches never exceed the order, however two of them overlap.
NoOverDispatch == \A o \in Orders : dispatched[o] <= OrderQuantity[o]

\* What left the plant was completed in submitted logbooks and released by QA.
DispatchBacked ==
    \A o \in Orders : /\ dispatched[o] <= Completed(o)
                      /\ dispatched[o] <= Cardinality(ReleasedLots(o))

\* A logbook books its raw material once.
BookedOnce == \A p \in Plans : Cardinality(actuals[p]) <= 1
=============================================================================
