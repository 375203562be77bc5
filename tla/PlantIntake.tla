------------------------------ MODULE PlantIntake ------------------------------
(***************************************************************************)
(* How demand becomes an operational order of the plant: entered by a      *)
(* planner under an idempotency key, or accepted from an event by which    *)
(* MesaERP released it.  An event comes through the outbox, whose          *)
(* publisher leaves a receipt, or through the signed call; one source is   *)
(* linked to one order, and a later event that tells something else makes  *)
(* the link stale instead of changing the order.                           *)
(* A planner then schedules from a row of "Orders to plan", whose modal    *)
(* keeps the balance and the version it was opened with.                   *)
(***************************************************************************)
EXTENDS Integers, FiniteSets

CONSTANTS Events,      \* [source, version, number, plant, stored]: an event, is it in the outbox?
          EventOf,     \* by event id
          Keys,        \* idempotency keys of the planners' requests
          Numbers,     \* order numbers
          Planners,    \* the plants of each planner, by planner
          Quantity,    \* of every order
          Nothing, MaxChanges

Sources == {EventOf[e].source : e \in Events}
Plants  == UNION {Planners[p] : p \in DOMAIN Planners}

PlantIntakeAssumption ==
    /\ \A e \in Events : EventOf[e].number \in Numbers /\ EventOf[e].stored \in BOOLEAN
    /\ Quantity \in Nat \ {0}

VARIABLES receipt,    \* by event: received, processed or in conflict, and why
          link,       \* by source: the version accepted, its order, its state
          order,      \* by number: where it comes from, and how it is planned
          published,  \* events the publisher delivered
          modal,      \* by planner: the order open in the modal, as its row was
          changes

vars == <<receipt, link, order, published, modal, changes>>

Reasons == {"", "source_snapshot_changed", "destination_missing", "order_number_conflict"}

TypeOK ==
    /\ receipt \in [Events -> [status : {"received", "processed", "conflict"}, reason : Reasons] \cup {Nothing}]
    /\ link \in [Sources -> [version : Nat, order : Numbers \cup {Nothing},
                             state : {"linked", "stale", "conflict"}] \cup {Nothing}]
    /\ \A n \in Numbers : order[n] # Nothing =>
         order[n].planned \in 0 .. Quantity /\ order[n].source \in Sources \cup {Nothing}
    /\ published \subseteq Events
    /\ changes \in 0 .. MaxChanges

Init ==
    /\ receipt = [e \in Events |-> Nothing] /\ link = [s \in Sources |-> Nothing]
    /\ order = [n \in Numbers |-> Nothing]
    /\ published = {} /\ modal = [p \in DOMAIN Planners |-> Nothing] /\ changes = 0

Count == changes < MaxChanges /\ changes' = changes + 1
NewOrder(source, version, plant, key) ==
    [source |-> source, version |-> version, plant |-> plant, key |-> key, planned |-> 0, row |-> 0]

-----------------------------------------------------------------------------
(* Orders entered in the plant.                                            *)

\* createOperationalOrder: a key used before answers with its order or, for another
\* request, a conflict; otherwise the number must be new.
CreateOrder(p, k, n, plant) ==
    /\ plant \in Planners[p]
    /\ \A m \in Numbers : order[m] # Nothing => order[m].key # k
    /\ order[n] = Nothing
    /\ Count
    /\ order' = [order EXCEPT ![n] = NewOrder(Nothing, 0, plant, k)]
    /\ UNCHANGED <<receipt, link, published, modal>>

-----------------------------------------------------------------------------
(* The handoff from MesaERP.                                               *)

\* deliverErpProductionDemand: the publisher leaves a receipt if there is none, and is done.
Publish(e) ==
    /\ EventOf[e].stored /\ e \notin published
    /\ Count
    /\ receipt' = IF receipt[e] # Nothing THEN receipt
                  ELSE [receipt EXCEPT ![e] = [status |-> "received", reason |-> ""]]
    /\ published' = published \cup {e}
    /\ UNCHANGED <<link, order, modal>>

\* listMesaErpOperationalOrderHandoffs: what a planner is shown, of the planner's plants.
Handoffs(p) == {e \in Events : EventOf[e].stored /\ EventOf[e].plant \in Planners[p]}
HandoffState(e) ==
    IF receipt[e] = Nothing THEN "unlinked"
    ELSE CASE receipt[e].status = "processed" -> "linked"
           [] receipt[e].status = "conflict"  -> "conflict"
           [] OTHER -> "unlinked"

\* acceptMesaErpOperationalOrder answers from a receipt that is final.
Final(e) == receipt[e] # Nothing /\ receipt[e].status # "received"

Settle(e, status, reason) == receipt' = [receipt EXCEPT ![e] = [status |-> status, reason |-> reason]]

\* The source is linked already, with what this event says.
SameSource(e) == link[EventOf[e].source] # Nothing /\ link[EventOf[e].source].version = EventOf[e].version

\* Who may accept: a planner of the plant from the list, the signed call any event.
MayAccept(p, e) == EventOf[e].plant \in Planners[p] /\ ~Final(e)

AcceptReplay(p, e) ==
    LET s == EventOf[e].source
        there == link[s].order # Nothing
    IN  /\ MayAccept(p, e) /\ SameSource(e) /\ Count
        /\ Settle(e, IF there THEN "processed" ELSE "conflict", IF there THEN "" ELSE "destination_missing")
        /\ UNCHANGED <<link, order, published, modal>>

AcceptChanged(p, e) ==
    LET s == EventOf[e].source
    IN  /\ MayAccept(p, e) /\ link[s] # Nothing /\ ~SameSource(e) /\ Count
        /\ link' = [link EXCEPT ![s].state = "stale"]
        /\ Settle(e, "conflict", "source_snapshot_changed")
        /\ UNCHANGED <<order, published, modal>>

AcceptTaken(p, e) ==
    LET s == EventOf[e].source
    IN  /\ MayAccept(p, e) /\ link[s] = Nothing /\ order[EventOf[e].number] # Nothing /\ Count
        /\ link' = [link EXCEPT ![s] = [version |-> EventOf[e].version, order |-> Nothing, state |-> "conflict"]]
        /\ Settle(e, "conflict", "order_number_conflict")
        /\ UNCHANGED <<order, published, modal>>

AcceptNew(p, e) ==
    LET ev == EventOf[e]
    IN  /\ MayAccept(p, e) /\ link[ev.source] = Nothing /\ order[ev.number] = Nothing /\ Count
        /\ link' = [link EXCEPT ![ev.source] = [version |-> ev.version, order |-> ev.number, state |-> "linked"]]
        /\ order' = [order EXCEPT ![ev.number] = NewOrder(ev.source, ev.version, ev.plant, e)]
        /\ Settle(e, "processed", "")
        /\ UNCHANGED <<published, modal>>

-----------------------------------------------------------------------------
(* Scheduling from the list.                                               *)

\* listOrdersToPlan: orders of the planner's plants that are not planned whole.
ToPlan(p) ==
    {n \in Numbers : order[n] # Nothing /\ order[n].planned < Quantity /\ order[n].plant \in Planners[p]}
Balance(n) == Quantity - order[n].planned

OpenModal(p, n) ==
    /\ modal[p] = Nothing /\ n \in ToPlan(p)
    /\ modal' = [modal EXCEPT ![p] = [number |-> n, balance |-> Balance(n), row |-> order[n].row]]
    /\ UNCHANGED <<receipt, link, order, published, changes>>
CloseModal(p) ==
    /\ modal[p] # Nothing /\ modal' = [modal EXCEPT ![p] = Nothing]
    /\ UNCHANGED <<receipt, link, order, published, changes>>

\* The modal takes what fits the balance it shows ...
Fits(p, q) == q > 0 /\ q <= modal[p].balance

\* ... and createPlan takes it only from the order as it was shown.
AsShown(p) == modal[p] # Nothing /\ order[modal[p].number].row = modal[p].row
Schedule(p, q) ==
    /\ AsShown(p) /\ Fits(p, q) /\ Count
    /\ order' = [order EXCEPT ![modal[p].number].planned = @ + q, ![modal[p].number].row = @ + 1]
    /\ modal' = [modal EXCEPT ![p] = Nothing]
    /\ UNCHANGED <<receipt, link, published>>

Next ==
    \/ \E p \in DOMAIN Planners :
         \/ \E k \in Keys, n \in Numbers, plant \in Plants : CreateOrder(p, k, n, plant)
         \/ \E e \in Events : AcceptReplay(p, e) \/ AcceptChanged(p, e) \/ AcceptTaken(p, e) \/ AcceptNew(p, e)
         \/ \E n \in Numbers : OpenModal(p, n)
         \/ \E q \in 1 .. Quantity : Schedule(p, q)
         \/ CloseModal(p)
    \/ \E e \in Events : Publish(e)

Spec == Init /\ [][Next]_vars

-----------------------------------------------------------------------------
(* Properties.                                                             *)

\* A source becomes one order at most, and its link leads to it.
OneOrderPerSource ==
    \A n \in Numbers : order[n] # Nothing =>
        (order[n].source # Nothing =>
            /\ link[order[n].source] # Nothing /\ link[order[n].source].order = n
            /\ link[order[n].source].version = order[n].version)

\* A receipt that says processed has an order of the source, made of the version the event tells.
ReceiptTells ==
    \A e \in Events : receipt[e] # Nothing => (receipt[e].status = "processed" =>
        \E n \in Numbers : order[n] # Nothing /\ order[n].source = EventOf[e].source
                           /\ order[n].version = EventOf[e].version)

\* A source that said something else since is never shown as linked again.
ChangeShows ==
    \A e \in Events : receipt[e] # Nothing => (receipt[e].reason = "source_snapshot_changed" =>
        link[EventOf[e].source].state = "stale")

\* A planner is shown, and schedules, orders of the planner's plants only, and an event that
\* shows as linked stands for an order in one of them.
WithinPlants ==
    \A p \in DOMAIN Planners :
        /\ modal[p] # Nothing => order[modal[p].number].plant \in Planners[p]
        /\ \A e \in Handoffs(p) : HandoffState(e) = "linked" =>
             \E n \in Numbers : order[n] # Nothing /\ order[n].source = EventOf[e].source

\* Plans made from balances shown at different times add up to the order at most.
BalanceKept == \A n \in Numbers : order[n] # Nothing => order[n].planned <= Quantity

\* What the publisher delivered has its receipt, whoever came first.
DeliveredHasReceipt == \A e \in published : receipt[e] # Nothing
===============================================================================
