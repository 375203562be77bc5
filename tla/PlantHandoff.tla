---------------------------- MODULE PlantHandoff ----------------------------
(***************************************************************************)
(* The MesaOps -> MesaERP handoff inbox (mesaerp/handoffService.ts) with   *)
(* the two ways an event enters it: the outbox worker                      *)
(* (lib/integrationOutboxWorker.ts, deliverMesaOpsEvent) and a person's    *)
(* "receive".  Accepting an event creates ERP evidence: a draft completion *)
(* voucher for production actuals, QA evidence that refreshes the drafts   *)
(* of its order, dispatch evidence capped by the linked sales invoice.     *)
(*                                                                         *)
(* Every handler is one READ COMMITTED transaction.  Where two handlers    *)
(* can overlap with effect, a handler is two actions: Begin... takes its   *)
(* locks and reads, Commit... writes.  The snapshot of an event is its     *)
(* constants; payload hashes always match (the rows are immutable).        *)
(***************************************************************************)
EXTENDS Integers, FiniteSets, Functions

CONSTANTS Companies,     \* legal entities of the tenant
          Events,        \* MesaOps outbox events: numbers in the order of occurredAt
          Kind,          \* Events -> "execution", "qa" or "dispatch"
          Aggregate,     \* Events -> source aggregate (logbook, inspection, dispatch)
          Home,          \* Events -> company named by the event, or NoCompany
          Order,         \* Events -> operational order
          Lots,          \* Events -> output lots of an execution, inspected lot of a QA event
          Verdict,       \* Events -> disposition of a QA event
          Quantity,      \* Events -> quantity of a dispatch
          InvoiceQuantity, \* Companies -> quantity of the invoice line its dispatches are linked to
          Members,       \* company users
          NoCompany,
          RefreshLimit,  \* executions a QA acceptance looks at (500 in the code)
          MaxInFlight    \* bound: transactions in flight at once

Slot == Companies \X Events            \* key of an inbox row (company, source event)

\* What the instances must satisfy.
HandoffAssumption ==
    /\ Events \subseteq Nat /\ IsFiniteSet(Events)
    /\ Kind \in [Events -> {"execution", "qa", "dispatch"}]
    /\ NoCompany \notin Companies
    /\ Home \in [Events -> Companies \cup {NoCompany}]
    /\ Verdict \in [Events -> {"accepted", "hold", "rejected"}]
    /\ \A q, r \in Events :             \* MesaOps decides a lot once
         (q # r /\ Kind[q] = "qa" /\ Kind[r] = "qa" /\ Order[q] = Order[r]) => Lots[q] \cap Lots[r] = {}
    /\ Quantity \in [Events -> Nat]
    /\ InvoiceQuantity \in [Companies -> Nat]
    /\ RefreshLimit \in Nat
    /\ MaxInFlight \in Nat

VARIABLES emitted,    \* committed outbox events
          published,  \* outbox events with publishedAt set
          route,      \* route[e]: ErpHandoffEventRoute of a company-less event
          inbox,      \* inbox[s]: ErpHandoffInboxEvent state
          receipt,    \* receipt[s]: IntegrationInboxReceipt status
          intake,     \* intake[v][s]: intake in flight by v, or "none"
          accepting,  \* accepting[s]: acceptance in flight
          voucher,    \* voucher[s]: completion voucher drafted from the event
          disposition,\* disposition[s]: qaDisposition stored on that voucher
          qaEvidence, \* slots with ErpPlantQaEvidence
          dispatched, \* slots with ErpPlantDispatchEvidence
          unmapped    \* events whose items, units or warehouses have no mapping yet

rowVars == <<inbox, receipt>>
evidenceVars == <<voucher, disposition, qaEvidence, dispatched>>
vars == <<emitted, published, route, inbox, receipt, intake, accepting,
          voucher, disposition, qaEvidence, dispatched, unmapped>>

NoRoute == [status |-> "none"]
Idle == [busy |-> FALSE]
Dispositions == {"pending", "accepted", "hold", "rejected"}

\* What an acceptance has computed from its reads: whether it fails with a
\* 409/422, the disposition for a new voucher, the refreshed drafts.
Acceptances == {Idle} \cup
    [busy : {TRUE}, fails : BOOLEAN, own : Dispositions,
     refresh : SUBSET [slot : Slot, to : Dispositions]]

TypeOK ==
    /\ emitted \subseteq Events
    /\ published \subseteq emitted
    /\ route \in [Events -> {NoRoute} \cup
                   [status : {"draft", "approved"}, company : Companies, maker : Members]]
    /\ inbox \in [Slot -> {"none", "received", "conflict", "retry", "accepted", "rejected"}]
    /\ receipt \in [Slot -> {"none", "received", "conflict", "retry", "processed", "rejected"}]
    /\ intake \in [{"worker", "human"} -> [Slot -> {"none", "clean", "conflict"}]]
    /\ accepting \in [Slot -> Acceptances]
    /\ voucher \in [Slot -> {"none", "draft", "submitted"}]
    /\ disposition \in [Slot -> Dispositions]
    /\ qaEvidence \subseteq Slot
    /\ dispatched \subseteq Slot
    /\ unmapped \subseteq Events

Init ==
    /\ emitted = {}
    /\ published = {}
    /\ route = [e \in Events |-> NoRoute]
    /\ inbox = [s \in Slot |-> "none"]
    /\ receipt = [s \in Slot |-> "none"]
    /\ intake = [v \in {"worker", "human"} |-> [s \in Slot |-> "none"]]
    /\ accepting = [s \in Slot |-> Idle]
    /\ voucher = [s \in Slot |-> "none"]
    /\ disposition = [s \in Slot |-> "pending"]
    /\ qaEvidence = {}
    /\ dispatched = {}
    /\ unmapped \in SUBSET {e \in Events : Kind[e] # "qa"}   \* QA evidence maps nothing

InFlight == {i \in {"worker", "human"} \X Slot : intake[i[1]][i[2]] # "none"}
              \cup {<<"accept", s>> : s \in {t \in Slot : accepting[t].busy}}

MayBegin == Cardinality(InFlight) < MaxInFlight

-----------------------------------------------------------------------------
(* MesaOps and the company routing of its events.                          *)

Emit(e) ==
    /\ e \notin emitted
    /\ emitted' = emitted \cup {e}
    /\ UNCHANGED <<published, route, rowVars, intake, accepting, evidenceVars, unmapped>>

\* Only company-less events are routed, and only once in the whole tenant
\* (unique on organization and source event).
CreateEventRoute(c, e, m) ==
    /\ e \in emitted
    /\ Home[e] = NoCompany
    /\ route[e].status = "none"
    /\ route' = [route EXCEPT ![e] = [status |-> "draft", company |-> c, maker |-> m]]
    /\ UNCHANGED <<emitted, published, rowVars, intake, accepting, evidenceVars, unmapped>>

ApproveEventRoute(e, m) ==
    /\ route[e].status = "draft"
    /\ route[e].maker # m
    /\ route' = [route EXCEPT ![e].status = "approved"]
    /\ UNCHANGED <<emitted, published, rowVars, intake, accepting, evidenceVars, unmapped>>

\* Mutant of Addressed: a company-less event is anybody's.
AddressedOpenly(s) == Home[s[2]] \in {s[1], NoCompany}

\* The event is addressed to the company: named by it, or by an approved route.
Addressed(s) ==
    LET c == s[1]  e == s[2] IN
    \/ Home[e] = c
    \/ Home[e] = NoCompany /\ route[e].status = "approved" /\ route[e].company = c

-----------------------------------------------------------------------------
(* Intake: check for a row of the same aggregate, then insert.             *)

SameAggregate(s, t) ==
    /\ s # t
    /\ s[1] = t[1]
    /\ Kind[s[2]] = Kind[t[2]]
    /\ Aggregate[s[2]] = Aggregate[t[2]]

AggregateConflict(s) == \E t \in Slot : SameAggregate(s, t) /\ inbox[t] # "none"

\* The worker holds the tenant lock, so it has one delivery in flight; a person
\* needs no lock but the one of the idempotency key.
BeginIntake(v, s) ==
    /\ s[2] \in emitted
    /\ Addressed(s)
    /\ inbox[s] = "none"
    /\ intake[v][s] = "none"
    /\ v = "worker" => s[2] \notin published /\ \A t \in Slot : intake[v][t] = "none"
    /\ MayBegin
    /\ intake' = [intake EXCEPT ![v][s] = IF AggregateConflict(s) THEN "conflict" ELSE "clean"]
    /\ UNCHANGED <<emitted, published, route, rowVars, accepting, evidenceVars, unmapped>>

\* Insert of inbox row and receipt; the worker also publishes.
CommitIntake(v, s) ==
    LET state == IF intake[v][s] = "conflict" THEN "conflict" ELSE "received" IN
    /\ intake[v][s] # "none"
    /\ inbox[s] = "none"
    /\ inbox' = [inbox EXCEPT ![s] = state]
    /\ receipt' = [receipt EXCEPT ![s] = state]
    /\ published' = IF v = "worker" THEN published \cup {s[2]} ELSE published
    /\ intake' = [intake EXCEPT ![v][s] = "none"]
    /\ UNCHANGED <<emitted, route, accepting, evidenceVars, unmapped>>

\* The unique index refuses the second insert, or the transaction fails: the
\* worker's savepoint is rolled back for a retry, the person gets an error.
AbandonIntake(v, s) ==
    /\ intake[v][s] # "none"
    /\ intake' = [intake EXCEPT ![v][s] = "none"]
    /\ UNCHANGED <<emitted, published, route, rowVars, accepting, evidenceVars, unmapped>>

\* The worker finds the row a person received: it only publishes.
DeliverReceived(s) ==
    /\ s[2] \in emitted \ published
    /\ Addressed(s)
    /\ inbox[s] # "none"
    /\ \A t \in Slot : intake["worker"][t] = "none"
    /\ published' = published \cup {s[2]}
    /\ UNCHANGED <<emitted, route, rowVars, intake, accepting, evidenceVars, unmapped>>

-----------------------------------------------------------------------------
(* Acceptance.                                                             *)

\* Mutants of Effective: no evidence is a state of its own; one accepted lot is enough.
EffectiveUnknown(s, ev) == IF ev = {} THEN "none" ELSE "pending"
EffectiveAnyLot(s, ev) ==
    IF \E q \in ev : q[1] = s[1] /\ Lots[q[2]] \subseteq Lots[s[2]] /\ Verdict[q[2]] = "accepted"
    THEN "accepted" ELSE "pending"

\* effectiveQaDisposition of the execution in slot s, given QA evidence ev.
Effective(s, ev) ==
    LET relevant == {q \in ev : /\ q[1] = s[1]
                                /\ Order[q[2]] = Order[s[2]]
                                /\ Lots[s[2]] # {} => Lots[q[2]] \subseteq Lots[s[2]]}
        inspected == UNION {Lots[q[2]] : q \in relevant}
        verdicts == {Verdict[q[2]] : q \in relevant}
    IN  IF relevant = {} \/ ~(Lots[s[2]] \subseteq inspected) THEN "pending"
        ELSE IF "rejected" \in verdicts THEN "rejected"
        ELSE IF "hold" \in verdicts THEN "hold" ELSE "accepted"

\* The newest accepted executions of the company, at most RefreshLimit of them.
RecentExecutions(c) ==
    LET accepted == {s \in Slot : s[1] = c /\ Kind[s[2]] = "execution" /\ inbox[s] = "accepted"}
    IN  {s \in accepted : Cardinality({t \in accepted : t[2] > s[2]}) < RefreshLimit}

\* refreshDraftQa run by the acceptance of QA event s, which sees its own evidence.
DraftsToRefresh(s) ==
    {[slot |-> x, to |-> Effective(x, qaEvidence \cup {s})] :
       x \in {t \in RecentExecutions(s[1]) : Order[t[2]] = Order[s[2]] /\ voucher[t] = "draft"}}

DispatchedQuantity(c) ==
    SumFunction([s \in {t \in dispatched : t[1] = c} |-> Quantity[s[2]]])

\* A mapping (or an open demand, a rate) is missing, or the dispatch exceeds the linked invoice quantity.
AcceptanceFails(s) ==
    \/ s[2] \in unmapped
    \/ /\ Kind[s[2]] = "dispatch"
       /\ DispatchedQuantity(s[1]) + Quantity[s[2]] > InvoiceQuantity[s[1]]

\* Mutant of DispatchCapLockFree: no lock around the sum.
DispatchCapUnlocked(s) == TRUE

\* pg_advisory_xact_lock on the invoice, taken by every mapped dispatch.
DispatchCapLockFree(s) ==
    Kind[s[2]] = "dispatch" =>
        \A t \in Slot : accepting[t].busy /\ t[1] = s[1] => Kind[t[2]] # "dispatch"

BeginAccept(s) ==
    /\ inbox[s] = "received"
    /\ ~accepting[s].busy                  \* SELECT ... FOR UPDATE of the inbox row
    /\ DispatchCapLockFree(s)
    /\ MayBegin
    /\ accepting' = [accepting EXCEPT ![s] =
         [busy    |-> TRUE,
          fails   |-> AcceptanceFails(s),
          own     |-> IF Kind[s[2]] = "execution" THEN Effective(s, qaEvidence) ELSE "pending",
          refresh |-> IF Kind[s[2]] = "qa" THEN DraftsToRefresh(s) ELSE {}]]
    /\ UNCHANGED <<emitted, published, route, rowVars, intake, evidenceVars, unmapped>>

\* A refresh of a voucher submitted since is refused by the trigger on reviewed
\* vouchers unless it changes nothing.
RefreshAllowed(a) ==
    \A r \in a.refresh : voucher[r.slot] = "draft" \/ disposition[r.slot] = r.to

EvidenceUnique(s) ==
    \A t \in qaEvidence \cup dispatched : ~SameAggregate(s, t)

CommitAccept(s) ==
    LET a == accepting[s] IN
    /\ a.busy /\ ~a.fails
    /\ RefreshAllowed(a)
    /\ EvidenceUnique(s)
    /\ inbox' = [inbox EXCEPT ![s] = "accepted"]
    /\ receipt' = [receipt EXCEPT ![s] = "processed"]
    /\ voucher' = IF Kind[s[2]] = "execution" THEN [voucher EXCEPT ![s] = "draft"] ELSE voucher
    /\ disposition' = [t \in Slot |->
         IF t = s /\ Kind[s[2]] = "execution" THEN a.own
         ELSE IF \E r \in a.refresh : r.slot = t THEN (CHOOSE r \in a.refresh : r.slot = t).to
         ELSE disposition[t]]
    /\ qaEvidence' = IF Kind[s[2]] = "qa" THEN qaEvidence \cup {s} ELSE qaEvidence
    /\ dispatched' = IF Kind[s[2]] = "dispatch" THEN dispatched \cup {s} ELSE dispatched
    /\ accepting' = [accepting EXCEPT ![s] = Idle]
    /\ UNCHANGED <<emitted, published, route, intake, unmapped>>

\* Mutant of FailAccept: no savepoint, the draft voucher stays.
FailAcceptKeepsVoucher(s) ==
    /\ accepting[s].busy /\ accepting[s].fails
    /\ inbox' = [inbox EXCEPT ![s] = "retry"]
    /\ receipt' = [receipt EXCEPT ![s] = "retry"]
    /\ accepting' = [accepting EXCEPT ![s] = Idle]
    /\ voucher' = [voucher EXCEPT ![s] = "draft"]
    /\ UNCHANGED <<emitted, published, route, intake, disposition, qaEvidence, dispatched, unmapped>>

\* 409 or 422: rollback to the savepoint, the row is left for a retry.
FailAccept(s) ==
    /\ accepting[s].busy /\ accepting[s].fails
    /\ inbox' = [inbox EXCEPT ![s] = "retry"]
    /\ receipt' = [receipt EXCEPT ![s] = "retry"]
    /\ accepting' = [accepting EXCEPT ![s] = Idle]
    /\ UNCHANGED <<emitted, published, route, intake, evidenceVars, unmapped>>

\* Any other error, the crash of the process included: nothing is written.
AbortAccept(s) ==
    /\ accepting[s].busy
    /\ accepting' = [accepting EXCEPT ![s] = Idle]
    /\ UNCHANGED <<emitted, published, route, rowVars, intake, evidenceVars, unmapped>>

\* Mutants of TransitionException: the receipt is forgotten; the row is overwritten
\* under an acceptance.
TransitionExceptionQuietly(s, target) ==
    /\ inbox[s] \in {"received", "retry", "conflict"} /\ ~accepting[s].busy
    /\ inbox' = [inbox EXCEPT ![s] = target]
    /\ UNCHANGED <<emitted, published, route, receipt, intake, accepting, evidenceVars, unmapped>>
TransitionExceptionUnlocked(s, target) ==
    /\ inbox[s] \in {"received", "retry", "conflict"}
    /\ inbox' = [inbox EXCEPT ![s] = target]
    /\ receipt' = [receipt EXCEPT ![s] = target]
    /\ UNCHANGED <<emitted, published, route, intake, accepting, evidenceVars, unmapped>>

\* reject and retry: one compare-and-swap on state and row version, which waits
\* for an acceptance that holds the row.
TransitionException(s, target) ==
    /\ inbox[s] \in (IF target = "rejected" THEN {"received", "retry", "conflict"} ELSE {"retry", "conflict"})
    /\ ~accepting[s].busy
    /\ inbox' = [inbox EXCEPT ![s] = target]
    /\ receipt' = [receipt EXCEPT ![s] = target]
    /\ UNCHANGED <<emitted, published, route, intake, accepting, evidenceVars, unmapped>>

-----------------------------------------------------------------------------
(* What the company does meanwhile.                                        *)

CompleteMapping(e) ==
    /\ e \in unmapped
    /\ unmapped' = unmapped \ {e}
    /\ UNCHANGED <<emitted, published, route, rowVars, intake, accepting, evidenceVars>>

\* Submission of the completion voucher needs an accepted disposition.
SubmitVoucher(s) ==
    /\ voucher[s] = "draft"
    /\ disposition[s] = "accepted"
    /\ voucher' = [voucher EXCEPT ![s] = "submitted"]
    /\ UNCHANGED <<emitted, published, route, rowVars, intake, accepting,
                   disposition, qaEvidence, dispatched, unmapped>>

Next ==
    \/ \E e \in Events : Emit(e) \/ CompleteMapping(e)
    \/ \E e \in Events, m \in Members :
         ApproveEventRoute(e, m) \/ \E c \in Companies : CreateEventRoute(c, e, m)
    \/ \E s \in Slot :
         \/ \E v \in {"worker", "human"} : BeginIntake(v, s) \/ CommitIntake(v, s) \/ AbandonIntake(v, s)
         \/ DeliverReceived(s)
         \/ BeginAccept(s) \/ CommitAccept(s) \/ FailAccept(s) \/ AbortAccept(s)
         \/ \E target \in {"rejected", "received"} : TransitionException(s, target)
         \/ SubmitVoucher(s)

Spec == Init /\ [][Next]_vars

-----------------------------------------------------------------------------
(* Properties.                                                             *)

\* A published event is in exactly one inbox, the one of the company it names or
\* was routed to with an approval, and no event is ever in two inboxes.
PublishedInOneInbox ==
    \A e \in Events :
      LET present == {s \in Slot : s[2] = e /\ inbox[s] # "none"} IN
      /\ Cardinality(present) <= 1
      /\ e \in published => present # {}
      /\ \A s \in present :
           \/ Home[e] = s[1]
           \/ route[e].status = "approved" /\ route[e].company = s[1]

\* The receipt tells the source side the state of the inbox row.
ReceiptMirrorsInbox ==
    \A s \in Slot : receipt[s] = IF inbox[s] = "accepted" THEN "processed" ELSE inbox[s]

\* ERP evidence exists exactly for accepted events: a failed acceptance leaves
\* nothing behind, whatever it had created before it failed.
EvidenceIffAccepted ==
    \A s \in Slot : inbox[s] = "accepted" <=>
      (voucher[s] # "none" \/ s \in qaEvidence \/ s \in dispatched)

\* Accepted and rejected are final, whatever transactions were in flight.
StaysFinal == \A s \in Slot : inbox[s] \in {"accepted", "rejected"} => inbox'[s] = inbox[s]
FinalStatesStay == [][StaysFinal]_vars

\* Accepted dispatches never exceed the linked invoice quantity.
DispatchWithinInvoice == \A c \in Companies : DispatchedQuantity(c) <= InvoiceQuantity[c]

\* No completion leaves the draft state without accepted QA evidence for each of
\* its lots, however acceptances of QA and execution events interleave.
ReviewedCompletionHasQa ==
    \A s \in Slot : voucher[s] = "submitted" =>
      \A lot \in Lots[s[2]] : \E q \in qaEvidence :
        q[1] = s[1] /\ lot \in Lots[q[2]] /\ Verdict[q[2]] = "accepted"

\* Once QA evidence is accepted the draft completions of its order carry it: with
\* nothing in flight, a draft stores the disposition its evidence amounts to.
QaReachesDraft ==
    \A s \in Slot : (voucher[s] = "draft" /\ InFlight = {}) =>
      disposition[s] = Effective(s, qaEvidence)
=============================================================================
