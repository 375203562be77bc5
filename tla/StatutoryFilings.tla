--------------------------- MODULE StatutoryFilings ---------------------------
(***************************************************************************)
(* Outbound e-invoices and e-way bills of a MesaERP company and the        *)
(* authorised provider that registers them (mesaerp/indiaCompliance-       *)
(* Service.ts and -Provider.ts).  A request prepares in one transaction,   *)
(* calls the provider with the client's idempotency key, and commits what  *)
(* the provider answered in another transaction, if the row has not moved. *)
(* The call may time out before or after the provider has acted, and the   *)
(* server may stop before the commit; the client repeats with the same     *)
(* key, also while an earlier attempt is still running.                    *)
(***************************************************************************)
EXTENDS Naturals, FiniteSets

CONSTANTS Docs, Members,
          KindOf,     \* "outbound_e_invoice", "e_way_bill" or "external", by document
          Keys,       \* idempotency keys clients choose
          Attempts,   \* requests that can be in flight
          MaxClock,   \* the time stops here
          Nothing

VARIABLES row,       \* row[d]: the tax document
          registry,  \* registry[d]: what the provider has registered
          request,   \* request[k]: what key k stands for
          acted,     \* acted[k]: the validity the provider answered for key k, Nothing before it acted
          done,      \* keys whose response is remembered
          attempt,   \* attempt[t]: the request in flight
          clock

vars == <<row, registry, request, acted, done, attempt, clock>>

TaxDocument == [status : {"draft", "approved", "acknowledged", "external_pending", "active", "cancelled"},
                maker : Members, version : Nat, validUntil : Nat]
Registered == [issued : BOOLEAN, cancelled : BOOLEAN, validUntil : Nat]
Operations == {"issue", "vehicle", "extend", "cancel"}
ProviderRequest == [doc : Docs, op : Operations, expected : Nat, by : Members]

TypeOK ==
    /\ row \in [Docs -> TaxDocument]
    /\ registry \in [Docs -> Registered]
    /\ \A k \in Keys : request[k] # Nothing => request[k] \in ProviderRequest
    /\ \A k \in Keys : acted[k] \in Nat \cup {Nothing}
    /\ done \subseteq Keys
    /\ \A t \in Attempts : attempt[t] # Nothing => attempt[t].key \in Keys

\* An external e-way bill is recorded with evidence of its registration.
Init ==
    /\ row \in {r \in [Docs -> [status : {"draft", "external_pending"}, maker : Members, version : {0},
                                validUntil : {0, 1}]] :
                  \A d \in Docs : /\ (KindOf[d] = "external") = (r[d].status = "external_pending")
                                  /\ (KindOf[d] = "external") = (r[d].validUntil = 1)}
    /\ registry = [d \in Docs |-> [issued |-> KindOf[d] = "external", cancelled |-> FALSE,
                                   validUntil |-> row[d].validUntil]]
    /\ request = [k \in Keys |-> Nothing]
    /\ acted = [k \in Keys |-> Nothing]
    /\ done = {}
    /\ attempt = [t \in Attempts |-> Nothing]
    /\ clock = 0

Save(d, changed) == row' = [row EXCEPT ![d] = [changed EXCEPT !.version = row[d].version + 1]]

-----------------------------------------------------------------------------
(* Decisions in one transaction.                                           *)

ApproveTaxDraft(m, d) ==
    /\ row[d].status = "draft" /\ row[d].maker # m
    /\ Save(d, [row[d] EXCEPT !.status = "approved"])
    /\ UNCHANGED <<registry, request, acted, done, attempt, clock>>

VerifyExternalEWayBill(m, d) ==
    /\ row[d].status = "external_pending" /\ row[d].maker # m /\ row[d].validUntil > clock
    /\ Save(d, [row[d] EXCEPT !.status = "active"])
    /\ UNCHANGED <<registry, request, acted, done, attempt, clock>>

\* The invoice was registered by hand, and an external verifier attests to it.
ImportOutboundEInvoiceAcknowledgement(d) ==
    /\ KindOf[d] = "outbound_e_invoice" /\ row[d].status = "approved" /\ registry[d].issued
    /\ Save(d, [row[d] EXCEPT !.status = "acknowledged"])
    /\ UNCHANGED <<registry, request, acted, done, attempt, clock>>

-----------------------------------------------------------------------------
(* Requests to the provider.                                               *)

ActiveStatus(d) == IF KindOf[d] = "outbound_e_invoice" THEN "acknowledged" ELSE "active"
\* The operation may be prepared, and its answer committed.
Transitionable(d, op) == row[d].status = IF op = "issue" THEN "approved" ELSE ActiveStatus(d)
Allowed(m, d, op) ==
    CASE op = "cancel" -> row[d].maker # m
      [] op = "vehicle" -> row[d].validUntil > clock
      [] OTHER -> TRUE

\* A first request with a key, or the same request again.
Asked(m, k, d, op) ==
    LET q == [doc |-> d, op |-> op, expected |-> row[d].version, by |-> m] IN
    IF request[k] = Nothing THEN request' = [request EXCEPT ![k] = q]
    ELSE request[k] = q /\ UNCHANGED request

Prepare(t, m, k, d, op) ==
    /\ attempt[t] = Nothing /\ k \notin done
    /\ op \in {"vehicle", "extend"} => KindOf[d] # "outbound_e_invoice"
    /\ KindOf[d] = "external" => op # "issue"
    /\ Transitionable(d, op) /\ Allowed(m, d, op)
    /\ Asked(m, k, d, op)
    /\ attempt' = [attempt EXCEPT ![t] = [key |-> k, answered |-> FALSE]]
    /\ UNCHANGED <<row, registry, acted, done, clock>>

Op(k) == request[k].op
Doc(k) == request[k].doc
Acts(k) == CASE Op(k) = "issue" -> ~registry[Doc(k)].issued
             [] OTHER -> registry[Doc(k)].issued /\ ~registry[Doc(k)].cancelled

\* The provider acts once for a key, and answers its repetition alike.
ProviderActs(t) ==
    LET k == attempt[t].key  d == Doc(k) IN
    /\ attempt[t] # Nothing /\ ~attempt[t].answered
    /\ acted[k] = Nothing /\ Acts(k)
    /\ registry' = [registry EXCEPT ![d] =
          CASE Op(k) = "issue" -> [@ EXCEPT !.issued = TRUE,
                                     !.validUntil = IF KindOf[d] = "e_way_bill" THEN clock + 1 ELSE 0]
            [] Op(k) = "cancel" -> [@ EXCEPT !.cancelled = TRUE]
            [] Op(k) = "extend" -> [@ EXCEPT !.validUntil = @ + 1]
            [] OTHER -> @]
    /\ acted' = [acted EXCEPT ![k] = registry'[d].validUntil]
    /\ UNCHANGED <<row, request, done, attempt, clock>>
\* The answer is bound to operation, key and request, and attested.
Answer(t) ==
    /\ attempt[t] # Nothing /\ ~attempt[t].answered /\ acted[attempt[t].key] # Nothing
    /\ attempt' = [attempt EXCEPT ![t].answered = TRUE]
    /\ UNCHANGED <<row, registry, request, acted, done, clock>>

\* A time-out, a refusal, an answer that is not bound to the request, or a crash.
GiveUp(t) ==
    /\ attempt[t] # Nothing
    /\ attempt' = [attempt EXCEPT ![t] = Nothing]
    /\ UNCHANGED <<row, registry, request, acted, done, clock>>

\* Mutant of Unmoved: only the status is looked at again.
UnmovedStatus(k) == Transitionable(Doc(k), Op(k))
Unmoved(k) == Transitionable(Doc(k), Op(k)) /\ row[Doc(k)].version = request[k].expected
Recorded(k, until) ==
    LET d == Doc(k) IN
    CASE Op(k) = "issue" -> [row[d] EXCEPT !.status = ActiveStatus(d), !.validUntil = until]
      [] Op(k) = "cancel" -> [row[d] EXCEPT !.status = "cancelled"]
      [] Op(k) = "extend" -> [row[d] EXCEPT !.validUntil = until]
      [] OTHER -> row[d]

\* Replayed when another attempt was first, a version conflict when the row has moved.
Commit(t) ==
    LET k == attempt[t].key IN
    /\ attempt[t] # Nothing /\ attempt[t].answered
    /\ IF k \notin done /\ Unmoved(k)
          /\ (Op(k) = "extend" => acted[k] > row[Doc(k)].validUntil)
       THEN Save(Doc(k), Recorded(k, acted[k])) /\ done' = done \cup {k}
       ELSE UNCHANGED <<row, done>>
    /\ attempt' = [attempt EXCEPT ![t] = Nothing]
    /\ UNCHANGED <<registry, request, acted, clock>>

\* Elsewhere: the invoice is registered by hand, and time passes.
RegisteredByHand(d) ==
    /\ KindOf[d] = "outbound_e_invoice" /\ row[d].status = "approved" /\ ~registry[d].issued
    /\ registry' = [registry EXCEPT ![d].issued = TRUE]
    /\ UNCHANGED <<row, request, acted, done, attempt, clock>>
Tick ==
    /\ clock < MaxClock
    /\ clock' = clock + 1
    /\ UNCHANGED <<row, registry, request, acted, done, attempt>>

Next ==
    \/ \E m \in Members, d \in Docs :
          \/ ApproveTaxDraft(m, d) \/ VerifyExternalEWayBill(m, d)
          \/ \E t \in Attempts, k \in Keys, op \in Operations : Prepare(t, m, k, d, op)
    \/ \E d \in Docs : ImportOutboundEInvoiceAcknowledgement(d) \/ RegisteredByHand(d)
    \/ \E t \in Attempts : ProviderActs(t) \/ Answer(t) \/ GiveUp(t) \/ Commit(t)
    \/ Tick

Spec == Init /\ [][Next]_vars

-----------------------------------------------------------------------------
(* Properties.                                                             *)

\* The company never records what the provider has not done: no acknowledged or active
\* document that is not registered, no cancellation and no validity of its own.
NothingFabricated ==
    \A d \in Docs :
        /\ row[d].status \in {"acknowledged", "active", "cancelled"} => registry[d].issued
        /\ row[d].status = "cancelled" => registry[d].cancelled
        /\ row[d].validUntil <= registry[d].validUntil

\* Each key moves its document at most once, whatever attempts overlap.
OncePerKey ==
    \A d \in Docs :
        LET recorded == {k \in done : Doc(k) = d} IN
        /\ \A k \in recorded : acted[k] # Nothing
        /\ \A k, l \in recorded : k # l => request[k].expected # request[l].expected
        /\ row[d].version <= Cardinality(recorded) + 2

\* What the provider did and the company does not know is the work of a key that is not
\* answered; unless the document moved meanwhile, repeating the request records it.
UnknownIsRepeatable ==
    \A d \in Docs :
        LET lost == {k \in Keys \ done : acted[k] # Nothing /\ Doc(k) = d}
            unknown(op) == {k \in lost : Op(k) = op} IN
        /\ registry[d].cancelled /\ row[d].status # "cancelled" => unknown("cancel") # {}
        /\ registry[d].validUntil > row[d].validUntil => unknown("issue") \cup unknown("extend") # {}
        /\ \A k \in lost : request[k].expected = row[d].version
             => Transitionable(d, Op(k)) /\ (Op(k) # "vehicle" => Allowed(request[k].by, d, Op(k)))
=============================================================================
