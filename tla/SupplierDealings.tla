-------------------------- MODULE SupplierDealings --------------------------
(***************************************************************************)
(* What a company and the portal users of its vendors do with each other   *)
(* (mesaerp/supplierPortalService.ts): requests for quotation and their    *)
(* award, rate agreements, answers to purchase orders, shipment notices,   *)
(* disputes and payment proposals up to the draft of the payment.          *)
(*                                                                         *)
(* Handlers that only lock the row they change are one step.  Proposals    *)
(* and shipment notices sum other rows under the lock of the invoice or    *)
(* order: they take the lock and read in one step and write in another.    *)
(***************************************************************************)
EXTENDS Integers, FiniteSets, FiniteSetsExt

CONSTANTS Vendors, Members,
          Quotations, QuotationVendor,  \* quotations and who makes them
          Disputes, DisputeVendor,
          Proposals, Amount,            \* payment proposals of the invoice, by amount
          Notices, Shipped,             \* shipment notices of the order line, by quantity
          InvoiceTotal, OrderQuantity,
          Nothing

VARIABLES eligible,   \* vendors neither blocked nor suspended
          rfq,        \* the request for quotation
          invitation, \* invitation[v]: of the request
          quotation,  \* quotation[q]
          agreement,  \* the agreement made with the award
          answered,   \* answered[v]: answer to an approved purchase order of the vendor
          dispute,    \* dispute[d]
          invoice,    \* the supplier invoice: approved, and released by its match
          proposal,   \* proposal[p]
          notice,     \* notice[n]: committed or not
          tx          \* tx[x]: what the open transaction about proposal or notice x has summed

vars == <<eligible, rfq, invitation, quotation, agreement, answered, dispute, invoice,
          proposal, notice, tx>>
rfqVars == <<rfq, invitation, quotation, agreement>>

Rfq == [status : {"draft", "issued", "awarded"}, maker : Members, due : {"open", "passed"},
        selected : Quotations \cup {Nothing}]
RateAgreement == [status : {"draft", "active"}, maker : Members, quotation : Quotations]
VendorDispute == [status : {"open", "vendor_response", "resolved", "rejected"}, maker : Members]
PaymentProposal == [status : {"draft", "approved"}, maker : Members, voucher : {"none", "draft"}]

TypeOK ==
    /\ eligible \subseteq Vendors
    /\ rfq = Nothing \/ rfq \in Rfq
    /\ invitation \in [Vendors -> {"none", "shortlisted", "issued", "responded"}]
    /\ quotation \in [Quotations -> {"none", "submitted", "selected", "rejected"}]
    /\ agreement = Nothing \/ agreement \in RateAgreement
    /\ answered \in [Vendors -> {"none", "accepted", "change_requested"}]
    /\ \A d \in Disputes : dispute[d] = Nothing \/ dispute[d] \in VendorDispute
    /\ invoice \in [approved : BOOLEAN, released : BOOLEAN]
    /\ \A p \in Proposals : proposal[p] = Nothing \/ proposal[p] \in PaymentProposal
    /\ notice \in [Notices -> BOOLEAN]
    /\ \A x \in Proposals \cup Notices : tx[x] = Nothing \/ tx[x].sum \in Nat

Init ==
    /\ eligible \in SUBSET Vendors
    /\ rfq = Nothing
    /\ invitation = [v \in Vendors |-> "none"]
    /\ quotation = [q \in Quotations |-> "none"]
    /\ agreement = Nothing
    /\ answered = [v \in Vendors |-> "none"]
    /\ dispute = [d \in Disputes |-> Nothing]
    /\ invoice \in [approved : BOOLEAN, released : BOOLEAN]
    /\ proposal = [p \in Proposals |-> Nothing]
    /\ notice = [n \in Notices |-> FALSE]
    /\ tx = [x \in Proposals \cup Notices |-> Nothing]

-----------------------------------------------------------------------------
(* Request for quotation.                                                  *)

CreateRfq(m, vs) ==
    /\ rfq = Nothing /\ vs # {} /\ vs \subseteq eligible
    /\ rfq' = [status |-> "draft", maker |-> m, due |-> "open", selected |-> Nothing]
    /\ invitation' = [v \in Vendors |-> IF v \in vs THEN "shortlisted" ELSE "none"]
    /\ UNCHANGED <<eligible, quotation, agreement, answered, dispute, invoice, proposal, notice, tx>>

IssueRfq(m) ==
    /\ rfq # Nothing /\ rfq.status = "draft" /\ rfq.maker # m /\ rfq.due = "open"
    /\ rfq' = [rfq EXCEPT !.status = "issued"]
    /\ invitation' = [v \in Vendors |-> IF invitation[v] = "none" THEN "none" ELSE "issued"]
    /\ UNCHANGED <<eligible, quotation, agreement, answered, dispute, invoice, proposal, notice, tx>>

DeadlinePasses ==
    /\ rfq # Nothing /\ rfq.due = "open"
    /\ rfq' = [rfq EXCEPT !.due = "passed"]
    /\ UNCHANGED <<eligible, invitation, quotation, agreement, answered, dispute, invoice, proposal, notice, tx>>

AnswerableOnceIssued == rfq # Nothing /\ rfq.status # "draft" /\ rfq.due = "open"
Answerable == rfq # Nothing /\ rfq.status = "issued" /\ rfq.due = "open"
\* A portal user passed authenticateSupplier: the vendor may trade.
SubmitQuotation(q) ==
    LET v == QuotationVendor[q] IN
    /\ Answerable /\ v \in eligible
    /\ invitation[v] # "none" /\ quotation[q] = "none"
    /\ quotation' = [quotation EXCEPT ![q] = "submitted"]
    /\ invitation' = [invitation EXCEPT ![v] = "responded"]
    /\ UNCHANGED <<eligible, rfq, agreement, answered, dispute, invoice, proposal, notice, tx>>

\* The award takes any submitted quotation, before or after the deadline.
SelectQuotation(m, q, agreed) ==
    /\ rfq # Nothing /\ rfq.status = "issued" /\ rfq.maker # m
    /\ quotation[q] = "submitted"
    /\ quotation' = [x \in Quotations |-> IF x = q THEN "selected"
                                          ELSE IF quotation[x] = "submitted" THEN "rejected"
                                          ELSE quotation[x]]
    /\ rfq' = [rfq EXCEPT !.status = "awarded", !.selected = q]
    /\ agreement' = IF agreed THEN [status |-> "draft", maker |-> m, quotation |-> q] ELSE agreement
    /\ UNCHANGED <<eligible, invitation, answered, dispute, invoice, proposal, notice, tx>>

ActivateAgreement(m) ==
    /\ agreement # Nothing /\ agreement.status = "draft" /\ agreement.maker # m
    /\ agreement' = [agreement EXCEPT !.status = "active"]
    /\ UNCHANGED <<eligible, rfq, invitation, quotation, answered, dispute, invoice, proposal, notice, tx>>

-----------------------------------------------------------------------------
(* Purchase orders and disputes.                                           *)

AcknowledgePo(v, answer) ==
    /\ v \in eligible /\ answered[v] = "none"
    /\ answered' = [answered EXCEPT ![v] = answer]
    /\ UNCHANGED <<eligible, rfqVars, dispute, invoice, proposal, notice, tx>>

CreateDispute(m, d) ==
    /\ dispute[d] = Nothing
    /\ dispute' = [dispute EXCEPT ![d] = [status |-> "open", maker |-> m]]
    /\ UNCHANGED <<eligible, rfqVars, answered, invoice, proposal, notice, tx>>
RespondToDispute(d) ==
    /\ dispute[d] # Nothing /\ dispute[d].status = "open" /\ DisputeVendor[d] \in eligible
    /\ dispute' = [dispute EXCEPT ![d].status = "vendor_response"]
    /\ UNCHANGED <<eligible, rfqVars, answered, invoice, proposal, notice, tx>>
ResolveDispute(m, d, decision) ==
    /\ dispute[d] # Nothing /\ dispute[d].status \in {"open", "vendor_response"}
    /\ dispute[d].maker # m
    /\ dispute' = [dispute EXCEPT ![d].status = decision]
    /\ UNCHANGED <<eligible, rfqVars, answered, invoice, proposal, notice, tx>>

-----------------------------------------------------------------------------
(* Payment proposals of an invoice, and shipment notices of an order: both   *)
(* add to what others have taken of the same total.                        *)

Open(x) == tx[x] # Nothing
InvoiceLockIgnored == TRUE
InvoiceLockFree == \A p \in Proposals : ~Open(p)
OrderLockIgnored == TRUE
OrderLockFree == \A n \in Notices : ~Open(n)
Allocated == MapThenSumSet(LAMBDA p : Amount[p], {p \in Proposals : proposal[p] # Nothing})
AlreadyShipped == MapThenSumSet(LAMBDA n : Shipped[n], {n \in Notices : notice[n]})
Payable == invoice.approved /\ invoice.released

BeginProposal(m, p) ==
    /\ InvoiceLockFree /\ ~Open(p) /\ Payable
    /\ IF proposal[p] = Nothing
       THEN Amount[p] + Allocated <= InvoiceTotal
       ELSE proposal[p].status = "draft" /\ proposal[p].maker # m /\ Allocated <= InvoiceTotal
    /\ tx' = [tx EXCEPT ![p] = [sum |-> Allocated, by |-> m]]
    /\ UNCHANGED <<eligible, rfqVars, answered, dispute, invoice, proposal, notice>>

CreatePaymentProposal(p) ==
    /\ Open(p) /\ proposal[p] = Nothing
    /\ proposal' = [proposal EXCEPT ![p] = [status |-> "draft", maker |-> tx[p].by, voucher |-> "none"]]
    /\ tx' = [tx EXCEPT ![p] = Nothing]
    /\ UNCHANGED <<eligible, rfqVars, answered, dispute, invoice, notice>>

\* The voucher is a draft: it is submitted, approved and posted in the ledger.
ApprovePaymentProposal(p) ==
    /\ Open(p) /\ proposal[p] # Nothing
    /\ proposal' = [proposal EXCEPT ![p].status = "approved", ![p].voucher = "draft"]
    /\ tx' = [tx EXCEPT ![p] = Nothing]
    /\ UNCHANGED <<eligible, rfqVars, answered, dispute, invoice, notice>>

BeginAsn(n) ==
    /\ OrderLockFree /\ ~Open(n) /\ ~notice[n]
    /\ Shipped[n] + AlreadyShipped <= OrderQuantity
    /\ tx' = [tx EXCEPT ![n] = [sum |-> AlreadyShipped]]
    /\ UNCHANGED <<eligible, rfqVars, answered, dispute, invoice, proposal, notice>>
CreateAsn(n) ==
    /\ Open(n)
    /\ notice' = [notice EXCEPT ![n] = TRUE]
    /\ tx' = [tx EXCEPT ![n] = Nothing]
    /\ UNCHANGED <<eligible, rfqVars, answered, dispute, invoice, proposal>>

\* A later check of the handler refuses, or the transaction fails.
Abort(x) ==
    /\ Open(x)
    /\ tx' = [tx EXCEPT ![x] = Nothing]
    /\ UNCHANGED <<eligible, rfqVars, answered, dispute, invoice, proposal, notice>>

\* Elsewhere: the vendor is blocked or cleared, the invoice approved, its match decided.
VendorChanges(v) ==
    /\ eligible' = IF v \in eligible THEN eligible \ {v} ELSE eligible \cup {v}
    /\ UNCHANGED <<rfqVars, answered, dispute, invoice, proposal, notice, tx>>
InvoiceChanges ==
    /\ invoice' \in {[approved |-> TRUE, released |-> r] : r \in {invoice.released, TRUE}}
    /\ UNCHANGED <<eligible, rfqVars, answered, dispute, proposal, notice, tx>>

-----------------------------------------------------------------------------

Next ==
    \/ \E m \in Members :
          \/ \E vs \in SUBSET Vendors : CreateRfq(m, vs)
          \/ IssueRfq(m) \/ ActivateAgreement(m)
          \/ \E q \in Quotations, agreed \in BOOLEAN : SelectQuotation(m, q, agreed)
          \/ \E d \in Disputes : CreateDispute(m, d)
          \/ \E d \in Disputes, r \in {"resolved", "rejected"} : ResolveDispute(m, d, r)
          \/ \E p \in Proposals : BeginProposal(m, p)
    \/ DeadlinePasses
    \/ \E q \in Quotations : SubmitQuotation(q)
    \/ \E v \in Vendors : VendorChanges(v) \/ \E a \in {"accepted", "change_requested"} : AcknowledgePo(v, a)
    \/ \E d \in Disputes : RespondToDispute(d)
    \/ \E p \in Proposals : CreatePaymentProposal(p) \/ ApprovePaymentProposal(p)
    \/ \E n \in Notices : BeginAsn(n) \/ CreateAsn(n)
    \/ \E x \in Proposals \cup Notices : Abort(x)
    \/ InvoiceChanges

Spec == Init /\ [][Next]_vars

-----------------------------------------------------------------------------
(* Properties.                                                             *)

\* The evidence counted for a vendor in the workspace of the company.
performanceFor(v) ==
    LET ofVendor == {q \in Quotations : QuotationVendor[q] = v}
        disputes == {d \in Disputes : dispute[d] # Nothing /\ DisputeVendor[d] = v} IN
    [invited   |-> invitation[v] # "none",
     responded |-> invitation[v] = "responded",
     selected  |-> Cardinality({q \in ofVendor : quotation[q] = "selected"}),
     accepted  |-> answered[v] = "accepted",
     open      |-> Cardinality({d \in disputes : dispute[d].status \in {"open", "vendor_response"}}),
     resolved  |-> Cardinality({d \in disputes : dispute[d].status = "resolved"}),
     rejected  |-> Cardinality({d \in disputes : dispute[d].status = "rejected"})]

\* An award selects one quotation, of an invited vendor, and leaves none open; before it
\* no quotation is decided.  The agreement is about the selected quotation.
OneAward ==
    LET selected == {q \in Quotations : quotation[q] = "selected"} IN
    /\ IF rfq # Nothing /\ rfq.status = "awarded"
       THEN /\ selected = {rfq.selected}
            /\ \A q \in Quotations : quotation[q] # "submitted"
       ELSE \A q \in Quotations : quotation[q] \in {"none", "submitted"}
    /\ \A q \in Quotations : quotation[q] # "none" => invitation[QuotationVendor[q]] = "responded"
    /\ agreement # Nothing => selected = {agreement.quotation}
    /\ \A v \in Vendors : performanceFor(v).selected > 0 => performanceFor(v).invited /\ performanceFor(v).responded

\* The proposals of an invoice stay within its total and exist only for a released
\* invoice, however many members propose at once.
PaidWithinInvoice ==
    /\ Allocated <= InvoiceTotal
    /\ (\E p \in Proposals : proposal[p] # Nothing) => Payable

\* The shipment notices of an order line stay within its quantity.
ShippedWithinOrder == AlreadyShipped <= OrderQuantity
=============================================================================
