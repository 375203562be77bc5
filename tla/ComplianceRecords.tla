-------------------------- MODULE ComplianceRecords --------------------------
(***************************************************************************)
(* The compliance records of a company that need no provider (mesaerp/     *)
(* indiaComplianceService.ts): rule profiles with effective periods,       *)
(* e-way bills drawn up for movement documents, and the input tax credit   *)
(* of inbound e-invoices reconciled with uploads of GSTR-2B.               *)
(* Creations and approvals that check other rows without a lock are a      *)
(* check and a write; a partial unique index decides races about the       *)
(* e-way bill of a source document, and nothing those about GSTR-2B.       *)
(***************************************************************************)
EXTENDS Naturals, FiniteSets

CONSTANTS Members,
          Profiles, Period,   \* rule profiles and the days they cover
          Days,
          Bills, SourceOf,    \* e-way bills, by the movement document they are for
          Inbound,            \* inbound e-invoices
          Uploads, Finding,   \* GSTR-2B uploads of one period and what each says of an inbound invoice:
                              \* "absent", "matched", "differs", "not_available" or "reversal"
          Nothing

VARIABLES profile,   \* profile[p]
          bill,      \* bill[b]: Nothing, "draft", "active" or "cancelled"
          inbound,   \* inbound[i]
          upload,    \* the uploads that exist
          checked,   \* checked[m]: what member m has found free to write
          raced      \* history: two checks of one kind have been open at once

vars == <<profile, bill, inbound, upload, checked, raced>>

RuleProfile == [status : {"draft", "approved"}, maker : Members]
InboundEInvoice == [maker : Members, status : {"received", "reconciled"}, against : Uploads \cup {Nothing},
                    itc : {"pending", "eligible", "blocked", "mismatched", "reversed", "claimed"}]

TypeOK ==
    /\ \A p \in Profiles : profile[p] # Nothing => profile[p] \in RuleProfile
    /\ bill \in [Bills -> {"none", "draft", "active", "cancelled"}]
    /\ \A i \in Inbound : inbound[i] # Nothing => inbound[i] \in InboundEInvoice
    /\ upload \subseteq Uploads
    /\ \A m \in Members : checked[m] # Nothing => checked[m] \in Profiles \cup Bills \cup Uploads

Init ==
    /\ profile = [p \in Profiles |-> Nothing]
    /\ bill = [b \in Bills |-> "none"]
    /\ inbound = [i \in Inbound |-> Nothing]
    /\ upload = {}
    /\ checked = [m \in Members |-> Nothing]
    /\ raced = FALSE

\* Member m has checked what x needs and will write.
Check(m, x) ==
    /\ checked[m] = Nothing
    /\ checked' = [checked EXCEPT ![m] = x]
    /\ raced' = (raced \/ \E n \in Members : checked[n] # Nothing)
    /\ UNCHANGED <<profile, bill, inbound, upload>>
Checked(m, x) ==
    /\ checked[m] = x
    /\ checked' = [checked EXCEPT ![m] = Nothing]
    /\ UNCHANGED raced

-----------------------------------------------------------------------------
(* Rule profiles and e-way bills.                                          *)

CreateRuleProfile(m, p) ==
    /\ profile[p] = Nothing
    /\ profile' = [profile EXCEPT ![p] = [status |-> "draft", maker |-> m]]
    /\ UNCHANGED <<bill, inbound, upload, checked, raced>>

Effective == {p \in Profiles : profile[p] # Nothing /\ profile[p].status = "approved"}
\* Mutant of Overlap: profiles of the same period only.
OverlapExactly(p) == \E q \in Effective \ {p} : Period[p] = Period[q]
Overlap(p) == \E q \in Effective \ {p} : Period[p] \cap Period[q] # {}
BeginApproveRuleProfile(m, p) ==
    /\ profile[p] # Nothing /\ profile[p].status = "draft" /\ profile[p].maker # m /\ ~Overlap(p)
    /\ Check(m, p)
ApproveRuleProfile(m, p) ==
    /\ Checked(m, p)
    /\ profile' = IF profile[p].status = "draft" THEN [profile EXCEPT ![p].status = "approved"] ELSE profile
    /\ UNCHANGED <<bill, inbound, upload>>

resolveProfile(day) == {p \in Effective : day \in Period[p]}

\* The rules of a profile and what a document of type, supply and value says.
evaluateApplicability(rules, document) ==
    {r \in {"disabled", "document", "supply", "exempt", "value", "distance", "age"} :
        CASE r = "disabled" -> ~rules.enabled
          [] r = "document" -> rules.documents # {} /\ document.type \notin rules.documents
          [] r = "supply"   -> rules.supplies # {} /\ document.supply \notin rules.supplies
          [] r = "exempt"   -> document.supply \in rules.exempt
          [] r = "value"    -> document.value < rules.value
          [] r = "distance" -> document.distance < rules.distance
          [] OTHER          -> rules.age # Nothing /\ document.age > rules.age}

Standing(s) == {b \in Bills : SourceOf[b] = s /\ bill[b] \in {"draft", "active"}}
BeginEWayBill(m, b) ==
    /\ bill[b] = "none" /\ Standing(SourceOf[b]) = {} /\ resolveProfile(1) # {}
    /\ Check(m, b)
\* Mutant of UniqueStanding: no index.
UniqueStandingIgnored(b) == TRUE
\* The partial unique index on the source of bills that are not cancelled.
UniqueStanding(b) == Standing(SourceOf[b]) = {}
CreateEWayBill(m, b) ==
    /\ Checked(m, b)
    /\ bill' = IF bill[b] = "none" /\ UniqueStanding(b) THEN [bill EXCEPT ![b] = "draft"] ELSE bill
    /\ UNCHANGED <<profile, inbound, upload>>
\* With evidence from outside and no rule profile.
CreateExternalEWayBill(b) ==
    /\ bill[b] = "none" /\ UniqueStanding(b)
    /\ bill' = [bill EXCEPT ![b] = "draft"]
    /\ UNCHANGED <<profile, inbound, upload, checked, raced>>
\* Through the provider, see StatutoryFilings.
BillChanges(b) ==
    /\ bill' \in {[bill EXCEPT ![b] = s] : s \in {t \in {"active", "cancelled"} :
                    <<bill[b], t>> \in {<<"draft", "active">>, <<"active", "cancelled">>}}}
    /\ UNCHANGED <<profile, inbound, upload, checked, raced>>

-----------------------------------------------------------------------------
(* Inbound e-invoices and GSTR-2B.                                         *)

CreateInboundEInvoice(m, i) ==
    /\ inbound[i] = Nothing
    /\ inbound' = [inbound EXCEPT ![i] = [maker |-> m, status |-> "received", against |-> Nothing, itc |-> "pending"]]
    /\ UNCHANGED <<profile, bill, upload, checked, raced>>

BeginUploadGstr2b(m, u) == upload = {} /\ Check(m, u)
UploadGstr2b(m, u) ==
    /\ Checked(m, u)
    /\ upload' = upload \cup {u}
    /\ UNCHANGED <<profile, bill, inbound>>

\* The status portal and differences give the credit.
Reconciled(i, u) ==
    CASE Finding[u][i] = "absent"        -> "pending"
      [] Finding[u][i] = "not_available" -> "blocked"
      [] Finding[u][i] = "reversal"      -> "reversed"
      [] Finding[u][i] = "differs"       -> "mismatched"
      [] OTHER                           -> "eligible"
\* Whatever the status of the credit was, claimed included.
ReconcileInboundEInvoice(i, u) ==
    /\ inbound[i] # Nothing /\ u \in upload
    /\ inbound' = [inbound EXCEPT ![i] = [@ EXCEPT !.status = "reconciled", !.against = u, !.itc = Reconciled(i, u)]]
    /\ UNCHANGED <<profile, bill, upload, checked, raced>>

\* Mutant of ClaimableCredit: what the reconciliation found is not looked at.
ClaimableWhenReconciled(e) == e.against # Nothing /\ e.itc \notin {"claimed", "blocked"}
ClaimableCredit(e) == e.itc = "eligible" /\ e.against # Nothing /\ e.against \in upload
DecideInboundItc(m, i, decision) ==
    /\ inbound[i] # Nothing /\ inbound[i].maker # m
    /\ decision = "claimed" => ClaimableCredit(inbound[i])
    /\ decision = "reversed" => inbound[i].itc \in {"eligible", "claimed"}
    /\ inbound' = [inbound EXCEPT ![i].itc = decision]
    /\ UNCHANGED <<profile, bill, upload, checked, raced>>

Next ==
    \/ \E m \in Members :
          \/ \E p \in Profiles : CreateRuleProfile(m, p) \/ BeginApproveRuleProfile(m, p) \/ ApproveRuleProfile(m, p)
          \/ \E b \in Bills : BeginEWayBill(m, b) \/ CreateEWayBill(m, b)
          \/ \E u \in Uploads : BeginUploadGstr2b(m, u) \/ UploadGstr2b(m, u)
          \/ \E i \in Inbound : \/ CreateInboundEInvoice(m, i)
                                \/ \E t \in {"blocked", "reversed", "claimed"} : DecideInboundItc(m, i, t)
    \/ \E b \in Bills : CreateExternalEWayBill(b) \/ BillChanges(b)
    \/ \E i \in Inbound, u \in Uploads : ReconcileInboundEInvoice(i, u)

Spec == Init /\ [][Next]_vars

-----------------------------------------------------------------------------
(* Properties.                                                             *)

\* A claimed credit matched the upload it was last reconciled with, in any order of
\* reconciliations, decisions and repeated uploads.
ClaimsMatched ==
    \A i \in Inbound : inbound[i] # Nothing /\ inbound[i].itc \in {"eligible", "claimed"}
        => inbound[i].against # Nothing /\ Finding[inbound[i].against][i] = "matched"

\* A movement document has one e-way bill that is not cancelled, and a day one approved
\* profile and a period one upload unless two of their checks overlapped.
OneStanding ==
    /\ \A b \in Bills : Cardinality(Standing(SourceOf[b])) <= 1
    /\ raced \/ \A day \in Days : Cardinality(resolveProfile(day)) <= 1
    /\ raced \/ Cardinality(upload) <= 1
=============================================================================
