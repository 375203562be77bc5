----------------------------- MODULE MC_Services -----------------------------
(***************************************************************************)
(* Further services, each checked on an instance of its own in one run, as *)
(* in MC_CompanyServices: a behaviour is about one subject, whose          *)
(* variables are x1, x2, ... in the order of its module.                   *)
(***************************************************************************)
EXTENDS Integers, Sequences, FiniteSets, TLC

CONSTANTS Subjects, Nothing,
          a1, a2, a3, v1, v2, v3,   \* records
          m1, m2                    \* members and clients

VARIABLES subject, x1, x2, x3, x4, x5, x6, x7, x8, x9, x10, x11, x12

\* The variables from the k-th on are not used by the subject.
Unused12 == x12 = Nothing
Unused11 == x11 = Nothing /\ Unused12
Unused10 == x10 = Nothing /\ Unused11
Unused9 == x9 = Nothing /\ Unused10
Unused8 == x8 = Nothing /\ Unused9
Unused7 == x7 = Nothing /\ Unused8
Unused6 == x6 = Nothing /\ Unused7
Unused5 == x5 = Nothing /\ Unused6
Unused4 == x4 = Nothing /\ Unused5
Same12 == UNCHANGED <<subject, x12>>
Same11 == UNCHANGED x11 /\ Same12
Same10 == UNCHANGED x10 /\ Same11
Same9 == UNCHANGED x9 /\ Same10
Same8 == UNCHANGED x8 /\ Same9
Same7 == UNCHANGED x7 /\ Same8
Same6 == UNCHANGED x6 /\ Same7
Same5 == UNCHANGED x5 /\ Same6
Same4 == UNCHANGED x4 /\ Same5

-----------------------------------------------------------------------------
(* BOM revisions and the chart of accounts.                                *)

Boms == INSTANCE PlanningBoms WITH
    Items <- {v1, v2, v3}, Revisions <- {a1, a2, a3}, Members <- {m1, m2}, Spans <- {{1}, {2}},
    revision <- x1, approving <- x2, raced <- x3

Tree == INSTANCE AccountTree WITH
    Accounts <- {a1, a2, a3}, Members <- {m1, m2}, Types <- {"asset", "income"},
    account <- x1, updating <- x2, raced <- x3

-----------------------------------------------------------------------------
(* One order, its receipts and invoices of one line; and what the match      *)
(* makes of two lines, some of them of one item.                             *)

Papers == {"order", "receipt", "invoice"}
OneLine(f, q, p, c) == <<[from |-> f, item |-> "item", quantity |-> q, price |-> p, discount |-> c]>>
Purchases == INSTANCE SourceToPay WITH
    Documents <- Papers,
    TypeOf <- [d \in Papers |-> CASE d = "order" -> "purchase_order" [] d = "receipt" -> "goods_receipt"
                                  [] OTHER -> "supplier_invoice"],
    Lines <- [t \in {"purchase_requisition", "purchase_order", "goods_receipt", "supplier_invoice"} |->
                CASE t = "purchase_requisition" -> {}
                  [] t = "purchase_order" -> {OneLine(0, 2, 2, 0)}
                  [] t = "goods_receipt" -> {OneLine(1, q, 2, 0) : q \in 1..3}
                  [] OTHER -> {OneLine(1, q, p, c) : q \in {1, 2}, p \in {2, 3}, c \in {0, 1}}],
    Vendors <- {"vendor"}, Members <- {m1, m2},
    vendor <- x1, document <- x2, match <- x3

Line(f, i, q, p) == [from |-> f, item |-> i, quantity |-> q, price |-> p, discount |-> 0]
OneOrTwo(S) == {<<a>> : a \in S} \cup (S \X S)
\* x1, x2 and x3 are the lines of order, receipt and invoice, x4 tells whether the
\* invoice was made from the receipt.
MatchingInit ==
    /\ x1 \in {<<Line(0, "A", 1, 1), Line(0, i, 2, 2)>> : i \in {"A", "B"}}
    /\ x2 \in OneOrTwo({Line(f, i, q, 1) : f \in 0..2, i \in {"A", "B"}, q \in {1, 2}})
    /\ x3 \in OneOrTwo({Line(f, i, q, p) : f \in 1..2, i \in {"A", "B"}, q \in {1, 2}, p \in {1, 2}})
    /\ x4 \in BOOLEAN
    /\ \A k \in DOMAIN x3 : x3[k].from <= Len(IF x4 THEN x2 ELSE x1)

-----------------------------------------------------------------------------
(* Three members decide about a vendor; two about its bank account and a     *)
(* document; and a vendor with a portal user.                                *)

VendorDesk == INSTANCE VendorMaster WITH
    Vendors <- {"vendor"}, Banks <- {}, Papers <- {}, Changes <- {}, Users <- {},
    VendorOf <- [u \in {} |-> "vendor"], Invites <- {}, Sessions <- {}, Members <- {m1, m2, "boss"},
    MaxDecisions <- 6,
    vendor <- x1, bank <- x2, paper <- x3, change <- x4, deciding <- x5, user <- x6, invite <- x7,
    session <- x8

VendorPapers == INSTANCE VendorMaster WITH
    Vendors <- {"vendor"}, Banks <- {"bank"}, Papers <- {"paper"}, Changes <- {}, Users <- {},
    VendorOf <- [u \in {} |-> "vendor"], Invites <- {}, Sessions <- {}, Members <- {m1, m2},
    MaxDecisions <- 2,
    vendor <- x1, bank <- x2, paper <- x3, change <- x4, deciding <- x5, user <- x6, invite <- x7,
    session <- x8

Portal == INSTANCE VendorMaster WITH
    Vendors <- {"vendor"}, Banks <- {}, Papers <- {}, Changes <- {"case"}, Users <- {"user"},
    VendorOf <- [u \in {"user"} |-> "vendor"], Invites <- {a1, a2}, Sessions <- {v1, v2}, Members <- {m1, m2},
    MaxDecisions <- 2,
    vendor <- x1, bank <- x2, paper <- x3, change <- x4, deciding <- x5, user <- x6, invite <- x7,
    session <- x8

-----------------------------------------------------------------------------
(* Three quotations of two vendors; three proposals of an invoice for two of  *)
(* them; three shipment notices of an order for two of them, and a dispute.   *)

Tender == INSTANCE SupplierDealings WITH
    Vendors <- {"vendor", "other"}, Members <- {m1, m2}, Quotations <- {a1, a2, "third"}, QuotationVendor <- [q \in {a1, a2, "third"} |-> IF q = "third" THEN "other" ELSE "vendor"],
    Disputes <- {}, DisputeVendor <- [d \in {} |-> "vendor"],
    Proposals <- {}, Amount <- [p \in {} |-> 2], InvoiceTotal <- 5,
    Notices <- {}, Shipped <- [n \in {} |-> 2], OrderQuantity <- 5,
    eligible <- x1, rfq <- x2, invitation <- x3, quotation <- x4, agreement <- x5, answered <- x6,
    dispute <- x7, invoice <- x8, proposal <- x9, notice <- x10, tx <- x11

Payable == INSTANCE SupplierDealings WITH
    Vendors <- {"vendor"}, Members <- {m1, m2}, Quotations <- {}, QuotationVendor <- [q \in {} |-> IF q = "third" THEN "other" ELSE "vendor"],
    Disputes <- {}, DisputeVendor <- [d \in {} |-> "vendor"],
    Proposals <- {a1, a2, a3}, Amount <- [p \in {a1, a2, a3} |-> 2], InvoiceTotal <- 5,
    Notices <- {}, Shipped <- [n \in {} |-> 2], OrderQuantity <- 5,
    eligible <- x1, rfq <- x2, invitation <- x3, quotation <- x4, agreement <- x5, answered <- x6,
    dispute <- x7, invoice <- x8, proposal <- x9, notice <- x10, tx <- x11

Shipping == INSTANCE SupplierDealings WITH
    Vendors <- {"vendor"}, Members <- {m1, m2}, Quotations <- {}, QuotationVendor <- [q \in {} |-> IF q = "third" THEN "other" ELSE "vendor"],
    Disputes <- {"dispute"}, DisputeVendor <- [d \in {"dispute"} |-> "vendor"],
    Proposals <- {}, Amount <- [p \in {} |-> 2], InvoiceTotal <- 5,
    Notices <- {a1, a2, a3}, Shipped <- [n \in {a1, a2, a3} |-> 2], OrderQuantity <- 5,
    eligible <- x1, rfq <- x2, invitation <- x3, quotation <- x4, agreement <- x5, answered <- x6,
    dispute <- x7, invoice <- x8, proposal <- x9, notice <- x10, tx <- x11

-----------------------------------------------------------------------------
(* An e-invoice, an e-way bill and an external one with requests to the        *)
(* provider in flight; and the records of the company.                        *)

EInvoice == INSTANCE StatutoryFilings WITH
    Docs <- {"invoice"}, Members <- {m1, m2}, KindOf <- [d \in {"invoice"} |-> "outbound_e_invoice"],
    Keys <- {v1, v2, v3}, Attempts <- {a1, a2, a3}, MaxClock <- 0,
    row <- x1, registry <- x2, request <- x3, acted <- x4, done <- x5, attempt <- x6, clock <- x7

EWay == INSTANCE StatutoryFilings WITH
    Docs <- {"bill"}, Members <- {m1, m2}, KindOf <- [d \in {"bill"} |-> "e_way_bill"],
    Keys <- {v1, v2, v3}, Attempts <- {a1, a2}, MaxClock <- 1,
    row <- x1, registry <- x2, request <- x3, acted <- x4, done <- x5, attempt <- x6, clock <- x7

External == INSTANCE StatutoryFilings WITH
    Docs <- {"bill"}, Members <- {m1, m2}, KindOf <- [d \in {"bill"} |-> "external"],
    Keys <- {v1, v2}, Attempts <- {a1, a2, a3}, MaxClock <- 1,
    row <- x1, registry <- x2, request <- x3, acted <- x4, done <- x5, attempt <- x6, clock <- x7

Records == INSTANCE ComplianceRecords WITH
    Members <- {m1, m2}, Profiles <- {"p1", "p2", "p3"}, Days <- 1..3,
    Period <- [p \in {"p1", "p2", "p3"} |-> IF p = "p1" THEN {1, 2} ELSE IF p = "p2" THEN {2, 3} ELSE {3}],
    Bills <- {a1, a2, a3}, SourceOf <- [b \in {a1, a2, a3} |-> "challan"],
    Inbound <- {}, Uploads <- {}, Finding <- [u \in {} |-> [i \in {} |-> "absent"]],
    profile <- x1, bill <- x2, inbound <- x3, upload <- x4, checked <- x5, raced <- x6

Findings == <<"absent", "matched", "differs", "not_available", "reversal">>
Credits == INSTANCE ComplianceRecords WITH
    Members <- {m1, m2}, Profiles <- {}, Days <- {}, Period <- [p \in {} |-> {}],
    Bills <- {}, SourceOf <- [b \in {} |-> "challan"],
    Inbound <- {"old", "new"}, Uploads <- 1..5, Finding <- [u \in 1..5 |-> [i \in {"old", "new"} |-> IF i = "old" THEN Findings[u] ELSE Findings[6 - u]]],
    profile <- x1, bill <- x2, inbound <- x3, upload <- x4, checked <- x5, raced <- x6

-----------------------------------------------------------------------------
(* Questionnaires: two forms and the links of members, and one form with       *)
(* customers who submit at once.                                             *)

Journey == INSTANCE LeadJourney WITH
    Forms <- {v1, v2}, Links <- {a1, a2}, Leads <- {"lead"}, Keys <- {}, Requests <- {m1, m2}, Moves <- {"new", "quotation"},
    form <- x1, link <- x2, lead <- x3, submission <- x4, portal <- x5, entitled <- x6, request <- x7

Replies == INSTANCE LeadJourney WITH
    Forms <- {"form"}, Links <- {a1, a2}, Leads <- {"l1", "l2", "l3"}, Keys <- {v1, v2}, Requests <- {m1, m2}, Moves <- {},
    form <- x1, link <- x2, lead <- x3, submission <- x4, portal <- x5, entitled <- x6, request <- x7
\* The form is published, with a generic link and an invitation of the first lead.
RepliesInit ==
    /\ x1 = [f \in {"form"} |-> [family |-> f, revision |-> 1, status |-> "published", questions |-> 1]]
    /\ x2 \in {[l \in {a1, a2} |-> Replies!NewLink("form", IF l = g THEN "generic" ELSE "invitation",
                                                   IF l = g THEN Nothing ELSE "l1")] : g \in {a1, a2}}
    /\ x3 = [x \in {"l1", "l2", "l3"} |-> IF x = "l1" THEN [stage |-> "questionnaire_sent", source |-> "direct"] ELSE Nothing]
    /\ x4 = {} /\ x5 = {} /\ x6 = TRUE /\ x7 = [r \in {m1, m2} |-> Nothing]

-----------------------------------------------------------------------------
(* Quotations of a lead, and what its customer decides about them.            *)

Offers == INSTANCE LeadQuotes WITH
    Quotes <- {a1, a2}, Keys <- {v1, v2}, Challenges <- {}, MaxAttempts <- 1, Requests <- {m1, m2},
    Operations <- {"create", "send", "revise", "update", "lapse"}, Terms <- 0..1, MaxVersion <- 1,
    lead <- x1, quote <- x2, event <- x3, challenge <- x4, portal <- x5, fulfilment <- x6, request <- x7
Decisions == INSTANCE LeadQuotes WITH
    Quotes <- {a1, a2}, Keys <- {v1, v2}, Challenges <- {"code", "another"}, MaxAttempts <- 1, Requests <- {m1, m2},
    Operations <- {"send", "decision", "lead", "close"}, Terms <- {0}, MaxVersion <- 2,
    lead <- x1, quote <- x2, event <- x3, challenge <- x4, portal <- x5, fulfilment <- x6, request <- x7
\* One quotation was sent and another is a draft.
DecisionsInit ==
    /\ x1 = [stage |-> "quotation", version |-> 1]
    /\ \E q, p \in {a1, a2}, k, l \in {v1, v2} :
          /\ q # p /\ k # l
          /\ x2 = [a \in {a1, a2} |-> [number |-> IF a = q THEN 1 ELSE 2, row |-> 1,
                                     status |-> IF a = q THEN "sent" ELSE "draft", terms |-> 0,
                                     offered |-> IF a = q THEN 0 ELSE Nothing, expired |-> FALSE]]
          /\ x3 = {[op |-> "create", key |-> k, quote |-> q, challenge |-> Nothing],
                   [op |-> "send", key |-> k, quote |-> q, challenge |-> Nothing],
                   [op |-> "create", key |-> l, quote |-> p, challenge |-> Nothing]}
    /\ x4 = [c \in {"code", "another"} |-> Nothing] /\ x5 = TRUE /\ x6 = Nothing /\ x7 = [r \in {m1, m2} |-> Nothing]

-----------------------------------------------------------------------------
(* Two questionnaires: a chain of conditions that ends in a file, and steps.  *)

Asks(key, type, required, rule) == [key |-> key, type |-> type, required |-> required, rule |-> rule]
If(source, value) == [source |-> source, operator |-> "equals", value |-> value]
Yes == [kind |-> "boolean", text |-> "true"]
Chain == <<Asks("a", "yes_no", TRUE, Nothing), Asks("b", "short_text", TRUE, If("a", Yes)),
           Asks("c", "file", TRUE, If("b", [kind |-> "string", text |-> "abc"]))>>
Stepped == <<Asks("a", "number", TRUE, Nothing), Asks("s", "section", FALSE, Nothing), Asks("b", "short_text", TRUE, Nothing)>>
Numbered == <<Asks("a", "number", TRUE, Nothing), Asks("b", "short_text", FALSE, If("a", [kind |-> "string", text |-> "1"])),
              Asks("c", "short_text", FALSE, If("b", [kind |-> "string", text |-> "abc"]))>>
Answers == INSTANCE LeadQuestionnaire WITH
    Templates <- {Chain, Stepped, Numbered}, Texts <- {"abc", "Abc"}, MaxEdits <- 1,
    form <- x1, edits <- x2, phase <- x3, answers <- x4, uploads <- x5, step <- x6, outcome <- x7, stored <- x8

-----------------------------------------------------------------------------
(* One subject at a time.                                                  *)

Init ==
    /\ subject \in Subjects
    /\ \/ subject = "boms"     /\ Boms!Init /\ Unused4
       \/ subject = "accounts" /\ Tree!Init /\ Unused4
       \/ subject = "purchases" /\ Purchases!Init /\ Unused4
       \/ subject = "matching"  /\ MatchingInit /\ Unused5
       \/ subject = "vendors" /\ VendorDesk!Init /\ Unused9
       \/ subject = "papers" /\ VendorPapers!Init /\ Unused9
       \/ subject = "portal" /\ Portal!Init /\ Unused9
       \/ subject = "tender" /\ Tender!Init /\ Unused12
       \/ subject = "payable" /\ Payable!Init /\ Unused12
       \/ subject = "shipping" /\ Shipping!Init /\ Unused12
       \/ subject = "einvoice" /\ EInvoice!Init /\ Unused8
       \/ subject = "eway" /\ EWay!Init /\ Unused8
       \/ subject = "external" /\ External!Init /\ Unused8
       \/ subject = "records" /\ Records!Init /\ Unused7
       \/ subject = "credits" /\ Credits!Init /\ Unused7
       \/ subject = "journey" /\ Journey!Init /\ Unused8
       \/ subject = "replies" /\ RepliesInit /\ Unused8
       \/ subject = "quotes" /\ Offers!Init /\ Unused8
       \/ subject = "decisions" /\ DecisionsInit /\ Unused8
       \/ subject = "answers" /\ Answers!Init /\ Unused9

BomNext     == subject = "boms" /\ Boms!Next /\ Same4
AccountNext == subject = "accounts" /\ Tree!Next /\ Same4
PurchasesNext == subject = "purchases" /\ Purchases!Next /\ Same4
VendorDeskNext == subject = "vendors" /\ VendorDesk!Next /\ Same9
VendorPapersNext == subject = "papers" /\ VendorPapers!Next /\ Same9
PortalNext == subject = "portal" /\ Portal!Next /\ Same9
TenderNext == subject = "tender" /\ Tender!Next /\ Same12
PayableNext == subject = "payable" /\ Payable!Next /\ Same12
ShippingNext == subject = "shipping" /\ Shipping!Next /\ Same12
EInvoiceNext == subject = "einvoice" /\ EInvoice!Next /\ Same8
EWayNext == subject = "eway" /\ EWay!Next /\ Same8
ExternalNext == subject = "external" /\ External!Next /\ Same8
RecordsNext == subject = "records" /\ Records!Next /\ Same7
CreditsNext == subject = "credits" /\ Credits!Next /\ Same7
JourneyNext == subject = "journey" /\ Journey!Next /\ Same8
RepliesNext == subject = "replies" /\ Replies!Next /\ Same8
OffersNext == subject = "quotes" /\ Offers!Next /\ Same8
DecisionsNext == subject = "decisions" /\ Decisions!Next /\ Same8
AnswersNext == subject = "answers" /\ Answers!Next /\ Same9
Next == BomNext \/ AccountNext \/ PurchasesNext \/ VendorDeskNext \/ VendorPapersNext \/ PortalNext \/ TenderNext \/ PayableNext \/ ShippingNext \/ EInvoiceNext \/ EWayNext \/ ExternalNext \/ RecordsNext \/ CreditsNext \/ JourneyNext \/ RepliesNext \/ OffersNext \/ DecisionsNext \/ AnswersNext
Spec == Init /\ [][Next]_<<subject, x1, x2, x3, x4, x5, x6, x7, x8, x9, x10, x11, x12>>

Symmetry == Permutations({m1, m2}) \cup Permutations({a1, a2, a3}) \cup Permutations({v1, v2, v3})

-----------------------------------------------------------------------------
(* Properties: those of the modules, by area.                              *)

\* Structures: one effective BOM revision a day; no BOM cycle and no account beneath
\* itself, unless two approvals or two updates overlapped.
StructuresSound ==
    /\ subject = "boms" => Boms!TypeOK /\ Boms!EffectiveOnce /\ Boms!AcyclicUnlessRaced
    /\ subject = "accounts" => Tree!TypeOK /\ Tree!ListedUnlessRaced

\* An approved supplier invoice is backed by a match on approved documents of its vendor,
\* and a match covers what it matches however the lines find each other.
PurchasesSound ==
    /\ subject = "purchases" => Purchases!TypeOK /\ Purchases!InvoicesBacked
    /\ subject = "matching" => Purchases!MatchCovers(x1, x2, x3, x4)

\* "Any variance, including a partial receipt, must first receive an independent checker
\* approval."
PartialReceiptChecked == subject = "purchases" => Purchases!PartialReceiptChecked

\* Vendors are decided by maker and checker and reviewed again after a block, and their
\* people enter the portal by one session per invitation.
VendorsSound ==
    /\ subject = "vendors" => VendorDesk!TypeOK /\ VendorDesk!DecisionsSeparate /\ VendorDesk!ReviewedAgain
    /\ subject = "papers" => VendorPapers!TypeOK
    /\ subject = "portal" => Portal!TypeOK /\ Portal!OneSessionPerInvite
    /\ subject = "tender" => Tender!TypeOK /\ Tender!OneAward
    /\ subject = "payable" => Payable!TypeOK /\ Payable!PaidWithinInvoice
    /\ subject = "shipping" => Shipping!TypeOK /\ Shipping!ShippedWithinOrder

\* India compliance: what the company records the provider has done, what it does not
\* know can be asked again, and bills, profiles and credits stand once.
FilingsSound ==
    /\ subject = "einvoice" => EInvoice!TypeOK /\ EInvoice!NothingFabricated /\ EInvoice!OncePerKey /\ EInvoice!UnknownIsRepeatable
    /\ subject = "eway" => EWay!TypeOK /\ EWay!NothingFabricated /\ EWay!OncePerKey /\ EWay!UnknownIsRepeatable
    /\ subject = "external" => External!TypeOK /\ External!NothingFabricated /\ External!OncePerKey /\ External!UnknownIsRepeatable
    /\ subject = "records" => Records!TypeOK /\ Records!OneStanding
    /\ subject = "credits" => Credits!TypeOK /\ Credits!OneStanding /\ Credits!ClaimsMatched

\* MesaLeads: submissions are made once, fit their form and start one journey.
LeadsSound ==
    /\ subject = "journey" => Journey!TypeOK /\ Journey!AnsweredOnce /\ Journey!AnswersFit /\ Journey!OneJourney
    /\ subject = "quotes" => Offers!TypeOK /\ Offers!OneOffer /\ Offers!ApprovedWon /\ Offers!DecisionsVerified /\ Offers!NumbersInOrder
    /\ subject = "decisions" => Decisions!TypeOK /\ Decisions!OneOffer /\ Decisions!ApprovedWon /\ Decisions!DecisionsVerified /\ Decisions!NumbersInOrder
    /\ subject = "answers" => Answers!TypeOK /\ Answers!StoredOnPath /\ Answers!RefusedForReason /\ Answers!RulesLookBack
    /\ subject = "replies" => Replies!TypeOK /\ Replies!AnsweredOnce /\ Replies!AnswersFit /\ Replies!OneJourney
=============================================================================
