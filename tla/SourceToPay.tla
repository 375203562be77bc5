----------------------------- MODULE SourceToPay -----------------------------
(***************************************************************************)
(* Purchase documents of a company from requisition to supplier invoice,   *)
(* and the three-way match that releases an invoice                        *)
(* (mesaerp/sourceToPayService.ts, purchaseMatchControl.ts).  Documents    *)
(* are never edited after they were created, so a match stays what it was. *)
(*                                                                         *)
(* Lines are records [from, item, quantity, price, discount]: from is the  *)
(* number of the source line, 0 for none.  One tax rate and one unit, so   *)
(* the tax variance follows the price; money is whole.                     *)
(***************************************************************************)
EXTENDS Integers, Sequences, FiniteSets, FiniteSetsExt, SequencesExt

CONSTANTS Documents,     \* records that may be created
          TypeOf,        \* TypeOf[d]: the document type of record d
          Lines,         \* Lines[type]: the line sequences a document may be written with
          Vendors, Members, Nothing

VARIABLES vendor,    \* vendor[v]: lifecycle status
          document,  \* document[d]
          match      \* match[d]: match case of supplier invoice d

vars == <<vendor, document, match>>

SourceToPayDocumentType ==
    {"purchase_requisition", "purchase_order", "goods_receipt", "supplier_invoice"}
VendorStatus == {"draft", "approved", "conditionally_approved", "blocked"}
SourceToPayDocument ==
    [stage : {"draft", "submitted", "approved"}, maker : Members, vendor : Vendors \cup {Nothing},
     source : Documents \cup {Nothing}, lines : UNION {Lines[t] : t \in SourceToPayDocumentType}]
PurchaseMatchCase ==
    [status : {"matched", "variance", "approved"}, maker : Members, order : Documents,
     receipt : Documents, checker : Members \cup {Nothing}]

TypeOK ==
    /\ vendor \in [Vendors -> VendorStatus]
    /\ \A d \in Documents : document[d] = Nothing \/ document[d] \in SourceToPayDocument
    /\ \A d \in Documents : match[d] = Nothing \/ match[d] \in PurchaseMatchCase

Init ==
    /\ vendor \in [Vendors -> VendorStatus]
    /\ document = [d \in Documents |-> Nothing]
    /\ match = [d \in Documents |-> Nothing]

Created == {d \in Documents : document[d] # Nothing}
Approved(d) == d \in Created /\ document[d].stage = "approved"

-----------------------------------------------------------------------------
(* Documents.                                                              *)

SOURCE_TYPES(type) ==
    CASE type = "purchase_requisition" -> {}
      [] type = "purchase_order"       -> {"purchase_requisition"}
      [] type = "goods_receipt"        -> {"purchase_order"}
      [] OTHER                         -> {"purchase_order", "goods_receipt"}

\* The gross of a line, and the taxable amount of a document.
Gross(l) == l.quantity * l.price
calculateSourceToPayTotals(lines) ==
    FoldSeq(LAMBDA l, total : total + Gross(l) - l.discount, 0, lines)

Sourced(d, source, lines) ==
    IF source = Nothing THEN \A k \in DOMAIN lines : lines[k].from = 0
    ELSE /\ TypeOf[source] \in SOURCE_TYPES(TypeOf[d])
         /\ Approved(source)
         /\ \A k \in DOMAIN lines : lines[k].from \in 0..Len(document[source].lines)

\* The vendor named, or the one of the source document; both only when they agree.
VendorOf(v, source) == IF v = Nothing /\ source # Nothing THEN document[source].vendor ELSE v
VendorAllowed(d, v) ==
    /\ v = Nothing => TypeOf[d] = "purchase_requisition"
    /\ v # Nothing => vendor[v] # "blocked"
    /\ TypeOf[d] = "purchase_order" => vendor[v] \in {"approved", "conditionally_approved"}

CreateDocument(m, d, source, named, lines) ==
    LET v == VendorOf(named, source) IN
    /\ document[d] = Nothing
    /\ Sourced(d, source, lines)
    /\ source # Nothing => {named, document[source].vendor, v} \ {Nothing} = {v} \ {Nothing}
    /\ VendorAllowed(d, v)
    /\ \A k \in DOMAIN lines : lines[k].discount <= Gross(lines[k])
    /\ document' = [document EXCEPT ![d] =
         [stage |-> "draft", maker |-> m, vendor |-> v, source |-> source, lines |-> lines]]
    /\ UNCHANGED <<vendor, match>>

SubmitDocument(d) ==
    /\ d \in Created /\ document[d].stage = "draft"
    /\ document' = [document EXCEPT ![d].stage = "submitted"]
    /\ UNCHANGED <<vendor, match>>

\* Mutant of MatchAllowsFinancialRelease: any match case releases its invoice.
MatchAllowsAnyRelease(d) == match[d] # Nothing
MatchAllowsFinancialRelease(d) == match[d] # Nothing /\ match[d].status \in {"matched", "approved"}

\* The posting draft of the approval is InventoryPosting's.
ApproveDocument(m, d) ==
    /\ d \in Created /\ document[d].stage = "submitted"
    /\ document[d].maker # m
    /\ TypeOf[d] = "supplier_invoice" => MatchAllowsFinancialRelease(d)
    /\ document' = [document EXCEPT ![d].stage = "approved"]
    /\ UNCHANGED <<vendor, match>>

-----------------------------------------------------------------------------
(* The three-way match.                                                    *)

\* The lines of xs associated with line k of the order: by their source line, by way of
\* an associated line of the receipt, by an item the order has once, or by position.
associatedLines(xs, order, k, sources) ==
    {j \in DOMAIN xs :
       \/ xs[j].from \in sources
       \/ /\ order[k].item # Nothing /\ xs[j].item = order[k].item
          /\ \A n \in DOMAIN order : order[n].item = order[k].item => n = k
       \/ xs[j].from = 0 /\ xs[j].item = Nothing /\ j = k}
ReceiptsOf(order, receipt, k) == associatedLines(receipt, order, k, {k})
\* An invoice names lines of the receipt it was made from, or else lines of the order.
InvoicesOf(order, receipt, invoice, fromReceipt, k) ==
    associatedLines(invoice, order, k,
      IF ~fromReceipt THEN {k}
      ELSE {r \in ReceiptsOf(order, receipt, k) :
              receipt[r].from = k \/ (receipt[r].item # Nothing /\ receipt[r].item = order[k].item)})

QuantityOf(xs, js) == MapThenSumSet(LAMBDA j : xs[j].quantity, js)
Larger(a, b) == IF a > b THEN a ELSE b
Distance(a, b) == Larger(a - b, b - a)

\* Mutant of QuantityVariance: the receipt is compared with the order only.
QuantityVarianceOfOrder(ordered, received, invoiced) == Larger(received - ordered, 0)
\* A receipt above the order and an invoice above the receipt; never a shortage.
QuantityVariance(ordered, received, invoiced) ==
    Larger(received - ordered, 0) + Larger(invoiced - received, 0)

LineAgrees(order, receipt, invoice, fromReceipt, k) ==
    LET rs == ReceiptsOf(order, receipt, k)
        js == InvoicesOf(order, receipt, invoice, fromReceipt, k)
        gross == MapThenSumSet(LAMBDA j : Gross(invoice[j]), js)
        discount == MapThenSumSet(LAMBDA j : invoice[j].discount, js)
        expected == QuantityOf(invoice, js) * order[k].price
    IN  /\ QuantityVariance(order[k].quantity, QuantityOf(receipt, rs), QuantityOf(invoice, js)) = 0
        /\ Distance(gross, expected) = 0
        /\ Distance(gross - discount, Larger(expected - discount, 0)) = 0

\* Every line agrees, and no line of receipt or invoice is left over.
calculateThreeWayMatch(order, receipt, invoice, fromReceipt) ==
    /\ \A k \in DOMAIN order : LineAgrees(order, receipt, invoice, fromReceipt, k)
    /\ DOMAIN receipt = UNION {ReceiptsOf(order, receipt, k) : k \in DOMAIN order}
    /\ DOMAIN invoice = UNION {InvoicesOf(order, receipt, invoice, fromReceipt, k) : k \in DOMAIN order}

\* Receipt and invoice carry a link to the order, the invoice may link to the receipt.
Lineage(o, r, d) == document[r].source = o /\ document[d].source \in {o, r}

CreateMatch(m, o, r, d) ==
    /\ Approved(o) /\ TypeOf[o] = "purchase_order"
    /\ Approved(r) /\ TypeOf[r] = "goods_receipt"
    /\ d \in Created /\ TypeOf[d] = "supplier_invoice" /\ document[d].stage # "draft"
    /\ {document[x].vendor : x \in {o, r, d}} = {document[o].vendor}
    /\ Lineage(o, r, d)
    /\ match[d] = Nothing
    /\ match' = [match EXCEPT ![d] =
         [status |-> IF calculateThreeWayMatch(document[o].lines, document[r].lines,
                                               document[d].lines, document[d].source = r)
                     THEN "matched" ELSE "variance",
          maker |-> m, order |-> o, receipt |-> r, checker |-> Nothing]]
    /\ UNCHANGED <<vendor, document>>

\* Mutant of ApproveMatch: the maker of the match may approve its variance.
ApproveMatchAlone(m, d) ==
    /\ match[d] # Nothing /\ match[d].status = "variance"
    /\ match' = [match EXCEPT ![d].status = "approved", ![d].checker = m]
    /\ UNCHANGED <<vendor, document>>
ApproveMatch(m, d) ==
    /\ match[d] # Nothing /\ match[d].status = "variance"
    /\ match[d].maker # m
    /\ match' = [match EXCEPT ![d].status = "approved", ![d].checker = m]
    /\ UNCHANGED <<vendor, document>>

Next ==
    \/ \E m \in Members, d \in Documents :
         \/ \E source \in Documents \cup {Nothing}, v \in Vendors \cup {Nothing}, lines \in Lines[TypeOf[d]] :
              CreateDocument(m, d, source, v, lines)
         \/ ApproveDocument(m, d) \/ ApproveMatch(m, d)
         \/ \E o, r \in Documents : CreateMatch(m, o, r, d)
    \/ \E d \in Documents : SubmitDocument(d)

Spec == Init /\ [][Next]_vars

-----------------------------------------------------------------------------
(* Properties.                                                             *)

\* The item of a line is that of the line it names.
SameItems(x, source) == \A k \in DOMAIN x : x[k].from # 0 => x[k].item = source[x[k].from].item
Faithful(order, receipt, invoice, fromReceipt) ==
    /\ SameItems(receipt, order)
    /\ SameItems(invoice, IF fromReceipt THEN receipt ELSE order)

ItemsOf(xs) == {l.item : l \in ToSet(xs)} \ {Nothing}
PerItem(xs, i) == QuantityOf(xs, {k \in DOMAIN xs : xs[k].item = i})
DearestOf(order, i) == Max({0} \cup {l.price : l \in {x \in ToSet(order) : x.item = i}})

\* An invoice that matches asks, item by item, for no more than was received, the receipt
\* holds no more than was ordered, and the money is at most what the order's prices give,
\* whichever way its lines found those of the order and however many there are.
MatchCovers(order, receipt, invoice, fromReceipt) ==
    (/\ calculateThreeWayMatch(order, receipt, invoice, fromReceipt)
     /\ Faithful(order, receipt, invoice, fromReceipt)) =>
      LET items == ItemsOf(invoice) IN
      /\ \A i \in items : /\ PerItem(invoice, i) <= PerItem(receipt, i)
                          /\ PerItem(receipt, i) <= PerItem(order, i)
      /\ Nothing \notin {l.item : l \in ToSet(invoice)} =>
           calculateSourceToPayTotals(invoice)
             <= MapThenSumSet(LAMBDA i : PerItem(invoice, i) * DearestOf(order, i), items)

\* What is paid is backed: an approved invoice has a match case on an approved order and
\* receipt of its vendor, covers them when it matched, and was released by two members,
\* one of whom did not make the match, when it did not.
InvoicesBacked ==
    \A d \in Created : (TypeOf[d] = "supplier_invoice" /\ Approved(d)) =>
      LET c == match[d] IN
      /\ c # Nothing /\ Approved(c.order) /\ Approved(c.receipt)
      /\ {document[x].vendor : x \in {d, c.order, c.receipt}} = {document[d].vendor}
      /\ c.status = "approved" => c.checker # c.maker
      /\ c.status = "matched" =>
           MatchCovers(document[c.order].lines, document[c.receipt].lines, document[d].lines,
                       document[d].source = c.receipt)

\* "Any variance, including a partial receipt, must first receive an independent checker
\* approval": an invoice released without a checker was received in full.
PartialReceiptChecked ==
    \A d \in Created : (TypeOf[d] = "supplier_invoice" /\ Approved(d) /\ match[d].status = "matched") =>
      LET order == document[match[d].order].lines
          receipt == document[match[d].receipt].lines
      IN  \A i \in ItemsOf(order) : PerItem(receipt, i) = PerItem(order, i)
=============================================================================
