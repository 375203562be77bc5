---------------------------- MODULE TdsDeductions ----------------------------
(***************************************************************************)
(* Tax deducted at source on the payables of one vendor under one section  *)
(* in one financial year (mesaerp/tdsService.ts): the section, its rates   *)
(* and the vendor's classifications are approved by a second person, and   *)
(* deductions reserve part of a posted payable voucher, are computed for   *)
(* good when they are submitted, and approved by another person.           *)
(*                                                                         *)
(* A creation or submission holds the advisory locks of its payable and of *)
(* vendor, section and year until it commits; an approval of a rate or a   *)
(* classification holds no lock between its check and its write.           *)
(***************************************************************************)
EXTENDS Integers, FiniteSets, Functions

CONSTANTS Members, Days,
          Masters, KindOf, SpanOf,    \* rates and classifications, with the days they cover
          InPlace,                    \* sets of masters that may have been approved before
          Policies,                   \* terms the masters may have, each rate its own
          Payables, ValueOf,          \* posted payable vouchers of the vendor
          Deductions, PayableOf, Gross, DayOf,
          Nothing

\* What a rate lays down: the thresholds of one payment and of the year, 0 for none, and whether
\* only the excess over the latter is taxed.
Terms == [single : Nat, aggregate : Nat, excessOnly : BOOLEAN]
Section == [status : {"draft", "approved"}, maker : Members]
Master == [status : {"draft", "approved"}, maker : Members]
Deduction == [status : {"draft", "submitted", "approved"}, maker : Members, rate : Masters,
              classification : Masters, prior : Nat, taxable : Nat]

\* Amounts are of the smallest unit, finitely many deductions share a year, and what was approved
\* before does not overlap.
TdsAssumption ==
    /\ IsFiniteSet(Deductions) /\ Gross \in [Deductions -> Nat] /\ PayableOf \in [Deductions -> Payables]
    /\ ValueOf \in [Payables -> Nat]
    /\ Policies \subseteq [Masters -> Terms]
    /\ \A there \in InPlace : /\ there \subseteq Masters
                            /\ \A x, y \in there : KindOf[x] = KindOf[y] /\ SpanOf[x] \cap SpanOf[y] # {} => x = y
    /\ Nothing \notin Master \cup Deduction

VARIABLES section,    \* the TDS section: Nothing or status and maker
          master,     \* master[x]: a rate or classification
          approving,  \* approving[m]: the master member m has found free of overlaps
          raced,      \* history: two such approvals have been in flight at once
          terms,      \* terms[x]: the terms of the rate x, which no operation changes
          vendor,     \* the vendor is approved, conditionally or not
          deduction,  \* deduction[d]
          tx          \* tx[d]: the transaction about d has read, and who runs it

vars == <<section, master, approving, raced, terms, vendor, deduction, tx>>
masterVars == <<section, master, approving, raced, terms>>

TypeOK ==
    /\ section \in Section \cup {Nothing}
    /\ master \in [Masters -> Master \cup {Nothing}]
    /\ approving \in [Members -> Masters \cup {Nothing}] /\ raced \in BOOLEAN
    /\ terms \in Policies /\ vendor \in BOOLEAN
    /\ deduction \in [Deductions -> Deduction \cup {Nothing}]
    /\ tx \in [Deductions -> Deduction \cup {Nothing}]

Init ==
    /\ \E m \in Members, there \in InPlace :
          /\ section = IF there = {} THEN Nothing ELSE [status |-> "approved", maker |-> m]
          /\ master = [x \in Masters |-> IF x \in there THEN [status |-> "approved", maker |-> m] ELSE Nothing]
    /\ approving = [m \in Members |-> Nothing]
    /\ raced = FALSE
    /\ terms \in Policies /\ vendor \in BOOLEAN
    /\ deduction = [d \in Deductions |-> Nothing]
    /\ tx = [d \in Deductions |-> Nothing]

-----------------------------------------------------------------------------
(* Section, rates and classifications.                                     *)

assertMakerChecker(record, m) == record.maker # m

CreateSection(m) ==
    /\ section = Nothing
    /\ section' = [status |-> "draft", maker |-> m]
    /\ UNCHANGED <<master, approving, raced, terms, vendor, deduction, tx>>
ApproveSection(m) ==
    /\ section # Nothing /\ section.status = "draft" /\ assertMakerChecker(section, m)
    /\ section' = [section EXCEPT !.status = "approved"]
    /\ UNCHANGED <<master, approving, raced, terms, vendor, deduction, tx>>

CreateMaster(m, x) ==
    /\ section # Nothing /\ section.status = "approved" /\ master[x] = Nothing
    /\ master' = [master EXCEPT ![x] = [status |-> "draft", maker |-> m]]
    /\ UNCHANGED <<section, approving, raced, terms, vendor, deduction, tx>>
CreateRate(m, x) == KindOf[x] = "rate" /\ CreateMaster(m, x)
CreateVendorClassification(m, x) == KindOf[x] = "classification" /\ CreateMaster(m, x)

ApprovedMasters(kind) == {x \in Masters : KindOf[x] = kind /\ master[x] # Nothing
                                            /\ master[x].status = "approved"}
\* Mutant of Overlapping: only a master of exactly the same period conflicts.
OverlappingExactly(x) == \E y \in ApprovedMasters(KindOf[x]) \ {x} : SpanOf[x] = SpanOf[y]
Overlapping(x) == \E y \in ApprovedMasters(KindOf[x]) \ {x} : SpanOf[x] \cap SpanOf[y] # {}

BeginApprove(m, x) ==
    /\ approving[m] = Nothing
    /\ master[x] # Nothing /\ master[x].status = "draft" /\ assertMakerChecker(master[x], m)
    /\ ~Overlapping(x)
    /\ approving' = [approving EXCEPT ![m] = x]
    /\ raced' = (raced \/ \E n \in Members : approving[n] # Nothing)
    /\ UNCHANGED <<section, master, terms, vendor, deduction, tx>>
\* The update is conditional on the draft; of two approvals of one master one fails.
CommitApprove(m) ==
    /\ approving[m] # Nothing
    /\ LET x == approving[m] IN
       master' = IF master[x].status = "draft" THEN [master EXCEPT ![x].status = "approved"] ELSE master
    /\ approving' = [approving EXCEPT ![m] = Nothing]
    /\ UNCHANGED <<section, raced, terms, vendor, deduction, tx>>

-----------------------------------------------------------------------------
(* Deductions.                                                             *)

\* What of a base is beyond the aggregate threshold of the terms t, if they have one.
Excess(t, base) == IF t.aggregate > 0 /\ base > t.aggregate THEN base - t.aggregate ELSE 0
calculateTdsThresholdBasis(t, gross, prior) ==
    LET after == prior + gross
        aggregateHit == t.aggregate > 0 /\ after > t.aggregate
        singleHit == t.single > 0 /\ gross >= t.single
        more == Excess(t, after) - Excess(t, prior) IN
    IF ~((t.single = 0 /\ t.aggregate = 0) \/ singleHit \/ aggregateHit) THEN 0
    ELSE IF t.excessOnly /\ aggregateHit /\ ~singleHit
         THEN IF more <= 0 THEN 0 ELSE IF more < gross THEN more ELSE gross
         ELSE gross

Kept == {d \in Deductions : deduction[d] # Nothing}
Final == {d \in Kept : deduction[d].status # "draft"}
GrossOf(ds) == SumFunctionOnSet(Gross, ds)
TaxableOf(ds) == SumFunctionOnSet([d \in ds |-> deduction[d].taxable], ds)
Reserved(p, except) == GrossOf({d \in Kept \ except : PayableOf[d] = p})
\* With the other deductions of its payable, d stays within its value.
FitsPayable(d, except) == Reserved(PayableOf[d], except) + Gross[d] <= ValueOf[PayableOf[d]]
Covering(kind, day) == {x \in ApprovedMasters(kind) : day \in SpanOf[x]}

Open(d) == tx[d] # Nothing
PayableLockFree(p) == \A d \in Deductions : Open(d) => PayableOf[d] # p
\* The lock of vendor, section and year.
YearLockFree == \A d \in Deductions : ~Open(d)

\* Mutant of Computed: the year's base counts every deduction there is, drafts and d itself too.
ComputedWithDrafts(d, status, maker, rate, classification) ==
    LET prior == GrossOf(Kept) IN
    [status |-> status, maker |-> maker, rate |-> rate, classification |-> classification,
     prior |-> prior, taxable |-> calculateTdsThresholdBasis(terms[rate], Gross[d], prior)]
\* What the creation of d by m, or its submission, will write: the year's base before it counts
\* all final deductions, the taxable part follows from the terms of its own rate.
Computed(d, status, maker, rate, classification) ==
    LET prior == GrossOf(Final \ {d}) IN
    [status |-> status, maker |-> maker, rate |-> rate, classification |-> classification,
     prior |-> prior, taxable |-> calculateTdsThresholdBasis(terms[rate], Gross[d], prior)]

BeginCreate(m, d) ==
    /\ deduction[d] = Nothing /\ ~Open(d) /\ vendor
    /\ PayableLockFree(PayableOf[d]) /\ YearLockFree
    /\ FitsPayable(d, {})
    /\ \E r \in Masters, c \in Masters :
          /\ Covering("classification", DayOf[d]) = {c} /\ Covering("rate", DayOf[d]) = {r}
          /\ tx' = [tx EXCEPT ![d] = Computed(d, "draft", m, r, c)]
    /\ UNCHANGED <<masterVars, vendor, deduction>>

\* The masters of d are read again; nothing takes their approval back.
BeginSubmit(d) ==
    /\ d \in Kept /\ deduction[d].status = "draft" /\ ~Open(d)
    /\ PayableLockFree(PayableOf[d]) /\ YearLockFree
    /\ deduction[d].rate \in Covering("rate", DayOf[d])
    /\ deduction[d].classification \in Covering("classification", DayOf[d])
    /\ FitsPayable(d, {d})
    /\ tx' = [tx EXCEPT ![d] = Computed(d, "submitted", deduction[d].maker, deduction[d].rate,
                                        deduction[d].classification)]
    /\ UNCHANGED <<masterVars, vendor, deduction>>

CommitDeduction(d) ==
    /\ Open(d)
    /\ deduction' = [deduction EXCEPT ![d] = tx[d]]
    /\ tx' = [tx EXCEPT ![d] = Nothing]
    /\ UNCHANGED <<masterVars, vendor>>
AbortDeduction(d) ==
    /\ Open(d)
    /\ tx' = [tx EXCEPT ![d] = Nothing]
    /\ UNCHANGED <<masterVars, vendor, deduction>>

ApproveDeduction(m, d) ==
    /\ d \in Kept /\ deduction[d].status = "submitted" /\ ~Open(d)
    /\ assertMakerChecker(deduction[d], m) /\ PayableLockFree(PayableOf[d])
    /\ deduction[d].rate \in Covering("rate", DayOf[d])
    /\ deduction[d].classification \in Covering("classification", DayOf[d])
    /\ deduction' = [deduction EXCEPT ![d].status = "approved"]
    /\ UNCHANGED <<masterVars, vendor, tx>>

\* Elsewhere: the vendor is approved, blocked or suspended.
VendorChanges == vendor' = ~vendor /\ UNCHANGED <<masterVars, deduction, tx>>

Next ==
    \/ \E m \in Members :
          \/ CreateSection(m) \/ ApproveSection(m) \/ CommitApprove(m)
          \/ \E x \in Masters : CreateRate(m, x) \/ CreateVendorClassification(m, x) \/ BeginApprove(m, x)
          \/ \E d \in Deductions : BeginCreate(m, d) \/ ApproveDeduction(m, d)
    \/ \E d \in Deductions : BeginSubmit(d) \/ CommitDeduction(d) \/ AbortDeduction(d)
    \/ VendorChanges

Spec == Init /\ [][Next]_vars

-----------------------------------------------------------------------------
(* Properties.                                                             *)

\* The totals of a section in the report: those of its final deductions.
report == [gross |-> GrossOf(Final), taxable |-> TaxableOf(Final)]

\* Every final deduction is assessed on a stretch of the year's gross of its own, in the order of
\* their submission and whatever drafts were computed meanwhile: the stretches do not overlap,
\* together they are what the report adds up, and each is taxed by the terms of its own rate.
AssessedInTurn ==
    /\ \A d \in Final :
          /\ deduction[d].taxable = calculateTdsThresholdBasis(terms[deduction[d].rate], Gross[d], deduction[d].prior)
          /\ deduction[d].prior + Gross[d] <= report.gross
    /\ \A d, e \in Final : d # e => \/ deduction[d].prior + Gross[d] <= deduction[e].prior
                                  \/ deduction[e].prior + Gross[e] <= deduction[d].prior

\* As long as the rates of the year's final deductions have the same terms, exactly the part of
\* its gross beyond their threshold is taxed, whatever the order of creation and submission; at
\* least that part, with the other policy or a single payment over its threshold.  Between rates
\* of different terms the total depends on the order of submission.
ExcessTaxedOnce ==
    \A r \in Masters :
      (\A d \in Final : terms[deduction[d].rate] = terms[r]) =>
        LET t == terms[r] IN
        /\ t.aggregate > 0 => report.taxable >= Excess(t, report.gross)
        /\ t.aggregate > 0 /\ t.excessOnly /\ (\A d \in Final : t.single = 0 \/ Gross[d] < t.single)
              => report.taxable = Excess(t, report.gross)

\* Drafts, submitted and approved deductions of a payable stay within its value.
BasisWithinPayable == \A p \in Payables : Reserved(p, {}) <= ValueOf[p]

\* On no day two approved rates, or two approved classifications, apply, unless two of
\* their approvals overlapped: then no deduction can be created for the day.
OneMasterUnlessRaced ==
    raced \/ \A kind \in {"rate", "classification"}, day \in Days : Cardinality(Covering(kind, day)) <= 1

-----------------------------------------------------------------------------
(* The evidence that a payable voucher, and a payment, belong to a vendor.  *)

\* A posted voucher: type, parties its lines name, whether a payable line names one of
\* them, and the vendor and kind of its source document (Nothing: none).
payableVendorBinding(p, v) ==
    IF p.parties \ {v} # {} THEN "conflict"
    ELSE IF p.source # Nothing
    THEN IF p.source.type = "supplier_invoice" /\ p.source.vendor = v THEN "supplier_invoice" ELSE "conflict"
    ELSE IF p.payableLine = v /\ p.parties = {v} THEN "party_dimension" ELSE "unbound"

\* Mutant of assertTdsSourceOwnership: any source document will do.
OwnedByAnyParty(p, payment, v) ==
    p.posted /\ p.type \in {"purchase", "journal"} /\ (v \in p.parties \/ p.source # Nothing)
assertTdsSourceOwnership(p, payment, v) ==
    LET binding == payableVendorBinding(p, v) IN
    /\ p.posted /\ p.type \in {"purchase", "journal"} /\ binding \in {"supplier_invoice", "party_dimension"}
    /\ payment # Nothing =>
          /\ payment.posted /\ payment.type = "payment" /\ payment.parties \subseteq {v}
          /\ binding = "supplier_invoice" /\ payment.source = p.source
          /\ Cardinality({k \in payment.proposals : k.status = "approved" /\ k.vendor = v}) = 1
          /\ \E k \in payment.proposals : k.status = "approved" /\ k.vendor = v /\ payment.origin = k

\* One payable is accepted for one vendor only, and never with a payment of another vendor.
OwnedByOneVendor(p, payment, vendors) ==
    \A v, w \in vendors : assertTdsSourceOwnership(p, payment, v) =>
        /\ assertTdsSourceOwnership(p, Nothing, w) => v = w
        /\ payment # Nothing => payment.source.vendor = v /\ payment.origin.vendor = v
=============================================================================
