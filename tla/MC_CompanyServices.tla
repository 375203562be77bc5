------------------------- MODULE MC_CompanyServices -------------------------
(***************************************************************************)
(* The services of a company that share nothing but its ledger, each       *)
(* checked on an instance of its own in one run: a behaviour is about one  *)
(* subject.  Each has variables and constants of its own, under the names  *)
(* of its module where no other subject uses them; those of the other      *)
(* subjects stay Nothing.                                                  *)
(***************************************************************************)
EXTENDS MaterialServices, Integers, Sequences, FiniteSets, TLC

CONSTANTS Subjects,
          a1, a2,            \* warehouses, batches, locations
          v1, v2, v3,        \* vouchers, events
          m1, m2             \* members

\* Requests under one key.
CONSTANTS Attempts, PayloadOf
VARIABLES protocol, pc, lock, inserted, record, committed, answer
keyedVars == <<protocol, pc, lock, inserted, record, committed, answer>>

\* Bank statements.
CONSTANTS Statements, Lines, VoucherLines, MaxVersion
VARIABLES statement, matching, completing, raced
bankVars == <<statement, matching, completing, raced>>

\* The process-local ledger.
CONSTANTS Vouchers, CommandKeys, Amounts, MaxCommands, MaxQueue
VARIABLES voucher, sequence, remembered, queue, commands
localVars == <<voucher, sequence, remembered, queue, commands>>

\* Company access.
CONSTANTS People, Companies, Roles, Assignments, Permissions, Sensitive, Grants,
          FirstRoles, FirstAssignments, Delegations, Wildcard, Organization, Overlap, MaxChanges
VARIABLES company, role, assignment, delegated, desk, selfmade, changes
accessVars == <<company, role, assignment, delegated, desk, selfmade, changes>>

\* Fixed assets.
CONSTANTS Assets, AssetEvents, Costs, Residuals, Charges, Months, LifeMonths, Locations, LastDay
VARIABLES asset, event, proposing, books
assetVars == <<asset, event, proposing, books>>

\* Reports of posted vouchers.
CONSTANTS PostedVouchers, PostedLines, Accounts, TypeOf, CashLike, ClassOf, PlantNames, CostCenters,
          PostingDays, PostedAmounts, Rates, PostedLedgers, ReportQueries
VARIABLES ledger, query, rate
reportVars == <<ledger, query, rate>>

\* The lists the browser keeps.
CONSTANTS ScreenVersions
VARIABLES list, shown, version, cached, stale, fetch, call, missed
shownVars == <<list, shown, version, cached, stale, fetch, call, missed>>

\* The vouchers a deduction is based on.
CONSTANTS Vendors, SourceTypes
VARIABLES payable, payment
sourceVars == <<payable, payment>>

VARIABLE subject

vars == <<subject, keyedVars, bankVars, localVars, accessVars, heldVars, mrpVars, tradeVars, assetVars, reportVars,
          nettingVars, stockVars, shownVars, taxVars, sourceVars>>

NoKeyed == /\ protocol = Nothing /\ pc = Nothing /\ lock = Nothing /\ inserted = Nothing
           /\ record = Nothing /\ committed = Nothing /\ answer = Nothing
NoBank == statement = Nothing /\ matching = Nothing /\ completing = Nothing /\ raced = Nothing
NoLocal == /\ voucher = Nothing /\ sequence = Nothing /\ remembered = Nothing
           /\ queue = Nothing /\ commands = Nothing
NoAccess == /\ company = Nothing /\ role = Nothing /\ assignment = Nothing /\ delegated = Nothing
            /\ desk = Nothing /\ selfmade = Nothing /\ changes = Nothing
NoHeld == /\ stock = Nothing /\ tracked = Nothing /\ issued = Nothing
          /\ reservation = Nothing /\ creating = Nothing
NoMrp == /\ policy = Nothing /\ forecast = Nothing /\ reserved = Nothing /\ seen = Nothing
         /\ calculating = Nothing /\ run = Nothing /\ acting = Nothing /\ supplies = Nothing

NoTrade == /\ customer = Nothing /\ document = Nothing /\ demand = Nothing
           /\ production = Nothing /\ cost = Nothing /\ costing = Nothing
NoAssets == asset = Nothing /\ event = Nothing /\ proposing = Nothing /\ books = Nothing
NoReports == ledger = Nothing /\ query = Nothing /\ rate = Nothing
NoNetting == input = Nothing /\ generated = Nothing /\ pass = Nothing /\ outcome = Nothing

NoStock == /\ valued = Nothing /\ movements = Nothing /\ layers = Nothing /\ traced = Nothing
           /\ inactive = Nothing /\ valuing = Nothing /\ overlapped = Nothing
NoShown == /\ list = Nothing /\ shown = Nothing /\ version = Nothing /\ cached = Nothing
           /\ stale = Nothing /\ fetch = Nothing /\ call = Nothing /\ missed = Nothing
NoTax == /\ section = Nothing /\ master = Nothing /\ approving = Nothing /\ crossed = Nothing
         /\ terms = Nothing /\ vendor = Nothing /\ deduction = Nothing /\ deducting = Nothing
NoSources == payable = Nothing /\ payment = Nothing

\* What the subject does not use stays as it is.
Others ==
    /\ UNCHANGED subject
    /\ subject # "keys" => UNCHANGED keyedVars
    /\ subject # "bank" => UNCHANGED bankVars
    /\ subject # "local" => UNCHANGED localVars
    /\ subject # "access" => UNCHANGED accessVars
    /\ subject # "reservations" => UNCHANGED heldVars
    /\ subject # "runs" => UNCHANGED mrpVars
    /\ subject # "trade" => UNCHANGED tradeVars
    /\ subject # "assets" => UNCHANGED assetVars
    /\ subject # "reports" => UNCHANGED reportVars
    /\ subject # "netting" => UNCHANGED nettingVars
    /\ subject # "stock" => UNCHANGED stockVars
    /\ subject # "screens" => UNCHANGED shownVars
    /\ subject # "tax" => UNCHANGED taxVars
    /\ UNCHANGED sourceVars

-----------------------------------------------------------------------------
(* Stock: two receipts posted at two rates before the sources in play.     *)

Sorts == {"fifo", "average"}
Before == {"r1", "r2"}
StockSources == {v1, v2} \cup Before
TwoBatches == [i \in Sorts |-> {"b1", "b2"}]

Received(i, q, r) == [Stock!Line("purchase", i, "b1", Nothing, a1, q, r, Stock!Amount(q, r), 1)
                        EXCEPT !.stage = "posted"]
StockInit ==
    \E i \in StockItems :
      LET first == Received(i, 1, 150)
          second == Received(i, 2, 250)
      IN  /\ valued = [p \in StockPlans |-> CASE p = "r1" -> first [] p = "r2" -> second
                                               [] OTHER -> Stock!Undrafted]
          /\ movements = <<Stock!Movement(first, a1, 1, first.value), Stock!Movement(second, a1, 1, second.value)>>
          /\ layers = <<Stock!Layer(first), Stock!Layer(second)>>
          /\ traced \in SUBSET {i}
          /\ inactive = StockItems \ {i}
          /\ valuing = [c \in Members |-> Stock!Idle]
          /\ overlapped = {}

\* One item in play, traced by batch if it is valued first-in first-out; manufacturing may name the
\* other batch in one voucher of the later day, and a master is switched off only while two sources wait.
OneItem == LET item == valued["r1"].item
               drafted == {p \in DOMAIN valued : valued[p] # Stock!Undrafted}
               others == {p \in drafted : valued[p].batch = "b2"}
           IN  /\ StockItems \ {item} \subseteq inactive /\ traced \subseteq {item} \cap {"fifo"}
               /\ Cardinality(others) <= 1
               /\ \A p \in others : valued[p].family = "manufacturing_journal" /\ valued[p].day = 2
               /\ inactive # StockItems \ {item} =>
                     Cardinality(inactive) = 2 /\ Len(movements) = 2 /\ drafted = StockPlans /\ others = {}

-----------------------------------------------------------------------------
(* Planning.                                                               *)

TwoPerLine == [s \in {"line"} |-> 2]
Kit == {"i1", "i2", "i3"}
NoParts == [i \in Kit |-> 0]
Chain  == [i \in Kit |-> CASE i = "i1" -> [NoParts EXCEPT !["i2"] = 2]
                           [] i = "i2" -> [NoParts EXCEPT !["i3"] = 1] [] OTHER -> NoParts]
Common == [i \in Kit |-> IF i = "i3" THEN NoParts ELSE [NoParts EXCEPT !["i3"] = 1]]
Loop   == [i \in Kit |-> CASE i = "i1" -> [NoParts EXCEPT !["i2"] = 1]
                           [] i = "i2" -> [NoParts EXCEPT !["i1"] = 1] [] OTHER -> NoParts]
OnDay(i, d, q) == [j \in Kit |-> [e \in 1..3 |-> IF j = i /\ e = d THEN q ELSE 0]]
OnAll(x) == [i \in Kit |-> x]
LotOf(k, m) == [kind |-> k, size |-> 3, minimum |-> 1, multiple |-> m]
NetInputs ==
    [demand : {OnDay("i1", 3, q) : q \in {1, 2}}, supply : {OnDay(i, 1, 1) : i \in Kit},
     reserved : {OnDay("i2", 2, r) : r \in {0, 1}}, parts : {Chain, Common, Loop},
     make : {[i \in Kit |-> i \in making] : making \in {{"i1"}, {"i1", "i2"}, Kit}},
     lead : {OnAll(n) : n \in {0, 1}}, reorder : {OnAll(n) : n \in {0, 1}},
     lot : {OnAll(LotOf(k, m)) : k \in {"lot_for_lot", "fixed", "min_max"}, m \in {0, 2}}]

-----------------------------------------------------------------------------
(* Sales, demand and manufacturing.                                        *)

\* Vouchers come after a demand of the whole line was released, and without documents; v3 comes last.
Manufacturing ==
    LET vs == Trade!Created(production)
    IN  vs # {} =>
          /\ customer = Nothing
          /\ Trade!Created(document) = {}
          /\ \A d \in Trade!Created(demand) : demand[d].quantity = 2 /\ demand[d].stage \notin {"draft", "approved"}
          /\ \A v, w \in vs : production[v].maker = production[w].maker
          /\ v3 \in vs => Cardinality(vs) = 3
          /\ Cardinality(vs) = 3 => \E v \in vs : production[v].kind \notin Trade!Completions
          /\ Cardinality(vs) > 1 => \A v \in vs : production[v].qa = "accepted" /\ production[v].demand # Nothing

-----------------------------------------------------------------------------
(* Financial controls.                                                     *)

Register == INSTANCE FixedAssets WITH Events <- AssetEvents, Amounts <- Charges

Bank == INSTANCE BankReconciliation

Chart == {"bank", "capital", "sales", "cost"}
TypesOfChart == [a \in Chart |-> CASE a = "bank" -> "asset" [] a = "capital" -> "equity"
                                    [] a = "sales" -> "income" [] OTHER -> "expense"]
FlowsOfChart == [a \in Chart |-> CASE a = "bank" -> "cash" [] a = "capital" -> "financing" [] OTHER -> "operating"]
Reports == INSTANCE FinanceReports WITH
    Vouchers <- PostedVouchers, LineNumbers <- PostedLines, Plants <- PlantNames, Days <- PostingDays,
    Amounts <- PostedAmounts, Ledgers <- PostedLedgers, Queries <- ReportQueries

\* Vouchers of two lines, or of three with the capital for the rest; their lines are in two plants of
\* one cost centre, or in none.
North == [plantId |-> "north", costCenterId |-> "making"]
South == [plantId |-> "south", costCenterId |-> "making"]
Nowhere == [plantId |-> Nothing, costCenterId |-> Nothing]
LineFor(account, debit, credit, place) ==
    [account |-> account, debit |-> debit, credit |-> credit, plantId |-> place.plantId, costCenterId |-> place.costCenterId]
EntryOf(day, dr, cr, place, credited, capital) ==
    [day |-> day, lines |-> <<LineFor(dr, 1 + capital, 0, place), LineFor(cr, 0, 1, credited),
                              IF capital = 0 THEN Nothing ELSE LineFor("capital", 0, capital, Nowhere)>>]
SomeEntries ==
    {EntryOf(day, pair[1], pair[2], North, credited, 0) :
       day \in PostingDays, pair \in {<<"bank", "sales">>, <<"cost", "sales">>, <<"cost", "bank">>},
       credited \in {South, Nowhere}}
    \cup {EntryOf(day, "bank", "sales", North, credited, 2) : day \in PostingDays, credited \in {South, Nowhere}}
SomeLedgers == [PostedVouchers -> SomeEntries]
SomeQueries ==
    {[from |-> dates[1], to |-> dates[2], asOf |-> dates[3], plantId |-> plant, costCenterId |-> center] :
       dates \in {<<Nothing, Nothing, Nothing>>, <<2, Nothing, Nothing>>, <<Nothing, 1, Nothing>>, <<1, 1, Nothing>>,
                  <<Nothing, Nothing, 1>>, <<2, Nothing, 2>>},
       plant \in {Nothing, "north"}, center \in {Nothing, "making"}}

-----------------------------------------------------------------------------
(* Tax deducted at source: four deductions on two payables of a vendor under  *)
(* two rates, of the same terms or not, or rates and classifications on their *)
(* way to approval; and every pair of vouchers that may be the base of one.   *)

Rated == {"r1", "r2", "r3", "class"}
KindOfMaster == [x \in Rated |-> IF x = "class" THEN "classification" ELSE "rate"]
SpanOfMaster == [x \in Rated |-> CASE x = "class" -> 1..3 [] x = "r1" -> {1, 2}
                                    [] x = "r2" -> {2, 3} [] OTHER -> {3}]
InForce == {"r1", "r3", "class"}
MastersBefore == {{}, InForce}
TermsOf(single, aggregate, excessOnly) == [single |-> single, aggregate |-> aggregate, excessOnly |-> excessOnly]
Everywhere(t) == [x \in Rated |-> t]
\* The terms of masters that are on their way to approval.
ApprovalTerms == Everywhere(TermsOf(0, 2, TRUE))
\* Rates of the same terms, or a third one with a higher threshold and another policy.
TaxTerms == {Everywhere(TermsOf(0, 3, TRUE)), Everywhere(TermsOf(3, 3, TRUE)), Everywhere(TermsOf(0, 3, FALSE)),
             [Everywhere(TermsOf(0, 3, TRUE)) EXCEPT !["r3"] = TermsOf(0, 5, TRUE)], ApprovalTerms}
PayableValues == [p \in {"first", "second"} |-> IF p = "first" THEN 4 ELSE 3]
PayablesOfDeductions == <<"first", "first", "first", "second">>
GrossOfDeductions == <<1, 2, 3, 3>>
DaysOfDeductions == <<1, 1, 3, 1>>

\* Deductions of an approved vendor under the masters in force, or masters with at most one
\* deduction of a vendor that may be blocked.
OneTaxStory ==
    LET made == {x \in Masters : master[x] # Nothing} IN
    \/ terms # ApprovalTerms /\ made = InForce /\ vendor
    \/ terms = ApprovalTerms /\ \A d \in Deductions \ {1} : deduction[d] = Nothing /\ deducting[d] = Nothing

\* A voucher has one source document or none; a payment may have been proposed.  A payable of
\* another type needs no payment to be refused.
SourceDocuments(types) == {Nothing} \cup [type : types, vendor : Vendors]
PaymentProposals == [status : {"draft", "approved"}, vendor : Vendors]
SourcesInit ==
    /\ payable \in [posted : {TRUE}, type : {"journal", "payment"}, parties : SUBSET Vendors,
                    payableLine : Vendors \cup {Nothing}, source : SourceDocuments(SourceTypes)]
    /\ \/ payment = Nothing
       \/ /\ payable.type = "journal"
          /\ payment \in [posted : BOOLEAN, type : {"payment"}, parties : {{}} \cup {{v} : v \in Vendors},
                          source : SourceDocuments({"supplier_invoice"}),
                          proposals : SUBSET PaymentProposals, origin : PaymentProposals]

-----------------------------------------------------------------------------
(* Access: a company with its administrator role, held by both members, and  *)
(* a second one to be created; and requests that overlap.                    *)

RoleOf(c, allow, deny) == [company |-> c, allow |-> allow, deny |-> deny, system |-> deny # {} \/ c = "all", version |-> 0]
Gives(m, r, c, w) == [member |-> m, role |-> r, company |-> c, status |-> "active", version |-> 0, window |-> w]
Rows == [r \in {"platform", "admin", "limits", "r1"} |->
           CASE r = "platform" -> RoleOf("all", {"create"}, {}) [] r = "admin" -> RoleOf("c1", {"access", "read"}, {})
             [] r = "limits" -> RoleOf("c1", {}, {"read"}) [] OTHER -> Nothing]
Holders == [a \in {"p", "q1", "q2", "l", "n1"} |->
           CASE a = "p" -> Gives("u1", "platform", "all", "open") [] a = "q1" -> Gives("u1", "admin", "c1", "open")
             [] a = "q2" -> Gives("u2", "admin", "c1", "open") [] a = "l" -> Gives("u2", "limits", "c1", "coming")
             [] OTHER -> Nothing]
FirstDelegations == {[from |-> "u1", to |-> "u2", company |-> "c1", keys |-> {"*"}]}
Powers == {{"read"}, {"access", "pay"}}
Access == INSTANCE CompanyAccess WITH Members <- People, Keys <- Permissions

-----------------------------------------------------------------------------
(* Requests under one key, two of them copies; and the process-local ledger. *)

Asked == [a \in {"first", "copy", "other"} |-> a = "other"]
Keyed == INSTANCE CommandReplay

BothSides == {1, -1}
Local == INSTANCE MemoryLedger WITH Keys <- CommandKeys

-----------------------------------------------------------------------------
(* The lists the browser keeps.                      *)

Shown == INSTANCE CompanyScreens WITH MaxVersion <- ScreenVersions

-----------------------------------------------------------------------------
\* The receipts before: sources of their own, into a warehouse, of a value that is not rounded away.
ReceiptsAssumption ==
    /\ Before \subseteq StockPlans /\ a1 \in Warehouses /\ 1 \in StockDays
    /\ RateScale <= 300 /\ \A i \in StockItems : "b1" \in BatchesOf[i]

\* What the theorems about the subjects ask of the constants.
ASSUME CompanyAssumption ==
    /\ Keyed!ReplayAssumption /\ Bank!BankAssumption
    /\ Local!MemoryAssumption /\ Access!AccessAssumption
    /\ Holds!ReservationsAssumption /\ Mrp!MrpAssumption
    /\ Trade!TradeAssumption /\ Register!AssetsAssumption /\ Reports!ReportsAssumption
    /\ Netting!NettingAssumption /\ Shown!ScreensAssumption
    /\ Stock!StockAssumption /\ ReceiptsAssumption
    /\ Tax!TdsAssumption

-----------------------------------------------------------------------------
(* One subject at a time.                                                  *)

Init ==
    /\ subject \in Subjects
    /\ IF subject = "keys" THEN Keyed!Init ELSE NoKeyed
    /\ IF subject = "bank" THEN Bank!Init ELSE NoBank
    /\ IF subject = "local" THEN Local!Init ELSE NoLocal
    /\ IF subject = "access" THEN Access!Init ELSE NoAccess
    /\ IF subject = "reservations" THEN Holds!Init ELSE NoHeld
    /\ IF subject = "runs" THEN Mrp!Init ELSE NoMrp
    /\ IF subject = "trade" THEN Trade!Init ELSE NoTrade
    /\ IF subject = "assets" THEN Register!Init ELSE NoAssets
    /\ IF subject = "reports" THEN Reports!Init ELSE NoReports
    /\ IF subject = "netting" THEN Netting!Init ELSE NoNetting
    /\ IF subject = "stock" THEN StockInit ELSE NoStock
    /\ IF subject = "screens" THEN Shown!Init ELSE NoShown
    /\ IF subject = "tax" THEN Tax!Init ELSE NoTax
    /\ IF subject = "sources" THEN SourcesInit ELSE NoSources

StockNext       == subject = "stock" /\ Stock!Next /\ Others
NettingNext     == subject = "netting" /\ Netting!Next /\ Others
ShownNext       == subject = "screens" /\ Shown!Next /\ Others
ReservationNext == subject = "reservations" /\ Holds!Next /\ Others
RunNext         == subject = "runs" /\ Mrp!Next /\ Others
TradeNext       == subject = "trade" /\ Trade!Next /\ Others
AssetNext       == subject = "assets" /\ Register!Next /\ Others
BankNext        == subject = "bank" /\ Bank!Next /\ Others
AccessNext      == subject = "access" /\ Access!Next /\ Others
KeyedNext       == subject = "keys" /\ Keyed!Next /\ Others
LocalNext       == subject = "local" /\ Local!Next /\ Others
TaxNext         == subject = "tax" /\ Tax!Next /\ Others
Next == \/ StockNext \/ ReservationNext \/ RunNext \/ NettingNext \/ TradeNext
        \/ AssetNext \/ BankNext \/ AccessNext \/ KeyedNext \/ LocalNext \/ ShownNext \/ TaxNext
Spec == Init /\ [][Next]_vars

\* After an action that left the list behind, no other is sent.
OneLeftBehind == Shown!LeftBehind => call = Nothing

Bounds ==
    /\ subject = "stock" => OneItem
    /\ subject = "trade" => Manufacturing
    /\ subject = "screens" => OneLeftBehind
    /\ subject = "tax" => OneTaxStory
Symmetry == Permutations({m1, m2}) \cup Permutations({a1, a2}) \cup Permutations({v1, v2})

-----------------------------------------------------------------------------
(* Properties: those of the modules, by area.                              *)

\* Every variable of every service keeps its type.
CompanyTypes ==
    /\ subject = "stock"        => Stock!TypeOK
    /\ subject = "reservations" => Holds!TypeOK
    /\ subject = "runs"         => Mrp!TypeOK
    /\ subject = "netting"      => Netting!TypeOK
    /\ subject = "trade"        => Trade!TypeOK
    /\ subject = "assets"       => Register!TypeOK
    /\ subject = "bank"         => Bank!TypeOK
    /\ subject = "reports"      => Reports!TypeOK
    /\ subject = "access"       => Access!TypeOK
    /\ subject = "keys"         => Keyed!TypeOK
    /\ subject = "local"        => Local!TypeOK
    /\ subject = "screens"      => Shown!TypeOK
    /\ subject = "tax"          => Tax!TypeOK

\* Stock: no warehouse and batch below zero, value what the ledger holds, layers that
\* back the quantity.
StockSound == subject = "stock" =>
    Stock!StockNeverNegative /\ Stock!StockMatchesBooks /\ Stock!LayersBackStock

\* "Negative stock is always disabled": the stock of no item and warehouse falls below zero
\* (server/src/openapi/metadata.ts).
NegativeStockPrevented == subject = "stock" => Stock!NegativeStockPrevented

\* Planning: reservations within stock and within their source, MRP runs that tell one moment.
PlanningSound ==
    /\ subject = "reservations" => Holds!NoOverReservation
    /\ subject = "runs" => Mrp!RunsConsistent

\* MRP netting: a finished run plans what it nets, and ends in a plan or an error.
NettingSound == subject = "netting" => Netting!PlanCoversDemand /\ Netting!Converges

\* Demand released to the plant within the order, completions costed once.
TradeSound == subject = "trade" => Trade!DemandWithinQuantity /\ Trade!CostedOnce

\* Assets: the register is what the books say, and never below the residual value.
AssetsSound == subject = "assets" => Register!RegisterMatchesBooks /\ Register!ResidualKept

\* Bank: every line of a completed statement is matched or explained, and no posted line
\* is matched in two statements unless two matches overlapped.
BankSound == subject = "bank" => Bank!CompletedResolved /\ Bank!OneStatementUnlessRaced

\* Reports of one ledger agree with one another.
ReportsAgree == subject = "reports" =>
    Reports!StatementsAgree /\ Reports!LedgerClosesByRange /\ Reports!TranslationNearlyBalances

\* TDS: each deduction is assessed on its own stretch of the year, under the terms of its rate; under
\* rates of equal terms the excess is taxed once; deductions stay within their payables,
\* one master applies on a day, and a payable serves one vendor.
TaxSound ==
    /\ subject = "tax" => Tax!AssessedInTurn /\ Tax!ExcessTaxedOnce /\ Tax!BasisWithinPayable /\ Tax!OneMasterUnlessRaced
    /\ subject = "sources" => Tax!OwnedByOneVendor(payable, payment, Vendors)

\* Access: companies are shown to whom they serve, roles keep to their company, and no
\* member's own change gives that member more.
AccessSound ==
    /\ subject = "access" => /\ Access!VisibleWhenPermitted /\ Access!PagesTellVersions
                             /\ Access!AssignmentsBound /\ Access!NoSelfGrant

\* A write under an Idempotency-Key happens once and every copy of it gets its answer; the
\* process-local ledger numbers and reverses as the database does.
ReplaySound ==
    /\ subject = "keys" => /\ Keyed!WrittenOnce /\ Keyed!OneAnswer /\ Keyed!CopiesAnswered /\ Keyed!OneAtATime
    /\ subject = "local" => /\ Local!OncePerKey /\ Local!NumbersGapless /\ Local!ReversedOnce /\ Local!TwoMembers

\* A list the browser shows behind the server has a reason, and no action leaves the lists of
\* its own view behind, but for the two exceptions CompanyScreens names.
ScreensSound ==
    subject = "screens" => /\ Shown!BehindForAReason /\ Shown!OwnListsFresh /\ Shown!OthersListsKnown
=============================================================================
