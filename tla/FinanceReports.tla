--------------------------- MODULE FinanceReports ---------------------------
(***************************************************************************)
(* The reports read from a company's posted vouchers, and their            *)
(* consolidation (mesaerp/financeControlService.ts).  Pure: a state is a   *)
(* ledger and a query, and the properties compare the reports with each    *)
(* other and with the ledger.  A report is about postings, the lines of    *)
(* the vouchers; each line has a plant and a cost centre of its own.       *)
(***************************************************************************)
EXTENDS Integers, FiniteSets, Functions

CONSTANTS Vouchers, LineNumbers, Accounts,
          TypeOf,     \* type of each account
          CashLike,   \* accounts classified cash or bank
          ClassOf,    \* cash-flow class of each account
          Plants, CostCenters, Days, Amounts,
          Rates,      \* translation rates, in hundredths
          Ledgers, Queries,   \* the ledgers there may be, the queries that may be asked
          Nothing

Types == {"asset", "liability", "equity", "income", "expense"}

VARIABLES ledger,   \* ledger[v]: a posted voucher
          query,    \* dates and dimensions asked for, each a value or Nothing
          rate      \* translation rate of the company

vars == <<ledger, query, rate>>

\* A line debits or credits one account; the line numbers a voucher does not use hold Nothing.
Line == {l \in [account : Accounts, debit : Amounts, credit : Amounts,
                plantId : Plants \cup {Nothing}, costCenterId : CostCenters \cup {Nothing}] :
           (l.debit = 0) # (l.credit = 0)}
Used(lines) == {n \in LineNumbers : lines[n] # Nothing}
\* All lines of a voucher balance together; those of one plant or cost centre need not.
Balanced(lines) == SumFunction([n \in Used(lines) |-> lines[n].debit])
                     = SumFunction([n \in Used(lines) |-> lines[n].credit])
Voucher == {v \in [day : Days, lines : [LineNumbers -> Line \cup {Nothing}]] : Balanced(v.lines)}
FinanceReportQuery == [from : Days \cup {Nothing}, to : Days \cup {Nothing}, asOf : Days \cup {Nothing},
                       plantId : Plants \cup {Nothing}, costCenterId : CostCenters \cup {Nothing}]

ReportsAssumption ==
    /\ IsFiniteSet(Vouchers) /\ IsFiniteSet(LineNumbers) /\ IsFiniteSet(Accounts)
    /\ IsFiniteSet(Plants) /\ IsFiniteSet(CostCenters)
    /\ CashLike \subseteq Accounts /\ TypeOf \in [Accounts -> Types]
    /\ Days \subseteq Nat /\ Nothing \notin Days
    /\ Amounts \subseteq Nat /\ Rates \subseteq Nat
    /\ Ledgers \subseteq [Vouchers -> Voucher] /\ Queries \subseteq FinanceReportQuery

TypeOK == ledger \in [Vouchers -> Voucher] /\ query \in FinanceReportQuery /\ rate \in Rates

Init == ledger \in Ledgers /\ query \in Queries /\ rate \in Rates
Next == UNCHANGED vars
Spec == Init /\ [][Next]_vars

-----------------------------------------------------------------------------
\* asOf takes the place of from and to.
InScope(d) ==
    IF query.asOf # Nothing THEN d <= query.asOf
    ELSE (query.from # Nothing => d >= query.from) /\ (query.to # Nothing => d <= query.to)
Scope == {v \in Vouchers : InScope(ledger[v].day)}

LineOf(p) == ledger[p[1]].lines[p[2]]
PostingDay(p) == ledger[p[1]].day
PostingsOf(vs) == {p \in vs \X LineNumbers : LineOf(p) # Nothing}
On(as, ps) == {p \in ps : LineOf(p).account \in as}

Debits(ps) == SumFunction([p \in ps |-> LineOf(p).debit])
Credits(ps) == SumFunction([p \in ps |-> LineOf(p).credit])
Balance(ps) == Debits(ps) - Credits(ps)

Matches(p) ==
    /\ query.costCenterId # Nothing => LineOf(p).costCenterId = query.costCenterId
    /\ query.plantId # Nothing => LineOf(p).plantId = query.plantId
AllLines == {p \in PostingsOf(Scope) : Matches(p)}

AccountRows == [a \in Accounts |-> [debit |-> Debits(On({a}, AllLines)), credit |-> Credits(On({a}, AllLines))]]
TrialBalance == [debit |-> SumFunction([a \in Accounts |-> AccountRows[a].debit]),
                 credit |-> SumFunction([a \in Accounts |-> AccountRows[a].credit])]

OfType(type) == {a \in Accounts : TypeOf[a] = type}
DebitBalance(type) == SumFunction([a \in OfType(type) |-> AccountRows[a].debit - AccountRows[a].credit])
ProfitAndLoss == (-DebitBalance("income")) - DebitBalance("expense")
\* Mutant of EquationDifference: the profit not yet closed into equity is left out.
EquationDifferenceUnclosed ==
    DebitBalance("asset") + DebitBalance("liability") + DebitBalance("equity")
EquationDifference ==
    DebitBalance("asset") + DebitBalance("liability") + DebitBalance("equity") - ProfitAndLoss

-----------------------------------------------------------------------------
\* The opening balance takes every day before `from`, whatever asOf says.
Before == IF query.from = Nothing THEN {} ELSE {v \in Vouchers : ledger[v].day < query.from}
GeneralLedger(a) ==
    LET opening == Balance(On({a}, {p \in PostingsOf(Before) : Matches(p)}))
    IN  [opening |-> opening, closing |-> opening + Balance(On({a}, AllLines))]

\* The cash a voucher moves goes to the class of its other lines, if they have one class; the
\* plant and the cost centre asked for play no part.
CashLines(v) == On(CashLike, PostingsOf({v}))
Classes(v) == {ClassOf[LineOf(p).account] : p \in PostingsOf({v}) \ CashLines(v)}
Bucket(v) == IF Cardinality(Classes(v)) = 1 THEN CHOOSE c \in Classes(v) : TRUE ELSE "mixed"
CashFlow == [c \in {ClassOf[a] : a \in Accounts} \cup {"mixed"} |->
               SumFunction([v \in {v \in Scope : CashLines(v) # {} /\ Bucket(v) = c} |-> Balance(CashLines(v))])]

\* Net debit balance of each cost centre and plant, with a group for what is not assigned.
DimensionsOf(p) == <<LineOf(p).costCenterId, LineOf(p).plantId>>
Dimensions == [k \in (CostCenters \cup {Nothing}) \X (Plants \cup {Nothing}) |->
                 Balance({p \in AllLines : DimensionsOf(p) = k})]

\* Half a unit is rounded away from zero.
Rounded(n) == IF n >= 0 THEN (n + 50) \div 100 ELSE -((50 - n) \div 100)
\* A company's own balances up to the day of the report, translated type by type; no query.
PostedUntil(reportDate) == PostingsOf({v \in Vouchers : ledger[v].day <= reportDate})
ConsolidationReport(reportDate) ==
    LET lines == PostedUntil(reportDate)
    IN  [t \in {TypeOf[LineOf(p).account] : p \in lines} |-> Rounded(rate * Balance(On(OfType(t), lines)))]

-----------------------------------------------------------------------------
\* For every query the statements tell the same: what the balance sheet is out by, with the open
\* profit in it, is what the trial balance is out by and what the cost centres and plants come to
\* together; unless one plant or cost centre is asked for, that is nothing.  Cash flow by class
\* adds up to all that the cash and bank accounts moved, mixed vouchers included.
StatementsAgree ==
    LET difference == TrialBalance.debit - TrialBalance.credit
    IN  /\ EquationDifference = difference
        /\ SumFunction(Dimensions) = difference
        /\ query.plantId = Nothing /\ query.costCenterId = Nothing => difference = 0
        /\ SumFunction(CashFlow) = Balance(On(CashLike, PostingsOf(Scope)))

EndOfRange == IF query.asOf # Nothing THEN query.asOf ELSE query.to
UpTo(last) == {v \in Vouchers : last # Nothing => ledger[v].day <= last}
\* The general ledger closes at the balance the account has at the end of the range, in the plant
\* and cost centre asked for ("no dashboard metrics or balances are fabricated").
LedgerCloses ==
    \A a \in Accounts : (query.from # Nothing /\ EndOfRange # Nothing => query.from <= EndOfRange)
        => GeneralLedger(a).closing = Balance(On({a}, {p \in PostingsOf(UpTo(EndOfRange)) : Matches(p)}))

\* The same for the queries that do not give asOf with from, whose opening balance the code counts twice.
LedgerClosesByRange == (query.asOf = Nothing \/ query.from = Nothing) => LedgerCloses

\* Each type is translated and rounded by itself, so on every day a consolidated company is out of
\* balance by half a unit for each type at most.
TranslationNearlyBalances ==
    \A reportDate \in Days :
        LET report == ConsolidationReport(reportDate)
            types == Cardinality(DOMAIN report)
        IN  2 * SumFunction(report) \in (-types)..types
=============================================================================
