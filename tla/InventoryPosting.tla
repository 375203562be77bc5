-------------------------- MODULE InventoryPosting --------------------------
(***************************************************************************)
(* Valued stock of a MesaERP company: a source (goods receipt, sales       *)
(* invoice, manufacturing voucher, adjustment, transfer, count) drafts an  *)
(* inventory plan with the value it expects, and posting its voucher turns *)
(* the plan into immutable movements, layers and layer consumptions        *)
(* (mesaerp/inventoryPosting.ts, valuedInventoryService.ts).               *)
(*                                                                         *)
(* A post holds the row of its accounting period, the row of its number    *)
(* series and one advisory lock per (item, warehouse, batch) from the      *)
(* moment it reads balances until it commits.  A plan has at most one      *)
(* issuing and one receiving line.  A business day stands for its period;  *)
(* the lifecycle of the voucher around the plan is VoucherLedger.          *)
(* Money is in paise, a rate in 1/RateScale paise.                         *)
(***************************************************************************)
EXTENDS Integers, Sequences, FiniteSets, Functions

CONSTANTS Plans, Clients, Items, Warehouses, Days,
          BatchesOf,     \* BatchesOf[i]: batch numbers that sources name for item i
          Fifo,          \* items valued first in, first out; the others by average
          Quantities, Rates,
          RateScale,     \* 6 decimals of a rate against 2 of money
          None           \* no warehouse

VARIABLES plan,       \* plan[p]: the plan drafted for source p
          movements,  \* ErpStockMovement in the order of commit
          layers,     \* ErpValuationLayer with what was consumed of each
          tracked,    \* items with batchTracked
          inactive,   \* items and warehouses switched off
          posting,    \* posting[c]: the post client c has in flight
          raced       \* where issues of an untracked item overlapped: <<item, warehouse>>

vars == <<plan, movements, layers, tracked, inactive, posting, raced>>

Undrafted == [stage |-> "none"]
Idle == [plan |-> None]
Families == {"sales", "purchase", "stock_journal", "manufacturing_journal"}

Traces == UNION {BatchesOf[i] : i \in Items}
PlanRecords ==
    [stage : {"drafted", "posted"}, family : Families, item : Items, batch : Traces,
     from : Warehouses \cup {None}, to : Warehouses \cup {None},
     quantity : Nat \ {0}, rate : Nat, value : Nat \ {0}, day : Days]
MovementRecords == [item : Items, warehouse : Warehouses, batch : Traces, quantity : Int, value : Int, day : Days]
LayerRecords ==
    [item : Items, warehouse : Warehouses, batch : Traces, quantity : Nat \ {0}, rate : Nat, used : Nat]

StockAssumption ==
    /\ IsFiniteSet(Plans) /\ RateScale \in Nat \ {0}
    /\ Quantities \subseteq Nat \ {0} /\ Rates \subseteq Nat
    /\ None \notin Plans \cup Warehouses

TypeOK ==
    /\ plan \in [Plans -> PlanRecords \cup {Undrafted}]
    /\ movements \in Seq(MovementRecords) /\ layers \in Seq(LayerRecords)
    /\ tracked \subseteq Items /\ inactive \subseteq Items \cup Warehouses
    /\ \A c \in Clients : posting[c] = Idle \/ posting[c].plan \in Plans

Init ==
    /\ plan = [p \in Plans |-> Undrafted]
    /\ movements = <<>>
    /\ layers = <<>>
    /\ tracked \in SUBSET Items
    /\ inactive = {}
    /\ posting = [c \in Clients |-> Idle]
    /\ raced = {}

-----------------------------------------------------------------------------
(* Valuation.                                                              *)

\* Half up, as toDecimalPlaces(_, ROUND_HALF_UP) does for the positive values here.
Rounded(a, b) == (2 * a + b) \div (2 * b)
Amount(quantity, rate) == Rounded(quantity * rate, RateScale)
Rate(value, quantity) == Rounded(value * RateScale, quantity)

\* Rows of an item and warehouse that an issue may draw on: all, or those of its batch.
Traced(row, i, w, b) ==
    row.item = i /\ row.warehouse = w /\ (i \in tracked => row.batch = b)
Rows(i, w, b) == {k \in DOMAIN movements : Traced(movements[k], i, w, b)}
BalanceQuantity(i, w, b) == SumFunction([k \in Rows(i, w, b) |-> movements[k].quantity])
BalanceValue(i, w, b) == SumFunction([k \in Rows(i, w, b) |-> movements[k].value])

\* What an issue of q takes from layer k: the oldest layers first, none that is used up.
Remaining(k) == layers[k].quantity - layers[k].used
Left(k) == IF Remaining(k) > 0 THEN Remaining(k) ELSE 0
Lots(i, w, b) == {k \in DOMAIN layers : Traced(layers[k], i, w, b)}
FifoTake(i, w, b, q, k) ==
    LET before == SumFunction([j \in {j \in Lots(i, w, b) : j < k} |-> Left(j)])
    IN  IF k \notin Lots(i, w, b) \/ before >= q THEN 0
        ELSE IF q - before < Left(k) THEN q - before ELSE Left(k)
FifoTakes(i, w, b, q) == [k \in DOMAIN layers |-> FifoTake(i, w, b, q, k)]
FifoValue(i, w, b, q) ==
    SumFunction([k \in DOMAIN layers |-> Amount(FifoTakes(i, w, b, q)[k], layers[k].rate)])
AverageValue(i, w, b, q) ==
    Amount(q, Rate(BalanceValue(i, w, b), BalanceQuantity(i, w, b)))

\* Mutant of Issuable: the balance is not compared with what is asked for.
IssuableUnchecked(i, w, b, q) == BalanceQuantity(i, w, b) > 0
Issuable(i, w, b, q) ==
    /\ BalanceQuantity(i, w, b) >= q
    /\ i \in Fifo => SumFunction(FifoTakes(i, w, b, q)) = q

\* The last issue of a layer, or of an average, need not take what rounding left over.
IssueValue(i, w, b, q) == IF i \in Fifo THEN FifoValue(i, w, b, q) ELSE AverageValue(i, w, b, q)

-----------------------------------------------------------------------------
(* Locks.                                                                  *)

PostedBy(c) == plan[posting[c].plan]
InFlight == {c \in Clients : posting[c] # Idle}
Keys(x) == {<<x.item, w, x.batch>> : w \in {x.from, x.to} \ {None}}

\* Mutant of KeysFree: the lock key names the warehouse of the receipt only.
KeysFreeOfReceipts(x) ==
    \A c \in InFlight : {k \in Keys(x) : k[2] = x.to} \cap {k \in Keys(PostedBy(c)) : k[2] = PostedBy(c).to} = {}
KeysFree(x) == \A c \in InFlight : Keys(x) \cap Keys(PostedBy(c)) = {}
PeriodAndSeriesFree(x) ==
    \A c \in InFlight : PostedBy(c).day # x.day /\ PostedBy(c).family # x.family

-----------------------------------------------------------------------------
(* Drafts.                                                                 *)

\* Active, in its own unit, and no later movement of the same trace.
Valid(i, w, b, d) ==
    /\ {i, w} \cap inactive = {}
    /\ \A k \in Rows(i, w, b) : movements[k].day <= d

\* One posting link per source: a second draft of the same source returns the first.
Draft(p, x) ==
    /\ plan[p] = Undrafted
    /\ \A w \in {x.from, x.to} \ {None} : Valid(x.item, w, x.batch, x.day)
    /\ x.value > 0
    /\ plan' = [plan EXCEPT ![p] = x]
    /\ UNCHANGED <<movements, layers, tracked, inactive, posting, raced>>

Line(f, i, b, from, to, q, r, v, d) ==
    [stage |-> "drafted", family |-> f, item |-> i, batch |-> b, from |-> from, to |-> to,
     quantity |-> q, rate |-> r, value |-> v, day |-> d]

\* The value an issue is expected to have, read under the advisory lock of its key.
Estimable(i, w, b, q, d) ==
    /\ \A c \in InFlight : <<i, w, b>> \notin Keys(PostedBy(c))
    /\ Valid(i, w, b, d)
    /\ Issuable(i, w, b, q)

DraftReceipt(p, f, i, b, w, q, r, d) ==
    Draft(p, Line(f, i, b, None, w, q, r, Amount(q, r), d))
DraftIssue(p, f, i, b, w, q, d) ==
    /\ Estimable(i, w, b, q, d)
    /\ Draft(p, Line(f, i, b, w, None, q, 0, IssueValue(i, w, b, q), d))

\* A goods receipt, or the stock lines of a sales invoice.
DraftDocument(p, i, b, w, q, r, d) ==
    \/ DraftReceipt(p, "purchase", i, b, w, q, r, d)
    \/ DraftIssue(p, "sales", i, b, w, q, d)

\* The outputs of a completion or a return of material, or an issue of material.
\* The batch of the voucher is named whether or not the item is tracked.
DraftManufacturing(p, i, b, w, q, r, d) ==
    \/ DraftReceipt(p, "manufacturing_journal", i, b, w, q, r, d)
    \/ DraftIssue(p, "manufacturing_journal", i, b, w, q, d)

CreateAdjustment(p, i, b, w, q, r, d) ==
    \/ DraftReceipt(p, "stock_journal", i, b, w, q, r, d)
    \/ DraftIssue(p, "stock_journal", i, b, w, q, d)

CreateTransfer(p, i, b, from, to, q, d) ==
    LET v == IssueValue(i, from, b, q) IN
    /\ from # to
    /\ Estimable(i, from, b, q, d)
    /\ Draft(p, Line("stock_journal", i, b, from, to, q, Rate(v, q), v, d))

\* The book quantity up to the day of the count is read without a lock; a difference
\* becomes an adjustment.
Book(i, w, b, d) ==
    SumFunction([k \in {k \in Rows(i, w, b) : movements[k].day <= d} |-> movements[k].quantity])
CreatePhysicalCount(p, i, b, w, counted, r, d) ==
    LET variance == counted - Book(i, w, b, d) IN
    /\ {i, w} \cap inactive = {}
    /\ \/ variance > 0 /\ DraftReceipt(p, "stock_journal", i, b, w, variance, r, d)
       \/ variance < 0 /\ DraftIssue(p, "stock_journal", i, b, w, -variance, d)

-----------------------------------------------------------------------------
(* Posting.                                                                *)

\* Mutant of Revalued: the value at posting is not compared with the draft.
RevaluedFreely(x) == TRUE
\* The values computed now are those the accounting lines were drafted with.
Revalued(x) ==
    /\ x.from # None => x.value = IssueValue(x.item, x.from, x.batch, x.quantity)
    /\ x.to # None => x.value = Amount(x.quantity, x.rate)

\* Two issues of an untracked item draw on one balance under the locks of two batches.
Overlapping(x) ==
    /\ x.from # None /\ x.item \notin tracked
    /\ \E c \in InFlight : PostedBy(c).item = x.item /\ PostedBy(c).from = x.from

\* Locks, balances and values; an issue that has become impossible or has another
\* value refuses the post, and the voucher stays approved.
BeginPost(c, p) ==
    LET x == plan[p] IN
    /\ posting[c] = Idle
    /\ x.stage = "drafted"
    /\ PeriodAndSeriesFree(x) /\ KeysFree(x)
    /\ \A w \in {x.from, x.to} \ {None} : Valid(x.item, w, x.batch, x.day)
    /\ x.from # None => Issuable(x.item, x.from, x.batch, x.quantity)
    /\ Revalued(x)
    /\ posting' = [posting EXCEPT ![c] =
         [plan |-> p,
          value |-> IF x.from = None THEN x.value ELSE IssueValue(x.item, x.from, x.batch, x.quantity),
          takes |-> IF x.from # None /\ x.item \in Fifo
                    THEN FifoTakes(x.item, x.from, x.batch, x.quantity) ELSE [k \in DOMAIN layers |-> 0]]]
    /\ raced' = IF Overlapping(x) THEN raced \cup {<<x.item, x.from>>} ELSE raced
    /\ UNCHANGED <<plan, movements, layers, tracked, inactive>>

\* The movements, the layer of a receipt and the consumptions of an issue.
Movement(x, w, sign, v) ==
    [item |-> x.item, warehouse |-> w, batch |-> x.batch, quantity |-> sign * x.quantity,
     value |-> sign * v, day |-> x.day]
Layer(x) ==
    [item |-> x.item, warehouse |-> x.to, batch |-> x.batch, quantity |-> x.quantity,
     rate |-> x.rate, used |-> 0]

\* Mutant of Consumed: an issue forgets its layer consumptions.
ConsumedNever(takes) == layers
\* Layers created while the post was reading keep what they have.
Consumed(takes) ==
    [k \in DOMAIN layers |->
       IF k \in DOMAIN takes THEN [layers[k] EXCEPT !.used = @ + takes[k]] ELSE layers[k]]

CommitPost(c) ==
    LET p == posting[c].plan
        x == plan[p]
        v == posting[c].value
    IN
    /\ posting[c] # Idle
    /\ movements' = movements
         \o (IF x.from = None THEN <<>> ELSE <<Movement(x, x.from, -1, v)>>)
         \o (IF x.to = None THEN <<>> ELSE <<Movement(x, x.to, 1, Amount(x.quantity, x.rate))>>)
    /\ layers' = Consumed(posting[c].takes) \o (IF x.to = None THEN <<>> ELSE <<Layer(x)>>)
    /\ plan' = [plan EXCEPT ![p].stage = "posted"]
    /\ posting' = [posting EXCEPT ![c] = Idle]
    /\ UNCHANGED <<tracked, inactive, raced>>

\* Anything that fails later in the transaction of the post, or a crash.
AbortPost(c) ==
    /\ posting[c] # Idle
    /\ posting' = [posting EXCEPT ![c] = Idle]
    /\ UNCHANGED <<plan, movements, layers, tracked, inactive, raced>>

-----------------------------------------------------------------------------
(* Master data.                                                            *)

\* Trace policies are fixed after the first committed movement.
UpdateItem(i, trackIt, active) ==
    /\ trackIt # (i \in tracked) => \A k \in DOMAIN movements : movements[k].item # i
    /\ tracked' = IF trackIt THEN tracked \cup {i} ELSE tracked \ {i}
    /\ inactive' = IF active THEN inactive \ {i} ELSE inactive \cup {i}
    /\ UNCHANGED <<plan, movements, layers, posting, raced>>

UpdateWarehouse(w, active) ==
    /\ inactive' = IF active THEN inactive \ {w} ELSE inactive \cup {w}
    /\ UNCHANGED <<plan, movements, layers, tracked, posting, raced>>

Next ==
    \/ \E p \in Plans, i \in Items, w \in Warehouses, d \in Days, q \in Quantities, r \in Rates :
         \E b \in BatchesOf[i] :
           \/ DraftDocument(p, i, b, w, q, r, d)
           \/ DraftManufacturing(p, i, b, w, q, r, d)
           \/ CreateAdjustment(p, i, b, w, q, r, d)
           \/ CreatePhysicalCount(p, i, b, w, q, r, d)
           \/ \E to \in Warehouses : CreateTransfer(p, i, b, w, to, q, d)
    \/ \E c \in Clients : CommitPost(c) \/ AbortPost(c) \/ \E p \in Plans : BeginPost(c, p)
    \/ \E i \in Items, trackIt, active \in BOOLEAN : UpdateItem(i, trackIt, active)
    \/ \E w \in Warehouses, active \in BOOLEAN : UpdateWarehouse(w, active)

Spec == Init /\ [][Next]_vars

-----------------------------------------------------------------------------
(* Properties.                                                             *)

\* "The requested issue exceeds the locked valued balance": no item, warehouse and batch is
\* ever issued below zero (negative_stock_prevented), whatever posts overlap.
NegativeStockPrevented ==
    \A i \in Items, w \in Warehouses : \A b \in BatchesOf[i] : BalanceQuantity(i, w, b) >= 0

\* And it is so wherever no two issues of an untracked item overlapped: of a tracked item
\* always.
StockNeverNegative ==
    \A i \in Items, w \in Warehouses : <<i, w>> \notin raced =>
      \A b \in BatchesOf[i] : BalanceQuantity(i, w, b) >= 0

\* The stock ledger is worth what the inventory accounts say: every movement has the
\* value its accounting lines were drafted with.
Booked(p) == IF plan[p].stage # "posted" THEN 0
             ELSE (IF plan[p].to = None THEN 0 ELSE plan[p].value)
                  - (IF plan[p].from = None THEN 0 ELSE plan[p].value)
StockMatchesBooks ==
    SumFunction([k \in DOMAIN movements |-> movements[k].value]) = SumFunction([p \in Plans |-> Booked(p)])

\* Layers are neither overdrawn nor forgotten: what is left of them is the stock an issue may
\* draw on, and an average-valued item without stock has no value left either, unless an issue
\* was so large that the rounding of the rate could leave a paisa.
LayersBackStock ==
    \A i \in Items, w \in Warehouses : <<i, w>> \notin raced =>
      \A b \in BatchesOf[i] :
        /\ i \in Fifo => SumFunction([k \in Lots(i, w, b) |-> Remaining(k)]) = BalanceQuantity(i, w, b)
        /\ \A k \in Lots(i, w, b) : Remaining(k) >= 0
        /\ /\ i \notin Fifo /\ BalanceQuantity(i, w, b) = 0
           /\ \A k \in Rows(i, w, b) : movements[k].quantity > -RateScale
           => BalanceValue(i, w, b) = 0
=============================================================================
