----------------------- MODULE CommercialManufacturing -----------------------
(***************************************************************************)
(* Sales orders, invoices, production demands, manufacturing vouchers and  *)
(* batch costs of a company (mesaerp/commercialManufacturingService.ts).   *)
(* A sales document has one line.  A transition carries the row version    *)
(* its maker loaded and updates only that version, so it is one step; the  *)
(* posting of a completion reads and writes several rows and is two.       *)
(***************************************************************************)
EXTENDS FiniteSets, Integers, Functions

CONSTANTS Orders, Invoices, Demands, Vouchers,  \* records that may be created
          Members, Batches,
          Quantities,                           \* of a line, a demand, an output
          Values,                               \* material value of a voucher
          Nothing

VARIABLES customer,   \* status of the customer, Nothing before it is created
          document,   \* document[d]: a sales order or an invoice
          demand,     \* demand[d]
          voucher,    \* voucher[v]
          cost,       \* batch costs
          posting     \* posting[m]: the completion member m is posting

vars == <<customer, document, demand, voucher, cost, posting>>

Completions == {"manufacturing", "completion", "rework"}
Kinds == {"issue", "return", "completion"}
Created(table) == {x \in DOMAIN table : table[x] # Nothing}
Open == {"released", "partially_completed"}

Maybe(set) == set \cup {Nothing}
CustomerStatus == {"active", "inactive"}
SalesDocument == [stage : {"draft", "submitted", "approved"}, maker : Members,
                  quantity : Quantities, source : Maybe(Orders)]
ProductionDemand == [stage : Open \cup {"draft", "approved", "completed"}, maker : Members,
                     quantity : Quantities, source : Maybe(Orders)]
ManufacturingVoucher ==
    [kind : Kinds, stage : {"draft", "submitted", "approved", "posted"}, maker : Members,
     batch : Batches, demand : Maybe(Demands), value : Values, output : Quantities \cup {0},
     qa : {"accepted", "held"}, ledger : BOOLEAN]
\* of: the vouchers whose values it sums.
BatchCosts == [batch : Batches, demand : Maybe(Demands), output : Quantities,
               of : SUBSET Vouchers, amount : Int]

TradeAssumption ==
    /\ IsFiniteSet(Vouchers)
    /\ Quantities \subseteq Nat \ {0} /\ Values \subseteq Nat
    /\ Nothing \notin ProductionDemand \cup ManufacturingVoucher \cup Demands

TypeOK ==
    /\ customer \in Maybe(CustomerStatus)
    /\ \A d \in DOMAIN document : document[d] \in Maybe(SalesDocument)
    /\ \A d \in Demands : demand[d] \in Maybe(ProductionDemand)
    /\ \A v \in Vouchers : voucher[v] \in Maybe(ManufacturingVoucher)
    /\ \A c \in cost : c \in BatchCosts

Init ==
    /\ customer = Nothing
    /\ document = [d \in Orders \cup Invoices |-> Nothing]
    /\ demand = [d \in Demands |-> Nothing]
    /\ voucher = [v \in Vouchers |-> Nothing]
    /\ cost = {}
    /\ posting = [m \in Members |-> Nothing]

-----------------------------------------------------------------------------
(* The customer; sales orders and invoices.                                *)

CreateCustomer ==
    /\ customer = Nothing
    /\ customer' = "active"
    /\ UNCHANGED <<document, demand, voucher, cost, posting>>
UpdateCustomer(status) ==
    /\ customer # Nothing
    /\ customer' = status
    /\ UNCHANGED <<document, demand, voucher, cost, posting>>

WithinLine(o, q) == /\ document[o] # Nothing /\ document[o].stage = "approved"
                    /\ q <= document[o].quantity

\* An invoice may stand alone or take the line of an approved order.
CreateSalesDocument(m, d, source, q) ==
    /\ document[d] = Nothing /\ customer = "active"
    /\ source # Nothing => d \in Invoices /\ WithinLine(source, q)
    /\ document' = [document EXCEPT ![d] =
                      [stage |-> "draft", maker |-> m, quantity |-> q, source |-> source]]
    /\ UNCHANGED <<customer, demand, voucher, cost, posting>>

SubmitSalesDocument(d) ==
    /\ document[d] # Nothing /\ document[d].stage = "draft"
    /\ document' = [document EXCEPT ![d].stage = "submitted"]
    /\ UNCHANGED <<customer, demand, voucher, cost, posting>>

\* Its posting draft is InventoryPosting's.
ApproveSalesDocument(m, d) ==
    /\ document[d] # Nothing /\ document[d].stage = "submitted" /\ document[d].maker # m
    /\ document' = [document EXCEPT ![d].stage = "approved"]
    /\ UNCHANGED <<customer, demand, voucher, cost, posting>>

-----------------------------------------------------------------------------
(* Production demands.                                                     *)

CreateProductionDemand(m, d, source, q) ==
    /\ demand[d] = Nothing
    /\ source # Nothing => WithinLine(source, q)
    /\ demand' = [demand EXCEPT ![d] =
                    [stage |-> "draft", maker |-> m, quantity |-> q, source |-> source]]
    /\ UNCHANGED <<customer, document, voucher, cost, posting>>

ApproveProductionDemand(m, d) ==
    /\ demand[d] # Nothing /\ demand[d].stage = "draft" /\ demand[d].maker # m
    /\ demand' = [demand EXCEPT ![d].stage = "approved"]
    /\ UNCHANGED <<customer, document, voucher, cost, posting>>

\* The event it emits starts PlantHandoff.
ReleaseProductionDemand(d) ==
    /\ demand[d] # Nothing /\ demand[d].stage = "approved"
    /\ demand' = [demand EXCEPT ![d].stage = "released"]
    /\ UNCHANGED <<customer, document, voucher, cost, posting>>

-----------------------------------------------------------------------------
(* Manufacturing vouchers.                                                 *)

\* Only a completion has finished output, and only an accepted one passes on.
CreateManufacturingVoucher(m, v, kind, batch, d, value, output, qa) ==
    /\ voucher[v] = Nothing
    /\ d # Nothing => demand[d] # Nothing /\ demand[d].stage \in Open
    /\ (kind \in Completions) = (output > 0)
    /\ voucher' = [voucher EXCEPT ![v] =
                     [kind |-> kind, stage |-> "draft", maker |-> m, batch |-> batch,
                      demand |-> d, value |-> value, output |-> output, qa |-> qa,
                      ledger |-> FALSE]]
    /\ UNCHANGED <<customer, document, demand, cost, posting>>

Held(m) == posting[m] # Nothing
VoucherLockFree(v) == \A m \in Members : Held(m) => posting[m].voucher # v
Transitionable(v, stage) ==
    /\ voucher[v] # Nothing /\ voucher[v].stage = stage
    /\ VoucherLockFree(v)
    /\ voucher[v].kind \in Completions => voucher[v].qa = "accepted"

SubmitManufacturingVoucher(v) ==
    /\ Transitionable(v, "draft")
    /\ voucher' = [voucher EXCEPT ![v].stage = "submitted"]
    /\ UNCHANGED <<customer, document, demand, cost, posting>>

ApproveManufacturingVoucher(m, v) ==
    /\ Transitionable(v, "submitted") /\ voucher[v].maker # m
    /\ voucher' = [voucher EXCEPT ![v].stage = "approved"]
    /\ UNCHANGED <<customer, document, demand, cost, posting>>

\* VoucherLedger posts the accounting voucher drafted at the approval.
PostLedger(v) ==
    /\ voucher[v] # Nothing /\ voucher[v].stage = "approved" /\ ~voucher[v].ledger
    /\ voucher' = [voucher EXCEPT ![v].ledger = TRUE]
    /\ UNCHANGED <<customer, document, demand, cost, posting>>

\* An issue or a return takes neither the batch's lock nor the demand's.
PostMovement(v) ==
    /\ Transitionable(v, "approved") /\ voucher[v].ledger
    /\ voucher[v].kind \notin Completions
    /\ voucher' = [voucher EXCEPT ![v].stage = "posted"]
    /\ UNCHANGED <<customer, document, demand, cost, posting>>

-----------------------------------------------------------------------------
(* The posting of a completion.                                            *)

BatchLockFree(b) == \A m \in Members : Held(m) => voucher[posting[m].voucher].batch # b
DemandLockFree(d) == d # Nothing => \A m \in Members : Held(m) => voucher[posting[m].voucher].demand # d

Uncosted(b) == \A c \in cost : c.batch # b

Prior(v) == {w \in Created(voucher) \ {v} :
               /\ voucher[w].stage = "posted"
               /\ voucher[w].batch = voucher[v].batch /\ voucher[w].demand = voucher[v].demand}

\* Reads the vouchers to cost and the outputs completed, having taken the locks.
Completed(d) == SumFunction([c \in {c \in cost : d # Nothing /\ c.demand = d} |-> c.output])
BeginCompletion(m, v) ==
    /\ ~Held(m)
    /\ Transitionable(v, "approved") /\ voucher[v].ledger
    /\ voucher[v].kind \in Completions
    /\ BatchLockFree(voucher[v].batch) /\ Uncosted(voucher[v].batch)
    /\ DemandLockFree(voucher[v].demand)
    /\ posting' = [posting EXCEPT ![m] =
                     [voucher |-> v, of |-> {v} \cup Prior(v),
                      completed |-> Completed(voucher[v].demand)]]
    /\ UNCHANGED <<customer, document, demand, voucher, cost>>

\* A return gives its value back.
Signed(v) == IF voucher[v].kind = "return" THEN -voucher[v].value ELSE voucher[v].value
BatchCost(m) ==
    LET v == posting[m].voucher
    IN  [batch |-> voucher[v].batch, demand |-> voucher[v].demand, output |-> voucher[v].output,
         of |-> posting[m].of, amount |-> SumFunction([w \in posting[m].of |-> Signed(w)])]

CommitCompletion(m) ==
    LET v == posting[m].voucher
        d == voucher[v].demand
        done == posting[m].completed + voucher[v].output
    IN  /\ Held(m)
        /\ BatchCost(m).amount >= 0
        /\ d # Nothing => demand[d].stage \in Open /\ done <= demand[d].quantity
        /\ cost' = cost \cup {BatchCost(m)}
        /\ voucher' = [voucher EXCEPT ![v].stage = "posted"]
        /\ demand' = IF d = Nothing THEN demand
                     ELSE [demand EXCEPT ![d].stage = IF done = demand[d].quantity THEN "completed"
                                                      ELSE "partially_completed"]
        /\ posting' = [posting EXCEPT ![m] = Nothing]
        /\ UNCHANGED <<customer, document>>

\* Mutant of AbortCompletion: the voucher was marked posted in a transaction of its own.
AbortCompletionPosted(m) ==
    /\ Held(m)
    /\ voucher' = [voucher EXCEPT ![posting[m].voucher].stage = "posted"]
    /\ posting' = [posting EXCEPT ![m] = Nothing]
    /\ UNCHANGED <<customer, document, demand, cost>>
AbortCompletion(m) ==
    /\ Held(m)
    /\ posting' = [posting EXCEPT ![m] = Nothing]
    /\ UNCHANGED <<customer, document, demand, voucher, cost>>

Next ==
    \/ CreateCustomer
    \/ \E status \in CustomerStatus : UpdateCustomer(status)
    \/ \E m \in Members, q \in Quantities, source \in Orders \cup {Nothing} :
         \/ \E d \in DOMAIN document : CreateSalesDocument(m, d, source, q)
         \/ \E d \in Demands : CreateProductionDemand(m, d, source, q)
    \/ \E d \in DOMAIN document : \/ SubmitSalesDocument(d)
                                  \/ \E m \in Members : ApproveSalesDocument(m, d)
    \/ \E d \in Demands : \/ ReleaseProductionDemand(d)
                          \/ \E m \in Members : ApproveProductionDemand(m, d)
    \/ \E m \in Members, v \in Vouchers, kind \in Kinds, batch \in Batches,
          d \in Demands \cup {Nothing}, value \in Values, output \in Quantities \cup {0},
          qa \in {"accepted", "held"} :
         CreateManufacturingVoucher(m, v, kind, batch, d, value, output, qa)
    \/ \E v \in Vouchers : \/ SubmitManufacturingVoucher(v) \/ PostLedger(v) \/ PostMovement(v)
                           \/ \E m \in Members : \/ ApproveManufacturingVoucher(m, v)
                                                 \/ BeginCompletion(m, v)
    \/ \E m \in Members : CommitCompletion(m) \/ AbortCompletion(m)

Spec == Init /\ [][Next]_vars

-----------------------------------------------------------------------------
\* However many members post completions of a demand at once, their outputs stay within
\* it, and its status tells whether they fill it.
DemandWithinQuantity ==
    \A d \in Created(demand) :
      /\ Completed(d) <= demand[d].quantity
      /\ (demand[d].stage = "completed") = (Completed(d) = demand[d].quantity)
      /\ (demand[d].stage = "partially_completed") = (Completed(d) \in 1..(demand[d].quantity - 1))

\* The value of a voucher enters at most one batch cost, and a posted completion one.
CostedOnce ==
    \A v \in Created(voucher) :
      /\ Cardinality({c \in cost : v \in c.of}) <= 1
      /\ voucher[v].kind \in Completions =>
           (voucher[v].stage = "posted") = (\E c \in cost : v \in c.of)
=============================================================================
