----------------------------- MODULE FixedAssets -----------------------------
(***************************************************************************)
(* The fixed assets of a company (mesaerp/financeControlService.ts) and    *)
(* what posting their vouchers does to them (financeControlPosting.ts).  A *)
(* proposal computes an event under the asset's row lock and drafts a      *)
(* sealed voucher; the event takes effect when the voucher is posted.      *)
(* Money is in whole units; a proposal's lock, checks and commit are two   *)
(* steps so that proposals overlap.                                        *)
(***************************************************************************)
EXTENDS Integers, FiniteSets, FiniteSetsExt

CONSTANTS Assets, Events, Members, Costs, Residuals, Amounts,
          Months,     \* months a depreciation may cover, as the caller counts them
          LifeMonths, \* useful life
          Locations, LastDay, Nothing

VARIABLES asset,      \* asset[a]
          event,      \* event[e]
          proposing,  \* proposing[m]: the event member m has computed
          books       \* books[a]: balances the posted vouchers gave the asset's accounts

vars == <<asset, event, proposing, books>>

Kinds == {"capitalization", "depreciation", "impairment", "disposal"}
Created(table) == {x \in DOMAIN table : table[x] # Nothing}

Asset == [status : {"under_construction", "active", "disposed"}, cost : Costs,
          residual : Residuals, method : {"slm", "wdv"}, depreciation : Nat, impairment : Nat,
          value : Nat, through : 0..LastDay, location : Locations]
Event == [asset : Assets, kind : Kinds, amount : Nat, proceeds : Nat, through : 0..LastDay,
          stage : {"pending", "completed"}]
Books == [cost : Int, depreciation : Int, impairment : Int]

AssetsAssumption ==
    /\ Costs \subseteq Nat /\ Residuals \subseteq Nat /\ Amounts \subseteq Nat /\ Months \subseteq Nat
    /\ LifeMonths \in Nat \ {0} /\ LastDay \in Nat
    /\ Nothing \notin Asset

TypeOK ==
    /\ asset \in [Assets -> Asset \cup {Nothing}] /\ books \in [Assets -> Books]
    /\ event \in [Events -> Event \cup {Nothing}]
    /\ proposing \in [Members -> [event : Event] \cup {Nothing}]

Init ==
    /\ asset = [a \in Assets |-> Nothing] /\ event = [e \in Events |-> Nothing]
    /\ proposing = [m \in Members |-> Nothing]
    /\ books = [a \in Assets |-> [cost |-> 0, depreciation |-> 0, impairment |-> 0]]

-----------------------------------------------------------------------------
CreateAsset(a, cost, residual, method, place) ==
    /\ asset[a] = Nothing /\ residual <= cost
    /\ asset' = [asset EXCEPT ![a] =
                   [status |-> "under_construction", cost |-> cost, residual |-> residual,
                    method |-> method, depreciation |-> 0, impairment |-> 0, value |-> cost,
                    through |-> 0, location |-> place]]
    /\ UNCHANGED <<event, proposing, books>>

\* Mutant of AssetLockFree: the asset is read without FOR UPDATE.
AssetLockIgnored(a) == TRUE
AssetLockFree(a) == \A m \in Members : proposing[m] # Nothing => proposing[m].event.asset # a
Pending(a) == \E e \in Created(event) : event[e].asset = a /\ event[e].stage = "pending"

Proposable(m, a, status) ==
    /\ proposing[m] = Nothing
    /\ asset[a] # Nothing /\ AssetLockFree(a)
    /\ asset[a].status = status /\ ~Pending(a)

Computed(m, a, kind, amount, proceeds, through) ==
    /\ proposing' = [proposing EXCEPT ![m] =
         [event |-> [asset |-> a, kind |-> kind, amount |-> amount, proceeds |-> proceeds,
                     through |-> through, stage |-> "pending"]]]
    /\ UNCHANGED <<asset, event, books>>

CapitalizeAsset(m, a) ==
    /\ Proposable(m, a, "under_construction")
    /\ Computed(m, a, "capitalization", asset[a].cost, 0, 0)

\* Half a unit is rounded up.
Rounded(n, d) == (2 * n + d) \div (2 * d)
\* Straight line over the useful life, or a yearly half of the written-down value.
Proposed(a, months) ==
    IF asset[a].method = "slm"
    THEN Rounded((asset[a].cost - asset[a].residual) * months, LifeMonths)
    ELSE Rounded(asset[a].value * months, 24)
Remaining(a) == asset[a].value - asset[a].residual
Depreciation(a, months) == Min({Remaining(a), Proposed(a, months)})

ProposeDepreciation(m, a, months, through) ==
    /\ Proposable(m, a, "active")
    /\ through > asset[a].through
    /\ Remaining(a) > 0 /\ Depreciation(a, months) > 0
    /\ Computed(m, a, "depreciation", Depreciation(a, months), 0, through)

ProposeImpairment(m, a, amount) ==
    /\ Proposable(m, a, "active")
    /\ amount <= asset[a].value
    /\ Computed(m, a, "impairment", amount, 0, 0)

ProposeDisposal(m, a, proceeds) ==
    /\ Proposable(m, a, "active")
    /\ Computed(m, a, "disposal", asset[a].value, proceeds, 0)

\* The event and its sealed voucher are written, and the asset's lock is released.
CommitProposal(m, e) ==
    /\ proposing[m] # Nothing /\ event[e] = Nothing
    /\ event' = [event EXCEPT ![e] = proposing[m].event]
    /\ proposing' = [proposing EXCEPT ![m] = Nothing]
    /\ UNCHANGED <<asset, books>>

\* The period is closed, an account is missing, or the voucher does not balance.
AbortProposal(m) ==
    /\ proposing[m] # Nothing
    /\ proposing' = [proposing EXCEPT ![m] = Nothing]
    /\ UNCHANGED <<asset, event, books>>

\* A transfer needs no voucher.
TransferAsset(a, place) ==
    /\ asset[a] # Nothing /\ AssetLockFree(a)
    /\ asset[a].status = "active" /\ ~Pending(a)
    /\ asset' = [asset EXCEPT ![a].location = place]
    /\ UNCHANGED <<event, proposing, books>>

-----------------------------------------------------------------------------
(* Posting the voucher of an event.                                        *)

Applicable(x) ==
    LET a == asset[x.asset]
    IN  /\ a.status = (IF x.kind = "capitalization" THEN "under_construction" ELSE "active")
        /\ x.kind \in {"depreciation", "impairment"} => x.amount <= a.value

\* Mutant of Applied: an impairment is added to the depreciation.
AppliedTogether(x) ==
    LET a == asset[x.asset]
    IN  CASE x.kind = "capitalization" -> [a EXCEPT !.status = "active"]
          [] x.kind = "disposal" -> [a EXCEPT !.status = "disposed", !.value = 0]
          [] OTHER -> [a EXCEPT !.depreciation = @ + x.amount, !.value = @ - x.amount]
Applied(x) ==
    LET a == asset[x.asset]
    IN  CASE x.kind = "capitalization" -> [a EXCEPT !.status = "active"]
          [] x.kind = "depreciation" -> [a EXCEPT !.depreciation = @ + x.amount,
                                                  !.value = @ - x.amount, !.through = x.through]
          [] x.kind = "impairment" -> [a EXCEPT !.impairment = @ + x.amount,
                                                !.value = @ - x.amount]
          [] x.kind = "disposal" -> [a EXCEPT !.status = "disposed", !.value = 0]

\* Debits less credits of the lines drafted with the event; a disposal takes back what
\* the asset had accumulated when it was proposed.
Posted(x, b) ==
    LET a == asset[x.asset]
    IN  CASE x.kind = "capitalization" -> [b EXCEPT !.cost = @ + x.amount]
          [] x.kind = "depreciation" -> [b EXCEPT !.depreciation = @ - x.amount]
          [] x.kind = "impairment" -> [b EXCEPT !.impairment = @ - x.amount]
          [] x.kind = "disposal" -> [cost |-> b.cost - a.cost,
                                     depreciation |-> b.depreciation + a.depreciation,
                                     impairment |-> b.impairment + a.impairment]

ApplyFinanceControlPosting(e) ==
    LET x == event[e]
    IN  /\ x # Nothing /\ x.stage = "pending"
        /\ AssetLockFree(x.asset)
        /\ Applicable(x)
        /\ asset' = [asset EXCEPT ![x.asset] = Applied(x)]
        /\ books' = [books EXCEPT ![x.asset] = Posted(x, @)]
        /\ event' = [event EXCEPT ![e].stage = "completed"]
        /\ UNCHANGED proposing

Next ==
    \/ \E a \in Assets, cost \in Costs, residual \in Residuals, method \in {"slm", "wdv"},
          place \in Locations : CreateAsset(a, cost, residual, method, place)
    \/ \E m \in Members, a \in Assets :
         \/ CapitalizeAsset(m, a)
         \/ \E months \in Months, through \in 1..LastDay : ProposeDepreciation(m, a, months, through)
         \/ \E amount \in Amounts : ProposeImpairment(m, a, amount) \/ ProposeDisposal(m, a, amount)
    \/ \E m \in Members : AbortProposal(m) \/ \E e \in Events : CommitProposal(m, e)
    \/ \E a \in Assets, place \in Locations : TransferAsset(a, place)
    \/ \E e \in Events : ApplyFinanceControlPosting(e)

Spec == Init /\ [][Next]_vars

-----------------------------------------------------------------------------
\* The asset register agrees with the ledger after every posting: cost less accumulated
\* depreciation and impairment is the net book value, and a disposed asset has left every
\* account, however many members propose and post at once.
RegisterMatchesBooks ==
    \A a \in Created(asset) :
      LET x == asset[a]
          b == books[a]
      IN  CASE x.status = "under_construction" -> b = [cost |-> 0, depreciation |-> 0, impairment |-> 0]
            [] x.status = "active" -> /\ b.cost = x.cost
                                      /\ b.depreciation = -x.depreciation
                                      /\ b.impairment = -x.impairment
                                      /\ b.cost + b.depreciation + b.impairment = x.value
            [] x.status = "disposed" -> b = [cost |-> 0, depreciation |-> 0, impairment |-> 0]

\* Depreciation alone never takes an asset below its residual value, and an asset never
\* has two proposals open, of which the second would be computed from a stale value.
ResidualKept ==
    \A a \in Created(asset) :
      /\ asset[a].status = "active" => asset[a].value + asset[a].impairment >= asset[a].residual
      /\ Cardinality({e \in Created(event) : event[e].asset = a /\ event[e].stage = "pending"}) <= 1
=============================================================================
