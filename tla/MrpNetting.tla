----------------------------- MODULE MrpNetting -----------------------------
(***************************************************************************)
(* How an MRP run turns demand, supply, policies and BOMs into planned     *)
(* supply (calculateMrp in mesaerp/planningService.ts): passes over all    *)
(* items, each netting the demand that the previous pass exploded, until a *)
(* pass explodes what it was given.                                        *)
(*                                                                         *)
(* One warehouse.  Days are 1..Horizon, day 1 the as-of date; quantities   *)
(* are whole, so the factor of a component has no rounding.                *)
(***************************************************************************)
EXTENDS Integers, FiniteSets, FiniteSetsExt, Functions

CONSTANTS Items, Horizon,
          PassLimit,    \* 25: the limit on passes and on BOM levels
          Inputs        \* the inputs a run may collect

NettingAssumption ==
    /\ IsFiniteSet(Items) /\ Horizon \in Nat /\ PassLimit \in Nat
    /\ \A n \in Inputs :
         /\ {n.demand, n.supply, n.reserved} \subseteq [Items -> [1..Horizon -> Nat]]
         /\ n.parts \in [Items -> [Items -> Nat]] /\ n.make \in [Items -> BOOLEAN]
         /\ n.lead \in [Items -> Nat] /\ n.reorder \in [Items -> Nat]
         /\ n.lot \in [Items -> [kind : {"lot_for_lot", "fixed", "min_max"}, size : Nat \ {0},
                                 minimum : Nat, multiple : Nat]]

VARIABLES input,        \* demand, supply, reserved, parts, and per item its policy
          generated,    \* the make orders the last pass exploded into component demand
          pass, status

vars == <<input, generated, pass, status>>

Days == 1..Horizon
Order == [item : Items, day : Days, level : 0..PassLimit, quantity : Nat]

\* One record per input: demand[i][d]; supply[i][d] (stock on day 1, open purchase and
\* production orders after); reserved[i][d] for others; parts[i] the factors of the BOM
\* effective for a make item (all 0 without one); lead, reorder, lot, multiple.
TypeOK ==
    /\ input \in Inputs
    /\ generated \subseteq Order
    /\ pass \in 0..PassLimit + 1
    /\ status \in {"running", "done", "not_converged", "too_deep", "no_bom"}

Init ==
    /\ input \in Inputs
    /\ generated = {}
    /\ pass = 0
    /\ status = "running"

-----------------------------------------------------------------------------
(* Netting of one item, bucket by bucket.                                  *)

Larger(a, b) == IF a > b THEN a ELSE b
\* The day components are needed: the order day, not before the run.
OrderDay(o) == Larger(1, o.day - input.lead[o.item])
\* The orders that need the item on the day.
Needing(i, d) == {o \in generated : OrderDay(o) = d /\ input.parts[o.item][i] > 0}

Gross(i, d) == input.demand[i][d] + SumFunction([o \in Needing(i, d) |-> o.quantity * input.parts[o.item][i]])
\* The deepest level at which the bucket is demanded.
Level(i, d) == Max({0} \cup {o.level + 1 : o \in Needing(i, d)})
\* A reservation for a demand outside the run makes a bucket of its own, of nothing.
Bucket(i, d) == Gross(i, d) > 0 \/ input.reserved[i][d] > 0

Ceiling(a, b) == (a + b - 1) \div b

\* Mutant of OrderMultiple: rounded down to the multiple.
OrderMultipleBelow(q, m) == IF m = 0 THEN q ELSE m * (q \div m)
OrderMultiple(q, m) == IF m = 0 THEN q ELSE m * Ceiling(q, m)

\* Lot for lot, a fixed lot, or up to a maximum; at least the minimum order.
LotSized(i, net, after) ==
    LET lot == input.lot[i]
        sized == CASE lot.kind = "fixed" -> lot.size * Ceiling(net, lot.size)
                   [] lot.kind = "min_max" -> Larger(net, lot.size - after)
                   [] OTHER -> net
    IN  OrderMultiple(Larger(sized, lot.minimum), lot.multiple)

\* A bucket: the supply that has come, the reservations that apply, demand and plan.
Bucketed(i, d, before) ==
    LET opening == before + input.supply[i][d] - input.reserved[i][d]
        after == opening - Gross(i, d)
        net == Larger(0, input.reorder[i] - after)
        planned == IF Bucket(i, d) /\ net > 0 THEN LotSized(i, net, after) ELSE 0
    IN  [planned |-> planned, closing |-> after + planned]
Balance(i) ==
    LET at[d \in 0..Horizon] ==
          IF d = 0 THEN [planned |-> 0, closing |-> 0]
          ELSE LET yesterday == at[d - 1] IN Bucketed(i, d, yesterday.closing)
    IN  [d \in Days |-> at[d]]
Plan == [i \in Items |-> Balance(i)]

-----------------------------------------------------------------------------
(* Explosion.                                                              *)

Makes(i) == input.make[i]
Exploded(plan) ==
    {[item |-> x[1], day |-> x[2], level |-> Level(x[1], x[2]), quantity |-> plan[x[1]][x[2]].planned] :
       x \in {x \in Items \X Days : Makes(x[1]) /\ plan[x[1]][x[2]].planned > 0}}

MissingBom(orders) == \E o \in orders : \A c \in Items : input.parts[o.item][c] = 0
TooDeep(orders) == \E o \in orders : o.level >= PassLimit

\* Mutant of LastPass: one pass fewer.
LastPassEarly(p) == p >= PassLimit - 1
\* Mutant of LastPass: one pass more.
LastPassLate(p) == p > PassLimit
LastPass(p) == p >= PassLimit

Pass ==
    LET orders == Exploded(Plan)
        failing == MissingBom(orders) \/ TooDeep(orders)
    IN  /\ status = "running"
        /\ generated' = orders
        /\ pass' = pass + 1
        /\ status' = CASE MissingBom(orders) -> "no_bom"
                       [] TooDeep(orders) /\ ~MissingBom(orders) -> "too_deep"
                       [] orders = generated /\ ~failing -> "done"
                       [] OTHER -> IF LastPass(pass) THEN "not_converged" ELSE "running"
        /\ UNCHANGED input

Next == Pass
Spec == Init /\ [][Next]_vars /\ WF_vars(Pass)

-----------------------------------------------------------------------------
\* Of a finished run: in every bucket what is planned restores the reorder point, and
\* the component demand that was netted is the demand these very plans explode.
PlanCoversDemand ==
    status = "done" =>
      /\ \A i \in Items : LET balance == Balance(i)
                          IN  \A d \in Days : Bucket(i, d) => balance[d].closing >= input.reorder[i]
      /\ generated = Exploded(Plan)

\* The items k levels below some item.
Below(k) ==
    {c \in Items : \E chain \in [0..k -> Items] :
        /\ chain[k] = c
        /\ \A n \in 0..k - 1 : Makes(chain[n]) /\ input.parts[chain[n]][chain[n + 1]] > 0}

\* BOMs as deep as the limit still converge, however lots and lead times move demand between
\* days; and a run that plans around a cycle ends in an error: in any group of orders of a
\* plan there is one that none of the group needs.
Feeds(o, p) == p.day = OrderDay(o) /\ input.parts[o.item][p.item] > 0
Converges ==
    /\ status \in {"not_converged", "too_deep"} => Below(PassLimit + 1) # {}
    /\ status = "done" =>
         \A group \in (SUBSET generated) \ {{}} : \E p \in group : \A o \in group : ~Feeds(o, p)
=============================================================================
