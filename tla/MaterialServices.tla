-------------------------- MODULE MaterialServices --------------------------
(***************************************************************************)
(* The services of a company that plan and move material: valued stock     *)
(* (InventoryPosting), reservations (StockReservations), MRP runs (MrpRuns) *)
(* and their netting (MrpNetting), sales and production                    *)
(* (CommercialManufacturing); and the tax deducted from what is paid for   *)
(* it (TdsDeductions).  Each has constants and variables of its own, *)
(* under the names of its module where no other service uses them; and     *)
(* each has an inductive invariant and theorems of its own specification,  *)
(* for every value of its constants.  MC_CompanyServices makes one company *)
(* of these and of the services that keep its books.                       *)
(***************************************************************************)
EXTENDS Sequences, Sums, SequenceTheorems, TLAPS

CONSTANTS Nothing, Members

\* Valued stock.
CONSTANTS StockPlans, StockItems, Warehouses, StockDays, BatchesOf, Fifo, StockQuantities, StockRates, RateScale
VARIABLES valued, movements, layers, traced, inactive, valuing, overlapped
stockVars == <<valued, movements, layers, traced, inactive, valuing, overlapped>>

\* Reservations.
CONSTANTS Reservations, Batches, Blank, Sources, Limit, Manual, Quantities, MaxStock
VARIABLES stock, tracked, issued, reservation, creating
heldVars == <<stock, tracked, issued, reservation, creating>>

\* MRP runs, whose inputs count reservations of their own.
CONSTANTS Runs, Forecasts, PlannedHolds, MaxPolicy
VARIABLES policy, forecast, reserved, seen, calculating, run, acting, supplies
mrpVars == <<policy, forecast, reserved, seen, calculating, run, acting, supplies>>

\* The netting of an MRP run.
CONSTANTS Items, Horizon, PassLimit, PlanInputs
VARIABLES input, generated, pass, outcome
nettingVars == <<input, generated, pass, outcome>>

\* Sales, demands and manufacturing vouchers.
CONSTANTS Orders, Invoices, Demands, Productions, ProductionBatches, Outputs, Values
VARIABLES customer, document, demand, production, cost, costing
tradeVars == <<customer, document, demand, production, cost, costing>>

\* Tax deducted from what is paid to a vendor.
CONSTANTS TaxDays, Masters, KindOf, SpanOf, InPlace, TaxPolicies, Payables, ValueOf,
          Deductions, PayableOf, GrossPaid, DayOf
VARIABLES section, master, approving, crossed, terms, vendor, deduction, deducting
taxVars == <<section, master, approving, crossed, terms, vendor, deduction, deducting>>

Stock == INSTANCE InventoryPosting WITH
    Plans <- StockPlans, Clients <- Members, Items <- StockItems, Days <- StockDays,
    Quantities <- StockQuantities, Rates <- StockRates, None <- Nothing,
    plan <- valued, tracked <- traced, posting <- valuing, raced <- overlapped

Holds == INSTANCE StockReservations WITH Clients <- Members
Mrp == INSTANCE MrpRuns WITH Reservations <- PlannedHolds
Netting == INSTANCE MrpNetting WITH Inputs <- PlanInputs, status <- outcome
Trade == INSTANCE CommercialManufacturing WITH
    Vouchers <- Productions, Batches <- ProductionBatches, Quantities <- Outputs, voucher <- production, posting <- costing

Tax == INSTANCE TdsDeductions WITH
    Days <- TaxDays, Policies <- TaxPolicies, Gross <- GrossPaid, raced <- crossed, tx <- deducting

\* The operators on finite sets that come with an instance are those of this module.
LEMMA MrpCardinality == ASSUME NEW S PROVE Mrp!Cardinality(S) = Cardinality(S)
  BY Zenon DEF Mrp!Cardinality, Cardinality, Mrp!IsFiniteSet, IsFiniteSet

\* A set whose elements are all equal has at most one.
LEMMA AtMostOne ==
    ASSUME NEW S, \A x, y \in S : x = y
    PROVE  Cardinality(S) <= 1
<1>1. CASE S = {}
  BY <1>1, FS_EmptySet
<1>2. CASE S # {}
  <2>1. PICK x : S = {x}
    BY <1>2
  <2> QED BY <2>1, FS_Singleton
<1> QED BY <1>1, <1>2

-----------------------------------------------------------------------------
(* StockReservations.                                                      *)

\* The sum that comes with the instance is that of this module.
LEMMA HeldSums == ASSUME NEW f PROVE Holds!SumFunction(f) = SumFunction(f)
  BY DEF Holds!SumFunction, SumFunction, Holds!SumFunctionOnSet, SumFunctionOnSet, Holds!FoldFunctionOnSet,
         FoldFunctionOnSet, Holds!MapThenFoldSet, MapThenFoldSet

\* The active reservations whose batch or source, k, is v, and what they amount to.
ActiveOf(f, k, v) == {r \in Reservations : f[r] # Holds!None /\ f[r].stage = "active" /\ f[r][k] = v}
TotalOf(f, k, v) == SumFunction([r \in ActiveOf(f, k, v) |-> f[r].quantity])

\* A table of reservations.
HeldTable(f) == \A r \in Reservations : f[r] # Holds!None => f[r].quantity \in Nat

\* What a creation has found, and issues leave alone, still holds when it commits.
Uncovered == tracked /\ ~issued
CreationHolds(c) ==
    LET row == creating[c].row IN
    /\ reservation[creating[c].id] = Holds!None /\ row.stage = "active"
    /\ row.source # Manual => TotalOf(reservation, "source", row.source) + row.quantity <= Limit[row.source]
    /\ Uncovered => TotalOf(reservation, "batch", row.batch) + row.quantity <= stock[row.batch]

\* The advisory locks of the batch and of the source, and the new row, keep creations apart.
CreationsApart ==
    \A c, d \in Members : (creating[c] # Nothing /\ creating[d] # Nothing /\ c # d) =>
      /\ creating[c].id # creating[d].id /\ creating[c].row.batch # creating[d].row.batch
      /\ creating[c].row.source # Manual => creating[c].row.source # creating[d].row.source

HoldsInv ==
    /\ Holds!TypeOK
    /\ \A s \in Sources : TotalOf(reservation, "source", s) <= Limit[s]
    /\ Uncovered => \A b \in Batches : TotalOf(reservation, "batch", b) <= stock[b]
    /\ \A c \in Members : creating[c] # Nothing => CreationHolds(c)
    /\ CreationsApart

\* A total is a natural number.
LEMMA TotalIsNat ==
    ASSUME IsFiniteSet(Reservations), NEW f, HeldTable(f), NEW k, NEW v
    PROVE  TotalOf(f, k, v) \in Nat
<1> DEFINE S == ActiveOf(f, k, v)
           q == [r \in S |-> f[r].quantity]
<1>1. IsFiniteSet(S) /\ q \in [S -> Nat]
  BY FS_Subset DEF ActiveOf, HeldTable
<1> HIDE DEF S, q
<1>2. SumFunction(q) \in Nat
  BY <1>1, SumOfNaturals
<1> QED BY <1>2 DEF TotalOf, S, q

\* One more reservation adds its quantity to the totals of its batch and of its source alone.
LEMMA TotalWith ==
    ASSUME IsFiniteSet(Reservations), NEW f, HeldTable(f), NEW i \in Reservations, f[i] = Holds!None, NEW g,
           \A r \in Reservations \ {i} : g[r] = f[r],
           g[i] # Holds!None, g[i].stage = "active", g[i].quantity \in Nat, NEW k, NEW v
    PROVE  TotalOf(g, k, v) = IF g[i][k] = v THEN TotalOf(f, k, v) + g[i].quantity ELSE TotalOf(f, k, v)
<1> DEFINE S == ActiveOf(f, k, v)
           T == ActiveOf(g, k, v)
           p == [r \in S |-> f[r].quantity]
           q == [r \in T |-> g[r].quantity]
<1>1. i \notin S /\ \A r \in S : g[r] = f[r]
  BY DEF ActiveOf
<1>2. CASE g[i][k] # v
  <2>1. T = S
    BY <1>1, <1>2 DEF ActiveOf
  <2>2. q = p
    BY <1>1, <2>1
  <2> HIDE DEF S, T, p, q
  <2> QED BY <1>2, <2>2 DEF TotalOf, S, T, p, q
<1>3. CASE g[i][k] = v
  <2>1. T = S \cup {i} /\ T \ {i} = S /\ i \in T
    BY <1>1, <1>3 DEF ActiveOf
  <2>2. IsFiniteSet(T) /\ q \in [T -> Int]
    <3>1. q \in [T -> Nat]
      BY <1>1, <2>1 DEF HeldTable, ActiveOf
    <3>2. T \in SUBSET Reservations
      BY DEF ActiveOf
    <3> HIDE DEF T, q
    <3>3. IsFiniteSet(T) /\ q \in [T -> Int]
      BY <3>1, <3>2, FS_Subset
    <3> QED BY <3>3 DEF T, q
  <2>3. [r \in T \ {i} |-> q[r]] = p /\ q[i] = g[i].quantity
    BY <1>1, <2>1
  <2> HIDE DEF S, T, p, q
  <2>4. SumFunction(q) = q[i] + SumFunction([r \in T \ {i} |-> q[r]])
    BY <2>1, <2>2, SumOfOthers
  <2>5. SumFunction(q) = g[i].quantity + SumFunction(p)
    BY <2>3, <2>4
  <2>6. TotalOf(g, k, v) = g[i].quantity + TotalOf(f, k, v)
    BY <2>5 DEF TotalOf, S, T, p, q
  <2>7. TotalOf(f, k, v) \in Nat
    BY TotalIsNat
  <2> QED BY <1>3, <2>6, <2>7
<1> QED BY <1>2, <1>3

\* A reservation that ends leaves no total larger.
LEMMA TotalWithout ==
    ASSUME IsFiniteSet(Reservations), NEW f, HeldTable(f), NEW i \in Reservations, NEW g,
           \A r \in Reservations \ {i} : g[r] = f[r],
           f[i] # Holds!None, f[i].stage = "active", g[i].stage # "active", NEW k, NEW v
    PROVE  TotalOf(g, k, v) <= TotalOf(f, k, v)
<1> DEFINE S == ActiveOf(f, k, v)
           T == ActiveOf(g, k, v)
           p == [r \in S |-> f[r].quantity]
           q == [r \in T |-> g[r].quantity]
<1>1. T \in SUBSET S /\ \A r \in T : g[r] = f[r]
  BY DEF ActiveOf
<1>2. p \in [S -> Nat] /\ S \in SUBSET Reservations
  BY DEF HeldTable, ActiveOf
<1>3. [r \in T |-> p[r]] = q
  BY <1>1
<1> HIDE DEF S, T, p, q
<1>4. IsFiniteSet(S)
  BY <1>2, FS_Subset
<1>5. SumFunction([r \in T |-> p[r]]) <= SumFunction(p)
  BY <1>1, <1>2, <1>4, SumOfFewer
<1> QED BY <1>3, <1>5 DEF TotalOf, S, T, p, q

\* What the assumption and the types say of limits, stock and quantities.
LEMMA HeldFacts ==
    ASSUME Holds!ReservationsAssumption, Holds!TypeOK
    PROVE  /\ IsFiniteSet(Reservations) /\ HeldTable(reservation)
           /\ \A s \in Sources : s # Manual /\ Limit[s] \in Nat
           /\ \A b \in Batches : b # Blank /\ stock[b] \in Nat
           /\ \A row \in Holds!Rows : row.quantity \in Nat
<1>1. IsFiniteSet(Reservations)
  BY DEF Holds!ReservationsAssumption, Holds!IsFiniteSet, IsFiniteSet
<1>2. \A row \in Holds!Rows : row.quantity \in Nat
  BY DEF Holds!ReservationsAssumption, Holds!Rows
<1>3. HeldTable(reservation)
  BY <1>2 DEF HeldTable, Holds!TypeOK
<1>4. /\ \A s \in Sources : s # Manual /\ Limit[s] \in Nat
      /\ \A b \in Batches : b # Blank /\ stock[b] \in Nat
  BY DEF Holds!ReservationsAssumption, Holds!TypeOK
<1> QED BY <1>1, <1>2, <1>3, <1>4

\* The sums the service computes are the totals.
LEMMA TotalsAre ==
    /\ \A s : Holds!Reserved(Holds!OfSource(s)) = TotalOf(reservation, "source", s)
    /\ \A b : b # Blank => Holds!Reserved(Holds!OfBatch(b)) = TotalOf(reservation, "batch", b)
<1>1. \A s : Holds!OfSource(s) = ActiveOf(reservation, "source", s)
  BY DEF Holds!OfSource, Holds!Active, ActiveOf
<1>2. \A b : b # Blank => Holds!OfBatch(b) = ActiveOf(reservation, "batch", b)
  BY DEF Holds!OfBatch, Holds!Active, ActiveOf
<1>3. \A S : Holds!Reserved(S) = SumFunction([r \in S |-> reservation[r].quantity])
  BY HeldSums DEF Holds!Reserved
<1> QED BY <1>1, <1>2, <1>3 DEF TotalOf

\* What changes no reservation and takes no stock keeps the invariant, as long as every creation
\* stood before.
LEMMA HoldsKept ==
    ASSUME Holds!ReservationsAssumption, HoldsInv, Holds!TypeOK',
           UNCHANGED <<tracked, reservation>>, \A b \in Batches : stock[b] <= stock'[b],
           Uncovered' => Uncovered,
           \A c \in Members : creating'[c] = Nothing \/ creating'[c] = creating[c]
    PROVE  HoldsInv'
<1>1. \A b \in Batches : stock[b] \in Nat /\ stock'[b] \in Nat /\ TotalOf(reservation, "batch", b) \in Nat
  BY HeldFacts, TotalIsNat DEF HoldsInv, Holds!TypeOK, Holds!ReservationsAssumption
<1>2. \A s : TotalOf(reservation, "source", s)' = TotalOf(reservation, "source", s)
  BY DEF TotalOf, ActiveOf
<1>3. \A b : TotalOf(reservation, "batch", b)' = TotalOf(reservation, "batch", b)
  BY DEF TotalOf, ActiveOf
<1>4. Uncovered' => \A b \in Batches : TotalOf(reservation, "batch", b)' <= stock'[b]
  BY <1>1, <1>3 DEF HoldsInv
<1>5. ASSUME NEW c \in Members, creating'[c] # Nothing PROVE CreationHolds(c)'
  <2>1. creating'[c] = creating[c] /\ CreationHolds(c)
    BY <1>5 DEF HoldsInv
  <2>2. tracked => creating[c].row.batch \in Batches
    BY <1>5, <2>1 DEF HoldsInv, Holds!TypeOK, Holds!Rows
  <2>3. creating[c].row.quantity \in Nat
    BY <1>5, <2>1, HeldFacts DEF HoldsInv, Holds!TypeOK
  <2>4. Uncovered' => TotalOf(reservation, "batch", creating[c].row.batch) + creating[c].row.quantity
                        <= stock'[creating[c].row.batch]
    BY <1>1, <2>1, <2>2, <2>3 DEF CreationHolds, Uncovered
  <2> QED BY <1>2, <1>3, <2>1, <2>4 DEF CreationHolds
<1>6. CreationsApart'
  BY DEF HoldsInv, CreationsApart
<1> QED BY <1>2, <1>4, <1>5, <1>6 DEF HoldsInv

\* createReservation took its locks and found enough of the source and of the batch.
LEMMA CreationBegins ==
    ASSUME Holds!ReservationsAssumption, HoldsInv, NEW c \in Members, NEW r \in Reservations,
           NEW b \in Batches \cup {Blank}, NEW q \in Quantities, NEW s \in Sources \cup {Manual},
           Holds!BeginReservation(c, r, b, q, s)
    PROVE  HoldsInv'
<1>1. PICK row \in Holds!Rows : /\ row = Holds!Row(b, q, s)
                                /\ creating' = [creating EXCEPT ![c] = [id |-> r, row |-> row]]
  BY DEF Holds!BeginReservation, Holds!Row, Holds!Rows
<1>2. /\ row.batch = b /\ row.quantity = q /\ row.source = s /\ row.stage = "active" /\ q \in Nat
      /\ UNCHANGED <<stock, tracked, issued, reservation>> /\ creating[c] = Nothing
  BY <1>1 DEF Holds!BeginReservation, Holds!Row, Holds!ReservationsAssumption
<1>3. Holds!TypeOK'
  BY <1>1, <1>2 DEF HoldsInv, Holds!TypeOK, Holds!Rows
<1>4. creating'[c] = [id |-> r, row |-> row] /\ \A d \in Members \ {c} : creating'[d] = creating[d]
  BY <1>1 DEF HoldsInv, Holds!TypeOK
<1>6. CreationHolds(c)'
  <2>1. reservation[r] = Holds!None
    BY DEF Holds!BeginReservation
  <2>2. s # Manual => TotalOf(reservation, "source", s) + q <= Limit[s]
    BY TotalsAre DEF Holds!BeginReservation, Holds!WithinSource
  <2>3. Uncovered => TotalOf(reservation, "batch", b) + q <= stock[b]
    <3> SUFFICES ASSUME Uncovered PROVE TotalOf(reservation, "batch", b) + q <= stock[b]
      OBVIOUS
    <3>1. b # Blank /\ b \in Batches
      BY DEF Uncovered, Holds!BeginReservation
    <3>2. q <= stock[b] - TotalOf(reservation, "batch", b)
      BY <3>1, TotalsAre DEF Holds!BeginReservation, Holds!Available, Holds!Atp, Holds!InStock
    <3>3. stock[b] \in Nat /\ TotalOf(reservation, "batch", b) \in Nat
      BY <3>1, HeldFacts, TotalIsNat DEF HoldsInv
    <3> QED BY <1>2, <3>2, <3>3
  <2> QED BY <1>2, <1>4, <2>1, <2>2, <2>3 DEF CreationHolds, TotalOf, ActiveOf, Uncovered
<1>7. ASSUME NEW d \in Members \ {c}, creating'[d] # Nothing PROVE CreationHolds(d)'
  <2>1. CreationHolds(d)
    BY <1>4, <1>7 DEF HoldsInv
  <2> QED BY <1>2, <1>4, <2>1 DEF CreationHolds, TotalOf, ActiveOf, Uncovered
<1>8. CreationsApart'
  <2>1. \A d \in Members \ {c} : creating[d] # Nothing =>
          creating[d].id # r /\ creating[d].row.batch # b /\ (s # Manual => creating[d].row.source # s)
    BY DEF Holds!BeginReservation, Holds!Held, Holds!BatchLockFree, Holds!SourceLockFree
  <2> QED BY <1>2, <1>4, <2>1 DEF HoldsInv, CreationsApart
<1>9. /\ \A v \in Sources : TotalOf(reservation, "source", v)' <= Limit[v]
      /\ Uncovered' => \A v \in Batches : TotalOf(reservation, "batch", v)' <= stock'[v]
  BY <1>2 DEF HoldsInv, TotalOf, ActiveOf, Uncovered
<1> QED BY <1>3, <1>6, <1>7, <1>8, <1>9 DEF HoldsInv

\* The committed reservation fits in what its creation found, which still holds.
LEMMA CreationCommits ==
    ASSUME Holds!ReservationsAssumption, HoldsInv, NEW c \in Members, Holds!CommitReservation(c)
    PROVE  HoldsInv'
<1>1. PICK i \in Reservations, row \in Holds!Rows : creating[c] = [id |-> i, row |-> row]
  BY DEF Holds!CommitReservation, HoldsInv, Holds!TypeOK
<1>2. /\ creating[c] # Nothing /\ creating[c].id = i /\ creating[c].row = row
      /\ reservation' = [reservation EXCEPT ![i] = row] /\ creating' = [creating EXCEPT ![c] = Nothing]
      /\ UNCHANGED <<stock, tracked, issued>>
  BY <1>1 DEF Holds!CommitReservation
<1>3. Holds!TypeOK'
  BY <1>2 DEF HoldsInv, Holds!TypeOK, Holds!Rows
<1>4. /\ reservation[i] = Holds!None /\ reservation'[i] = row /\ row.stage = "active" /\ row # Holds!None
      /\ \A r \in Reservations \ {i} : reservation'[r] = reservation[r]
      /\ row.source # Manual => TotalOf(reservation, "source", row.source) + row.quantity <= Limit[row.source]
      /\ Uncovered => TotalOf(reservation, "batch", row.batch) + row.quantity <= stock[row.batch]
  BY <1>2 DEF HoldsInv, CreationHolds, Holds!TypeOK, Holds!None
<1>5. PICK g : g = reservation'
  OBVIOUS
<1>6. /\ \A v : TotalOf(g, "source", v) = IF row.source = v THEN TotalOf(reservation, "source", v) + row.quantity
                                          ELSE TotalOf(reservation, "source", v)
      /\ \A v : TotalOf(g, "batch", v) = IF row.batch = v THEN TotalOf(reservation, "batch", v) + row.quantity
                                         ELSE TotalOf(reservation, "batch", v)
  <2>1. IsFiniteSet(Reservations) /\ HeldTable(reservation) /\ row.quantity \in Nat
    BY HeldFacts DEF HoldsInv
  <2>2. /\ \A r \in Reservations \ {i} : g[r] = reservation[r]
        /\ g[i] = row /\ g[i] # Holds!None /\ g[i].stage = "active" /\ g[i].quantity \in Nat
    BY <1>4, <1>5, <2>1
  <2>3. \A k, v : TotalOf(g, k, v) = IF g[i][k] = v THEN TotalOf(reservation, k, v) + g[i].quantity
                                     ELSE TotalOf(reservation, k, v)
    BY <1>4, <2>1, <2>2, TotalWith
  <2>4. g[i]["source"] = row.source /\ g[i]["batch"] = row.batch
    BY <2>2
  <2> QED BY <2>2, <2>3, <2>4
<1>7. \A k, v : TotalOf(reservation, k, v) \in Nat
  BY HeldFacts, TotalIsNat DEF HoldsInv
<1>8. /\ \A v \in Sources : TotalOf(g, "source", v) <= Limit[v]
      /\ Uncovered => \A v \in Batches : TotalOf(g, "batch", v) <= stock[v]
  BY <1>4, <1>6, HeldFacts DEF HoldsInv
<1>9. ASSUME NEW d \in Members, creating'[d] # Nothing PROVE CreationHolds(d)'
  <2>1. d # c /\ creating'[d] = creating[d] /\ CreationHolds(d)
    BY <1>2, <1>9 DEF HoldsInv, Holds!TypeOK
  <2>2. /\ creating[d].id # i /\ creating[d].row.batch # row.batch
        /\ creating[d].row.source # Manual => creating[d].row.source # row.source
        /\ creating[d].id \in Reservations
    BY <1>2, <2>1, <1>9 DEF HoldsInv, CreationsApart, Holds!TypeOK
  <2>3. /\ reservation'[creating[d].id] = Holds!None /\ creating[d].row.stage = "active"
        /\ creating[d].row.source # Manual =>
             TotalOf(g, "source", creating[d].row.source) + creating[d].row.quantity <= Limit[creating[d].row.source]
        /\ Uncovered => TotalOf(g, "batch", creating[d].row.batch) + creating[d].row.quantity <= stock[creating[d].row.batch]
    BY <1>4, <1>6, <2>1, <2>2 DEF CreationHolds
  <2> QED BY <1>2, <1>5, <2>1, <2>3 DEF CreationHolds, Uncovered
<1>10. CreationsApart'
  BY <1>2 DEF HoldsInv, CreationsApart, Holds!TypeOK
<1> QED BY <1>2, <1>3, <1>5, <1>8, <1>9, <1>10 DEF HoldsInv, Uncovered

\* A released or cancelled reservation leaves the totals.
LEMMA ReservationEnds ==
    ASSUME Holds!ReservationsAssumption, HoldsInv, NEW i \in Reservations, NEW to \in {"released", "cancelled"},
           Holds!TransitionReservation(i, to)
    PROVE  HoldsInv'
<1>1. /\ reservation[i] # Holds!None /\ reservation[i].stage = "active" /\ reservation[i] \in Holds!Rows
      /\ reservation' = [reservation EXCEPT ![i].stage = to] /\ UNCHANGED <<stock, tracked, issued, creating>>
  BY DEF Holds!TransitionReservation, Holds!Active, HoldsInv, Holds!TypeOK
<1>2. /\ reservation'[i].stage # "active" /\ \A r \in Reservations \ {i} : reservation'[r] = reservation[r]
      /\ reservation'[i] \in Holds!Rows
  BY <1>1 DEF HoldsInv, Holds!TypeOK, Holds!Rows
<1>3. Holds!TypeOK'
  BY <1>1, <1>2 DEF HoldsInv, Holds!TypeOK, Holds!Rows
<1>4. PICK g : g = reservation'
  OBVIOUS
<1>5. \A k, v : TotalOf(g, k, v) \in Nat /\ TotalOf(reservation, k, v) \in Nat
                /\ TotalOf(g, k, v) <= TotalOf(reservation, k, v)
  <2>1. IsFiniteSet(Reservations) /\ HeldTable(reservation)
    BY HeldFacts DEF HoldsInv
  <2>2. HeldTable(g)
    BY <1>1, <1>2, <1>4, <2>1, HeldFacts DEF HeldTable, HoldsInv, Holds!Rows
  <2>3. \A r \in Reservations \ {i} : g[r] = reservation[r]
    BY <1>2, <1>4
  <2> QED BY <1>1, <1>2, <1>4, <2>1, <2>2, <2>3, TotalWithout, TotalIsNat
<1>6. /\ \A v \in Sources : TotalOf(g, "source", v) <= Limit[v]
      /\ Uncovered => \A v \in Batches : TotalOf(g, "batch", v) <= stock[v]
  BY <1>5, HeldFacts DEF HoldsInv
<1>7. ASSUME NEW d \in Members, creating[d] # Nothing PROVE CreationHolds(d)'
  <2>1. CreationHolds(d) /\ creating[d].id # i /\ creating[d].id \in Reservations /\ creating[d].row \in Holds!Rows
    BY <1>1, <1>7 DEF HoldsInv, CreationHolds, Holds!TypeOK
  <2>2. /\ creating[d].row.quantity \in Nat
        /\ creating[d].row.source # Manual => Limit[creating[d].row.source] \in Nat
        /\ Uncovered => stock[creating[d].row.batch] \in Nat
    BY <2>1, HeldFacts DEF HoldsInv, Holds!Rows, Uncovered
  <2>3. /\ creating[d].row.source # Manual =>
             TotalOf(g, "source", creating[d].row.source) + creating[d].row.quantity <= Limit[creating[d].row.source]
        /\ Uncovered => TotalOf(g, "batch", creating[d].row.batch) + creating[d].row.quantity <= stock[creating[d].row.batch]
    BY <1>5, <2>1, <2>2 DEF CreationHolds
  <2>4. reservation'[creating[d].id] = Holds!None /\ creating[d].row.stage = "active"
    BY <1>2, <2>1 DEF CreationHolds
  <2> QED BY <1>1, <1>4, <2>3, <2>4 DEF CreationHolds, Uncovered
<1>8. CreationsApart'
  BY <1>1 DEF HoldsInv, CreationsApart
<1> QED BY <1>1, <1>3, <1>4, <1>6, <1>7, <1>8 DEF HoldsInv, Uncovered

\* HoldsInv holds before anything was reserved.
LEMMA InitHolds == Holds!ReservationsAssumption /\ Holds!Init => HoldsInv
<1> SUFFICES ASSUME Holds!ReservationsAssumption, Holds!Init PROVE HoldsInv
  OBVIOUS
<1>1. Holds!TypeOK
  <2>1. stock \in [Batches -> 0 .. MaxStock]
    BY DEF Holds!Init, Holds!ReservationsAssumption
  <2>2. tracked \in BOOLEAN /\ issued \in BOOLEAN
    BY DEF Holds!Init
  <2>3. /\ reservation \in [Reservations -> {Holds!None} \cup Holds!Rows]
        /\ creating \in [Members -> {Nothing} \cup [id : Reservations, row : Holds!Rows]]
    BY DEF Holds!Init
  <2> QED BY <2>1, <2>2, <2>3 DEF Holds!TypeOK
<1>2. \A k, v : TotalOf(reservation, k, v) = 0
  <2>1. ASSUME NEW k, NEW v PROVE TotalOf(reservation, k, v) = 0
    <3> DEFINE S == ActiveOf(reservation, k, v)
               q == [r \in S |-> reservation[r].quantity]
    <3>1. S = {} /\ q \in [S -> Int] /\ DOMAIN q = {}
      BY DEF ActiveOf, Holds!Init
    <3> HIDE DEF S, q
    <3>2. SumFunction(q) = SumFunctionOnSet(q, {})
      BY <3>1 DEF SumFunction
    <3> QED BY <3>2, SumEmpty DEF TotalOf, S, q
  <2> QED BY <2>1
<1>3. /\ \A s \in Sources : TotalOf(reservation, "source", s) <= Limit[s]
      /\ \A b \in Batches : TotalOf(reservation, "batch", b) <= stock[b]
  BY <1>1, <1>2, HeldFacts
<1> QED BY <1>1, <1>3 DEF Holds!Init, HoldsInv, CreationsApart

\* HoldsInv is inductive.
LEMMA NextHolds == Holds!ReservationsAssumption /\ HoldsInv /\ [Holds!Next]_heldVars => HoldsInv'
<1> SUFFICES ASSUME Holds!ReservationsAssumption, HoldsInv, [Holds!Next]_heldVars PROVE HoldsInv'
  OBVIOUS
<1>1. ASSUME NEW c \in Members, Holds!AbortReservation(c) PROVE HoldsInv'
  BY <1>1, HoldsKept, HeldFacts DEF Holds!AbortReservation, HoldsInv, Holds!TypeOK, Holds!Rows, Uncovered
<1>2. ASSUME NEW b \in Batches, Holds!Receive(b) PROVE HoldsInv'
  BY <1>2, HoldsKept DEF Holds!Receive, HoldsInv, Holds!TypeOK, Holds!Rows, Uncovered, Holds!ReservationsAssumption
<1>3. ASSUME NEW b \in Batches, Holds!Issue(b) PROVE HoldsInv'
  <2>1. Holds!TypeOK' /\ ~Uncovered'
    BY <1>3 DEF Holds!Issue, HoldsInv, Holds!TypeOK, Holds!Rows, Uncovered, Holds!ReservationsAssumption
  <2>2. UNCHANGED <<tracked, reservation, creating>>
    BY <1>3 DEF Holds!Issue
  <2> QED BY <2>1, <2>2 DEF HoldsInv, CreationHolds, CreationsApart, TotalOf, ActiveOf
<1>4. CASE UNCHANGED heldVars
  <2>1. Holds!TypeOK'
    BY <1>4 DEF heldVars, HoldsInv, Holds!TypeOK, Holds!Rows
  <2> QED BY <1>4, <2>1, HoldsKept, HeldFacts DEF heldVars, HoldsInv, Uncovered
<1> QED BY <1>1, <1>2, <1>3, <1>4, CreationBegins, CreationCommits, ReservationEnds DEF Holds!Next

\* However creations overlap, no order line or demand is reserved beyond its quantity and, until
\* stock is issued, no batch of a tracked item beyond its stock (planningService.ts: the advisory
\* locks and the sums of createReservation).
THEOREM ReservationsCovered == Holds!ReservationsAssumption => (Holds!Spec => []Holds!NoOverReservation)
<1> SUFFICES ASSUME Holds!ReservationsAssumption PROVE Holds!Spec => []Holds!NoOverReservation
  OBVIOUS
<1>1. Holds!Init => HoldsInv
  BY InitHolds
<1>2. HoldsInv /\ [Holds!Next]_(Holds!vars) => HoldsInv'
  BY NextHolds DEF Holds!vars, heldVars
<1>3. HoldsInv => Holds!NoOverReservation
  <2> SUFFICES ASSUME HoldsInv PROVE Holds!NoOverReservation
    OBVIOUS
  <2>1. \A s \in Sources : Holds!Reserved(Holds!OfSource(s)) <= Limit[s]
    BY TotalsAre DEF HoldsInv
  <2>2. ASSUME Uncovered, NEW b \in Batches PROVE Holds!Atp(b) >= 0
    <3>1. b # Blank /\ stock[b] \in Nat /\ TotalOf(reservation, "batch", b) \in Nat
      BY HeldFacts, TotalIsNat DEF HoldsInv
    <3>2. Holds!Atp(b) = stock[b] - TotalOf(reservation, "batch", b)
      BY <3>1, TotalsAre DEF Holds!Atp, Holds!InStock
    <3>3. TotalOf(reservation, "batch", b) <= stock[b]
      BY <2>2 DEF HoldsInv
    <3> QED BY <3>1, <3>2, <3>3
  <2> QED BY <2>1, <2>2 DEF Holds!NoOverReservation, Uncovered
<1> QED BY <1>1, <1>2, <1>3, PTL DEF Holds!Spec

-----------------------------------------------------------------------------
(* MrpRuns.                                                                *)

Rests == (SUBSET Forecasts) \X (SUBSET PlannedHolds)
Steps == [run : Runs, from : {"draft", "submitted", "approved"}, policy : 0 .. MaxPolicy]
Calculations == [by : Members, run : Runs, reads : Seq((0 .. MaxPolicy) \cup Rests)]

\* Policies only go up: when those read first are still the current ones after the rest was read,
\* both were there at that moment; and those read third say whether they were.
ReadsTell(reads) ==
    /\ Len(reads) <= 4
    /\ Len(reads) >= 1 => reads[1] \in 0 .. policy
    /\ Len(reads) >= 2 => reads[2] \in Rests /\ (reads[1] = policy => <<reads[1], reads[2]>> \in seen)
    /\ Len(reads) >= 3 => (reads[3] = reads[1] => <<reads[1], reads[2]>> \in seen)

RunsTyped ==
    /\ policy \in 0 .. MaxPolicy /\ reserved \subseteq PlannedHolds
    /\ run \in [Runs -> Mrp!RunRecords \cup {Nothing}]
    /\ calculating \in Calculations \cup {Nothing}
    /\ acting \in [Members -> Steps \cup {Nothing}]

InputsSeen ==
    /\ Mrp!Inputs \in seen
    /\ calculating # Nothing => ReadsTell(calculating.reads)
    /\ \A r \in Runs : run[r] # Nothing => run[r].inputs \in seen

\* A calculation is of a run that is not there yet, a step of one in the stage it found, by the
\* lock of its row.
StepsHold ==
    /\ calculating # Nothing => run[calculating.run] = Nothing
    /\ \A m \in Members : acting[m] # Nothing =>
         run[acting[m].run] # Nothing /\ run[acting[m].run].stage = acting[m].from
    /\ \A m, n \in Members : (acting[m] # Nothing /\ acting[n] # Nothing /\ m # n) => acting[m].run # acting[n].run

SuppliesSingle ==
    /\ \A s \in supplies : s.run \in Runs /\ run[s.run] # Nothing /\ run[s.run].stage = "released"
    /\ \A s, t \in supplies : s.run = t.run => s = t

MrpInv == RunsTyped /\ InputsSeen /\ StepsHold /\ SuppliesSingle

\* MrpInv holds before any run.
LEMMA InitMrp == Mrp!MrpAssumption /\ Mrp!Init => MrpInv
  BY DEF Mrp!MrpAssumption, Mrp!Init, MrpInv, RunsTyped, InputsSeen, StepsHold, SuppliesSingle

\* The stages follow one another.
LEMMA StagesFollow ==
    /\ Mrp!Following("draft") = "submitted" /\ Mrp!Following("submitted") = "approved"
    /\ Mrp!Following("approved") = "released"
<1>1. Mrp!Position("draft") = 2
  BY DEF Mrp!Position, Mrp!Stages
<1>2. Mrp!Position("submitted") = 3
  BY DEF Mrp!Position, Mrp!Stages
<1>3. Mrp!Position("approved") = 4
  BY DEF Mrp!Position, Mrp!Stages
<1> QED BY <1>1, <1>2, <1>3 DEF Mrp!Following, Mrp!Stages

\* The inputs change.
LEMMA InputsMove ==
    ASSUME Mrp!MrpAssumption, MrpInv, Mrp!Changes, policy' \in 0 .. MaxPolicy, reserved' \subseteq PlannedHolds,
           policy' = policy \/ policy' = policy + 1
    PROVE  MrpInv'
<1>1. RunsTyped'
  BY DEF MrpInv, RunsTyped, Mrp!Changes
<1>2. ReadsTell(calculating.reads) => ReadsTell(calculating.reads)'
  BY DEF MrpInv, RunsTyped, ReadsTell, Mrp!Changes, Mrp!MrpAssumption
<1>3. InputsSeen'
  BY <1>2 DEF MrpInv, InputsSeen, Mrp!Changes
<1>4. StepsHold' /\ SuppliesSingle'
  BY DEF MrpInv, StepsHold, SuppliesSingle, Mrp!Changes
<1> QED BY <1>1, <1>3, <1>4 DEF MrpInv

\* createMrpRun has read nothing yet.
LEMMA RunBegins ==
    ASSUME Mrp!MrpAssumption, MrpInv, NEW m \in Members, NEW r \in Runs, Mrp!BeginRun(m, r)
    PROVE  MrpInv'
<1>1. PICK c \in Calculations : c = [by |-> m, run |-> r, reads |-> <<>>] /\ calculating' = c
  <2>1. <<>> \in Seq((0 .. MaxPolicy) \cup Rests)
    OBVIOUS
  <2> QED BY <2>1 DEF Mrp!BeginRun, Calculations
<1>2. UNCHANGED <<policy, forecast, reserved, seen, run, acting, supplies>> /\ run[r] = Nothing
  BY DEF Mrp!BeginRun
<1>3. RunsTyped'
  BY <1>1, <1>2 DEF MrpInv, RunsTyped
<1>4. c.reads = <<>> /\ c.run = r /\ ReadsTell(<<>>)
  BY <1>1 DEF ReadsTell
<1>5. InputsSeen'
  BY <1>1, <1>2, <1>4 DEF MrpInv, InputsSeen, ReadsTell, Mrp!Inputs, Mrp!Rest, Mrp!ApprovedForecasts
<1>6. StepsHold' /\ SuppliesSingle'
  BY <1>1, <1>2, <1>4 DEF MrpInv, StepsHold, SuppliesSingle
<1> QED BY <1>3, <1>5, <1>6 DEF MrpInv

\* It reads the policies, the rest, and both again; meanwhile others may commit.
LEMMA InputsCollected ==
    ASSUME Mrp!MrpAssumption, MrpInv, Mrp!Collect
    PROVE  MrpInv'
<1>1. PICK c \in Calculations : c = calculating /\ c # Nothing /\ ReadsTell(c.reads)
  BY DEF Mrp!Collect, MrpInv, RunsTyped, InputsSeen
<1>2. PICK read \in (0 .. MaxPolicy) \cup Rests :
        /\ read = IF Len(c.reads) \in {0, 2} THEN policy ELSE Mrp!Rest
        /\ calculating' = [c EXCEPT !.reads = Append(c.reads, read)]
  <2>1. policy \in 0 .. MaxPolicy /\ Mrp!Rest \in Rests
    BY DEF MrpInv, RunsTyped, Mrp!Rest, Mrp!ApprovedForecasts, Rests
  <2> QED BY <1>1, <2>1 DEF Mrp!Collect
<1>3. /\ c.reads \in Seq((0 .. MaxPolicy) \cup Rests) /\ Len(c.reads) < 4
      /\ UNCHANGED <<policy, forecast, reserved, seen, run, acting, supplies>>
  BY <1>1 DEF Mrp!Collect, Calculations
<1>4. /\ calculating' \in Calculations /\ calculating'.reads = Append(c.reads, read) /\ calculating'.run = c.run
  BY <1>1, <1>2, <1>3 DEF Calculations
<1>5. RunsTyped'
  BY <1>3, <1>4 DEF MrpInv, RunsTyped
<1>6. ReadsTell(Append(c.reads, read))
  <2>1. policy \in Nat /\ Mrp!Rest \in Rests /\ <<policy, Mrp!Rest>> \in seen
    BY DEF MrpInv, RunsTyped, InputsSeen, Mrp!Inputs, Mrp!Rest, Mrp!ApprovedForecasts, Rests
  <2>2. /\ Len(Append(c.reads, read)) = Len(c.reads) + 1 /\ Len(c.reads) \in Nat
        /\ \A k \in 1 .. Len(c.reads) : Append(c.reads, read)[k] = c.reads[k]
        /\ Append(c.reads, read)[Len(c.reads) + 1] = read
    BY <1>3
  <2>7. /\ Len(c.reads) >= 1 => Append(c.reads, read)[1] = c.reads[1]
        /\ Len(c.reads) >= 2 => Append(c.reads, read)[2] = c.reads[2]
        /\ Len(c.reads) >= 3 => Append(c.reads, read)[3] = c.reads[3]
    BY <2>2
  <2> HIDE DEF Rests
  <2>3. CASE Len(c.reads) = 0
    BY <1>2, <2>1, <2>2, <2>3 DEF ReadsTell
  <2>4. CASE Len(c.reads) = 1
    BY <1>1, <1>2, <2>1, <2>2, <2>4 DEF ReadsTell
  <2>5. CASE Len(c.reads) = 2
    <3> DEFINE n == Append(c.reads, read)
    <3>1. read = policy /\ Len(n) = 3 /\ n[1] = c.reads[1] /\ n[2] = c.reads[2] /\ n[3] = policy
      BY <1>2, <2>2, <2>5, <2>7
    <3>2. c.reads[1] \in 0 .. policy /\ c.reads[2] \in Rests /\ (c.reads[1] = policy => <<c.reads[1], c.reads[2]>> \in seen)
      BY <1>1, <2>5 DEF ReadsTell
    <3> HIDE DEF n
    <3> QED BY <3>1, <3>2 DEF ReadsTell, n
  <2>6. CASE Len(c.reads) = 3
    <3> DEFINE n == Append(c.reads, read)
    <3>1. Len(n) = 4 /\ n[1] = c.reads[1] /\ n[2] = c.reads[2] /\ n[3] = c.reads[3]
      BY <2>2, <2>6, <2>7
    <3>2. /\ c.reads[1] \in 0 .. policy /\ c.reads[2] \in Rests
          /\ c.reads[1] = policy => <<c.reads[1], c.reads[2]>> \in seen
          /\ c.reads[3] = c.reads[1] => <<c.reads[1], c.reads[2]>> \in seen
      BY <1>1, <2>6 DEF ReadsTell
    <3> HIDE DEF n
    <3> QED BY <3>1, <3>2 DEF ReadsTell, n
  <2>8. Len(c.reads) = 0 \/ Len(c.reads) = 1 \/ Len(c.reads) = 2 \/ Len(c.reads) = 3
    <3>1. Len(c.reads) \in Nat /\ Len(c.reads) < 4
      BY <1>3, <2>2
    <3>2. \A k \in Nat : k < 4 => k = 0 \/ k = 1 \/ k = 2 \/ k = 3
      OBVIOUS
    <3> QED BY <3>1, <3>2, Zenon
  <2> QED BY <2>3, <2>4, <2>5, <2>6, <2>8
<1>7. InputsSeen'
  BY <1>3, <1>4, <1>6 DEF MrpInv, InputsSeen, ReadsTell, Mrp!Inputs, Mrp!Rest, Mrp!ApprovedForecasts
<1>8. StepsHold' /\ SuppliesSingle'
  BY <1>1, <1>3, <1>4 DEF MrpInv, StepsHold, SuppliesSingle
<1> QED BY <1>5, <1>7, <1>8 DEF MrpInv

\* The two halves of four reads: when they agree, the first read is the third.
LEMMA FirstTwo ==
    ASSUME NEW S, NEW q \in Seq(S), Len(q) = 4
    PROVE  /\ SubSeq(q, 1, 2) = <<q[1], q[2]>>
           /\ SubSeq(q, 1, 2) = SubSeq(q, 3, 4) => q[1] = q[3]
<1>1. /\ SubSeq(q, 1, 2) \in Seq(S) /\ Len(SubSeq(q, 1, 2)) = 2
      /\ SubSeq(q, 1, 2)[1] = q[1] /\ SubSeq(q, 1, 2)[2] = q[2]
  <2>1. \A i \in 1 .. 2 : q[i] \in S
    OBVIOUS
  <2>2. /\ SubSeq(q, 1, 2) \in Seq(S)
        /\ Len(SubSeq(q, 1, 2)) = IF 1 <= 2 THEN 2 - 1 + 1 ELSE 0
        /\ \A i \in 1 .. 2 - 1 + 1 : SubSeq(q, 1, 2)[i] = q[1 + i - 1]
    BY <2>1, SubSeqProperties
  <2> QED BY <2>2
<1>2. /\ Len(SubSeq(q, 3, 4)) = 2 /\ SubSeq(q, 3, 4)[1] = q[3]
  <2>1. \A i \in 3 .. 4 : q[i] \in S
    OBVIOUS
  <2>2. /\ Len(SubSeq(q, 3, 4)) = IF 3 <= 4 THEN 4 - 3 + 1 ELSE 0
        /\ \A i \in 1 .. 4 - 3 + 1 : SubSeq(q, 3, 4)[i] = q[3 + i - 1]
    BY <2>1, SubSeqProperties
  <2> QED BY <2>2
<1>3. <<q[1], q[2]>> \in Seq(S)
  OBVIOUS
<1>4. SubSeq(q, 1, 2) = <<q[1], q[2]>>
  <2> DEFINE s == SubSeq(q, 1, 2)
             t == <<q[1], q[2]>>
  <2>1. /\ s \in Seq(S) /\ t \in Seq(S) /\ Len(s) = 2 /\ Len(t) = 2
        /\ s[1] = t[1] /\ s[2] = t[2]
    BY <1>1, <1>3
  <2> HIDE DEF s, t
  <2>2. \A i \in 1 .. Len(s) : s[i] = t[i]
    BY <2>1
  <2>3. s = t
    BY <2>1, <2>2, SeqEqual
  <2> QED BY <2>3 DEF s, t
<1> QED BY <1>1, <1>2, <1>4

\* It stores a run only when both collections agree.
LEMMA RunFinishes ==
    ASSUME Mrp!MrpAssumption, MrpInv, Mrp!FinishRun
    PROVE  MrpInv'
<1>1. PICK c \in Calculations : c = calculating /\ c # Nothing /\ ReadsTell(c.reads)
  BY DEF Mrp!FinishRun, MrpInv, RunsTyped, InputsSeen
<1>2. /\ Len(c.reads) = 4 /\ calculating' = Nothing /\ UNCHANGED <<policy, forecast, reserved, seen, acting, supplies>>
      /\ c.by \in Members /\ c.run \in Runs /\ c.reads \in Seq((0 .. MaxPolicy) \cup Rests)
      /\ run[c.run] = Nothing
  BY <1>1 DEF Mrp!FinishRun, Calculations, MrpInv, StepsHold
<1>3. CASE ~Mrp!Confirmed(c.reads)
  <2>1. run' = run
    BY <1>1, <1>3 DEF Mrp!FinishRun
  <2> QED BY <1>2, <2>1 DEF MrpInv, RunsTyped, InputsSeen, StepsHold, SuppliesSingle, Mrp!Inputs, Mrp!Rest, Mrp!ApprovedForecasts
<1>4. CASE Mrp!Confirmed(c.reads)
  <2>1. /\ SubSeq(c.reads, 1, 2) = <<c.reads[1], c.reads[2]>> /\ c.reads[1] = c.reads[3]
    BY <1>2, <1>4, FirstTwo DEF Mrp!Confirmed
  <2>2. /\ c.reads[1] \in 0 .. MaxPolicy /\ c.reads[2] \in Rests
        /\ <<c.reads[1], c.reads[2]>> \in seen
    BY <1>1, <1>2, <2>1 DEF ReadsTell, MrpInv, RunsTyped, Mrp!MrpAssumption
  <2>3. PICK made \in Mrp!RunRecords : /\ made = [inputs |-> SubSeq(c.reads, 1, 2), stage |-> "draft", maker |-> c.by]
                                       /\ made.inputs \in seen
    <3>1. <<c.reads[1], c.reads[2]>> \in Mrp!Collected
      BY <2>2 DEF Mrp!Collected, Rests
    <3>2. SubSeq(c.reads, 1, 2) \in Mrp!Collected /\ SubSeq(c.reads, 1, 2) \in seen /\ c.by \in Members
      BY <1>2, <2>1, <2>2, <3>1
    <3> DEFINE made == [inputs |-> SubSeq(c.reads, 1, 2), stage |-> "draft", maker |-> c.by]
    <3>3. made \in Mrp!RunRecords /\ made.inputs \in seen
      BY <3>2 DEF Mrp!RunRecords
    <3> QED BY <3>3, Zenon
  <2>4. run' = [run EXCEPT ![c.run] = made] /\ made # Nothing
    BY <1>1, <1>4, <2>3 DEF Mrp!FinishRun, Mrp!MrpAssumption
  <2>5. RunsTyped'
    BY <1>2, <2>4 DEF MrpInv, RunsTyped
  <2>6. InputsSeen'
    BY <1>2, <2>3, <2>4 DEF MrpInv, RunsTyped, InputsSeen, Mrp!Inputs, Mrp!Rest, Mrp!ApprovedForecasts
  <2>7. StepsHold' /\ SuppliesSingle'
    BY <1>2, <2>4 DEF MrpInv, RunsTyped, StepsHold, SuppliesSingle, Steps
  <2> QED BY <2>5, <2>6, <2>7 DEF MrpInv
<1> QED BY <1>3, <1>4

\* transitionMrpSuggestion took the lock of the row and found its stage.
LEMMA StepBegins ==
    ASSUME Mrp!MrpAssumption, MrpInv, NEW m \in Members, NEW r \in Runs, Mrp!BeginStep(m, r)
    PROVE  MrpInv'
<1>1. /\ run[r] # Nothing /\ run[r] \in Mrp!RunRecords /\ run[r].stage \in {"draft", "submitted", "approved"}
      /\ policy \in 0 .. MaxPolicy /\ acting[m] = Nothing
      /\ \A n \in Members : acting[n] # Nothing => acting[n].run # r
      /\ UNCHANGED <<policy, forecast, reserved, seen, calculating, run, supplies>>
  BY DEF Mrp!BeginStep, MrpInv, RunsTyped, Mrp!RunRecords, Mrp!SuggestionLockFree
<1>2. PICK step \in Steps : step = [run |-> r, from |-> run[r].stage, policy |-> policy]
                            /\ acting' = [acting EXCEPT ![m] = step]
  BY <1>1 DEF Mrp!BeginStep, Steps
<1>3. RunsTyped'
  BY <1>1, <1>2 DEF MrpInv, RunsTyped
<1>4. InputsSeen' /\ SuppliesSingle'
  BY <1>1 DEF MrpInv, InputsSeen, SuppliesSingle, ReadsTell, Mrp!Inputs, Mrp!Rest, Mrp!ApprovedForecasts
<1>5. StepsHold'
  BY <1>1, <1>2 DEF MrpInv, RunsTyped, StepsHold
<1> QED BY <1>3, <1>4, <1>5 DEF MrpInv

\* It rolled back.
LEMMA StepAborts ==
    ASSUME MrpInv, NEW m \in Members, Mrp!AbortStep(m)
    PROVE  MrpInv'
<1>1. /\ acting' = [acting EXCEPT ![m] = Nothing]
      /\ UNCHANGED <<policy, forecast, reserved, seen, calculating, run, supplies>>
  BY DEF Mrp!AbortStep
<1>2. RunsTyped'
  BY <1>1 DEF MrpInv, RunsTyped
<1>3. InputsSeen' /\ SuppliesSingle'
  BY <1>1 DEF MrpInv, InputsSeen, SuppliesSingle, ReadsTell, Mrp!Inputs, Mrp!Rest, Mrp!ApprovedForecasts
<1>4. StepsHold'
  BY <1>1 DEF MrpInv, RunsTyped, StepsHold
<1> QED BY <1>2, <1>3, <1>4 DEF MrpInv

\* It moved the suggestion on, or released it with one resource.
LEMMA StepCommits ==
    ASSUME Mrp!MrpAssumption, MrpInv, NEW m \in Members, Mrp!CommitStep(m)
    PROVE  MrpInv'
<1>1. PICK step \in Steps : step = acting[m] /\ step # Nothing
  BY DEF Mrp!CommitStep, MrpInv, RunsTyped
<1>2. /\ step.run \in Runs /\ step.from \in {"draft", "submitted", "approved"}
      /\ run[step.run] # Nothing /\ run[step.run] \in Mrp!RunRecords /\ run[step.run].stage = step.from
  BY <1>1 DEF Steps, MrpInv, RunsTyped, StepsHold
<1>3. PICK row \in Mrp!RunRecords : /\ run' = [run EXCEPT ![step.run] = row] /\ row # Nothing
                                    /\ row.inputs = run[step.run].inputs /\ row.stage = Mrp!Following(step.from)
  <2>1. Mrp!Following(step.from) \in {"submitted", "approved", "released"}
    BY <1>2, StagesFollow
  <2> DEFINE row == [run[step.run] EXCEPT !.stage = Mrp!Following(step.from)]
  <2>2. /\ row \in Mrp!RunRecords /\ row.inputs = run[step.run].inputs /\ row.stage = Mrp!Following(step.from)
    BY <1>2, <2>1 DEF Mrp!RunRecords
  <2>3. run' = [run EXCEPT ![step.run] = row]
    BY <1>1 DEF Mrp!CommitStep
  <2> HIDE DEF row
  <2> QED BY <2>2, <2>3 DEF Mrp!MrpAssumption
<1>4. /\ acting' = [acting EXCEPT ![m] = Nothing]
      /\ UNCHANGED <<policy, forecast, reserved, seen, calculating>>
  BY DEF Mrp!CommitStep
<1>5. RunsTyped'
  BY <1>3, <1>4 DEF MrpInv, RunsTyped
<1>6. InputsSeen'
  BY <1>2, <1>3, <1>4 DEF MrpInv, RunsTyped, InputsSeen, ReadsTell, Mrp!Inputs, Mrp!Rest, Mrp!ApprovedForecasts
<1>7. StepsHold'
  <2>1. \A n \in Members : acting'[n] # Nothing =>
          n # m /\ acting'[n] = acting[n] /\ acting[n].run # step.run /\ run'[acting[n].run] = run[acting[n].run]
    BY <1>1, <1>3, <1>4 DEF MrpInv, RunsTyped, StepsHold, Steps
  <2>2. calculating # Nothing => calculating.run # step.run /\ calculating.run \in Runs
    BY <1>2 DEF MrpInv, StepsHold, RunsTyped, Calculations
  <2> QED BY <1>3, <1>4, <2>1, <2>2 DEF MrpInv, RunsTyped, StepsHold
<1>8. SuppliesSingle'
  <2>1. \A s \in supplies : s.run # step.run /\ s.run \in Runs /\ run'[s.run] = run[s.run]
    BY <1>2, <1>3 DEF MrpInv, RunsTyped, SuppliesSingle
  <2>2. CASE step.from # "approved"
    <3>1. supplies' = supplies
      BY <1>1, <2>2 DEF Mrp!CommitStep
    <3> QED BY <2>1, <3>1 DEF MrpInv, SuppliesSingle
  <2>3. CASE step.from = "approved"
    <3>1. supplies' = supplies \cup {Mrp!Resource(m)} /\ Mrp!Resource(m).run = step.run
      BY <1>1, <2>3 DEF Mrp!CommitStep, Mrp!Resource
    <3>2. run'[step.run] # Nothing /\ run'[step.run].stage = "released"
      BY <1>2, <1>3, <2>3, StagesFollow DEF MrpInv, RunsTyped
    <3>3. \A s \in supplies' : s = Mrp!Resource(m) \/ s \in supplies
      BY <3>1
    <3> QED BY <1>2, <2>1, <3>1, <3>2, <3>3 DEF MrpInv, SuppliesSingle
  <2> QED BY <2>2, <2>3
<1> QED BY <1>5, <1>6, <1>7, <1>8 DEF MrpInv

\* MrpInv is inductive.
LEMMA NextMrp == Mrp!MrpAssumption /\ MrpInv /\ [Mrp!Next]_mrpVars => MrpInv'
<1> SUFFICES ASSUME Mrp!MrpAssumption, MrpInv, [Mrp!Next]_mrpVars PROVE MrpInv'
  OBVIOUS
<1>1. ASSUME Mrp!Changes, UNCHANGED policy, reserved' \subseteq PlannedHolds PROVE MrpInv'
  BY <1>1, InputsMove DEF MrpInv, RunsTyped
<1>2. CASE Mrp!UpdatePlanningPolicy
  BY <1>2, InputsMove DEF MrpInv, RunsTyped, Mrp!UpdatePlanningPolicy, Mrp!MrpAssumption
<1>3. ASSUME NEW f \in Forecasts,
             \/ Mrp!SubmitForecast(f)
             \/ \E m \in Members : Mrp!CreateForecast(m, f) \/ Mrp!ApproveForecast(m, f)
      PROVE  MrpInv'
  BY <1>1, <1>3 DEF Mrp!CreateForecast, Mrp!SubmitForecast, Mrp!ApproveForecast, MrpInv, RunsTyped
<1>4. ASSUME NEW x \in PlannedHolds, Mrp!Reserve(x) \/ Mrp!Unreserve(x) PROVE MrpInv'
  BY <1>1, <1>4 DEF Mrp!Reserve, Mrp!Unreserve, MrpInv, RunsTyped
<1>5. CASE UNCHANGED mrpVars
  <2>1. RunsTyped'
    BY <1>5 DEF mrpVars, MrpInv, RunsTyped
  <2>2. InputsSeen' /\ StepsHold' /\ SuppliesSingle'
    BY <1>5 DEF mrpVars, MrpInv, InputsSeen, ReadsTell, StepsHold, SuppliesSingle, Mrp!Inputs, Mrp!Rest, Mrp!ApprovedForecasts
  <2> QED BY <2>1, <2>2 DEF MrpInv
<1> QED BY <1>2, <1>3, <1>4, <1>5, RunBegins, InputsCollected, RunFinishes, StepBegins, StepAborts, StepCommits
        DEF Mrp!Next

\* The inputs of a run are those of one moment, although they are read table by table while other
\* transactions commit: the two collections agree on the policies, whose version only grows
\* (planningService.ts: createMrpRun).  And a suggestion becomes one resource (transitionMrpSuggestion).
THEOREM RunsStayConsistent == Mrp!MrpAssumption => (Mrp!Spec => []Mrp!RunsConsistent)
<1> SUFFICES ASSUME Mrp!MrpAssumption PROVE Mrp!Spec => []Mrp!RunsConsistent
  OBVIOUS
<1>1. Mrp!Init => MrpInv
  BY InitMrp
<1>2. MrpInv /\ [Mrp!Next]_(Mrp!vars) => MrpInv'
  BY NextMrp DEF Mrp!vars, mrpVars
<1>3. MrpInv => Mrp!RunsConsistent
  <2> SUFFICES ASSUME MrpInv PROVE Mrp!RunsConsistent
    OBVIOUS
  <2>1. ASSUME NEW r \in Runs PROVE Mrp!Cardinality({s \in supplies : s.run = r}) <= 1
    <3>1. Cardinality({s \in supplies : s.run = r}) <= 1
      BY AtMostOne DEF MrpInv, SuppliesSingle
    <3> QED BY <3>1, MrpCardinality
  <2> QED BY <2>1 DEF Mrp!RunsConsistent, MrpInv, InputsSeen
<1> QED BY <1>1, <1>2, <1>3, PTL DEF Mrp!Spec

-----------------------------------------------------------------------------
(* CommercialManufacturing.                                                *)

\* The sum and the cardinality that come with the instance are those of this module.
LEMMA TradeSums == ASSUME NEW f PROVE Trade!SumFunction(f) = SumFunction(f)
  BY DEF Trade!SumFunction, SumFunction, Trade!SumFunctionOnSet, SumFunctionOnSet, Trade!FoldFunctionOnSet,
         FoldFunctionOnSet, Trade!MapThenFoldSet, MapThenFoldSet
LEMMA TradeCardinality == ASSUME NEW S PROVE Trade!Cardinality(S) = Cardinality(S)
  BY Zenon DEF Trade!Cardinality, Cardinality, Trade!IsFiniteSet, IsFiniteSet
LEMMA TradeFinite == ASSUME NEW S PROVE Trade!IsFiniteSet(S) <=> IsFiniteSet(S)
  BY Zenon DEF Trade!IsFiniteSet, IsFiniteSet

\* The outputs of the batch costs of a demand.
OutputOf(rows, d) == SumFunction([c \in {c \in rows : c.demand = d} |-> c.output])

TradeTyped ==
    /\ demand \in [Demands -> Trade!Maybe(Trade!ProductionDemand)]
    /\ production \in [Productions -> Trade!Maybe(Trade!ManufacturingVoucher)]
    /\ cost \subseteq Trade!BatchCosts /\ IsFiniteSet(cost)
    /\ costing \in [Members -> Trade!Maybe([voucher : Productions, of : SUBSET Productions, completed : Int])]

\* A batch is costed once, from posted vouchers of its own.
RowsDistinct ==
    /\ \A c, k \in cost : c.batch = k.batch => c = k
    /\ \A c \in cost : \A v \in c.of :
         production[v] # Nothing /\ production[v].batch = c.batch /\ production[v].stage = "posted"

\* A voucher names a demand there is, a completion has output, and a posted one was costed.
VoucherTells(v) ==
    production[v] # Nothing =>
      /\ production[v].demand # Nothing => demand[production[v].demand] # Nothing
      /\ production[v].kind \in Trade!Completions => production[v].output > 0
      /\ production[v].kind \in Trade!Completions /\ production[v].stage = "posted" => \E c \in cost : v \in c.of

\* What a posting under way has read still holds, by the locks it keeps: of its voucher, of the
\* batch, which is not costed, and of the demand.
ReadingHolds(m) ==
    costing[m] # Nothing =>
      LET p == costing[m]
          x == production[p.voucher]
      IN  /\ p.voucher \in p.of
          /\ x # Nothing /\ x.stage = "approved" /\ x.kind \in Trade!Completions
          /\ \A w \in p.of \ {p.voucher} :
               production[w] # Nothing /\ production[w].batch = x.batch /\ production[w].stage = "posted"
          /\ \A c \in cost : c.batch # x.batch
          /\ x.demand # Nothing => p.completed = OutputOf(cost, x.demand)
          /\ \A n \in Members \ {m} : costing[n] # Nothing =>
               /\ production[costing[n].voucher].batch # x.batch
               /\ x.demand # Nothing => production[costing[n].voucher].demand # x.demand

\* The status of a demand tells how much of it is completed.
DemandTells(d) ==
    LET x == demand[d]
        done == OutputOf(cost, d)
    IN  /\ (x = Nothing \/ x.stage \in {"draft", "approved", "released"}) => done = 0
        /\ (x # Nothing /\ x.stage = "partially_completed") => done \in 1..(x.quantity - 1)
        /\ (x # Nothing /\ x.stage = "completed") => done = x.quantity

TradeInv ==
    /\ TradeTyped /\ RowsDistinct
    /\ \A v \in Productions : VoucherTells(v)
    /\ \A m \in Members : ReadingHolds(m)
    /\ \A d \in Demands : DemandTells(d)

\* Outputs that are numbers amount to one.
LEMMA OutputIsNat ==
    ASSUME NEW rows, IsFiniteSet(rows), \A c \in rows : c.output \in Nat, NEW d
    PROVE  OutputOf(rows, d) \in Nat
<1> DEFINE S == {c \in rows : c.demand = d}
           f == [c \in S |-> c.output]
<1>1. IsFiniteSet(S) /\ f \in [S -> Nat]
  BY FS_Subset
<1> HIDE DEF S, f
<1>2. SumFunction(f) \in Nat
  BY <1>1, SumOfNaturals
<1> QED BY <1>2 DEF S, f, OutputOf

\* A new batch cost adds its output to those of its demand.
LEMMA OutputAdds ==
    ASSUME NEW rows, IsFiniteSet(rows), \A c \in rows : c.output \in Nat,
           NEW n, n \notin rows, n.output \in Nat, NEW d
    PROVE  /\ n.demand = d => OutputOf(rows \cup {n}, d) = OutputOf(rows, d) + n.output
           /\ n.demand # d => OutputOf(rows \cup {n}, d) = OutputOf(rows, d)
<1>1. ASSUME n.demand # d PROVE OutputOf(rows \cup {n}, d) = OutputOf(rows, d)
  <2>1. {c \in rows \cup {n} : c.demand = d} = {c \in rows : c.demand = d}
    BY <1>1
  <2> QED BY <2>1 DEF OutputOf
<1>2. ASSUME n.demand = d PROVE OutputOf(rows \cup {n}, d) = OutputOf(rows, d) + n.output
  <2> DEFINE S == {c \in rows : c.demand = d}
             T == S \cup {n}
             f == [c \in T |-> c.output]
             g == [c \in T \ {n} |-> f[c]]
  <2>1. {c \in rows \cup {n} : c.demand = d} = T
    BY <1>2
  <2>2. IsFiniteSet(S) /\ IsFiniteSet(T)
    BY FS_Subset, FS_AddElement
  <2>3. f[n] = n.output
    OBVIOUS
  <2>10. f \in [T -> Int]
    OBVIOUS
  <2>11. n \in T
    OBVIOUS
  <2>12. IsFiniteSet(T)
    BY <2>2
  <2>4. T \ {n} = S
    OBVIOUS
  <2>5. g = [c \in S |-> c.output]
    BY <2>4
  <2>6. OutputOf(rows \cup {n}, d) = SumFunction(f) /\ OutputOf(rows, d) = SumFunction(g)
    BY <2>1, <2>5 DEF OutputOf
  <2>7. OutputOf(rows, d) \in Nat
    BY OutputIsNat
  <2> HIDE DEF S, T, f, g
  <2>8. SumFunction(f) = f[n] + SumFunction([y \in T \ {n} |-> f[y]])
    BY <2>10, <2>11, <2>12, SumOfOthers
  <2>9. SumFunction(f) = f[n] + SumFunction(g)
    BY <2>8, Zenon DEF g
  <2> QED BY <2>3, <2>6, <2>7, <2>9
<1> QED BY <1>1, <1>2

\* What the model sums is that, and the rows are as they should be.
LEMMA RowFacts ==
    ASSUME Trade!TradeAssumption, TradeTyped
    PROVE  /\ IsFiniteSet(cost) /\ \A c \in cost : c.output \in Nat
           /\ \A d : d # Nothing => Trade!Completed(d) = OutputOf(cost, d)
           /\ \A d : OutputOf(cost, d) \in Nat
<1>1. IsFiniteSet(cost) /\ \A c \in cost : c.output \in Nat
  <2>1. \A c \in cost : c.output \in Outputs
    BY DEF TradeTyped, Trade!BatchCosts
  <2> QED BY <2>1 DEF TradeTyped, Trade!TradeAssumption
<1>2. ASSUME NEW d, d # Nothing PROVE Trade!Completed(d) = OutputOf(cost, d)
  <2>1. {c \in cost : d # Nothing /\ c.demand = d} = {c \in cost : c.demand = d}
    BY <1>2
  <2> QED BY <2>1, TradeSums DEF Trade!Completed, OutputOf
<1> QED BY <1>1, <1>2, OutputIsNat

\* TradeInv holds before any document.
LEMMA InitTrade == Trade!TradeAssumption /\ Trade!Init => TradeInv
<1> SUFFICES ASSUME Trade!TradeAssumption, Trade!Init PROVE TradeInv
  OBVIOUS
<1>1. TradeTyped
  BY FS_EmptySet DEF Trade!Init, TradeTyped, Trade!Maybe
<1>2. RowsDistinct
  BY DEF Trade!Init, RowsDistinct
<1>3. \A v \in Productions : VoucherTells(v)
  BY DEF Trade!Init, VoucherTells
<1>4. \A m \in Members : ReadingHolds(m)
  BY DEF Trade!Init, ReadingHolds
<1>5. ASSUME NEW d \in Demands PROVE DemandTells(d)
  <2>1. demand[d] = Nothing /\ cost = {}
    BY DEF Trade!Init
  <2>2. OutputOf({}, d) = 0
    <3> DEFINE f == [c \in {} |-> c.output]
    <3>1. {c \in {} : c.demand = d} = {} /\ DOMAIN f = {}
      OBVIOUS
    <3> HIDE DEF f
    <3>2. SumFunction(f) = 0
      BY <3>1, SumEmpty DEF SumFunction
    <3> QED BY <3>1, <3>2 DEF f, OutputOf
  <2> QED BY <2>1, <2>2 DEF DemandTells
<1> QED BY <1>1, <1>2, <1>3, <1>4, <1>5 DEF TradeInv

\* A step of a customer or a document.
LEMMA DocumentsMove ==
    ASSUME TradeInv, UNCHANGED <<demand, production, cost, costing>>
    PROVE  TradeInv'
<1>1. TradeTyped' /\ RowsDistinct'
  BY DEF TradeInv, TradeTyped, RowsDistinct
<1>2. \A v \in Productions : VoucherTells(v)'
  BY DEF TradeInv, VoucherTells
<1>3. \A m \in Members : ReadingHolds(m)'
  BY DEF TradeInv, ReadingHolds
<1>4. \A d \in Demands : DemandTells(d)'
  BY DEF TradeInv, DemandTells
<1> QED BY <1>1, <1>2, <1>3, <1>4 DEF TradeInv

\* A demand of which nothing is completed moves up to its release.
LEMMA DemandMoves ==
    ASSUME Trade!TradeAssumption, TradeInv, NEW d \in Demands, NEW x \in Trade!ProductionDemand,
           demand' = [demand EXCEPT ![d] = x], UNCHANGED <<production, cost, costing>>,
           OutputOf(cost, d) = 0, x.stage \in {"draft", "approved", "released"}
    PROVE  TradeInv'
<1>1. /\ demand'[d] = x /\ x # Nothing /\ \A e \in Demands \ {d} : demand'[e] = demand[e]
  BY DEF TradeInv, TradeTyped, Trade!TradeAssumption
<1>2. TradeTyped'
  BY DEF TradeInv, TradeTyped, Trade!Maybe
<1>3. RowsDistinct'
  BY DEF TradeInv, RowsDistinct
<1>4. \A v \in Productions : VoucherTells(v)'
  <2> SUFFICES ASSUME NEW v \in Productions, production[v] # Nothing PROVE VoucherTells(v)'
    BY DEF VoucherTells
  <2>1. production[v].demand \in Demands \cup {Nothing}
    BY DEF TradeInv, TradeTyped, Trade!Maybe, Trade!ManufacturingVoucher
  <2>2. production[v].demand # Nothing => demand'[production[v].demand] # Nothing
    BY <1>1, <2>1 DEF TradeInv, VoucherTells
  <2> QED BY <2>2 DEF TradeInv, VoucherTells
<1>5. \A m \in Members : ReadingHolds(m)'
  BY DEF TradeInv, ReadingHolds
<1>6. ASSUME NEW e \in Demands PROVE DemandTells(e)'
  BY <1>1 DEF TradeInv, DemandTells
<1> QED BY <1>2, <1>3, <1>4, <1>5, <1>6 DEF TradeInv

\* CreateProductionDemand.
LEMMA DemandCreated ==
    ASSUME Trade!TradeAssumption, TradeInv, NEW m \in Members, NEW d \in Demands,
           NEW source \in Orders \cup {Nothing}, NEW q \in Outputs, Trade!CreateProductionDemand(m, d, source, q)
    PROVE  TradeInv'
<1> DEFINE x == [stage |-> "draft", maker |-> m, quantity |-> q, source |-> source]
<1>1. x \in Trade!ProductionDemand
  BY DEF Trade!ProductionDemand, Trade!Maybe
<1>2. x.stage = "draft" /\ demand' = [demand EXCEPT ![d] = x]
  BY DEF Trade!CreateProductionDemand
<1>3. demand[d] = Nothing /\ UNCHANGED <<production, cost, costing>>
  BY DEF Trade!CreateProductionDemand
<1>4. OutputOf(cost, d) = 0
  BY <1>3 DEF TradeInv, DemandTells
<1> HIDE DEF x
<1> QED BY <1>1, <1>2, <1>3, <1>4, DemandMoves

\* ApproveProductionDemand, ReleaseProductionDemand.
LEMMA DemandProceeds ==
    ASSUME Trade!TradeAssumption, TradeInv, NEW d \in Demands,
           Trade!ReleaseProductionDemand(d) \/ \E m \in Members : Trade!ApproveProductionDemand(m, d)
    PROVE  TradeInv'
<1>1. PICK s \in {"approved", "released"} :
        /\ demand[d] # Nothing /\ demand[d].stage \in {"draft", "approved"}
        /\ demand' = [demand EXCEPT ![d].stage = s] /\ UNCHANGED <<production, cost, costing>>
  BY DEF Trade!ReleaseProductionDemand, Trade!ApproveProductionDemand
<1> DEFINE x == [demand[d] EXCEPT !.stage = s]
<1>2. demand[d] \in Trade!ProductionDemand
  BY <1>1 DEF TradeInv, TradeTyped, Trade!Maybe
<1>3. x \in Trade!ProductionDemand /\ x.stage \in {"draft", "approved", "released"}
  BY <1>2 DEF Trade!ProductionDemand, Trade!Open
<1>4. demand' = [demand EXCEPT ![d] = x]
  BY <1>1 DEF TradeInv, TradeTyped
<1>5. OutputOf(cost, d) = 0
  BY <1>1 DEF TradeInv, DemandTells
<1> HIDE DEF x
<1> QED BY <1>1, <1>3, <1>4, <1>5, DemandMoves

\* A voucher is created, or moves on with what it is about, and not while it is being posted.
LEMMA ManufacturingMoves ==
    ASSUME Trade!TradeAssumption, TradeInv, NEW v \in Productions, NEW x \in Trade!ManufacturingVoucher,
           production' = [production EXCEPT ![v] = x], UNCHANGED <<demand, cost, costing>>,
           x.demand # Nothing => demand[x.demand] # Nothing,
           x.kind \in Trade!Completions => x.output > 0,
           production[v] # Nothing =>
             /\ x.batch = production[v].batch /\ x.demand = production[v].demand /\ x.kind = production[v].kind
             /\ production[v].stage = "posted" => x.stage = "posted",
           x.kind \in Trade!Completions /\ x.stage = "posted" =>
             production[v] # Nothing /\ production[v].stage = "posted",
           \A m \in Members : costing[m] # Nothing /\ costing[m].voucher = v => x.stage = production[v].stage
    PROVE  TradeInv'
<1>1. /\ production'[v] = x /\ x # Nothing /\ \A w \in Productions \ {v} : production'[w] = production[w]
  BY DEF TradeInv, TradeTyped, Trade!TradeAssumption
<1>2. \A w \in Productions : production[w] # Nothing =>
        /\ production'[w] # Nothing /\ production'[w].batch = production[w].batch
        /\ production'[w].demand = production[w].demand /\ production'[w].kind = production[w].kind
        /\ production[w].stage = "posted" => production'[w].stage = "posted"
  BY <1>1
<1>3. TradeTyped'
  BY DEF TradeInv, TradeTyped, Trade!Maybe
<1>4. \A c \in cost : c.of \subseteq Productions
  BY DEF TradeInv, TradeTyped, Trade!BatchCosts
<1>5. RowsDistinct'
  BY <1>2, <1>4 DEF TradeInv, RowsDistinct
<1>6. ASSUME NEW w \in Productions PROVE VoucherTells(w)'
  <2>1. CASE w = v
    <3>1. x.kind \in Trade!Completions /\ x.stage = "posted" => \E c \in cost : w \in c.of
      BY <2>1 DEF TradeInv, VoucherTells
    <3> QED BY <1>1, <2>1, <3>1 DEF VoucherTells
  <2>2. CASE w # v
    BY <1>1, <2>2 DEF TradeInv, VoucherTells
  <2> QED BY <2>1, <2>2
<1>7. \A m \in Members : costing[m] # Nothing => costing[m].voucher \in Productions /\ costing[m].of \subseteq Productions
  BY DEF TradeInv, TradeTyped, Trade!Maybe
<1>8. ASSUME NEW m \in Members PROVE ReadingHolds(m)'
  <2> SUFFICES ASSUME costing[m] # Nothing PROVE ReadingHolds(m)'
    BY DEF ReadingHolds
  <2> DEFINE u == costing[m].voucher
  <2>1. /\ u \in Productions /\ production[u] # Nothing /\ production[u].stage = "approved"
        /\ production[u].kind \in Trade!Completions
    BY <1>7 DEF TradeInv, ReadingHolds
  <2>2. /\ production'[u] # Nothing /\ production'[u].stage = "approved" /\ production'[u].kind \in Trade!Completions
        /\ production'[u].batch = production[u].batch /\ production'[u].demand = production[u].demand
    BY <1>1, <1>2, <2>1
  <2>3. \A w \in costing[m].of \ {u} :
          production'[w] # Nothing /\ production'[w].batch = production[u].batch /\ production'[w].stage = "posted"
    BY <1>2, <1>7 DEF TradeInv, ReadingHolds
  <2>4. /\ \A c \in cost : c.batch # production[u].batch
        /\ production[u].demand # Nothing => costing[m].completed = OutputOf(cost, production[u].demand)
    BY DEF TradeInv, ReadingHolds
  <2>5. \A n \in Members \ {m} : costing[n] # Nothing =>
          /\ production'[costing[n].voucher].batch # production[u].batch
          /\ production[u].demand # Nothing => production'[costing[n].voucher].demand # production[u].demand
    BY <1>2, <1>7 DEF TradeInv, ReadingHolds
  <2>6. u \in costing[m].of
    BY DEF TradeInv, ReadingHolds
  <2> QED BY <2>2, <2>3, <2>4, <2>5, <2>6 DEF ReadingHolds
<1>9. \A d \in Demands : DemandTells(d)'
  BY DEF TradeInv, DemandTells
<1> QED BY <1>3, <1>5, <1>6, <1>8, <1>9 DEF TradeInv

\* CreateManufacturingVoucher.
LEMMA VoucherCreated ==
    ASSUME Trade!TradeAssumption, TradeInv, NEW m \in Members, NEW v \in Productions, NEW kind \in Trade!Kinds,
           NEW batch \in ProductionBatches, NEW d \in Demands \cup {Nothing},
           NEW value \in Values, NEW output \in Outputs \cup {0},
           NEW qa \in {"accepted", "held"},
           Trade!CreateManufacturingVoucher(m, v, kind, batch, d, value, output, qa)
    PROVE  TradeInv'
<1> DEFINE x == [kind |-> kind, stage |-> "draft", maker |-> m, batch |-> batch, demand |-> d, value |-> value,
                 output |-> output, qa |-> qa, ledger |-> FALSE]
<1>1. x \in Trade!ManufacturingVoucher
  BY DEF Trade!ManufacturingVoucher, Trade!Maybe
<1>2. x.demand = d /\ x.kind = kind /\ x.output = output /\ x.stage = "draft"
  OBVIOUS
<1>3. /\ production[v] = Nothing /\ (d # Nothing => demand[d] # Nothing)
      /\ kind \in Trade!Completions => output > 0
      /\ UNCHANGED <<demand, cost, costing>> /\ production' = [production EXCEPT ![v] = x]
  BY DEF Trade!CreateManufacturingVoucher
<1>4. \A n \in Members : costing[n] # Nothing => costing[n].voucher # v
  BY <1>3 DEF TradeInv, ReadingHolds
<1> HIDE DEF x
<1> QED BY <1>1, <1>2, <1>3, <1>4, ManufacturingMoves

\* A voucher that no one is posting takes its next stage, short of a completion's posting.
LEMMA VoucherStaged ==
    ASSUME Trade!TradeAssumption, TradeInv, NEW v \in Productions, NEW s \in {"submitted", "approved", "posted"},
           production[v] # Nothing, production[v].stage # "posted", Trade!VoucherLockFree(v),
           production[v].kind \in Trade!Completions => s # "posted",
           production' = [production EXCEPT ![v].stage = s], UNCHANGED <<demand, cost, costing>>
    PROVE  TradeInv'
<1> DEFINE x == [production[v] EXCEPT !.stage = s]
<1>1. production[v] \in Trade!ManufacturingVoucher
  BY DEF TradeInv, TradeTyped, Trade!Maybe
<1>2. x \in Trade!ManufacturingVoucher
  BY <1>1 DEF Trade!ManufacturingVoucher
<1>3. /\ x.demand = production[v].demand /\ x.kind = production[v].kind /\ x.output = production[v].output
      /\ x.batch = production[v].batch /\ x.stage = s
  BY <1>1 DEF Trade!ManufacturingVoucher
<1>4. production' = [production EXCEPT ![v] = x]
  BY DEF TradeInv, TradeTyped
<1>5. \A n \in Members : costing[n] # Nothing => costing[n].voucher # v
  BY DEF Trade!VoucherLockFree, Trade!Held
<1>6. VoucherTells(v)
  BY DEF TradeInv
<1> HIDE DEF x
<1>7. x.demand # Nothing => demand[x.demand] # Nothing
  BY <1>3, <1>6 DEF VoucherTells
<1>8. x.kind \in Trade!Completions => x.output > 0 /\ x.stage # "posted"
  BY <1>3, <1>6 DEF VoucherTells
<1>9. /\ x.batch = production[v].batch /\ x.demand = production[v].demand /\ x.kind = production[v].kind
      /\ production[v].stage = "posted" => x.stage = "posted"
  BY <1>3
<1>10. \A n \in Members : costing[n] # Nothing /\ costing[n].voucher = v => x.stage = production[v].stage
  BY <1>5
<1> QED BY <1>2, <1>4, <1>7, <1>8, <1>9, <1>10, ManufacturingMoves

\* PostLedger.
LEMMA LedgerPosted ==
    ASSUME Trade!TradeAssumption, TradeInv, NEW v \in Productions, Trade!PostLedger(v)
    PROVE  TradeInv'
<1> DEFINE x == [production[v] EXCEPT !.ledger = TRUE]
<1>1. /\ production[v] # Nothing /\ production[v].stage = "approved" /\ UNCHANGED <<demand, cost, costing>>
      /\ production' = [production EXCEPT ![v].ledger = TRUE]
  BY DEF Trade!PostLedger
<1>2. production[v] \in Trade!ManufacturingVoucher
  BY <1>1 DEF TradeInv, TradeTyped, Trade!Maybe
<1>3. x \in Trade!ManufacturingVoucher
  BY <1>2 DEF Trade!ManufacturingVoucher
<1>4. /\ x.demand = production[v].demand /\ x.kind = production[v].kind /\ x.output = production[v].output
      /\ x.batch = production[v].batch /\ x.stage = production[v].stage
  BY <1>2 DEF Trade!ManufacturingVoucher
<1>5. production' = [production EXCEPT ![v] = x]
  BY <1>1 DEF TradeInv, TradeTyped
<1>6. VoucherTells(v)
  BY DEF TradeInv
<1> HIDE DEF x
<1>7. x.demand # Nothing => demand[x.demand] # Nothing
  BY <1>1, <1>4, <1>6 DEF VoucherTells
<1>8. x.kind \in Trade!Completions => x.output > 0
  BY <1>1, <1>4, <1>6 DEF VoucherTells
<1> QED BY <1>1, <1>3, <1>4, <1>5, <1>7, <1>8, ManufacturingMoves

\* BeginCompletion: what it reads is so under the locks it takes.
LEMMA CompletionBegun ==
    ASSUME Trade!TradeAssumption, TradeInv, NEW m \in Members, NEW v \in Productions, Trade!BeginCompletion(m, v)
    PROVE  TradeInv'
<1> DEFINE b == production[v].batch
           d == production[v].demand
           p == [voucher |-> v, of |-> {v} \cup Trade!Prior(v), completed |-> Trade!Completed(d)]
<1>1. /\ production[v] # Nothing /\ production[v].stage = "approved" /\ production[v].kind \in Trade!Completions
      /\ UNCHANGED <<demand, production, cost>> /\ costing' = [costing EXCEPT ![m] = p]
  BY DEF Trade!BeginCompletion, Trade!Transitionable
<1>2. /\ \A c \in cost : c.batch # b
      /\ \A n \in Members : costing[n] # Nothing => production[costing[n].voucher].batch # b
      /\ d # Nothing => \A n \in Members : costing[n] # Nothing => production[costing[n].voucher].demand # d
  BY DEF Trade!BeginCompletion, Trade!BatchLockFree, Trade!Uncosted, Trade!DemandLockFree, Trade!Held
<1>3. p.voucher = v /\ p.of = {v} \cup Trade!Prior(v) /\ p.completed = Trade!Completed(d)
  OBVIOUS
<1>4. \A w \in Trade!Prior(v) : w \in Productions /\ production[w] # Nothing /\ production[w].batch = b /\ production[w].stage = "posted"
  BY DEF Trade!Prior, Trade!Created, TradeInv, TradeTyped
<1>5. Trade!Completed(d) \in Int /\ (d # Nothing => Trade!Completed(d) = OutputOf(cost, d))
  <2>1. CASE d = Nothing
    <3> DEFINE f == [c \in {} |-> c.output]
    <3>1. {c \in cost : d # Nothing /\ c.demand = d} = {} /\ DOMAIN f = {}
      BY <2>1
    <3>2. Trade!Completed(d) = SumFunction(f)
      BY <3>1, TradeSums DEF Trade!Completed
    <3> HIDE DEF f
    <3>3. SumFunction(f) = 0
      BY <3>1, SumEmpty DEF SumFunction
    <3> QED BY <2>1, <3>2, <3>3
  <2>2. CASE d # Nothing
    <3> HIDE DEF d
    <3> QED BY <2>2, RowFacts DEF TradeInv
  <2> QED BY <2>1, <2>2
<1>6. p \in [voucher : Productions, of : SUBSET Productions, completed : Int]
  BY <1>4, <1>5
<1> HIDE DEF p
<1>7. costing'[m] = p /\ \A n \in Members \ {m} : costing'[n] = costing[n]
  BY <1>1 DEF TradeInv, TradeTyped
<1>8. TradeTyped' /\ RowsDistinct'
  BY <1>1, <1>6 DEF TradeInv, TradeTyped, RowsDistinct, Trade!Maybe
<1>9. \A w \in Productions : VoucherTells(w)'
  BY <1>1 DEF TradeInv, VoucherTells
<1>10. ReadingHolds(m)'
  <2>1. \A w \in p.of \ {v} : production[w] # Nothing /\ production[w].batch = b /\ production[w].stage = "posted"
    BY <1>3, <1>4
  <2>2. \A n \in Members \ {m} : costing'[n] # Nothing =>
          /\ production[costing'[n].voucher].batch # b
          /\ d # Nothing => production[costing'[n].voucher].demand # d
    BY <1>2, <1>7
  <2> QED BY <1>1, <1>2, <1>3, <1>5, <1>7, <2>1, <2>2 DEF ReadingHolds
<1>11. ASSUME NEW n \in Members, n # m PROVE ReadingHolds(n)'
  <2> SUFFICES ASSUME costing[n] # Nothing PROVE ReadingHolds(n)'
    BY <1>7, <1>11 DEF ReadingHolds
  <2> DEFINE y == production[costing[n].voucher]
  <2>1. y.batch # b /\ (y.demand # Nothing => d # y.demand)
    BY <1>2
  <2>2. \A k \in Members \ {n} : costing'[k] # Nothing =>
          /\ production[costing'[k].voucher].batch # y.batch
          /\ y.demand # Nothing => production[costing'[k].voucher].demand # y.demand
    BY <1>3, <1>7, <2>1 DEF TradeInv, ReadingHolds
  <2>3. ReadingHolds(n) /\ costing'[n] = costing[n]
    BY <1>7, <1>11 DEF TradeInv
  <2> QED BY <1>1, <2>2, <2>3 DEF ReadingHolds
<1>12. \A e \in Demands : DemandTells(e)'
  BY <1>1 DEF TradeInv, DemandTells
<1> QED BY <1>8, <1>9, <1>10, <1>11, <1>12 DEF TradeInv

\* AbortCompletion.
LEMMA CompletionAborted ==
    ASSUME TradeInv, NEW m \in Members, Trade!AbortCompletion(m)
    PROVE  TradeInv'
<1>1. UNCHANGED <<demand, production, cost>> /\ costing' = [costing EXCEPT ![m] = Nothing]
  BY DEF Trade!AbortCompletion
<1>2. costing'[m] = Nothing /\ \A n \in Members \ {m} : costing'[n] = costing[n]
  BY <1>1 DEF TradeInv, TradeTyped
<1>3. TradeTyped' /\ RowsDistinct'
  BY <1>1 DEF TradeInv, TradeTyped, RowsDistinct, Trade!Maybe
<1>4. \A w \in Productions : VoucherTells(w)'
  BY <1>1 DEF TradeInv, VoucherTells
<1>5. ASSUME NEW n \in Members PROVE ReadingHolds(n)'
  BY <1>1, <1>2 DEF TradeInv, ReadingHolds
<1>6. \A e \in Demands : DemandTells(e)'
  BY <1>1 DEF TradeInv, DemandTells
<1> QED BY <1>3, <1>4, <1>5, <1>6 DEF TradeInv

\* CommitCompletion: the batch cost, the voucher and the demand change together.
LEMMA CompletionCommitted ==
    ASSUME Trade!TradeAssumption, TradeInv, NEW m \in Members, Trade!CommitCompletion(m)
    PROVE  TradeInv'
<1>1. PICK p \in [voucher : Productions, of : SUBSET Productions, completed : Int] :
        p = costing[m] /\ costing[m] # Nothing
  BY DEF Trade!CommitCompletion, Trade!Held, TradeInv, TradeTyped, Trade!Maybe
<1>2. PICK v \in Productions : v = p.voucher
  OBVIOUS
<1>3. PICK x \in Trade!ManufacturingVoucher : x = production[v] /\ x # Nothing
  BY <1>1, <1>2 DEF TradeInv, TradeTyped, ReadingHolds, Trade!Maybe
<1>4. /\ x.stage = "approved" /\ x.kind \in Trade!Completions
      /\ \A w \in p.of \ {v} : production[w] # Nothing /\ production[w].batch = x.batch /\ production[w].stage = "posted"
      /\ \A c \in cost : c.batch # x.batch
      /\ x.demand # Nothing => p.completed = OutputOf(cost, x.demand)
      /\ \A n \in Members \ {m} : costing[n] # Nothing =>
           /\ production[costing[n].voucher].batch # x.batch
           /\ x.demand # Nothing => production[costing[n].voucher].demand # x.demand
  BY <1>1, <1>2, <1>3 DEF TradeInv, ReadingHolds
<1>5. x.output \in Nat \ {0} /\ x.output \in Outputs
  <2>1. x.output \in Outputs \cup {0} /\ VoucherTells(v)
    BY DEF TradeInv, Trade!ManufacturingVoucher
  <2>2. x.output > 0
    BY <1>3, <1>4, <2>1 DEF VoucherTells
  <2>3. Outputs \subseteq Nat \ {0}
    BY DEF Trade!TradeAssumption
  <2>4. x.output \in Outputs
    BY <2>1, <2>2
  <2> QED BY <2>3, <2>4, Zenon
<1>6. PICK row \in Trade!BatchCosts :
        /\ row = Trade!BatchCost(m) /\ row.batch = x.batch /\ row.demand = x.demand
        /\ row.output = x.output /\ row.of = p.of
  <2> DEFINE f == [w \in p.of |-> Trade!Signed(w)]
             new == [batch |-> x.batch, demand |-> x.demand, output |-> x.output, of |-> p.of,
                     amount |-> SumFunction(f)]
  <2>1. new = Trade!BatchCost(m)
    BY <1>1, <1>2, <1>3, TradeSums DEF Trade!BatchCost
  <2>2. ASSUME NEW w \in p.of PROVE Trade!Signed(w) \in Int
    <3>1. w \in Productions /\ production[w] # Nothing
      BY <1>2, <1>3, <1>4
    <3>2. production[w].value \in Values
      BY <3>1 DEF TradeInv, TradeTyped, Trade!Maybe, Trade!ManufacturingVoucher
    <3>3. production[w].value \in Int
      <4>1. Values \subseteq Nat
        BY DEF Trade!TradeAssumption
      <4>2. production[w].value \in Nat
        BY <3>2, <4>1, Zenon
      <4> QED BY <4>2
    <3> QED BY <3>3 DEF Trade!Signed
  <2>3. IsFiniteSet(p.of)
    BY FS_Subset, TradeFinite DEF Trade!TradeAssumption
  <2>4. \A w \in p.of : f[w] \in Int
    BY <2>2
  <2>7. DOMAIN f = p.of
    OBVIOUS
  <2> HIDE DEF f
  <2>5. SumFunction(f) \in Int
    BY <2>3, <2>4, <2>7, SumInteger DEF SumFunction
  <2>6. new \in Trade!BatchCosts
    BY <1>5, <2>5 DEF Trade!BatchCosts, Trade!ManufacturingVoucher
  <2>8. new.batch = x.batch /\ new.demand = x.demand /\ new.output = x.output /\ new.of = p.of
    OBVIOUS
  <2> HIDE DEF new
  <2> QED BY <2>1, <2>6, <2>8, Zenon
<1>7. PICK y \in Trade!ManufacturingVoucher :
        /\ y.stage = "posted" /\ y.batch = x.batch /\ y.demand = x.demand /\ y.kind = x.kind /\ y.output = x.output
        /\ production' = [production EXCEPT ![v] = y]
  <2> DEFINE new == [x EXCEPT !.stage = "posted"]
  <2>1. /\ new \in Trade!ManufacturingVoucher
        /\ new.stage = "posted" /\ new.batch = x.batch /\ new.demand = x.demand /\ new.kind = x.kind /\ new.output = x.output
    BY DEF Trade!ManufacturingVoucher
  <2>2. production' = [production EXCEPT ![v] = new]
    BY <1>1, <1>2, <1>3 DEF Trade!CommitCompletion, TradeInv, TradeTyped
  <2> HIDE DEF new
  <2> QED BY <2>1, <2>2, Zenon
<1>8. /\ cost' = cost \cup {row} /\ costing' = [costing EXCEPT ![m] = Nothing]
      /\ x.demand # Nothing =>
           /\ demand[x.demand].stage \in Trade!Open /\ p.completed + x.output <= demand[x.demand].quantity
           /\ demand' = [demand EXCEPT ![x.demand].stage =
                           IF p.completed + x.output = demand[x.demand].quantity THEN "completed"
                           ELSE "partially_completed"]
      /\ x.demand = Nothing => demand' = demand
  BY <1>1, <1>2, <1>3, <1>6 DEF Trade!CommitCompletion
<1>9. /\ production'[v] = y /\ y # Nothing /\ \A w \in Productions \ {v} : production'[w] = production[w]
  BY <1>7 DEF TradeInv, TradeTyped, Trade!TradeAssumption
<1>10. costing'[m] = Nothing /\ \A n \in Members \ {m} : costing'[n] = costing[n]
  BY <1>8 DEF TradeInv, TradeTyped
<1>11. x.demand \in Demands \cup {Nothing} /\ Nothing \notin Demands
  BY DEF Trade!ManufacturingVoucher, Trade!Maybe, Trade!TradeAssumption
<1>12. ASSUME x.demand # Nothing
       PROVE  \E z \in Trade!ProductionDemand :
                /\ demand' = [demand EXCEPT ![x.demand] = z]
                /\ OutputOf(cost, x.demand) + x.output <= z.quantity
                /\ z.stage = IF OutputOf(cost, x.demand) + x.output = z.quantity THEN "completed"
                             ELSE "partially_completed"
  <2> DEFINE s == IF OutputOf(cost, x.demand) + x.output = demand[x.demand].quantity THEN "completed"
                  ELSE "partially_completed"
             z == [demand[x.demand] EXCEPT !.stage = s]
  <2>1. demand[x.demand] # Nothing /\ x.demand \in Demands
    BY <1>3, <1>11, <1>12 DEF TradeInv, VoucherTells
  <2>2. demand[x.demand] \in Trade!ProductionDemand
    BY <2>1 DEF TradeInv, TradeTyped, Trade!Maybe
  <2>3. p.completed = OutputOf(cost, x.demand)
    BY <1>4, <1>12
  <2>4. demand' = [demand EXCEPT ![x.demand].stage = s] /\ OutputOf(cost, x.demand) + x.output <= demand[x.demand].quantity
    BY <1>8, <1>12, <2>3
  <2>5. s \in {"completed", "partially_completed"}
    OBVIOUS
  <2> HIDE DEF s
  <2>6. z \in Trade!ProductionDemand /\ z.quantity = demand[x.demand].quantity /\ z.stage = s
    BY <2>2, <2>5 DEF Trade!ProductionDemand, Trade!Open
  <2>7. demand' = [demand EXCEPT ![x.demand] = z]
    BY <2>1, <2>4 DEF TradeInv, TradeTyped
  <2> HIDE DEF z
  <2> QED BY <2>4, <2>6, <2>7, Zenon DEF s
<1>13. /\ demand' \in [Demands -> Trade!Maybe(Trade!ProductionDemand)]
       /\ \A e \in Demands : e # x.demand => demand'[e] = demand[e]
       /\ \A e \in Demands : demand[e] # Nothing => demand'[e] # Nothing
  <2>1. CASE x.demand = Nothing
    BY <1>8, <2>1 DEF TradeInv, TradeTyped
  <2>2. CASE x.demand # Nothing
    <3>1. PICK z \in Trade!ProductionDemand : demand' = [demand EXCEPT ![x.demand] = z]
      BY <1>12, <2>2, Zenon
    <3>2. z # Nothing
      BY DEF Trade!TradeAssumption
    <3> QED BY <3>1, <3>2 DEF TradeInv, TradeTyped, Trade!Maybe
  <2> QED BY <2>1, <2>2
<1>14. TradeTyped'
  <2>1. production' \in [Productions -> Trade!Maybe(Trade!ManufacturingVoucher)]
    BY <1>7 DEF TradeInv, TradeTyped, Trade!Maybe
  <2>2. cost' \subseteq Trade!BatchCosts /\ IsFiniteSet(cost')
    BY <1>8, FS_AddElement DEF TradeInv, TradeTyped
  <2>3. costing' \in [Members -> Trade!Maybe([voucher : Productions, of : SUBSET Productions, completed : Int])]
    BY <1>8 DEF TradeInv, TradeTyped, Trade!Maybe
  <2> QED BY <1>13, <2>1, <2>2, <2>3 DEF TradeTyped
<1>15. \A w \in Productions : production[w] # Nothing =>
        /\ production'[w] # Nothing /\ production'[w].batch = production[w].batch
        /\ production'[w].demand = production[w].demand
        /\ production[w].stage = "posted" => production'[w].stage = "posted"
  BY <1>3, <1>7, <1>9
<1>16. RowsDistinct'
  <2>1. \A c, k \in cost' : c.batch = k.batch => c = k
    BY <1>4, <1>6, <1>8 DEF TradeInv, RowsDistinct
  <2>2. \A c \in cost : c.of \subseteq Productions
    BY DEF TradeInv, TradeTyped, Trade!BatchCosts
  <2>3. \A c \in cost : \A w \in c.of :
          production'[w] # Nothing /\ production'[w].batch = c.batch /\ production'[w].stage = "posted"
    BY <1>15, <2>2 DEF TradeInv, RowsDistinct
  <2>4. \A w \in row.of : production'[w] # Nothing /\ production'[w].batch = row.batch /\ production'[w].stage = "posted"
    BY <1>4, <1>6, <1>7, <1>9, <1>15
  <2> QED BY <1>8, <2>1, <2>3, <2>4 DEF RowsDistinct
<1>17. ASSUME NEW w \in Productions PROVE VoucherTells(w)'
  <2>1. VoucherTells(w)
    BY DEF TradeInv
  <2>2. CASE w = v
    <3>1. v \in row.of /\ row \in cost'
      <4>1. v \in p.of
        BY <1>1, <1>2 DEF TradeInv, ReadingHolds
      <4> QED BY <1>6, <1>8, <4>1
    <3>2. y.demand # Nothing => demand'[y.demand] # Nothing
      BY <1>3, <1>7, <1>11, <1>13, <2>1, <2>2 DEF VoucherTells
    <3>3. y.output > 0
      BY <1>5, <1>7
    <3> QED BY <1>9, <2>2, <3>1, <3>2, <3>3 DEF VoucherTells
  <2>3. CASE w # v /\ production[w] # Nothing
    <3>1. production'[w] = production[w]
      BY <1>9, <2>3
    <3>2. production[w].demand \in Demands \cup {Nothing}
      BY <2>3 DEF TradeInv, TradeTyped, Trade!Maybe, Trade!ManufacturingVoucher
    <3>3. production[w].demand # Nothing => demand'[production[w].demand] # Nothing
      BY <1>13, <2>1, <2>3, <3>2 DEF VoucherTells
    <3>4. cost \subseteq cost'
      BY <1>8
    <3> QED BY <2>1, <2>3, <3>1, <3>3, <3>4 DEF VoucherTells
  <2>4. CASE w # v /\ production[w] = Nothing
    BY <1>9, <2>4 DEF VoucherTells
  <2> QED BY <2>2, <2>3, <2>4
<1>18. /\ row \notin cost
       /\ \A d : row.demand = d => OutputOf(cost', d) = OutputOf(cost, d) + x.output
       /\ \A d : row.demand # d => OutputOf(cost', d) = OutputOf(cost, d)
  <2>1. row \notin cost
    BY <1>4, <1>6
  <2>2. IsFiniteSet(cost) /\ \A c \in cost : c.output \in Nat
    BY RowFacts DEF TradeInv
  <2>3. row.output \in Nat
    BY <1>5, <1>6
  <2>4. \A d : /\ row.demand = d => OutputOf(cost \cup {row}, d) = OutputOf(cost, d) + row.output
               /\ row.demand # d => OutputOf(cost \cup {row}, d) = OutputOf(cost, d)
    BY <2>1, <2>2, <2>3, OutputAdds
  <2> QED BY <1>6, <1>8, <2>1, <2>4
<1>19. ASSUME NEW n \in Members PROVE ReadingHolds(n)'
  <2> SUFFICES ASSUME n # m, costing[n] # Nothing PROVE ReadingHolds(n)'
    BY <1>10 DEF ReadingHolds
  <2> DEFINE q == costing[n]
             u == q.voucher
             z == production[u]
  <2>1. q \in [voucher : Productions, of : SUBSET Productions, completed : Int] /\ costing'[n] = q
    BY <1>10 DEF TradeInv, TradeTyped, Trade!Maybe
  <2>2. ReadingHolds(n) /\ z.batch # x.batch /\ (x.demand # Nothing => z.demand # x.demand)
    BY <1>4 DEF TradeInv
  <2>3. u \in Productions /\ u # v /\ production'[u] = z
    BY <1>3, <1>9, <2>1, <2>2
  <2>4. z # Nothing /\ z.stage = "approved" /\ z.kind \in Trade!Completions
    BY <2>2 DEF ReadingHolds
  <2>5. \A w \in q.of \ {u} : production'[w] # Nothing /\ production'[w].batch = z.batch /\ production'[w].stage = "posted"
    BY <1>15, <2>1, <2>2 DEF ReadingHolds
  <2>6. \A c \in cost' : c.batch # z.batch
    BY <1>6, <1>8, <2>2 DEF ReadingHolds
  <2>7. z.demand # Nothing => q.completed = OutputOf(cost', z.demand)
    <3> SUFFICES ASSUME z.demand # Nothing PROVE q.completed = OutputOf(cost', z.demand)
      OBVIOUS
    <3>1. q.completed = OutputOf(cost, z.demand)
      BY <2>2 DEF ReadingHolds
    <3>2. row.demand # z.demand
      BY <1>6, <2>2
    <3> QED BY <1>18, <3>1, <3>2
  <2>8. \A k \in Members \ {n} : costing'[k] # Nothing =>
          /\ production'[costing'[k].voucher].batch # z.batch
          /\ z.demand # Nothing => production'[costing'[k].voucher].demand # z.demand
    <3> SUFFICES ASSUME NEW k \in Members \ {n}, costing'[k] # Nothing
                 PROVE  /\ production'[costing'[k].voucher].batch # z.batch
                        /\ z.demand # Nothing => production'[costing'[k].voucher].demand # z.demand
      OBVIOUS
    <3>1. k # m /\ costing'[k] = costing[k] /\ costing[k] # Nothing
      BY <1>10
    <3>2. costing[k].voucher \in Productions /\ production[costing[k].voucher] # Nothing
      BY <3>1 DEF TradeInv, TradeTyped, ReadingHolds, Trade!Maybe
    <3>3. /\ production[costing[k].voucher].batch # z.batch
          /\ z.demand # Nothing => production[costing[k].voucher].demand # z.demand
      BY <2>2, <3>1 DEF ReadingHolds
    <3> QED BY <1>15, <3>1, <3>2, <3>3
  <2>9. u \in q.of
    BY <2>2 DEF ReadingHolds
  <2> HIDE DEF z, q, u
  <2> QED BY <2>1, <2>9, <2>3, <2>4, <2>5, <2>6, <2>7, <2>8 DEF ReadingHolds, u
<1>20. ASSUME NEW e \in Demands PROVE DemandTells(e)'
  <2>1. DemandTells(e) /\ e # Nothing
    BY <1>11 DEF TradeInv
  <2>2. CASE e # x.demand
    <3>1. demand'[e] = demand[e] /\ OutputOf(cost', e) = OutputOf(cost, e)
      BY <1>6, <1>13, <1>18, <2>2
    <3> QED BY <2>1, <3>1 DEF DemandTells
  <2>3. CASE e = x.demand
    <3>1. PICK z \in Trade!ProductionDemand :
                /\ demand' = [demand EXCEPT ![x.demand] = z]
                /\ OutputOf(cost, x.demand) + x.output <= z.quantity
                /\ z.stage = IF OutputOf(cost, x.demand) + x.output = z.quantity THEN "completed"
                             ELSE "partially_completed"
      BY <1>12, <2>1, <2>3, Zenon
    <3>2. demand'[e] = z /\ z # Nothing
      BY <2>3, <3>1 DEF TradeInv, TradeTyped, Trade!TradeAssumption
    <3>3. OutputOf(cost', e) = OutputOf(cost, e) + x.output
      BY <1>6, <1>18, <2>3
    <3>4. OutputOf(cost, e) \in Nat
      BY RowFacts DEF TradeInv
    <3>5. z.quantity \in Nat
      <4>1. z.quantity \in Outputs
        BY DEF Trade!ProductionDemand
      <4> QED BY <4>1 DEF Trade!TradeAssumption
    <3> DEFINE i == OutputOf(cost, e)
               j == OutputOf(cost', e)
    <3>6. j = i + x.output /\ i \in Nat /\ j <= z.quantity
      BY <2>3, <3>1, <3>3, <3>4
    <3>7. z.stage = IF j = z.quantity THEN "completed" ELSE "partially_completed"
      BY <2>3, <3>1, <3>3
    <3> HIDE DEF i
    <3>8. j \in 1..z.quantity
      <4> HIDE DEF j
      <4> QED BY <1>5, <3>5, <3>6
    <3>9. z.stage = "completed" => j = z.quantity
      <4> HIDE DEF j
      <4> QED BY <3>7
    <3>10. z.stage = "partially_completed" => j \in 1..(z.quantity - 1)
      <4> HIDE DEF j
      <4>1. z.stage = "partially_completed" => j # z.quantity
        BY <3>7
      <4> QED BY <3>5, <3>8, <4>1
    <3>11. z.stage \in {"completed", "partially_completed"}
      BY <3>7
    <3> QED BY <3>2, <3>9, <3>10, <3>11 DEF DemandTells
  <2> QED BY <2>2, <2>3
<1> QED BY <1>14, <1>16, <1>17, <1>19, <1>20 DEF TradeInv

\* PostMovement, SubmitManufacturingVoucher, ApproveManufacturingVoucher.
LEMMA VoucherProceeds ==
    ASSUME Trade!TradeAssumption, TradeInv, NEW v \in Productions,
           \/ Trade!SubmitManufacturingVoucher(v) \/ Trade!PostMovement(v)
           \/ \E m \in Members : Trade!ApproveManufacturingVoucher(m, v)
    PROVE  TradeInv'
<1>1. PICK s \in {"submitted", "approved", "posted"} :
        /\ production[v] # Nothing /\ production[v].stage # "posted" /\ Trade!VoucherLockFree(v)
        /\ production[v].kind \in Trade!Completions => s # "posted"
        /\ production' = [production EXCEPT ![v].stage = s] /\ UNCHANGED <<demand, cost, costing>>
  <2>1. CASE Trade!SubmitManufacturingVoucher(v)
    BY <2>1 DEF Trade!SubmitManufacturingVoucher, Trade!Transitionable
  <2>2. CASE Trade!PostMovement(v)
    BY <2>2 DEF Trade!PostMovement, Trade!Transitionable
  <2>3. CASE \E m \in Members : Trade!ApproveManufacturingVoucher(m, v)
    BY <2>3 DEF Trade!ApproveManufacturingVoucher, Trade!Transitionable
  <2> QED BY <2>1, <2>2, <2>3
<1> QED BY <1>1, VoucherStaged

\* One step.
LEMMA NextTrade ==
    ASSUME Trade!TradeAssumption, TradeInv, [Trade!Next]_(Trade!vars)
    PROVE  TradeInv'
<1>1. CASE UNCHANGED Trade!vars
  BY <1>1, DocumentsMove DEF Trade!vars
<1>2. CASE Trade!Next
  <2>1. \/ UNCHANGED <<demand, production, cost, costing>>
        \/ \E m \in Members, q \in Outputs, source \in Orders \cup {Nothing}, d \in Demands :
             Trade!CreateProductionDemand(m, d, source, q)
        \/ \E d \in Demands : Trade!ReleaseProductionDemand(d) \/ \E m \in Members : Trade!ApproveProductionDemand(m, d)
        \/ \E m \in Members, v \in Productions, kind \in Trade!Kinds, batch \in ProductionBatches, d \in Demands \cup {Nothing},
              value \in Values, output \in Outputs \cup {0}, qa \in {"accepted", "held"} :
             Trade!CreateManufacturingVoucher(m, v, kind, batch, d, value, output, qa)
        \/ \E v \in Productions : \/ Trade!SubmitManufacturingVoucher(v) \/ Trade!PostMovement(v)
                                  \/ \E m \in Members : Trade!ApproveManufacturingVoucher(m, v)
        \/ \E v \in Productions : Trade!PostLedger(v)
        \/ \E v \in Productions, m \in Members : Trade!BeginCompletion(m, v)
        \/ \E m \in Members : Trade!CommitCompletion(m)
        \/ \E m \in Members : Trade!AbortCompletion(m)
    <3>1. Trade!CreateCustomer \/ (\E s \in Trade!CustomerStatus : Trade!UpdateCustomer(s))
            => UNCHANGED <<demand, production, cost, costing>>
      BY DEF Trade!CreateCustomer, Trade!UpdateCustomer
    <3>2. \A m, d, q, source : Trade!CreateSalesDocument(m, d, source, q) => UNCHANGED <<demand, production, cost, costing>>
      BY DEF Trade!CreateSalesDocument
    <3>3. \A m, d : Trade!SubmitSalesDocument(d) \/ Trade!ApproveSalesDocument(m, d)
            => UNCHANGED <<demand, production, cost, costing>>
      BY DEF Trade!SubmitSalesDocument, Trade!ApproveSalesDocument
    <3> QED BY <1>2, <3>1, <3>2, <3>3, Zenon DEF Trade!Next
  <2> QED BY <2>1, DocumentsMove, DemandCreated, DemandProceeds, VoucherCreated, VoucherProceeds, LedgerPosted,
             CompletionBegun, CompletionCommitted, CompletionAborted, Zenon
<1> QED BY <1>1, <1>2

\* What the invariant means for demands and vouchers.
LEMMA TradeTells ==
    ASSUME Trade!TradeAssumption, TradeInv
    PROVE  Trade!DemandWithinQuantity /\ Trade!CostedOnce
<1>1. ASSUME NEW d \in Trade!Created(demand)
      PROVE  /\ Trade!Completed(d) <= demand[d].quantity
             /\ (demand[d].stage = "completed") = (Trade!Completed(d) = demand[d].quantity)
             /\ (demand[d].stage = "partially_completed") = (Trade!Completed(d) \in 1..(demand[d].quantity - 1))
  <2>1. d \in Demands /\ demand[d] # Nothing /\ d # Nothing
    BY DEF Trade!Created, TradeInv, TradeTyped, Trade!TradeAssumption
  <2>2. PICK x \in Trade!ProductionDemand : x = demand[d]
    BY <2>1 DEF TradeInv, TradeTyped, Trade!Maybe
  <2>3. PICK done \in Nat : done = OutputOf(cost, d) /\ done = Trade!Completed(d)
    BY <2>1, RowFacts DEF TradeInv
  <2>4. x.quantity \in Nat \ {0}
    <3>1. x.quantity \in Outputs /\ Outputs \subseteq Nat \ {0}
      BY DEF Trade!ProductionDemand, Trade!TradeAssumption
    <3> QED BY <3>1, Zenon
  <2>5. x.stage \in {"draft", "approved", "released", "partially_completed", "completed"}
    BY DEF Trade!ProductionDemand, Trade!Open
  <2>6. /\ x.stage \in {"draft", "approved", "released"} => done = 0
        /\ x.stage = "partially_completed" => done \in 1..(x.quantity - 1)
        /\ x.stage = "completed" => done = x.quantity
    BY <2>1, <2>2, <2>3 DEF TradeInv, DemandTells
  <2>7. /\ done <= x.quantity
        /\ (x.stage = "completed") <=> (done = x.quantity)
        /\ (x.stage = "partially_completed") <=> (done \in 1..(x.quantity - 1))
    BY <2>4, <2>5, <2>6
  <2> QED BY <2>2, <2>3, <2>7
<1>2. Trade!DemandWithinQuantity
  BY <1>1 DEF Trade!DemandWithinQuantity
<1>3. ASSUME NEW v \in Trade!Created(production)
      PROVE  /\ Trade!Cardinality({c \in cost : v \in c.of}) <= 1
             /\ production[v].kind \in Trade!Completions =>
                  (production[v].stage = "posted") = (\E c \in cost : v \in c.of)
  <2> DEFINE S == {c \in cost : v \in c.of}
  <2>1. v \in Productions /\ production[v] # Nothing
    BY DEF Trade!Created, TradeInv, TradeTyped
  <2>2. \A c, k \in S : c = k
    BY DEF TradeInv, RowsDistinct
  <2>3. Trade!Cardinality(S) <= 1
    <3> HIDE DEF S
    <3> QED BY <2>2, AtMostOne, TradeCardinality
  <2>4. (\E c \in cost : v \in c.of) => production[v].stage = "posted"
    BY DEF TradeInv, RowsDistinct
  <2>5. production[v].kind \in Trade!Completions /\ production[v].stage = "posted" => \E c \in cost : v \in c.of
    BY <2>1 DEF TradeInv, VoucherTells
  <2> QED BY <2>3, <2>4, <2>5
<1>4. Trade!CostedOnce
  BY <1>3 DEF Trade!CostedOnce
<1> QED BY <1>2, <1>4

\* However many completions members post at once, the outputs of a demand stay within it and its
\* status tells how much is completed, and a batch is costed once, from vouchers that enter no
\* other batch cost (commercialManufacturingService.ts: the locks of postManufacturingVoucher).
THEOREM TradeKept == Trade!TradeAssumption => (Trade!Spec => [](Trade!DemandWithinQuantity /\ Trade!CostedOnce))
<1> SUFFICES ASSUME Trade!TradeAssumption PROVE Trade!Spec => [](Trade!DemandWithinQuantity /\ Trade!CostedOnce)
  OBVIOUS
<1>1. Trade!Init => TradeInv
  BY InitTrade
<1>2. TradeInv /\ [Trade!Next]_(Trade!vars) => TradeInv'
  BY NextTrade
<1>3. TradeInv => Trade!DemandWithinQuantity /\ Trade!CostedOnce
  BY TradeTells
<1> QED BY <1>1, <1>2, <1>3, PTL DEF Trade!Spec

-----------------------------------------------------------------------------
(* MrpNetting: the orders a pass explodes as an operator of the input and   *)
(* of the orders before it, so that two passes can be compared.             *)

At(n, g) == INSTANCE MrpNetting WITH Inputs <- PlanInputs, input <- n, generated <- g, status <- outcome
Made(n, g) == At(n, g)!Exploded(At(n, g)!Plan)
ItemsBelow(n, k) == At(n, {})!Below(k)

LEMMA NeedingHere == ASSUME NEW i, NEW d PROVE Netting!Needing(i, d) = At(input, generated)!Needing(i, d)
BY DEF Netting!Needing, At!Needing, Netting!OrderDay, At!OrderDay, Netting!Larger, At!Larger

LEMMA LevelHere == ASSUME NEW i, NEW d PROVE Netting!Level(i, d) = At(input, generated)!Level(i, d)
BY Zenon DEF Netting!Level, At!Level, Netting!Max, At!Max, Netting!Needing, At!Needing, Netting!OrderDay, At!OrderDay, Netting!Larger, At!Larger

LEMMA BalanceHere == ASSUME NEW i PROVE Netting!Balance(i) = At(input, generated)!Balance(i)
BY Zenon DEF Netting!Balance, At!Balance, Netting!Bucketed, At!Bucketed, Netting!Bucket, At!Bucket, Netting!Days, At!Days, Netting!LotSized, At!LotSized, Netting!OrderMultiple, At!OrderMultiple, Netting!Ceiling, At!Ceiling, Netting!Gross, At!Gross, Netting!Needing, At!Needing, Netting!OrderDay, At!OrderDay, Netting!Larger, At!Larger, Netting!SumFunction, At!SumFunction, Netting!SumFunctionOnSet, At!SumFunctionOnSet, Netting!FoldFunctionOnSet, At!FoldFunctionOnSet, Netting!MapThenFoldSet, At!MapThenFoldSet

LEMMA MadeHere == Netting!Exploded(Netting!Plan) = Made(input, generated)
<1>1. Netting!Plan = At(input, generated)!Plan
  BY BalanceHere DEF Netting!Plan, At!Plan
<1> QED BY <1>1, LevelHere DEF Made, Netting!Exploded, At!Exploded, Netting!Days, At!Days, Netting!Makes, At!Makes

LEMMA BelowHere == ASSUME NEW n, NEW g, NEW k PROVE At(n, g)!Below(k) = ItemsBelow(n, k)
BY DEF ItemsBelow, At!Below, At!Makes


LEMMA AtSums == ASSUME NEW n, NEW g, NEW f PROVE At(n, g)!SumFunction(f) = SumFunctionOnSet(f, DOMAIN f)
BY DEF At!SumFunction, At!SumFunctionOnSet, SumFunctionOnSet, At!FoldFunctionOnSet,
       FoldFunctionOnSet, At!MapThenFoldSet, MapThenFoldSet

LEMMA InputTyped ==
    ASSUME Netting!NettingAssumption, NEW n \in PlanInputs
    PROVE  /\ IsFiniteSet(Items) /\ Horizon \in Nat /\ PassLimit \in Nat
           /\ \A i \in Items :
                /\ n.make[i] \in BOOLEAN /\ n.lead[i] \in Nat /\ n.reorder[i] \in Nat
                /\ \A c \in Items : n.parts[i][c] \in Nat
                /\ \A d \in 1..Horizon : n.demand[i][d] \in Nat /\ n.supply[i][d] \in Nat /\ n.reserved[i][d] \in Nat
                /\ n.lot[i].kind \in {"lot_for_lot", "fixed", "min_max"} /\ n.lot[i].size \in Nat \ {0}
                /\ n.lot[i].minimum \in Nat /\ n.lot[i].multiple \in Nat
<1>1. IsFiniteSet(Items)
  BY Zenon DEF Netting!NettingAssumption, Netting!IsFiniteSet, IsFiniteSet
<1>2. /\ {n.demand, n.supply, n.reserved} \subseteq [Items -> [1..Horizon -> Nat]]
      /\ n.parts \in [Items -> [Items -> Nat]] /\ n.make \in [Items -> BOOLEAN]
      /\ n.lead \in [Items -> Nat] /\ n.reorder \in [Items -> Nat]
      /\ n.lot \in [Items -> [kind : {"lot_for_lot", "fixed", "min_max"}, size : Nat \ {0},
                              minimum : Nat, multiple : Nat]]
  BY DEF Netting!NettingAssumption
<1>3. Horizon \in Nat /\ PassLimit \in Nat
  BY DEF Netting!NettingAssumption
<1>4. ASSUME NEW i \in Items, NEW d \in 1..Horizon
      PROVE  n.demand[i][d] \in Nat /\ n.supply[i][d] \in Nat /\ n.reserved[i][d] \in Nat
  <2>1. n.demand \in [Items -> [1..Horizon -> Nat]] /\ n.supply \in [Items -> [1..Horizon -> Nat]]
        /\ n.reserved \in [Items -> [1..Horizon -> Nat]]
    BY <1>2
  <2> QED BY <2>1
<1>5. ASSUME NEW i \in Items
      PROVE  /\ n.lot[i].kind \in {"lot_for_lot", "fixed", "min_max"} /\ n.lot[i].size \in Nat \ {0}
             /\ n.lot[i].minimum \in Nat /\ n.lot[i].multiple \in Nat
  BY <1>2
<1>6. ASSUME NEW i \in Items
      PROVE  /\ n.make[i] \in BOOLEAN /\ n.lead[i] \in Nat /\ n.reorder[i] \in Nat
             /\ \A c \in Items : n.parts[i][c] \in Nat
  BY <1>2
<1> QED BY <1>1, <1>3, <1>4, <1>5, <1>6

\* A finite set of numbers has a largest one.
LEMMA LargestOf ==
    ASSUME NEW n, NEW g, NEW S, \A x \in S : x \in Nat, IsFiniteSet(S), S # {}
    PROVE  At(n, g)!Max(S) \in S /\ \A y \in S : At(n, g)!Max(S) >= y
<1> DEFINE above(x) == {y \in S : y > x}
           T == {above(x) : x \in S}
<1>1. PICK s \in T : \A r \in T : r \subseteq s => r = s
  <2>1. T \in SUBSET SUBSET S /\ T # {}
    OBVIOUS
  <2> HIDE DEF T
  <2> QED BY <2>1, SmallestSubset
<1>2. PICK x \in S : s = above(x)
  BY <1>1
<1>3. \A y \in S : ~(y > x)
  <2> SUFFICES ASSUME NEW y \in S, y > x PROVE FALSE
    OBVIOUS
  <2>1. above(y) \subseteq s
    <3>1. \A z \in S : z > y => z > x
      OBVIOUS
    <3> QED BY <1>2, <3>1
  <2>2. y \in s /\ y \notin above(y)
    BY <1>2
  <2> QED BY <1>1, <2>1, <2>2
<1>4. \E z \in S : \A y \in S : z >= y
  BY <1>3
<1> QED BY <1>4 DEF At!Max

-----------------------------------------------------------------------------
(* The demand of a bucket, its level and its plan.                          *)

\* The orders of a pass.
OrdersOf(g) == g \subseteq Netting!Order /\ IsFiniteSet(g)

LEMMA NeedingTyped ==
    ASSUME NEW n, NEW g, OrdersOf(g), NEW i, NEW d
    PROVE  OrdersOf(At(n, g)!Needing(i, d)) /\ At(n, g)!Needing(i, d) \subseteq g
<1>1. At(n, g)!Needing(i, d) \subseteq g
  BY DEF At!Needing
<1> QED BY <1>1, FS_Subset DEF OrdersOf

LEMMA GrossIs ==
    ASSUME NEW n, NEW g, NEW i, NEW d
    PROVE  At(n, g)!Gross(i, d) =
             n.demand[i][d] + SumFunctionOnSet([o \in At(n, g)!Needing(i, d) |-> o.quantity * n.parts[o.item][i]],
                                               At(n, g)!Needing(i, d))
BY AtSums DEF At!Gross

LEMMA GrossTyped ==
    ASSUME Netting!NettingAssumption, NEW n \in PlanInputs, NEW g, OrdersOf(g), NEW i \in Items, NEW d \in 1..Horizon
    PROVE  At(n, g)!Gross(i, d) \in Nat
<1> DEFINE N == At(n, g)!Needing(i, d)
           f == [o \in N |-> o.quantity * n.parts[o.item][i]]
<1>1. IsFiniteSet(N) /\ N \subseteq Netting!Order
  BY NeedingTyped DEF OrdersOf
<1>2. \A o \in N : f[o] \in Nat
  <2> SUFFICES ASSUME NEW o \in N PROVE o.quantity * n.parts[o.item][i] \in Nat
    OBVIOUS
  <2>1. o.quantity \in Nat /\ o.item \in Items
    BY <1>1 DEF Netting!Order
  <2>2. n.parts[o.item][i] \in Nat
    BY <2>1, InputTyped
  <2> QED BY <2>1, <2>2
<1>3. At(n, g)!Gross(i, d) = n.demand[i][d] + SumFunctionOnSet(f, N)
  BY GrossIs
<1>4. SumFunctionOnSet(f, N) \in Nat
  <2> HIDE DEF N, f
  <2> QED BY <1>1, <1>2, SumWithin
<1>5. n.demand[i][d] \in Nat
  BY InputTyped
<1> HIDE DEF N, f
<1> QED BY <1>3, <1>4, <1>5

LEMMA LevelBounds ==
    ASSUME NEW n, NEW g, OrdersOf(g), PassLimit \in Nat, NEW i, NEW d
    PROVE  /\ At(n, g)!Level(i, d) \in Nat
           /\ \A o \in At(n, g)!Needing(i, d) : o.level < At(n, g)!Level(i, d)
           /\ \/ At(n, g)!Level(i, d) = 0
              \/ \E o \in At(n, g)!Needing(i, d) : At(n, g)!Level(i, d) = o.level + 1
<1> DEFINE N == At(n, g)!Needing(i, d)
           L == {o.level + 1 : o \in N}
           S == {0} \cup L
<1>1. IsFiniteSet(N) /\ N \subseteq Netting!Order
  BY NeedingTyped DEF OrdersOf
<1>2. \A o \in N : o.level \in Nat
  BY <1>1 DEF Netting!Order
<1>3. S \in SUBSET Nat
  BY <1>2
<1>4. IsFiniteSet(S)
  <2>1. IsFiniteSet(L)
    <3>1. L \subseteq 1..PassLimit + 1
      BY <1>1 DEF Netting!Order
    <3>2. IsFiniteSet(1..PassLimit + 1)
      BY FS_Interval
    <3> HIDE DEF L
    <3> QED BY <3>1, <3>2, FS_Subset
  <2> HIDE DEF L
  <2> QED BY <2>1, FS_Singleton, FS_Union
<1>5. At(n, g)!Level(i, d) = At(n, g)!Max(S)
  BY DEF At!Level
<1>6. 0 \in S
  OBVIOUS
<1>7. At(n, g)!Max(S) \in S /\ \A y \in S : At(n, g)!Max(S) >= y
  <2> HIDE DEF S
  <2> QED BY <1>3, <1>4, <1>6, LargestOf
<1>8. \A o \in N : o.level + 1 \in S
  OBVIOUS
<1>9. \A x \in S : x = 0 \/ \E o \in N : x = o.level + 1
  OBVIOUS
<1> DEFINE m == At(n, g)!Max(S)
<1>10. m \in Nat /\ \A o \in N : m >= o.level + 1
  <2> HIDE DEF S
  <2> QED BY <1>3, <1>7, <1>8
<1>11. m = 0 \/ \E o \in N : m = o.level + 1
  <2> HIDE DEF S
  <2> QED BY <1>7, <1>9
<1>12. At(n, g)!Level(i, d) = m
  BY <1>5
<1> HIDE DEF m, N
<1>13. \A o \in N : o.level < m
  BY <1>2, <1>10
<1> QED BY <1>10, <1>11, <1>12, <1>13 DEF N


-----------------------------------------------------------------------------
(* Lots and balances.                                                       *)

\* Rounding up to a multiple does not lose anything.
LEMMA MultipleAbove ==
    ASSUME NEW n, NEW g, NEW q \in Nat, NEW m \in Nat \ {0}
    PROVE  m * At(n, g)!Ceiling(q, m) \in Nat /\ m * At(n, g)!Ceiling(q, m) >= q
<1> DEFINE a == q + m - 1
           k == a \div m
           r == a % m
<1>1. a \in Nat
  OBVIOUS
<1>2. k \in Int /\ r \in 0..m - 1 /\ a = m * k + r
  <2> HIDE DEF a
  <2> QED BY <1>1
<1>3. k >= 0
  <2> HIDE DEF a
  <2> QED BY <1>1
<1>4. At(n, g)!Ceiling(q, m) = k
  BY DEF At!Ceiling
<1> DEFINE p == m * k
<1>5. p \in Nat
  <2> HIDE DEF k
  <2> QED BY <1>2, <1>3
<1>6. q + m - 1 = p + r
  BY <1>2
<1> HIDE DEF p, r, k, a
<1>7. p >= q
  BY <1>2, <1>5, <1>6
<1> QED BY <1>4, <1>5, <1>7 DEF p

LEMMA LotCoversNet ==
    ASSUME Netting!NettingAssumption, NEW n \in PlanInputs, NEW g, NEW i \in Items, NEW net \in Nat, NEW after \in Int
    PROVE  At(n, g)!LotSized(i, net, after) \in Nat /\ At(n, g)!LotSized(i, net, after) >= net
<1> DEFINE lot == n.lot[i]
           sized == CASE lot.kind = "fixed" -> lot.size * At(n, g)!Ceiling(net, lot.size)
                      [] lot.kind = "min_max" -> At(n, g)!Larger(net, lot.size - after)
                      [] OTHER -> net
           least == At(n, g)!Larger(sized, lot.minimum)
<1>1. /\ lot.kind \in {"lot_for_lot", "fixed", "min_max"} /\ lot.size \in Nat \ {0}
      /\ lot.minimum \in Nat /\ lot.multiple \in Nat
  BY InputTyped
<1> HIDE DEF lot
<1>2. sized \in Nat /\ sized >= net
  <2>1. CASE lot.kind = "fixed"
    BY <1>1, <2>1, MultipleAbove
  <2>2. CASE lot.kind = "min_max"
    BY <1>1, <2>2 DEF At!Larger
  <2>3. CASE lot.kind = "lot_for_lot"
    BY <1>1, <2>3
  <2> QED BY <1>1, <2>1, <2>2, <2>3
<1>3. At(n, g)!LotSized(i, net, after) = At(n, g)!OrderMultiple(least, lot.multiple)
  BY DEF At!LotSized, lot
<1> HIDE DEF sized
<1>4. least \in Nat /\ least >= net
  BY <1>1, <1>2 DEF At!Larger
<1> HIDE DEF least
<1>5. At(n, g)!OrderMultiple(least, lot.multiple) \in Nat /\ At(n, g)!OrderMultiple(least, lot.multiple) >= least
  <2>1. CASE lot.multiple = 0
    BY <1>1, <1>4, <2>1 DEF At!OrderMultiple
  <2>2. CASE lot.multiple # 0
    <3>1. At(n, g)!OrderMultiple(least, lot.multiple) = lot.multiple * At(n, g)!Ceiling(least, lot.multiple)
      BY <2>2 DEF At!OrderMultiple
    <3> QED BY <1>1, <1>4, <2>2, <3>1, MultipleAbove
  <2> QED BY <2>1, <2>2
<1> QED BY <1>3, <1>4, <1>5

\* One bucket.
BucketRow == [planned : Nat, closing : Int]
LEMMA BucketCovered ==
    ASSUME Netting!NettingAssumption, NEW n \in PlanInputs, NEW g, OrdersOf(g), NEW i \in Items, NEW d \in 1..Horizon,
           NEW before \in Int
    PROVE  /\ At(n, g)!Bucketed(i, d, before) \in BucketRow
           /\ At(n, g)!Bucket(i, d) => At(n, g)!Bucketed(i, d, before).closing >= n.reorder[i]
<1> DEFINE opening == before + n.supply[i][d] - n.reserved[i][d]
           after == opening - At(n, g)!Gross(i, d)
           net == At(n, g)!Larger(0, n.reorder[i] - after)
           lot == At(n, g)!LotSized(i, net, after)
           planned == IF At(n, g)!Bucket(i, d) /\ net > 0 THEN lot ELSE 0
<1>1. after \in Int
  <2>1. n.supply[i][d] \in Nat /\ n.reserved[i][d] \in Nat /\ At(n, g)!Gross(i, d) \in Nat
    BY InputTyped, GrossTyped
  <2> QED BY <2>1
<1>2. n.reorder[i] \in Nat
  BY InputTyped
<1>3. At(n, g)!Bucketed(i, d, before) = [planned |-> planned, closing |-> after + planned]
  BY DEF At!Bucketed
<1> HIDE DEF after
<1>4. net \in Nat /\ net >= n.reorder[i] - after
  BY <1>1, <1>2 DEF At!Larger
<1> HIDE DEF net
<1>5. lot \in Nat /\ lot >= net
  BY <1>1, <1>4, LotCoversNet
<1> HIDE DEF lot
<1>6. planned \in Nat /\ (At(n, g)!Bucket(i, d) => planned >= net)
  BY <1>4, <1>5
<1> HIDE DEF planned
<1>7. after + planned \in Int /\ (At(n, g)!Bucket(i, d) => after + planned >= n.reorder[i])
  BY <1>1, <1>2, <1>4, <1>6
<1> QED BY <1>3, <1>6, <1>7 DEF BucketRow

\* The rows of an item, each from the one of the day before.
Rows0 == [planned |-> 0, closing |-> 0]
Stepped(n, g, i, f, k) ==
    /\ f \in [0..k -> BucketRow]
    /\ f[0] = Rows0
    /\ \A d \in 1..k : f[d] = At(n, g)!Bucketed(i, d, f[d - 1].closing)

LEMMA StepsExist ==
    ASSUME Netting!NettingAssumption, NEW n \in PlanInputs, NEW g, OrdersOf(g), NEW i \in Items
    PROVE  \E f : Stepped(n, g, i, f, Horizon)
<1> DEFINE Bad == {k \in 0..Horizon : ~ \E f : Stepped(n, g, i, f, k)}
<1>0. Horizon \in Nat
  BY InputTyped
<1>1. CASE Bad = {}
  BY <1>0, <1>1
<1>2. CASE Bad # {}
  <2>1. PICK k \in Bad : \A j \in Bad : j >= k
    <3>1. Bad \subseteq Nat /\ Bad # {}
      BY <1>2, <1>0
    <3> HIDE DEF Bad
    <3> QED BY <3>1, LeastNumber
  <2>2. k \in 0..Horizon /\ k \in Nat
    BY <1>0, <2>1
  <2>3. CASE k = 0
    <3> DEFINE f == [x \in 0..0 |-> Rows0]
    <3>1. Stepped(n, g, i, f, 0)
      BY DEF Stepped, Rows0, BucketRow
    <3> QED BY <2>1, <2>3, <3>1
  <2>4. CASE k > 0
    <3>1. k - 1 \in 0..Horizon /\ k - 1 \notin Bad
      <4>1. k - 1 \in 0..Horizon /\ ~(k - 1 >= k)
        BY <1>0, <2>2, <2>4
      <4> HIDE DEF Bad
      <4> QED BY <2>1, <4>1
    <3>2. PICK f : Stepped(n, g, i, f, k - 1)
      BY <3>1
    <3> DEFINE row == At(n, g)!Bucketed(i, k, f[k - 1].closing)
               h == [x \in 0..k |-> IF x = k THEN row ELSE f[x]]
    <3>3. row \in BucketRow
      <4>1. f[k - 1] \in BucketRow
        BY <2>2, <2>4, <3>2 DEF Stepped
      <4>2. f[k - 1].closing \in Int /\ k \in 1..Horizon
        BY <2>2, <2>4, <4>1 DEF BucketRow
      <4> QED BY <4>2, BucketCovered
    <3>4. h \in [0..k -> BucketRow]
      <4> HIDE DEF row
      <4> QED BY <2>2, <2>4, <3>2, <3>3 DEF Stepped
    <3>5. h[0] = Rows0
      BY <2>2, <2>4, <3>2 DEF Stepped
    <3>6. \A d \in 1..k : h[d] = At(n, g)!Bucketed(i, d, h[d - 1].closing)
      <4> SUFFICES ASSUME NEW d \in 1..k PROVE h[d] = At(n, g)!Bucketed(i, d, h[d - 1].closing)
        OBVIOUS
      <4>1. h[d - 1] = f[d - 1]
        BY <2>2, <2>4
      <4>2. CASE d = k
        BY <2>2, <2>4, <4>1, <4>2
      <4>3. CASE d # k
        <5>1. d \in 1..k - 1 /\ d \in 0..k
          BY <2>2, <2>4, <4>3
        <5> QED BY <3>2, <4>1, <4>3, <5>1 DEF Stepped
      <4> QED BY <4>2, <4>3
    <3>7. Stepped(n, g, i, h, k)
      <4> HIDE DEF h
      <4> QED BY <3>4, <3>5, <3>6 DEF Stepped
    <3> QED BY <2>1, <3>7
  <2> QED BY <2>2, <2>3, <2>4
<1> QED BY <1>1, <1>2

RowsOf(n, g, i, p) == \A d \in 1..Horizon : p[d] = At(n, g)!Bucketed(i, d, p[d - 1].closing)
SameBuckets(n, g, h, i) == \A x : \A d \in 1..Horizon : At(n, g)!Bucketed(i, d, x) = At(n, h)!Bucketed(i, d, x)

\* Two items stepped by the same buckets have the same rows.
LEMMA StepsAgree ==
    ASSUME Horizon \in Nat, NEW n, NEW g, NEW h, NEW i, NEW p, NEW q,
           p[0] = q[0], RowsOf(n, g, i, p), RowsOf(n, h, i, q), SameBuckets(n, g, h, i)
    PROVE  \A d \in 0..Horizon : p[d] = q[d]
<1> DEFINE Bad == {d \in 0..Horizon : p[d] # q[d]}
<1>1. CASE Bad = {}
  BY <1>1
<1>2. CASE Bad # {}
  <2>1. PICK d \in Bad : \A j \in Bad : j >= d
    <3>1. Bad \subseteq Nat /\ Bad # {}
      BY <1>2
    <3> HIDE DEF Bad
    <3> QED BY <3>1, LeastNumber
  <2>2. d \in 0..Horizon /\ d # 0
    BY <2>1
  <2>3. d - 1 \in 0..Horizon /\ d \in 1..Horizon /\ ~(d - 1 >= d)
    BY <2>2
  <2>4. p[d - 1] = q[d - 1]
    BY <2>1, <2>3
  <2>5. p[d] = q[d]
    BY <2>3, <2>4 DEF RowsOf, SameBuckets
  <2> QED BY <2>1, <2>5
<1> QED BY <1>1, <1>2

LEMMA BalanceRows ==
    ASSUME Netting!NettingAssumption, NEW n \in PlanInputs, NEW g, OrdersOf(g), NEW i \in Items
    PROVE  \E f : Stepped(n, g, i, f, Horizon) /\ At(n, g)!Balance(i) = [d \in 1..Horizon |-> f[d]]
<1> DEFINE recursion(f) == f = [d \in 0..Horizon |-> IF d = 0 THEN Rows0
                                  ELSE At(n, g)!Bucketed(i, d, f[d - 1].closing)]
           at == CHOOSE f : recursion(f)
<1>0. Horizon \in Nat
  BY InputTyped
<1>1. PICK f : Stepped(n, g, i, f, Horizon)
  BY StepsExist
<1>2. recursion(f)
  <2>1. \A d \in 0..Horizon : f[d] = IF d = 0 THEN Rows0 ELSE At(n, g)!Bucketed(i, d, f[d - 1].closing)
    BY <1>0, <1>1 DEF Stepped
  <2> QED BY <1>1, <2>1 DEF Stepped
<1>3. At(n, g)!Balance(i) = [d \in 1..Horizon |-> at[d]]
  BY Zenon DEF At!Balance, At!Days, Rows0
<1>4. recursion(at)
  <2> HIDE DEF recursion
  <2> QED BY <1>2
<1> HIDE DEF at
<1>5. at[0] = f[0] /\ \A d \in 1..Horizon : at[d] = At(n, g)!Bucketed(i, d, at[d - 1].closing)
  <2>1. \A d \in 0..Horizon : at[d] = IF d = 0 THEN Rows0 ELSE At(n, g)!Bucketed(i, d, at[d - 1].closing)
    BY <1>4, Zenon
  <2> QED BY <1>0, <1>1, <2>1 DEF Stepped
<1>6. \A d \in 0..Horizon : at[d] = f[d]
  <2>1. RowsOf(n, g, i, at) /\ RowsOf(n, g, i, f)
    BY <1>1, <1>5 DEF Stepped, RowsOf
  <2>2. SameBuckets(n, g, g, i)
    BY DEF SameBuckets
  <2>3. at[0] = f[0]
    BY <1>5
  <2> QED BY ONLY <1>0, <2>1, <2>2, <2>3, StepsAgree
<1>7. [d \in 1..Horizon |-> at[d]] = [d \in 1..Horizon |-> f[d]]
  BY <1>0, <1>6
<1> QED BY <1>1, <1>3, <1>7


LEMMA BalanceTyped ==
    ASSUME Netting!NettingAssumption, NEW n \in PlanInputs, NEW g, OrdersOf(g), NEW i \in Items, NEW d \in 1..Horizon
    PROVE  /\ At(n, g)!Balance(i)[d] \in BucketRow
           /\ At(n, g)!Bucket(i, d) => At(n, g)!Balance(i)[d].closing >= n.reorder[i]
<1>1. PICK f : Stepped(n, g, i, f, Horizon) /\ At(n, g)!Balance(i) = [e \in 1..Horizon |-> f[e]]
  BY BalanceRows
<1>2. Horizon \in Nat /\ d - 1 \in 0..Horizon
  BY InputTyped
<1>3. f[d - 1] \in BucketRow /\ f[d] = At(n, g)!Bucketed(i, d, f[d - 1].closing)
  BY <1>1, <1>2 DEF Stepped
<1>4. f[d - 1].closing \in Int
  BY <1>3 DEF BucketRow
<1>5. At(n, g)!Balance(i)[d] = f[d]
  BY <1>1
<1> QED BY <1>3, <1>4, <1>5, BucketCovered

\* What an item is planned to, and its levels, depend on the orders that need it.
LEMMA SameNeeds ==
    ASSUME Netting!NettingAssumption, NEW n \in PlanInputs, NEW g, NEW h, OrdersOf(g), OrdersOf(h), NEW i \in Items,
           \A d \in 1..Horizon : At(n, g)!Needing(i, d) = At(n, h)!Needing(i, d)
    PROVE  /\ \A d \in 1..Horizon : At(n, g)!Level(i, d) = At(n, h)!Level(i, d)
           /\ \A d \in 1..Horizon : At(n, g)!Balance(i)[d] = At(n, h)!Balance(i)[d]
<1>1. ASSUME NEW d \in 1..Horizon PROVE At(n, g)!Level(i, d) = At(n, h)!Level(i, d)
  <2> DEFINE s == {0} \cup {o.level + 1 : o \in At(n, g)!Needing(i, d)}
             t == {0} \cup {o.level + 1 : o \in At(n, h)!Needing(i, d)}
  <2>1. At(n, g)!Level(i, d) = At(n, g)!Max(s) /\ At(n, h)!Level(i, d) = At(n, h)!Max(t)
    BY DEF At!Level
  <2>2. s = t
    OBVIOUS
  <2> HIDE DEF s, t
  <2>3. At(n, g)!Max(s) = At(n, h)!Max(s)
    BY DEF At!Max
  <2> QED BY <2>1, <2>2, <2>3
<1>2. ASSUME NEW d \in 1..Horizon PROVE At(n, g)!Gross(i, d) = At(n, h)!Gross(i, d)
  <2> DEFINE f(s) == [o \in s |-> o.quantity * n.parts[o.item][i]]
  <2>1. /\ At(n, g)!Gross(i, d) = n.demand[i][d] + SumFunctionOnSet(f(At(n, g)!Needing(i, d)), At(n, g)!Needing(i, d))
        /\ At(n, h)!Gross(i, d) = n.demand[i][d] + SumFunctionOnSet(f(At(n, h)!Needing(i, d)), At(n, h)!Needing(i, d))
    BY GrossIs
  <2> HIDE DEF f
  <2> QED BY <2>1
<1>3. SameBuckets(n, g, h, i)
  <2> SUFFICES ASSUME NEW d \in 1..Horizon, NEW x
               PROVE  At(n, g)!Bucketed(i, d, x) = At(n, h)!Bucketed(i, d, x)
    BY DEF SameBuckets
  <2>1. At(n, g)!Bucket(i, d) <=> At(n, h)!Bucket(i, d)
    BY <1>2 DEF At!Bucket
  <2>2. \A y, z : At(n, g)!LotSized(i, y, z) = At(n, h)!LotSized(i, y, z)
    BY DEF At!LotSized, At!Larger, At!OrderMultiple, At!Ceiling
  <2>3. \A y, z : At(n, g)!Larger(y, z) = At(n, h)!Larger(y, z)
    BY DEF At!Larger
  <2> QED BY <1>2, <2>1, <2>2, <2>3 DEF At!Bucketed
<1>4. PICK p : Stepped(n, g, i, p, Horizon) /\ At(n, g)!Balance(i) = [d \in 1..Horizon |-> p[d]]
  BY BalanceRows
<1>5. PICK q : Stepped(n, h, i, q, Horizon) /\ At(n, h)!Balance(i) = [d \in 1..Horizon |-> q[d]]
  BY BalanceRows
<1>6. Horizon \in Nat
  BY InputTyped
<1>7. \A d \in 0..Horizon : p[d] = q[d]
  <2>1. RowsOf(n, g, i, p) /\ RowsOf(n, h, i, q) /\ p[0] = q[0]
    BY <1>4, <1>5 DEF Stepped, RowsOf
  <2> QED BY ONLY <1>3, <1>6, <2>1, StepsAgree
<1>8. \A d \in 1..Horizon : At(n, g)!Balance(i)[d] = At(n, h)!Balance(i)[d]
  BY <1>4, <1>5, <1>6, <1>7
<1> QED BY <1>1, <1>8

-----------------------------------------------------------------------------
(* The orders of a pass, and the items below others.                        *)

OrderOf(n, g, i, d) == [item |-> i, day |-> d, level |-> At(n, g)!Level(i, d),
                        quantity |-> At(n, g)!Balance(i)[d].planned]

LEMMA MadeIs ==
    ASSUME NEW n, NEW g
    PROVE  \A o : o \in Made(n, g) <=>
             \E i \in Items, d \in 1..Horizon :
               n.make[i] /\ At(n, g)!Balance(i)[d].planned > 0 /\ o = OrderOf(n, g, i, d)
<1>1. \A i \in Items : At(n, g)!Plan[i] = At(n, g)!Balance(i)
  BY DEF At!Plan
<1>2. \A i : At(n, g)!Makes(i) = n.make[i]
  BY DEF At!Makes
<1>3. At(n, g)!Days = 1..Horizon
  BY DEF At!Days
<1>4. SUFFICES ASSUME NEW o
               PROVE  o \in At(n, g)!Exploded(At(n, g)!Plan) <=>
                        \E i \in Items, d \in 1..Horizon :
                          n.make[i] /\ At(n, g)!Balance(i)[d].planned > 0 /\ o = OrderOf(n, g, i, d)
  BY DEF Made
<1>5. o \in At(n, g)!Exploded(At(n, g)!Plan) <=>
        \E x \in Items \X (1..Horizon) :
          /\ n.make[x[1]] /\ At(n, g)!Plan[x[1]][x[2]].planned > 0
          /\ o = [item |-> x[1], day |-> x[2], level |-> At(n, g)!Level(x[1], x[2]),
                  quantity |-> At(n, g)!Plan[x[1]][x[2]].planned]
  BY <1>2, <1>3 DEF At!Exploded
<1>6. \A i \in Items, d \in 1..Horizon :
        OrderOf(n, g, i, d) = [item |-> i, day |-> d, level |-> At(n, g)!Level(i, d),
                               quantity |-> At(n, g)!Plan[i][d].planned]
  BY <1>1 DEF OrderOf
<1>7. ASSUME NEW x \in Items \X (1..Horizon),
             n.make[x[1]] /\ At(n, g)!Plan[x[1]][x[2]].planned > 0,
             o = [item |-> x[1], day |-> x[2], level |-> At(n, g)!Level(x[1], x[2]),
                  quantity |-> At(n, g)!Plan[x[1]][x[2]].planned]
      PROVE  \E i \in Items, d \in 1..Horizon :
               n.make[i] /\ At(n, g)!Balance(i)[d].planned > 0 /\ o = OrderOf(n, g, i, d)
  <2>1. x[1] \in Items /\ x[2] \in 1..Horizon
    OBVIOUS
  <2>2. o = OrderOf(n, g, x[1], x[2]) /\ At(n, g)!Balance(x[1])[x[2]].planned > 0
    BY <1>1, <1>6, <1>7, <2>1
  <2> QED BY <1>7, <2>1, <2>2
<1>8. ASSUME NEW i \in Items, NEW d \in 1..Horizon,
             n.make[i] /\ At(n, g)!Balance(i)[d].planned > 0 /\ o = OrderOf(n, g, i, d)
      PROVE  o \in At(n, g)!Exploded(At(n, g)!Plan)
  <2> DEFINE x == <<i, d>>
  <2>1. x \in Items \X (1..Horizon) /\ x[1] = i /\ x[2] = d
    OBVIOUS
  <2> HIDE DEF x
  <2>2. /\ n.make[x[1]] /\ At(n, g)!Plan[x[1]][x[2]].planned > 0
        /\ o = [item |-> x[1], day |-> x[2], level |-> At(n, g)!Level(x[1], x[2]),
                quantity |-> At(n, g)!Plan[x[1]][x[2]].planned]
    BY <1>1, <1>6, <1>8, <2>1
  <2> QED BY <1>5, <2>1, <2>2
<1> QED BY <1>5, <1>7, <1>8

LEMMA MadeTyped ==
    ASSUME Netting!NettingAssumption, NEW n \in PlanInputs, NEW g, OrdersOf(g)
    PROVE  /\ IsFiniteSet(Made(n, g))
           /\ \A o \in Made(n, g) :
                /\ o.item \in Items /\ o.day \in 1..Horizon /\ o.level \in Nat /\ o.quantity \in Nat
                /\ n.make[o.item] /\ o.level = At(n, g)!Level(o.item, o.day)
                /\ o = [item |-> o.item, day |-> o.day, level |-> o.level, quantity |-> o.quantity]
<1>1. IsFiniteSet(Items) /\ Horizon \in Nat /\ PassLimit \in Nat
  BY InputTyped
<1>2. IsFiniteSet(Made(n, g))
  <2> DEFINE X == Items \X (1..Horizon)
             f == [x \in X |-> OrderOf(n, g, x[1], x[2])]
             R == {f[x] : x \in X}
  <2>1. IsFiniteSet(X)
    <3>1. IsFiniteSet(1..Horizon)
      BY <1>1, FS_Interval
    <3> QED BY <1>1, <3>1, FS_Product
  <2>2. f \in Surjection(X, R)
    <3> HIDE DEF X
    <3> QED BY DEF Surjection
  <2>3. Made(n, g) \subseteq R
    <3> SUFFICES ASSUME NEW o \in Made(n, g) PROVE o \in R
      OBVIOUS
    <3>1. PICK i \in Items, d \in 1..Horizon : o = OrderOf(n, g, i, d)
      BY MadeIs
    <3>2. <<i, d>> \in X /\ f[<<i, d>>] = o
      BY <3>1
    <3> HIDE DEF X, f
    <3> QED BY <3>2
  <2> HIDE DEF X, f, R
  <2>4. IsFiniteSet(R)
    BY <2>1, <2>2, FS_Surjection
  <2> QED BY <2>3, <2>4, FS_Subset
<1>3. ASSUME NEW o \in Made(n, g)
      PROVE  /\ o.item \in Items /\ o.day \in 1..Horizon /\ o.level \in Nat /\ o.quantity \in Nat
             /\ n.make[o.item] /\ o.level = At(n, g)!Level(o.item, o.day)
             /\ o = [item |-> o.item, day |-> o.day, level |-> o.level, quantity |-> o.quantity]
  <2>1. PICK i \in Items, d \in 1..Horizon : n.make[i] /\ o = OrderOf(n, g, i, d)
    BY MadeIs
  <2>2. At(n, g)!Balance(i)[d] \in BucketRow
    BY BalanceTyped
  <2>3. At(n, g)!Balance(i)[d].planned \in Nat
    BY <2>2 DEF BucketRow
  <2>4. At(n, g)!Level(i, d) \in Nat
    BY <1>1, LevelBounds
  <2> QED BY <2>1, <2>3, <2>4 DEF OrderOf
<1> QED BY <1>2, <1>3

LEMMA BelowTop == ASSUME NEW n PROVE ItemsBelow(n, 0) = Items
<1>1. ASSUME NEW c \in Items PROVE c \in ItemsBelow(n, 0)
  <2> DEFINE chain == [k \in 0..0 |-> c]
  <2>1. chain \in [0..0 -> Items] /\ chain[0] = c /\ 0..0 - 1 = {}
    OBVIOUS
  <2> HIDE DEF chain
  <2> QED BY <2>1 DEF ItemsBelow, At!Below
<1> QED BY <1>1 DEF ItemsBelow, At!Below

LEMMA BelowFeeds ==
    ASSUME NEW n, NEW k \in Nat, NEW i \in ItemsBelow(n, k), NEW c \in Items, n.make[i], n.parts[i][c] > 0
    PROVE  c \in ItemsBelow(n, k + 1)
<1>1. PICK chain \in [0..k -> Items] :
        chain[k] = i /\ \A m \in 0..k - 1 : n.make[chain[m]] /\ n.parts[chain[m]][chain[m + 1]] > 0
  BY DEF ItemsBelow, At!Below, At!Makes
<1> DEFINE longer == [m \in 0..k + 1 |-> IF m = k + 1 THEN c ELSE chain[m]]
<1>2. longer \in [0..k + 1 -> Items]
  BY <1>1
<1>3. longer[k + 1] = c
  OBVIOUS
<1>4. ASSUME NEW m \in 0..(k + 1) - 1 PROVE n.make[longer[m]] /\ n.parts[longer[m]][longer[m + 1]] > 0
  <2>1. m \in 0..k /\ longer[m] = chain[m]
    OBVIOUS
  <2>2. CASE m = k
    BY <1>1, <1>3, <2>1, <2>2
  <2>3. CASE m # k
    <3>1. m \in 0..k - 1 /\ longer[m + 1] = chain[m + 1]
      BY <2>1, <2>3
    <3> QED BY <1>1, <2>1, <3>1
  <2> QED BY <2>2, <2>3
<1> HIDE DEF longer
<1> QED BY <1>2, <1>3, <1>4 DEF ItemsBelow, At!Below, At!Makes


\* An order's level is a depth of its item below others.
LEMMA LevelBelow ==
    ASSUME NEW n, NEW g, OrdersOf(g), PassLimit \in Nat, NEW i \in Items, NEW d,
           \A o \in g : n.make[o.item] /\ o.item \in ItemsBelow(n, o.level)
    PROVE  i \in ItemsBelow(n, At(n, g)!Level(i, d))
<1>1. CASE At(n, g)!Level(i, d) = 0
  BY <1>1, BelowTop
<1>2. ASSUME NEW o \in At(n, g)!Needing(i, d), At(n, g)!Level(i, d) = o.level + 1
      PROVE  i \in ItemsBelow(n, At(n, g)!Level(i, d))
  <2>1. o \in g /\ n.parts[o.item][i] > 0
    BY DEF At!Needing
  <2>2. o.level \in Nat
    BY <2>1 DEF OrdersOf, Netting!Order
  <2> QED BY <1>2, <2>1, <2>2, BelowFeeds
<1> QED BY <1>1, <1>2, LevelBounds

\* Two passes plan the same orders for every item not k levels below another.
Settled(n, g, h, k) == \A o : o.item \in Items /\ o.item \notin ItemsBelow(n, k) => (o \in g <=> o \in h)

LEMMA SettledOneLevelMore ==
    ASSUME Netting!NettingAssumption, NEW n \in PlanInputs, NEW g, NEW h, OrdersOf(g), OrdersOf(h),
           \A o \in g \cup h : n.make[o.item], NEW k \in Nat, Settled(n, g, h, k)
    PROVE  Settled(n, Made(n, g), Made(n, h), k + 1)
<1> SUFFICES ASSUME NEW o, o.item \in Items, o.item \notin ItemsBelow(n, k + 1)
             PROVE  o \in Made(n, g) <=> o \in Made(n, h)
  BY DEF Settled
<1> DEFINE i == o.item
<1>1. ASSUME NEW d \in 1..Horizon PROVE At(n, g)!Needing(i, d) = At(n, h)!Needing(i, d)
  <2>1. ASSUME NEW p, p \in g \cup h, n.parts[p.item][i] > 0 PROVE p \in g <=> p \in h
    <3>1. p.item \in Items /\ n.make[p.item]
      BY <2>1 DEF OrdersOf, Netting!Order
    <3>2. p.item \notin ItemsBelow(n, k)
      BY <2>1, <3>1, BelowFeeds
    <3> QED BY <3>1, <3>2 DEF Settled
  <2>2. \A p : At(n, g)!OrderDay(p) = At(n, h)!OrderDay(p)
    BY DEF At!OrderDay, At!Larger
  <2>3. \A p : p \in At(n, g)!Needing(i, d) <=> p \in g /\ At(n, g)!OrderDay(p) = d /\ n.parts[p.item][i] > 0
    BY DEF At!Needing
  <2>4. \A p : p \in At(n, h)!Needing(i, d) <=> p \in h /\ At(n, h)!OrderDay(p) = d /\ n.parts[p.item][i] > 0
    BY DEF At!Needing
  <2>5. \A p : p \in At(n, g)!Needing(i, d) <=> p \in At(n, h)!Needing(i, d)
    BY <2>1, <2>2, <2>3, <2>4
  <2> QED BY <2>5 DEF At!Needing
<1>2. /\ \A d \in 1..Horizon : At(n, g)!Level(i, d) = At(n, h)!Level(i, d)
      /\ \A d \in 1..Horizon : At(n, g)!Balance(i)[d] = At(n, h)!Balance(i)[d]
  <2> HIDE DEF i
  <2>1. i \in Items
    BY DEF i
  <2> QED BY <1>1, <2>1, SameNeeds
<1>3. \A d \in 1..Horizon : OrderOf(n, g, i, d) = OrderOf(n, h, i, d)
  BY <1>2 DEF OrderOf
<1>4. \A j, d : OrderOf(n, g, j, d).item = j /\ OrderOf(n, h, j, d).item = j
  BY DEF OrderOf
<1>5. o \in Made(n, g) <=> \E d \in 1..Horizon :
        n.make[i] /\ At(n, g)!Balance(i)[d].planned > 0 /\ o = OrderOf(n, g, i, d)
  BY <1>4, MadeIs
<1>6. o \in Made(n, h) <=> \E d \in 1..Horizon :
        n.make[i] /\ At(n, h)!Balance(i)[d].planned > 0 /\ o = OrderOf(n, h, i, d)
  BY <1>4, MadeIs
<1> QED BY <1>2, <1>3, <1>5, <1>6

-----------------------------------------------------------------------------
(* A run of passes.                                                         *)

HasPart(n, i) == \E c \in Items : n.parts[i][c] > 0

RunSound(n, g, p, s) ==
    /\ n \in PlanInputs /\ OrdersOf(g) /\ p \in 0..PassLimit + 1
    /\ s \in {"running", "done", "not_converged", "too_deep", "no_bom"}
    /\ s = "running" =>
         /\ p <= PassLimit
         /\ \A o \in g : /\ n.make[o.item] /\ HasPart(n, o.item)
                         /\ o.level < PassLimit /\ o.item \in ItemsBelow(n, o.level)
         /\ Settled(n, g, Made(n, g), p)
    /\ s = "done" => g = Made(n, g)
    /\ s \in {"not_converged", "too_deep"} => ItemsBelow(n, PassLimit + 1) # {}

LEMMA RunStarts ==
    ASSUME Netting!NettingAssumption, NEW n \in PlanInputs
    PROVE  RunSound(n, {}, 0, "running")
<1>1. PassLimit \in Nat
  BY InputTyped
<1>2. OrdersOf({})
  BY FS_EmptySet DEF OrdersOf
<1>3. Settled(n, {}, Made(n, {}), 0)
  BY BelowTop DEF Settled
<1> QED BY <1>1, <1>2, <1>3 DEF RunSound

\* How a pass over the orders g ends, given the orders it explodes.
NoBom(n, h) == \E o \in h : \A c \in Items : n.parts[o.item][c] = 0
Deep(h) == \E o \in h : o.level >= PassLimit
Ended(n, g, h, p) ==
    CASE NoBom(n, h) -> "no_bom" [] Deep(h) /\ ~NoBom(n, h) -> "too_deep"
      [] h = g /\ ~(NoBom(n, h) \/ Deep(h)) -> "done"
      [] OTHER -> IF p >= PassLimit THEN "not_converged" ELSE "running"

LEMMA RunGoesOn ==
    ASSUME Netting!NettingAssumption, NEW n, NEW g, NEW p, RunSound(n, g, p, "running")
    PROVE  RunSound(n, Made(n, g), p + 1, Ended(n, g, Made(n, g), p))
<1> DEFINE h == Made(n, g)
           s == Ended(n, g, h, p)
<1>1. /\ n \in PlanInputs /\ OrdersOf(g) /\ p \in Nat /\ p <= PassLimit /\ PassLimit \in Nat
      /\ \A o \in g : /\ n.make[o.item] /\ HasPart(n, o.item)
                      /\ o.level < PassLimit /\ o.item \in ItemsBelow(n, o.level)
      /\ Settled(n, g, h, p)
  BY InputTyped DEF RunSound
<1>2. /\ IsFiniteSet(h)
      /\ \A o \in h : /\ o.item \in Items /\ o.day \in 1..Horizon /\ o.level \in Nat /\ o.quantity \in Nat
                      /\ n.make[o.item] /\ o.level = At(n, g)!Level(o.item, o.day)
                      /\ o = [item |-> o.item, day |-> o.day, level |-> o.level, quantity |-> o.quantity]
  BY <1>1, MadeTyped
<1> SUFFICES RunSound(n, h, p + 1, s)
  OBVIOUS
<1> HIDE DEF h
<1>0. p + 1 \in 0..PassLimit + 1
  BY <1>1
<1>3. ASSUME NEW o \in h PROVE o.level <= PassLimit
  <2>1. CASE At(n, g)!Level(o.item, o.day) = 0
    BY <1>1, <1>2, <2>1
  <2>2. ASSUME NEW q \in At(n, g)!Needing(o.item, o.day), At(n, g)!Level(o.item, o.day) = q.level + 1
        PROVE  o.level <= PassLimit
    <3>1. q \in g /\ q.level \in Nat
      BY <1>1 DEF At!Needing, OrdersOf, Netting!Order
    <3> QED BY <1>1, <1>2, <2>2, <3>1
  <2> QED BY <1>1, <2>1, <2>2, LevelBounds
<1>4. OrdersOf(h)
  <2>1. h \subseteq Netting!Order
    <3> SUFFICES ASSUME NEW o \in h PROVE o \in Netting!Order
      OBVIOUS
    <3>1. o.level \in 0..PassLimit
      BY <1>1, <1>2, <1>3
    <3> QED BY <1>2, <3>1 DEF Netting!Order, Netting!Days
  <2> QED BY <1>2, <2>1 DEF OrdersOf
<1>5. ASSUME NEW o \in h PROVE o.item \in ItemsBelow(n, o.level)
  <2>1. o.item \in ItemsBelow(n, At(n, g)!Level(o.item, o.day))
    <3>1. \A q \in g : n.make[q.item] /\ q.item \in ItemsBelow(n, q.level)
      BY <1>1
    <3>2. o.item \in Items
      BY <1>2
    <3> QED BY <1>1, <3>1, <3>2, LevelBelow
  <2> QED BY <1>2, <2>1
<1>6. ASSUME ~NoBom(n, h), NEW o \in h PROVE HasPart(n, o.item)
  <2>1. PICK c \in Items : n.parts[o.item][c] # 0
    BY <1>6 DEF NoBom
  <2>2. n.parts[o.item][c] \in Nat
    BY <1>1, <1>2, InputTyped
  <2> QED BY <2>1, <2>2 DEF HasPart
<1>7. ASSUME NEW o, HasPart(n, o.item), n.make[o.item], NEW k \in Nat, o.item \in ItemsBelow(n, k)
      PROVE  ItemsBelow(n, k + 1) # {}
  BY <1>7, BelowFeeds DEF HasPart
<1>8. s \in {"running", "done", "not_converged", "too_deep", "no_bom"}
  BY DEF Ended
<1>9. CASE s = "running"
  <2>1. ~NoBom(n, h) /\ ~Deep(h) /\ ~(p >= PassLimit)
    BY <1>9 DEF Ended
  <2>2. p + 1 <= PassLimit /\ p + 1 \in 0..PassLimit + 1
    BY <1>1, <2>1
  <2>3. \A o \in h : o.level < PassLimit
    BY <1>1, <1>2, <2>1 DEF Deep
  <2>4. Settled(n, h, Made(n, h), p + 1)
    BY <1>1, <1>2, <1>4, SettledOneLevelMore DEF h
  <2>5. \A o \in h : /\ n.make[o.item] /\ HasPart(n, o.item)
                    /\ o.level < PassLimit /\ o.item \in ItemsBelow(n, o.level)
    BY <1>2, <1>5, <1>6, <2>1, <2>3
  <2> HIDE DEF s
  <2> QED BY <1>0, <1>1, <1>4, <1>9, <2>2, <2>4, <2>5 DEF RunSound
<1>10. CASE s = "done"
  <2>1. h = g
    BY <1>10 DEF Ended
  <2>2. h = Made(n, h)
    BY <2>1 DEF h
  <2> HIDE DEF s
  <2> QED BY <1>0, <1>1, <1>4, <1>10, <2>2 DEF RunSound
<1>11. CASE s = "too_deep"
  <2>1. ~NoBom(n, h) /\ Deep(h)
    BY <1>11 DEF Ended
  <2>2. PICK o \in h : o.level >= PassLimit
    BY <2>1 DEF Deep
  <2>3. o.level = PassLimit
    BY <1>1, <1>2, <1>3, <2>2
  <2>4. ItemsBelow(n, PassLimit + 1) # {}
    BY <1>1, <1>2, <1>5, <1>6, <1>7, <2>1, <2>3
  <2> HIDE DEF s
  <2> QED BY <1>0, <1>1, <1>4, <1>11, <2>4 DEF RunSound
<1>12. CASE s = "not_converged"
  <2>1. ~NoBom(n, h) /\ ~Deep(h) /\ h # g /\ p >= PassLimit
    BY <1>12 DEF Ended
  <2>2. p = PassLimit
    BY <1>1, <2>1
  <2>3. PICK o : ~(o \in g <=> o \in h)
    BY <2>1
  <2>4. o.item \in Items /\ HasPart(n, o.item) /\ n.make[o.item]
    BY <1>1, <1>2, <1>6, <2>1, <2>3 DEF OrdersOf, Netting!Order
  <2>5. o.item \in ItemsBelow(n, PassLimit)
    BY <1>1, <2>2, <2>3, <2>4 DEF Settled
  <2>6. ItemsBelow(n, PassLimit + 1) # {}
    BY <1>1, <1>7, <2>4, <2>5
  <2> HIDE DEF s
  <2> QED BY <1>0, <1>1, <1>4, <1>12, <2>6 DEF RunSound
<1>13. CASE s = "no_bom"
  <2> HIDE DEF s
  <2> QED BY <1>0, <1>1, <1>4, <1>13 DEF RunSound
<1> HIDE DEF s
<1> QED BY <1>8, <1>9, <1>10, <1>11, <1>12, <1>13


NettingHolds == Netting!PlanCoversDemand /\ Netting!Converges
NettingInv == RunSound(input, generated, pass, outcome)

LEMMA BucketHere == ASSUME NEW i, NEW d PROVE Netting!Bucket(i, d) <=> At(input, generated)!Bucket(i, d)
BY Zenon DEF Netting!Bucket, At!Bucket, Netting!Gross, At!Gross, Netting!Needing, At!Needing,
             Netting!OrderDay, At!OrderDay, Netting!Larger, At!Larger, Netting!SumFunction, At!SumFunction,
             Netting!SumFunctionOnSet, At!SumFunctionOnSet, Netting!FoldFunctionOnSet, At!FoldFunctionOnSet,
             Netting!MapThenFoldSet, At!MapThenFoldSet

\* In a group of orders that are all exploded from themselves, one of the highest level of
\* the product structure is needed by none of the group.
LEMMA NoCycleOfOrders ==
    ASSUME Netting!NettingAssumption, NEW n \in PlanInputs, NEW g, OrdersOf(g), g = Made(n, g),
           NEW group \in SUBSET g, group # {}
    PROVE  \E p \in group : \A o \in group : ~(p.day = At(n, g)!OrderDay(o) /\ n.parts[o.item][p.item] > 0)
<1> DEFINE levels == {o.level : o \in group}
<1>1. \A o \in group : o.level \in Nat
  BY DEF OrdersOf, Netting!Order
<1>2. PICK least \in levels : \A k \in levels : k >= least
  <2>1. levels # {} /\ \A k \in levels : k \in Nat
    BY <1>1
  <2> HIDE DEF levels
  <2> QED BY <2>1, LeastNumber
<1>3. PICK p \in group : p.level = least
  BY <1>2
<1>4. ASSUME NEW o \in group, p.day = At(n, g)!OrderDay(o), n.parts[o.item][p.item] > 0
      PROVE  FALSE
  <2>1. o.level >= p.level
    BY <1>2, <1>3
  <2>2. o \in At(n, g)!Needing(p.item, p.day)
    BY <1>4 DEF At!Needing
  <2>3. o.level < At(n, g)!Level(p.item, p.day)
    BY <2>2, LevelBounds, InputTyped
  <2>4. p.level = At(n, g)!Level(p.item, p.day)
    BY <1>3, MadeTyped
  <2> QED BY <1>1, <1>3, <2>1, <2>3, <2>4
<1> QED BY <1>3, <1>4

LEMMA RunKeeps ==
    ASSUME Netting!NettingAssumption, NettingInv
    PROVE  NettingHolds
<1>1. input \in PlanInputs /\ OrdersOf(generated)
  BY DEF NettingInv, RunSound
<1>2. ASSUME outcome = "done" PROVE generated = Made(input, generated)
  BY <1>2 DEF NettingInv, RunSound
<1>3. ASSUME outcome = "done", NEW i \in Items, NEW d \in Netting!Days, Netting!Bucket(i, d)
      PROVE  Netting!Balance(i)[d].closing >= input.reorder[i]
  BY <1>1, <1>3, BalanceTyped, BalanceHere, BucketHere DEF Netting!Days
<1>4. Netting!PlanCoversDemand
  BY <1>2, <1>3, MadeHere DEF Netting!PlanCoversDemand
<1>5. Netting!Below(PassLimit + 1) = ItemsBelow(input, PassLimit + 1)
  BY DEF ItemsBelow, At!Below, At!Makes, Netting!Below, Netting!Makes
<1>6. outcome \in {"not_converged", "too_deep"} => Netting!Below(PassLimit + 1) # {}
  BY <1>5 DEF NettingInv, RunSound
<1>7. ASSUME outcome = "done", NEW group \in (SUBSET generated) \ {{}}
      PROVE  \E p \in group : \A o \in group : ~Netting!Feeds(o, p)
  <2>1. PICK p \in group : \A o \in group :
          ~(p.day = At(input, generated)!OrderDay(o) /\ input.parts[o.item][p.item] > 0)
    BY <1>1, <1>2, <1>7, NoCycleOfOrders
  <2>2. \A o : Netting!OrderDay(o) = At(input, generated)!OrderDay(o)
    BY DEF Netting!OrderDay, At!OrderDay, Netting!Larger, At!Larger
  <2> QED BY <2>1, <2>2 DEF Netting!Feeds
<1> QED BY <1>4, <1>6, <1>7 DEF NettingHolds, Netting!Converges

LEMMA NettingGoesOn ==
    ASSUME Netting!NettingAssumption, NettingInv, [Netting!Next]_(Netting!vars)
    PROVE  NettingInv'
<1>1. CASE UNCHANGED Netting!vars
  BY <1>1 DEF NettingInv, Netting!vars
<1>2. CASE Netting!Pass
  <2> DEFINE h == Made(input, generated)
  <2>1. /\ outcome = "running" /\ input' = input /\ generated' = h /\ pass' = pass + 1
        /\ outcome' = CASE Netting!MissingBom(h) -> "no_bom"
                        [] Netting!TooDeep(h) /\ ~Netting!MissingBom(h) -> "too_deep"
                        [] h = generated /\ ~(Netting!MissingBom(h) \/ Netting!TooDeep(h)) -> "done"
                        [] OTHER -> IF Netting!LastPass(pass) THEN "not_converged" ELSE "running"
    BY <1>2, MadeHere DEF Netting!Pass
  <2> HIDE DEF h
  <2>2. outcome' = Ended(input, generated, h, pass)
    BY <2>1 DEF Ended, NoBom, Deep, Netting!MissingBom, Netting!TooDeep, Netting!LastPass
  <2>3. RunSound(input, h, pass + 1, Ended(input, generated, h, pass))
    BY <2>1, RunGoesOn DEF NettingInv, h
  <2> QED BY <2>1, <2>2, <2>3 DEF NettingInv
<1> QED BY <1>1, <1>2 DEF Netting!Next

LEMMA InitNetting == ASSUME Netting!NettingAssumption, Netting!Init PROVE NettingInv
<1>1. input \in PlanInputs /\ generated = {} /\ pass = 0 /\ outcome = "running"
  BY DEF Netting!Init
<1> QED BY <1>1, RunStarts DEF NettingInv

LEMMA NettingSafe ==
    ASSUME Netting!NettingAssumption
    PROVE  Netting!Init /\ [][Netting!Next]_(Netting!vars) => []NettingHolds
<1>1. Netting!Init => NettingInv
  BY InitNetting
<1>2. NettingInv /\ [Netting!Next]_(Netting!vars) => NettingInv'
  BY NettingGoesOn
<1>3. NettingInv => NettingHolds
  BY RunKeeps
<1> QED BY <1>1, <1>2, <1>3, PTL

\* A run that ends well covers every bucket of its demand, the component demand its own
\* orders explode included, and no group of its orders waits for itself; a run fails for
\* its passes or its levels only over a structure deeper than the limit.
THEOREM NettingKept == Netting!NettingAssumption => (Netting!Spec => []NettingHolds)
<1> SUFFICES ASSUME Netting!NettingAssumption PROVE Netting!Spec => []NettingHolds
  OBVIOUS
<1>1. Netting!Init /\ [][Netting!Next]_(Netting!vars) => []NettingHolds
  BY NettingSafe
<1> QED BY <1>1, PTL DEF Netting!Spec

-----------------------------------------------------------------------------
(* InventoryPosting.                                                        *)

\* The sums of valued stock are those of this module.
LEMMA StockSums == ASSUME NEW f PROVE Stock!SumFunction(f) = SumFunctionOnSet(f, DOMAIN f)
  BY DEF Stock!SumFunction, Stock!SumFunctionOnSet, SumFunctionOnSet, Stock!FoldFunctionOnSet,
         FoldFunctionOnSet, Stock!MapThenFoldSet, MapThenFoldSet

\* What a sum leaves out does not count when it is nothing.
LEMMA SumKept ==
    ASSUME NEW S, IsFiniteSet(S), NEW T \in SUBSET S, NEW f, \A x \in S : f[x] \in Int,
           \A x \in S \ T : f[x] = 0
    PROVE  SumFunctionOnSet(f, S) = SumFunctionOnSet(f, T)
<1>1. IsFiniteSet(T) /\ IsFiniteSet(S \ T) /\ S = T \cup (S \ T) /\ T \cap (S \ T) = {}
  BY FS_Subset
<1>2. SumFunctionOnSet(f, S) = SumFunctionOnSet(f, T) + SumFunctionOnSet(f, S \ T)
  BY <1>1, SumUnion
<1>3. SumFunctionOnSet(f, S \ T) = 0
  BY <1>1, SumZero
<1>4. SumFunctionOnSet(f, T) \in Int
  BY <1>1, SumInteger
<1> QED BY <1>2, <1>3, <1>4

\* Rounding half up is off by half a unit at most.
LEMMA DivBounds ==
    ASSUME NEW n \in Int, NEW d \in Nat \ {0}
    PROVE  /\ n \div d \in Int /\ d * (n \div d) <= n /\ n < d * (n \div d) + d
           /\ n >= 0 => n \div d \in Nat
  BY SMT

LEMMA RoundedBounds ==
    ASSUME NEW a \in Int, NEW b \in Nat \ {0}
    PROVE  /\ Stock!Rounded(a, b) \in Int
           /\ 2 * (b * Stock!Rounded(a, b)) <= 2 * a + b
           /\ 2 * a + b < 2 * (b * Stock!Rounded(a, b)) + 2 * b
           /\ a >= 0 => Stock!Rounded(a, b) \in Nat
<1> DEFINE n == 2 * a + b
           d == 2 * b
           r == n \div d
<1>1. n \in Int /\ d \in Nat \ {0} /\ (a >= 0 => n >= 0)
  OBVIOUS
<1>2. r \in Int /\ d * r <= n /\ n < d * r + d /\ (n >= 0 => r \in Nat)
  <2> HIDE DEF n, d
  <2> QED BY <1>1, DivBounds
<1>3. Stock!Rounded(a, b) = r
  BY DEF Stock!Rounded
<1> HIDE DEF r
<1>4. d * r = 2 * (b * r)
  BY <1>2
<1> QED BY <1>1, <1>2, <1>3, <1>4

\* An average-valued issue of everything, of fewer units than the rate has parts, is worth everything.
LEMMA AllIsWorthAll ==
    ASSUME NEW q \in Nat \ {0}, NEW s \in Nat \ {0}, q < s, NEW v \in Int, NEW r \in Int, NEW u \in Int,
           2 * (q * r) <= 2 * (v * s) + q, 2 * (v * s) + q < 2 * (q * r) + 2 * q,
           2 * (s * u) <= 2 * (q * r) + s, 2 * (q * r) + s < 2 * (s * u) + 2 * s
    PROVE  u = v
<1>1. s * u - s * v \in Int /\ q * r \in Int /\ v * s \in Int /\ s * u \in Int
  BY SMT
<1>2. s * u - s * v < s /\ s * u - s * v > -s
  BY <1>1, SMT
<1>3. s * (u - v) < s /\ s * (u - v) > -s
  BY <1>2, SMT
<1>4. ASSUME NEW w \in Int, w >= 1 PROVE s * w >= s
  BY <1>4, SMT
<1>5. ~(u - v >= 1)
  BY <1>3, <1>4, SMT
<1>6. ~(v - u >= 1)
  <2>1. s * (v - u) < s
    BY <1>3, SMT
  <2> QED BY <2>1, <1>4, SMT
<1> QED BY <1>5, <1>6, SMT

LEMMA LastIssueTakesAll ==
    ASSUME RateScale \in Nat \ {0}, NEW q \in Nat \ {0}, q < RateScale, NEW v \in Int
    PROVE  Stock!Amount(q, Stock!Rate(v, q)) = v
<1> DEFINE a == v * RateScale
           r == Stock!Rounded(a, q)
           e == q * r
           u == Stock!Rounded(e, RateScale)
<1>1. a \in Int
  OBVIOUS
<1>2. r \in Int /\ 2 * (q * r) <= 2 * a + q /\ 2 * a + q < 2 * (q * r) + 2 * q
  <2> HIDE DEF a
  <2> QED BY <1>1, RoundedBounds
<1>3. e \in Int
  <2> HIDE DEF r
  <2> QED BY <1>2
<1>4. u \in Int /\ 2 * (RateScale * u) <= 2 * e + RateScale /\ 2 * e + RateScale < 2 * (RateScale * u) + 2 * RateScale
  <2> HIDE DEF e
  <2> QED BY <1>3, RoundedBounds
<1>5. u = v
  <2> HIDE DEF r, u
  <2> QED BY <1>2, <1>4, AllIsWorthAll
<1> QED BY <1>5 DEF Stock!Amount, Stock!Rate

LEMMA AmountTyped ==
    ASSUME RateScale \in Nat \ {0}, NEW q \in Nat, NEW r \in Int
    PROVE  Stock!Amount(q, r) \in Int
<1>1. q * r \in Int
  OBVIOUS
<1> QED BY <1>1, RoundedBounds DEF Stock!Amount

LEMMA RateTyped ==
    ASSUME RateScale \in Nat \ {0}, NEW q \in Nat \ {0}, NEW v \in Int
    PROVE  Stock!Rate(v, q) \in Int /\ (v >= 0 => Stock!Rate(v, q) \in Nat)
<1>1. v * RateScale \in Int /\ (v >= 0 => v * RateScale >= 0)
  BY SMT
<1> QED BY <1>1, RoundedBounds DEF Stock!Rate

-----------------------------------------------------------------------------
(* Rows of an item, warehouse and batch, and what they come to, as functions *)
(* of the rows and of the tracked items.                                     *)

TraceRows(rows, on, i, w, b) ==
    {k \in DOMAIN rows : rows[k].item = i /\ rows[k].warehouse = w /\ (i \in on => rows[k].batch = b)}
Counts(rows) == [k \in DOMAIN rows |-> rows[k].quantity]
Worths(rows) == [k \in DOMAIN rows |-> rows[k].value]
Lefts(rows) == [k \in DOMAIN rows |-> rows[k].quantity - rows[k].used]

Held(rows, on, i, w, b) == SumFunctionOnSet(Counts(rows), TraceRows(rows, on, i, w, b))
Worth(rows, on, i, w, b) == SumFunctionOnSet(Worths(rows), TraceRows(rows, on, i, w, b))
Backing(rows, on, i, w, b) == SumFunctionOnSet(Lefts(rows), TraceRows(rows, on, i, w, b))

LEMMA RowsFinite ==
    ASSUME NEW T, NEW rows \in Seq(T)
    PROVE  /\ IsFiniteSet(DOMAIN rows) /\ DOMAIN rows = 1 .. Len(rows) /\ Len(rows) \in Nat
           /\ \A k \in DOMAIN rows : rows[k] \in T
           /\ \A S \in SUBSET DOMAIN rows : IsFiniteSet(S)
           /\ \A on, i, w, b : TraceRows(rows, on, i, w, b) \subseteq DOMAIN rows
<1>1. DOMAIN rows = 1 .. Len(rows) /\ Len(rows) \in Nat
  OBVIOUS
<1>2. IsFiniteSet(DOMAIN rows)
  BY <1>1, FS_Interval
<1> QED BY <1>1, <1>2, FS_Subset DEF TraceRows

LEMMA MovementsTyped ==
    ASSUME NEW ms \in Seq(Stock!MovementRecords)
    PROVE  /\ \A k \in DOMAIN ms : /\ Counts(ms)[k] = ms[k].quantity /\ ms[k].quantity \in Int
                                   /\ Worths(ms)[k] = ms[k].value /\ ms[k].value \in Int
           /\ \A S \in SUBSET DOMAIN ms : SumFunctionOnSet(Counts(ms), S) \in Int /\ SumFunctionOnSet(Worths(ms), S) \in Int
           /\ \A on, i, w, b : Held(ms, on, i, w, b) \in Int /\ Worth(ms, on, i, w, b) \in Int
<1>1. \A k \in DOMAIN ms : ms[k] \in Stock!MovementRecords
  OBVIOUS
<1>2. \A k \in DOMAIN ms : ms[k].quantity \in Int /\ ms[k].value \in Int
  BY <1>1 DEF Stock!MovementRecords
<1>3. \A k \in DOMAIN ms : Counts(ms)[k] = ms[k].quantity /\ Worths(ms)[k] = ms[k].value
  BY DEF Counts, Worths
<1> HIDE DEF Counts, Worths
<1>4. ASSUME NEW S \in SUBSET DOMAIN ms
      PROVE  SumFunctionOnSet(Counts(ms), S) \in Int /\ SumFunctionOnSet(Worths(ms), S) \in Int
  <2>1. IsFiniteSet(S)
    BY RowsFinite
  <2>2. \A k \in S : Counts(ms)[k] \in Int /\ Worths(ms)[k] \in Int
    BY <1>2, <1>3
  <2> QED BY <2>1, <2>2, SumInteger
<1>5. ASSUME NEW on, NEW i, NEW w, NEW b PROVE Held(ms, on, i, w, b) \in Int /\ Worth(ms, on, i, w, b) \in Int
  <2>1. TraceRows(ms, on, i, w, b) \in SUBSET DOMAIN ms
    BY DEF TraceRows
  <2> QED BY <2>1, <1>4 DEF Held, Worth
<1> QED BY <1>2, <1>3, <1>4, <1>5

LEMMA LayersTyped ==
    ASSUME NEW ls \in Seq(Stock!LayerRecords)
    PROVE  /\ \A k \in DOMAIN ls : /\ Lefts(ls)[k] = ls[k].quantity - ls[k].used /\ Lefts(ls)[k] \in Int
                                   /\ ls[k].quantity \in Nat \ {0} /\ ls[k].used \in Nat /\ ls[k].rate \in Nat
           /\ \A on, i, w, b : Backing(ls, on, i, w, b) \in Int
<1>1. \A k \in DOMAIN ls : ls[k] \in Stock!LayerRecords
  OBVIOUS
<1>2. \A k \in DOMAIN ls : ls[k].quantity \in Nat \ {0} /\ ls[k].used \in Nat /\ ls[k].rate \in Nat
  BY <1>1 DEF Stock!LayerRecords
<1>3. \A k \in DOMAIN ls : Lefts(ls)[k] = ls[k].quantity - ls[k].used
  BY DEF Lefts
<1>4. \A k \in DOMAIN ls : Lefts(ls)[k] \in Int
  BY <1>2, <1>3
<1> HIDE DEF Lefts
<1>5. ASSUME NEW on, NEW i, NEW w, NEW b PROVE Backing(ls, on, i, w, b) \in Int
  <2>1. TraceRows(ls, on, i, w, b) \in SUBSET DOMAIN ls
    BY DEF TraceRows
  <2>2. IsFiniteSet(TraceRows(ls, on, i, w, b))
    BY <2>1, RowsFinite
  <2> QED BY <1>4, <2>1, <2>2, SumInteger DEF Backing
<1> QED BY <1>2, <1>3, <1>4, <1>5

\* The balances and layers of the module are these.
LEMMA BalancesAre ==
    ASSUME Stock!TypeOK, NEW i, NEW w, NEW b
    PROVE  /\ Stock!Rows(i, w, b) = TraceRows(movements, traced, i, w, b)
           /\ Stock!Lots(i, w, b) = TraceRows(layers, traced, i, w, b)
           /\ Stock!BalanceQuantity(i, w, b) = Held(movements, traced, i, w, b)
           /\ Stock!BalanceValue(i, w, b) = Worth(movements, traced, i, w, b)
           /\ SumFunctionOnSet([k \in Stock!Lots(i, w, b) |-> Stock!Remaining(k)], Stock!Lots(i, w, b))
                = Backing(layers, traced, i, w, b)
           /\ \A k \in DOMAIN layers : Stock!Remaining(k) = Lefts(layers)[k]
<1> DEFINE R == TraceRows(movements, traced, i, w, b)
           L == TraceRows(layers, traced, i, w, b)
<1>1. Stock!Rows(i, w, b) = R /\ Stock!Lots(i, w, b) = L
  BY DEF Stock!Rows, Stock!Lots, Stock!Traced, TraceRows
<1>2. movements \in Seq(Stock!MovementRecords) /\ layers \in Seq(Stock!LayerRecords)
  BY DEF Stock!TypeOK
<1>3. R \in SUBSET DOMAIN movements /\ L \in SUBSET DOMAIN layers
  BY DEF TraceRows
<1>4. IsFiniteSet(R) /\ IsFiniteSet(L)
  BY <1>2, <1>3, RowsFinite
<1> HIDE DEF R, L
<1>5. \A k \in R : /\ Counts(movements)[k] \in Int /\ Counts(movements)[k] = [j \in R |-> movements[j].quantity][k]
                   /\ Worths(movements)[k] \in Int /\ Worths(movements)[k] = [j \in R |-> movements[j].value][k]
  BY <1>2, <1>3, MovementsTyped
<1>6. Stock!BalanceQuantity(i, w, b) = Held(movements, traced, i, w, b)
  <2>1. Stock!BalanceQuantity(i, w, b) = SumFunctionOnSet([j \in R |-> movements[j].quantity], R)
    BY <1>1, StockSums DEF Stock!BalanceQuantity
  <2> QED BY <2>1, <1>4, <1>5, SumSame DEF Held, R
<1>7. Stock!BalanceValue(i, w, b) = Worth(movements, traced, i, w, b)
  <2>1. Stock!BalanceValue(i, w, b) = SumFunctionOnSet([j \in R |-> movements[j].value], R)
    BY <1>1, StockSums DEF Stock!BalanceValue
  <2> QED BY <2>1, <1>4, <1>5, SumSame DEF Worth, R
<1>8. \A k \in DOMAIN layers : Stock!Remaining(k) = Lefts(layers)[k]
  BY DEF Stock!Remaining, Lefts
<1>9. SumFunctionOnSet([k \in L |-> Stock!Remaining(k)], L) = Backing(layers, traced, i, w, b)
  <2>1. \A k \in L : /\ Lefts(layers)[k] \in Int
                     /\ Lefts(layers)[k] = [j \in L |-> Stock!Remaining(j)][k]
    BY <1>2, <1>3, <1>8, LayersTyped
  <2> QED BY <2>1, <1>4, SumSame DEF Backing, L
<1> QED BY <1>1, <1>6, <1>7, <1>8, <1>9 DEF R, L

\* One row more.
Belongs(row, on, i, w, b) == row.item = i /\ row.warehouse = w /\ (i \in on => row.batch = b)

LEMMA RowAppended ==
    ASSUME NEW T, NEW rows \in Seq(T), NEW row \in T, NEW on, NEW i, NEW w, NEW b
    PROVE  LET more == Append(rows, row)
               n == Len(rows) + 1
           IN  /\ more \in Seq(T) /\ DOMAIN more = DOMAIN rows \cup {n} /\ n \notin DOMAIN rows
               /\ more[n] = row /\ \A k \in DOMAIN rows : more[k] = rows[k]
               /\ Belongs(row, on, i, w, b) =>
                    TraceRows(more, on, i, w, b) = TraceRows(rows, on, i, w, b) \cup {n}
               /\ ~Belongs(row, on, i, w, b) =>
                    TraceRows(more, on, i, w, b) = TraceRows(rows, on, i, w, b)
<1> DEFINE more == Append(rows, row)
           n == Len(rows) + 1
<1>1. more \in Seq(T) /\ DOMAIN more = 1 .. n /\ DOMAIN rows = 1 .. Len(rows) /\ Len(rows) \in Nat
  OBVIOUS
<1>2. more[n] = row /\ \A k \in 1 .. Len(rows) : more[k] = rows[k]
  OBVIOUS
<1> HIDE DEF more
<1>3. 1 .. n = (1 .. Len(rows)) \cup {n} /\ n \notin 1 .. Len(rows)
  BY <1>1
<1>4. DOMAIN more = DOMAIN rows \cup {n} /\ n \notin DOMAIN rows /\ \A k \in DOMAIN rows : more[k] = rows[k]
  BY <1>1, <1>2, <1>3
<1>5. ASSUME Belongs(row, on, i, w, b)
      PROVE  TraceRows(more, on, i, w, b) = TraceRows(rows, on, i, w, b) \cup {n}
  BY <1>2, <1>4, <1>5, Zenon DEF TraceRows, Belongs
<1>6. ASSUME ~Belongs(row, on, i, w, b)
      PROVE  TraceRows(more, on, i, w, b) = TraceRows(rows, on, i, w, b)
  BY <1>2, <1>4, <1>6, Zenon DEF TraceRows, Belongs
<1> QED BY <1>1, <1>2, <1>4, <1>5, <1>6 DEF more

LEMMA SumAppended ==
    ASSUME NEW S, IsFiniteSet(S), NEW f, NEW g, NEW n, n \notin S,
           \A x \in S : f[x] \in Int /\ f[x] = g[x], g[n] \in Int
    PROVE  SumFunctionOnSet(g, S \cup {n}) = SumFunctionOnSet(f, S) + g[n] /\ SumFunctionOnSet(g, S) = SumFunctionOnSet(f, S)
<1>1. SumFunctionOnSet(f, S) = SumFunctionOnSet(g, S)
  BY SumSame
<1>2. SumFunctionOnSet(g, S \cup {n}) = g[n] + SumFunctionOnSet(g, S)
  BY SumWith
<1>3. SumFunctionOnSet(f, S) \in Int
  BY SumInteger
<1> QED BY <1>1, <1>2, <1>3

LEMMA MovementAppended ==
    ASSUME NEW ms \in Seq(Stock!MovementRecords), NEW m \in Stock!MovementRecords
    PROVE  LET more == Append(ms, m) IN
           /\ SumFunctionOnSet(Worths(more), DOMAIN more) = SumFunctionOnSet(Worths(ms), DOMAIN ms) + m.value
           /\ \A on, i, w, b : LET here == Belongs(m, on, i, w, b) IN
                /\ here => /\ Held(more, on, i, w, b) = Held(ms, on, i, w, b) + m.quantity
                           /\ Worth(more, on, i, w, b) = Worth(ms, on, i, w, b) + m.value
                /\ ~here => /\ Held(more, on, i, w, b) = Held(ms, on, i, w, b)
                            /\ Worth(more, on, i, w, b) = Worth(ms, on, i, w, b)
<1> DEFINE more == Append(ms, m)
           n == Len(ms) + 1
<1>1. /\ more \in Seq(Stock!MovementRecords) /\ DOMAIN more = DOMAIN ms \cup {n} /\ n \notin DOMAIN ms
      /\ more[n] = m /\ \A k \in DOMAIN ms : more[k] = ms[k]
  BY RowAppended
<1>2. \A on, i, w, b : /\ Belongs(m, on, i, w, b) => TraceRows(more, on, i, w, b) = TraceRows(ms, on, i, w, b) \cup {n}
                       /\ ~Belongs(m, on, i, w, b) => TraceRows(more, on, i, w, b) = TraceRows(ms, on, i, w, b)
  BY RowAppended
<1> HIDE DEF more, n
<1>3. /\ \A k \in DOMAIN ms : /\ Counts(ms)[k] \in Int /\ Counts(ms)[k] = Counts(more)[k]
                              /\ Worths(ms)[k] \in Int /\ Worths(ms)[k] = Worths(more)[k]
      /\ Counts(more)[n] = m.quantity /\ Counts(more)[n] \in Int
      /\ Worths(more)[n] = m.value /\ Worths(more)[n] \in Int
  <2>1. /\ \A k \in DOMAIN ms : /\ Counts(ms)[k] = ms[k].quantity /\ ms[k].quantity \in Int
                                /\ Worths(ms)[k] = ms[k].value /\ ms[k].value \in Int
        /\ \A k \in DOMAIN more : /\ Counts(more)[k] = more[k].quantity /\ more[k].quantity \in Int
                                  /\ Worths(more)[k] = more[k].value /\ more[k].value \in Int
    BY <1>1, MovementsTyped
  <2> QED BY <1>1, <2>1
<1>4. ASSUME NEW S \in SUBSET DOMAIN ms
      PROVE  /\ SumFunctionOnSet(Counts(more), S \cup {n}) = SumFunctionOnSet(Counts(ms), S) + m.quantity
             /\ SumFunctionOnSet(Worths(more), S \cup {n}) = SumFunctionOnSet(Worths(ms), S) + m.value
             /\ SumFunctionOnSet(Counts(more), S) = SumFunctionOnSet(Counts(ms), S)
             /\ SumFunctionOnSet(Worths(more), S) = SumFunctionOnSet(Worths(ms), S)
  <2>1. IsFiniteSet(S) /\ n \notin S
    BY <1>1, RowsFinite
  <2>2. \A x \in S : /\ Counts(ms)[x] \in Int /\ Counts(ms)[x] = Counts(more)[x]
                     /\ Worths(ms)[x] \in Int /\ Worths(ms)[x] = Worths(more)[x]
    BY <1>3
  <2>3. /\ SumFunctionOnSet(Counts(more), S \cup {n}) = SumFunctionOnSet(Counts(ms), S) + Counts(more)[n]
        /\ SumFunctionOnSet(Counts(more), S) = SumFunctionOnSet(Counts(ms), S)
    BY <2>1, <2>2, <1>3, SumAppended
  <2>4. /\ SumFunctionOnSet(Worths(more), S \cup {n}) = SumFunctionOnSet(Worths(ms), S) + Worths(more)[n]
        /\ SumFunctionOnSet(Worths(more), S) = SumFunctionOnSet(Worths(ms), S)
    BY <2>1, <2>2, <1>3, SumAppended
  <2> QED BY <2>3, <2>4, <1>3
<1>5. SumFunctionOnSet(Worths(more), DOMAIN more) = SumFunctionOnSet(Worths(ms), DOMAIN ms) + m.value
  BY <1>1, <1>4
<1>6. ASSUME NEW on, NEW i, NEW w, NEW b
      PROVE  LET here == Belongs(m, on, i, w, b) IN
               /\ here => /\ Held(more, on, i, w, b) = Held(ms, on, i, w, b) + m.quantity
                          /\ Worth(more, on, i, w, b) = Worth(ms, on, i, w, b) + m.value
               /\ ~here => /\ Held(more, on, i, w, b) = Held(ms, on, i, w, b)
                           /\ Worth(more, on, i, w, b) = Worth(ms, on, i, w, b)
  <2>1. TraceRows(ms, on, i, w, b) \in SUBSET DOMAIN ms
    BY DEF TraceRows
  <2>2. CASE Belongs(m, on, i, w, b)
    <3>1. TraceRows(more, on, i, w, b) = TraceRows(ms, on, i, w, b) \cup {n}
      BY <1>2, <2>2
    <3> QED BY <2>1, <2>2, <3>1, <1>4 DEF Held, Worth
  <2>3. CASE ~Belongs(m, on, i, w, b)
    <3>1. TraceRows(more, on, i, w, b) = TraceRows(ms, on, i, w, b)
      BY <1>2, <2>3
    <3> QED BY <2>1, <2>3, <3>1, <1>4 DEF Held, Worth
  <2> QED BY <2>2, <2>3
<1> QED BY <1>5, <1>6 DEF more

LEMMA LayerAppended ==
    ASSUME NEW ls \in Seq(Stock!LayerRecords), NEW l \in Stock!LayerRecords, NEW on, NEW i, NEW w, NEW b
    PROVE  LET more == Append(ls, l)
           IN  /\ Belongs(l, on, i, w, b) => Backing(more, on, i, w, b) = Backing(ls, on, i, w, b) + l.quantity - l.used
               /\ ~Belongs(l, on, i, w, b) => Backing(more, on, i, w, b) = Backing(ls, on, i, w, b)
<1> DEFINE more == Append(ls, l)
           n == Len(ls) + 1
           S == TraceRows(ls, on, i, w, b)
<1>1. /\ more \in Seq(Stock!LayerRecords) /\ DOMAIN more = DOMAIN ls \cup {n} /\ n \notin DOMAIN ls
      /\ more[n] = l /\ \A k \in DOMAIN ls : more[k] = ls[k]
  BY RowAppended
<1>2. /\ Belongs(l, on, i, w, b) => TraceRows(more, on, i, w, b) = S \cup {n}
      /\ ~Belongs(l, on, i, w, b) => TraceRows(more, on, i, w, b) = S
  BY RowAppended
<1> HIDE DEF more, n
<1>3. n \in DOMAIN more /\ DOMAIN ls \subseteq DOMAIN more
  BY <1>1
<1>4. \A k \in DOMAIN ls : Lefts(ls)[k] \in Int /\ Lefts(ls)[k] = Lefts(more)[k]
  <2> SUFFICES ASSUME NEW k \in DOMAIN ls PROVE Lefts(ls)[k] \in Int /\ Lefts(ls)[k] = Lefts(more)[k]
    OBVIOUS
  <2>1. Lefts(ls)[k] = ls[k].quantity - ls[k].used /\ Lefts(ls)[k] \in Int
    BY LayersTyped
  <2>2. Lefts(more)[k] = more[k].quantity - more[k].used
    BY <1>3 DEF Lefts
  <2> QED BY <2>1, <2>2, <1>1
<1>5. Lefts(more)[n] = l.quantity - l.used /\ Lefts(more)[n] \in Int
  <2>1. Lefts(more)[n] = more[n].quantity - more[n].used /\ Lefts(more)[n] \in Int
    BY <1>1, <1>3, LayersTyped
  <2> QED BY <2>1, <1>1
<1>6. S \in SUBSET DOMAIN ls /\ IsFiniteSet(S) /\ n \notin S
  <2>1. S \in SUBSET DOMAIN ls
    BY DEF TraceRows
  <2> QED BY <2>1, <1>1, RowsFinite
<1> HIDE DEF S
<1>7. SumFunctionOnSet(Lefts(more), S \cup {n}) = SumFunctionOnSet(Lefts(ls), S) + Lefts(more)[n]
      /\ SumFunctionOnSet(Lefts(more), S) = SumFunctionOnSet(Lefts(ls), S)
  BY <1>4, <1>5, <1>6, SumAppended
<1>8. l.quantity \in Int /\ l.used \in Int /\ SumFunctionOnSet(Lefts(ls), S) \in Int
  <2>1. l.quantity \in Int /\ l.used \in Int
    BY DEF Stock!LayerRecords
  <2> QED BY <2>1, <1>4, <1>6, SumInteger
<1> QED BY <1>2, <1>5, <1>7, <1>8 DEF Backing, more, S

\* Layers of which a post consumed something.
Drawn(takes, k) == IF k \in DOMAIN takes THEN takes[k] ELSE 0
Taken(ls, takes) ==
    [k \in DOMAIN ls |-> IF k \in DOMAIN takes THEN [ls[k] EXCEPT !.used = @ + takes[k]] ELSE ls[k]]

LEMMA LayersTaken ==
    ASSUME NEW ls \in Seq(Stock!LayerRecords), NEW takes \in Seq(Nat)
    PROVE  LET less == Taken(ls, takes) IN
           /\ less \in Seq(Stock!LayerRecords) /\ Len(less) = Len(ls) /\ DOMAIN less = DOMAIN ls
           /\ \A k \in DOMAIN ls : /\ less[k].item = ls[k].item /\ less[k].quantity = ls[k].quantity
                                   /\ Lefts(less)[k] = Lefts(ls)[k] - Drawn(takes, k) /\ Drawn(takes, k) \in Nat
           /\ \A on, i, w, b : TraceRows(less, on, i, w, b) = TraceRows(ls, on, i, w, b)
<1> DEFINE less == Taken(ls, takes)
<1>1. DOMAIN less = DOMAIN ls /\ DOMAIN ls = 1 .. Len(ls) /\ Len(ls) \in Nat
  BY DEF Taken
<1>2. \A k \in DOMAIN takes : takes[k] \in Nat
  OBVIOUS
<1>3. ASSUME NEW k \in DOMAIN ls
      PROVE  /\ less[k] \in Stock!LayerRecords /\ Drawn(takes, k) \in Nat
             /\ less[k].item = ls[k].item /\ less[k].warehouse = ls[k].warehouse /\ less[k].batch = ls[k].batch
             /\ less[k].quantity = ls[k].quantity /\ less[k].used = ls[k].used + Drawn(takes, k)
  <2>1. ls[k] \in Stock!LayerRecords
    OBVIOUS
  <2>2. ls[k].used \in Nat
    BY <2>1 DEF Stock!LayerRecords
  <2>3. CASE k \in DOMAIN takes
    <3>1. less[k] = [ls[k] EXCEPT !.used = ls[k].used + takes[k]] /\ takes[k] \in Nat
      BY <2>3, <1>2 DEF Taken
    <3>a. ls[k].used + takes[k] \in Nat
      BY <2>2, <3>1
    <3>2. less[k] \in Stock!LayerRecords
      BY <2>1, <3>1, <3>a, Zenon DEF Stock!LayerRecords
    <3>3. less[k].used = ls[k].used + takes[k]
      BY <2>1, <3>1 DEF Stock!LayerRecords
    <3> QED BY <2>1, <2>3, <3>1, <3>2, <3>3 DEF Drawn
  <2>4. CASE k \notin DOMAIN takes
    <3>1. less[k] = ls[k]
      BY <2>4 DEF Taken
    <3> QED BY <2>1, <2>2, <2>4, <3>1 DEF Drawn
  <2> QED BY <2>3, <2>4
<1>4. less \in Seq(Stock!LayerRecords) /\ Len(less) = Len(ls)
  <2> HIDE DEF less
  <2>1. less \in [1 .. Len(ls) -> Stock!LayerRecords]
    <3>1. less = [k \in DOMAIN ls |-> less[k]]
      BY DEF less, Taken
    <3> QED BY <3>1, <1>1, <1>3
  <2> QED BY <2>1, <1>1
<1> HIDE DEF less
<1>5. \A k \in DOMAIN ls : Lefts(less)[k] = Lefts(ls)[k] - Drawn(takes, k)
  <2> SUFFICES ASSUME NEW k \in DOMAIN ls PROVE Lefts(less)[k] = Lefts(ls)[k] - Drawn(takes, k)
    OBVIOUS
  <2>1. Lefts(ls)[k] = ls[k].quantity - ls[k].used /\ ls[k].quantity \in Nat /\ ls[k].used \in Nat
    BY LayersTyped
  <2>2. Lefts(less)[k] = less[k].quantity - less[k].used
    BY <1>1 DEF Lefts
  <2> QED BY <2>1, <2>2, <1>3
<1>6. \A on, i, w, b : TraceRows(less, on, i, w, b) = TraceRows(ls, on, i, w, b)
  BY <1>1, <1>3, Zenon DEF TraceRows
<1> QED BY <1>1, <1>3, <1>4, <1>5, <1>6 DEF less

\* A post takes what it issues from the layers of its own trace, and nothing from the others.
LEMMA BackingTaken ==
    ASSUME NEW ls \in Seq(Stock!LayerRecords), NEW takes \in Seq(Nat), Len(takes) <= Len(ls), NEW on, NEW i, NEW w, NEW b
    PROVE  LET less == Taken(ls, takes)
               R == TraceRows(ls, on, i, w, b)
           IN  /\ (\A k \in DOMAIN takes : k \in R => takes[k] = 0) => Backing(less, on, i, w, b) = Backing(ls, on, i, w, b)
               /\ (\A k \in DOMAIN takes : takes[k] # 0 => k \in R) =>
                    Backing(less, on, i, w, b) = Backing(ls, on, i, w, b) - SumFunctionOnSet(takes, DOMAIN takes)
<1> DEFINE less == Taken(ls, takes)
           R == TraceRows(ls, on, i, w, b)
           t == [k \in DOMAIN ls |-> Drawn(takes, k)]
<1>1. /\ TraceRows(less, on, i, w, b) = R
      /\ \A k \in DOMAIN ls : Lefts(less)[k] = Lefts(ls)[k] - Drawn(takes, k) /\ Drawn(takes, k) \in Nat
  BY LayersTaken
<1>2. \A k \in DOMAIN ls : Lefts(ls)[k] \in Int
  BY LayersTyped
<1>3. R \in SUBSET DOMAIN ls /\ IsFiniteSet(R) /\ IsFiniteSet(DOMAIN ls)
  <2>1. R \in SUBSET DOMAIN ls
    BY DEF TraceRows
  <2> QED BY <2>1, RowsFinite
<1>4. DOMAIN takes \in SUBSET DOMAIN ls /\ IsFiniteSet(DOMAIN takes) /\ \A k \in DOMAIN takes : takes[k] \in Nat
  <2>1. DOMAIN takes = 1 .. Len(takes) /\ DOMAIN ls = 1 .. Len(ls) /\ Len(takes) \in Nat /\ Len(ls) \in Nat
    OBVIOUS
  <2> QED BY <2>1, <1>3, FS_Subset
<1>5. \A k \in DOMAIN ls : t[k] = Drawn(takes, k) /\ t[k] \in Int
  BY <1>1
<1> HIDE DEF less, R, t
<1>6. SumFunctionOnSet(Lefts(less), R) = SumFunctionOnSet(Lefts(ls), R) - SumFunctionOnSet(t, R)
  <2> DEFINE d == [k \in R |-> Lefts(ls)[k] - t[k]]
  <2>1. \A k \in R : d[k] = Lefts(ls)[k] - t[k]
    OBVIOUS
  <2>2. SumFunctionOnSet(d, R) = SumFunctionOnSet(Lefts(ls), R) - SumFunctionOnSet(t, R)
    BY <1>2, <1>3, <1>5, SumMinus
  <2> HIDE DEF d
  <2>3. \A k \in R : d[k] \in Int /\ d[k] = Lefts(less)[k]
    BY <2>1, <1>1, <1>2, <1>3, <1>5
  <2>4. SumFunctionOnSet(d, R) = SumFunctionOnSet(Lefts(less), R)
    BY <2>3, <1>3, SumSame
  <2> QED BY <2>2, <2>4
<1>7. SumFunctionOnSet(Lefts(ls), R) \in Int
  BY <1>2, <1>3, SumInteger
<1>8. ASSUME \A k \in DOMAIN takes : k \in R => takes[k] = 0
      PROVE  Backing(less, on, i, w, b) = Backing(ls, on, i, w, b)
  <2>1. \A k \in R : t[k] = 0
    BY <1>3, <1>5, <1>8 DEF Drawn
  <2>2. SumFunctionOnSet(t, R) = 0
    BY <2>1, <1>3, SumZero
  <2> QED BY <2>2, <1>1, <1>6, <1>7 DEF Backing, R
<1>9. ASSUME \A k \in DOMAIN takes : takes[k] # 0 => k \in R
      PROVE  Backing(less, on, i, w, b) = Backing(ls, on, i, w, b) - SumFunctionOnSet(takes, DOMAIN takes)
  <2>1. \A k \in DOMAIN ls \ R : t[k] = 0
    BY <1>5, <1>9 DEF Drawn
  <2>2. SumFunctionOnSet(t, DOMAIN ls) = SumFunctionOnSet(t, R)
    BY <2>1, <1>3, <1>5, SumKept
  <2>3. \A k \in DOMAIN ls \ DOMAIN takes : t[k] = 0
    BY <1>5 DEF Drawn
  <2>4. SumFunctionOnSet(t, DOMAIN ls) = SumFunctionOnSet(t, DOMAIN takes)
    BY <2>3, <1>3, <1>4, <1>5, SumKept
  <2>5. \A k \in DOMAIN takes : t[k] \in Int /\ t[k] = takes[k]
    BY <1>4, <1>5 DEF Drawn
  <2>6. SumFunctionOnSet(t, DOMAIN takes) = SumFunctionOnSet(takes, DOMAIN takes)
    BY <2>5, <1>4, SumSame
  <2> QED BY <2>2, <2>4, <2>6, <1>1, <1>6 DEF Backing, R
<1> QED BY <1>8, <1>9 DEF less, R

-----------------------------------------------------------------------------
(* The invariant.  A post in flight keeps what it read: its locks keep out   *)
(* every other issue of its trace, and receipts only add to it.              *)

Flights == [plan : StockPlans, value : Int, takes : Seq(Nat)]
PlanOf(c) == valued[valuing[c].plan]
Flying == {c \in Members : valuing[c] # Stock!Idle}
HasMoved(ms, i) == \E k \in DOMAIN ms : ms[k].item = i

\* What a trace keeps: no stock below zero, layers that back it, no value without stock.
TraceSound(ms, ls, on, i, w, b) ==
    /\ Held(ms, on, i, w, b) >= 0
    /\ i \in Fifo => Backing(ls, on, i, w, b) = Held(ms, on, i, w, b)
    /\ \A k \in TraceRows(ls, on, i, w, b) : Lefts(ls)[k] >= 0
    /\ /\ i \notin Fifo /\ Held(ms, on, i, w, b) = 0
       /\ \A k \in TraceRows(ms, on, i, w, b) : ms[k].quantity > -RateScale
       => Worth(ms, on, i, w, b) = 0

\* What a post in flight has read of its plan, of the layers and, where no issues overlap, of stock.
PlanRead(f, x) ==
    /\ x.stage = "drafted" /\ f.value = x.value
    /\ x.to # Nothing => Stock!Amount(x.quantity, x.rate) = x.value
LayersRead(f, x, ls, on) ==
    /\ Len(f.takes) <= Len(ls)
    /\ \A k \in DOMAIN f.takes : f.takes[k] # 0 =>
         x.from # Nothing /\ x.item \in Fifo /\ k \in TraceRows(ls, on, x.item, x.from, x.batch)
    /\ x.from # Nothing /\ x.item \in Fifo => SumFunctionOnSet(f.takes, DOMAIN f.takes) = x.quantity
StockRead(f, x, ms, ls, on) ==
    /\ Held(ms, on, x.item, x.from, x.batch) >= x.quantity
    /\ \A k \in DOMAIN f.takes : k \in TraceRows(ls, on, x.item, x.from, x.batch) => f.takes[k] <= Lefts(ls)[k]
    /\ x.item \notin Fifo /\ x.quantity < RateScale /\ Held(ms, on, x.item, x.from, x.batch) = x.quantity
         => Worth(ms, on, x.item, x.from, x.batch) = x.value

FlightSound(f, x, ms, ls, on, ov) ==
    /\ PlanRead(f, x) /\ LayersRead(f, x, ls, on)
    /\ x.from # Nothing => HasMoved(ms, x.item)
    /\ x.from # Nothing /\ <<x.item, x.from>> \notin ov => StockRead(f, x, ms, ls, on)

\* Two issues of one item and warehouse are of different batches, and share no stock unless they overlap.
Apart(x, y, on, ov) ==
    x.from # Nothing /\ x.item = y.item /\ x.from = y.from =>
      x.batch # y.batch /\ (x.item \in on \/ <<x.item, x.from>> \in ov)

BookValue(x) ==
    IF x.stage # "posted" THEN 0
    ELSE (IF x.to = Nothing THEN 0 ELSE x.value) - (IF x.from = Nothing THEN 0 ELSE x.value)
Books(plans) == [p \in StockPlans |-> BookValue(plans[p])]

StockTypes ==
    /\ Stock!TypeOK
    /\ valuing \in [Members -> {Stock!Idle} \cup Flights]
    /\ overlapped \in SUBSET (StockItems \X Warehouses)
    /\ \A p \in StockPlans : valued[p] # Stock!Undrafted => valued[p].from # valued[p].to
FlightsSound ==
    /\ \A c \in Flying : FlightSound(valuing[c], PlanOf(c), movements, layers, traced, overlapped)
    /\ \A c, d \in Flying : c # d =>
         valuing[c].plan # valuing[d].plan /\ Apart(PlanOf(c), PlanOf(d), traced, overlapped)
AllMoved ==
    /\ \A k \in DOMAIN layers : HasMoved(movements, layers[k].item)
    /\ \A r \in overlapped : HasMoved(movements, r[1])
TracesSound ==
    \A i \in StockItems, w \in Warehouses : <<i, w>> \notin overlapped =>
      \A b : TraceSound(movements, layers, traced, i, w, b)
BooksAgree ==
    SumFunctionOnSet(Worths(movements), DOMAIN movements) = SumFunctionOnSet(Books(valued), StockPlans)

StockInv == StockTypes /\ FlightsSound /\ AllMoved /\ TracesSound /\ BooksAgree

LEMMA FlightTyped ==
    ASSUME Stock!StockAssumption, StockTypes, NEW c \in Flying
    PROVE  /\ c \in Members /\ valuing[c] \in Flights /\ valuing[c].plan \in StockPlans
           /\ valuing[c].value \in Int /\ valuing[c].takes \in Seq(Nat)
           /\ valued[valuing[c].plan] \in Stock!PlanRecords \cup {Stock!Undrafted}
<1>1. c \in Members /\ valuing[c] # Stock!Idle
  BY DEF Flying
<1>2. valuing[c] \in Flights
  BY <1>1 DEF StockTypes
<1>3. valuing[c].plan \in StockPlans /\ valuing[c].value \in Int /\ valuing[c].takes \in Seq(Nat)
  BY <1>2 DEF Flights
<1> QED BY <1>1, <1>2, <1>3 DEF StockTypes, Stock!TypeOK

\* A plan that is drafted or posted is not the record of what is not drafted.
LEMMA UndraftedStage == Stock!Undrafted.stage = "none"
  BY DEF Stock!Undrafted

LEMMA DraftedTyped ==
    ASSUME NEW x \in Stock!PlanRecords
    PROVE  /\ x.stage \in {"drafted", "posted"} /\ x.item \in StockItems /\ x.batch \in Stock!Traces
           /\ x.from \in Warehouses \cup {Nothing} /\ x.to \in Warehouses \cup {Nothing}
           /\ x.quantity \in Nat \ {0} /\ x.rate \in Nat /\ x.value \in Nat \ {0} /\ x.day \in StockDays
  BY DEF Stock!PlanRecords

LEMMA FlightDrafted ==
    ASSUME Stock!StockAssumption, StockTypes, FlightsSound, NEW c \in Flying
    PROVE  PlanOf(c) \in Stock!PlanRecords /\ PlanOf(c).stage = "drafted" /\ PlanOf(c).from # PlanOf(c).to
<1>1. PlanOf(c).stage = "drafted"
  BY DEF FlightsSound, FlightSound, PlanRead
<1>2. PlanOf(c) # Stock!Undrafted
  BY <1>1, UndraftedStage
<1>3. PlanOf(c) = valued[valuing[c].plan] /\ valuing[c].plan \in StockPlans
  BY FlightTyped DEF PlanOf
<1>4. PlanOf(c) \in Stock!PlanRecords
  BY <1>2, <1>3, FlightTyped
<1> QED BY <1>1, <1>2, <1>3, <1>4 DEF StockTypes

\* A draft is of no post in flight, and books nothing.
LEMMA DraftKeeps ==
    ASSUME Stock!StockAssumption, StockInv, NEW p \in StockPlans, NEW x \in Stock!PlanRecords,
           x.stage = "drafted", x.from # x.to, Stock!Draft(p, x)
    PROVE  StockInv'
<1>1. /\ valued[p] = Stock!Undrafted /\ valued' = [valued EXCEPT ![p] = x]
      /\ movements' = movements /\ layers' = layers /\ traced' = traced /\ inactive' = inactive
      /\ valuing' = valuing /\ overlapped' = overlapped
  BY DEF Stock!Draft
<1> USE DEF StockInv
<1>2. valued \in [StockPlans -> Stock!PlanRecords \cup {Stock!Undrafted}]
  BY DEF StockTypes, Stock!TypeOK
<1>3. valued'[p] = x /\ \A r \in StockPlans : r # p => valued'[r] = valued[r]
  BY <1>1, <1>2
<1>4. valued' \in [StockPlans -> Stock!PlanRecords \cup {Stock!Undrafted}]
  BY <1>1, <1>2
<1>5. StockTypes'
  <2>1. \A r \in StockPlans : valued'[r] # Stock!Undrafted => valued'[r].from # valued'[r].to
    BY <1>3 DEF StockTypes
  <2>2. (Stock!TypeOK)'
    BY <1>1, <1>4 DEF StockTypes, Stock!TypeOK
  <2>3. Stock!Undrafted' = Stock!Undrafted /\ Stock!Idle' = Stock!Idle
    BY DEF Stock!Undrafted, Stock!Idle
  <2> QED BY <1>1, <2>1, <2>2, <2>3 DEF StockTypes
<1>6. Flying' = Flying
  BY <1>1 DEF Flying, Stock!Idle
<1>7. \A c \in Flying : PlanOf(c)' = PlanOf(c)
  <2> SUFFICES ASSUME NEW c \in Flying PROVE PlanOf(c)' = PlanOf(c)
    OBVIOUS
  <2>1. valuing[c].plan \in StockPlans /\ valuing[c].plan # p
    BY <1>1, FlightTyped, FlightDrafted, UndraftedStage DEF PlanOf
  <2> QED BY <2>1, <1>1, <1>3 DEF PlanOf
<1>8. FlightsSound'
  BY <1>1, <1>6, <1>7, Zenon DEF FlightsSound
<1>9. AllMoved' /\ TracesSound'
  BY <1>1, Zenon DEF AllMoved, TracesSound
<1>10. BooksAgree'
  <2>1. \A r \in StockPlans : BookValue(valued'[r]) = BookValue(valued[r])
    BY <1>1, <1>3, UndraftedStage DEF BookValue
  <2>2. Books(valued') = Books(valued)
    BY <2>1, Zenon DEF Books
  <2> QED BY <1>1, <2>2 DEF BooksAgree
<1> QED BY <1>5, <1>8, <1>9, <1>10

\* An abort only forgets a post in flight.
LEMMA AbortKeeps ==
    ASSUME Stock!StockAssumption, StockInv, NEW c \in Members, Stock!AbortPost(c)
    PROVE  StockInv'
<1>1. /\ valuing' = [valuing EXCEPT ![c] = Stock!Idle]
      /\ valued' = valued /\ movements' = movements /\ layers' = layers /\ traced' = traced
      /\ inactive' = inactive /\ overlapped' = overlapped
  BY DEF Stock!AbortPost
<1> USE DEF StockInv
<1>2. /\ valuing \in [Members -> {Stock!Idle} \cup Flights]
      /\ valuing' \in [Members -> {Stock!Idle} \cup Flights]
      /\ \A d \in Members : valuing'[d] = IF d = c THEN Stock!Idle ELSE valuing[d]
  BY <1>1 DEF StockTypes
<1>3. Stock!Idle' = Stock!Idle /\ Stock!Undrafted' = Stock!Undrafted
  BY DEF Stock!Idle, Stock!Undrafted
<1>4. StockTypes'
  <2>1. (Stock!TypeOK)'
    BY <1>1, <1>2, <1>3 DEF StockTypes, Stock!TypeOK, Flights
  <2> QED BY <1>1, <1>2, <1>3, <2>1 DEF StockTypes
<1>5. \A d \in Flying' : d \in Flying /\ valuing'[d] = valuing[d] /\ PlanOf(d)' = PlanOf(d)
  BY <1>1, <1>2, <1>3 DEF Flying, PlanOf
<1>6. FlightsSound'
  BY <1>1, <1>5, Zenon DEF FlightsSound
<1>7. AllMoved' /\ TracesSound' /\ BooksAgree'
  BY <1>1, Zenon DEF AllMoved, TracesSound, BooksAgree
<1> QED BY <1>4, <1>6, <1>7

LEMMA WarehouseKeeps ==
    ASSUME Stock!StockAssumption, StockInv, NEW w \in Warehouses, NEW active \in BOOLEAN, Stock!UpdateWarehouse(w, active)
    PROVE  StockInv'
<1>1. /\ inactive' \in SUBSET (StockItems \cup Warehouses)
      /\ valuing' = valuing /\ valued' = valued /\ movements' = movements /\ layers' = layers
      /\ traced' = traced /\ overlapped' = overlapped
  BY DEF Stock!UpdateWarehouse, StockInv, StockTypes, Stock!TypeOK
<1> USE DEF StockInv
<1>2. Stock!Idle' = Stock!Idle /\ Stock!Undrafted' = Stock!Undrafted
  BY DEF Stock!Idle, Stock!Undrafted
<1>3. StockTypes'
  BY <1>1, <1>2 DEF StockTypes, Stock!TypeOK
<1>4. Flying' = Flying /\ \A c : PlanOf(c)' = PlanOf(c)
  BY <1>1, <1>2 DEF Flying, PlanOf
<1>5. FlightsSound'
  BY <1>1, <1>4, Zenon DEF FlightsSound
<1>6. AllMoved' /\ TracesSound' /\ BooksAgree'
  BY <1>1, Zenon DEF AllMoved, TracesSound, BooksAgree
<1> QED BY <1>3, <1>5, <1>6

\* Whether an item is tracked changes only before it moved, when nothing is traced of it.
LEMMA ItemKeeps ==
    ASSUME Stock!StockAssumption, StockInv, NEW i \in StockItems, NEW trackIt \in BOOLEAN, NEW active \in BOOLEAN,
           Stock!UpdateItem(i, trackIt, active)
    PROVE  StockInv'
<1>1. /\ inactive' \in SUBSET (StockItems \cup Warehouses) /\ traced' \in SUBSET StockItems
      /\ valuing' = valuing /\ valued' = valued /\ movements' = movements /\ layers' = layers
      /\ overlapped' = overlapped
      /\ \A j : j # i => (j \in traced' <=> j \in traced)
      /\ ~(i \in traced' <=> i \in traced) => \A k \in DOMAIN movements : movements[k].item # i
  BY DEF Stock!UpdateItem, StockInv, StockTypes, Stock!TypeOK
<1> USE DEF StockInv
<1>2. Stock!Idle' = Stock!Idle /\ Stock!Undrafted' = Stock!Undrafted
  BY DEF Stock!Idle, Stock!Undrafted
<1>3. StockTypes'
  BY <1>1, <1>2 DEF StockTypes, Stock!TypeOK
<1>4. \A j : HasMoved(movements, j) => (j \in traced' <=> j \in traced)
  BY <1>1 DEF HasMoved
<1>5. \A j, w, b : /\ TraceRows(movements, traced', j, w, b) = TraceRows(movements, traced, j, w, b)
                   /\ TraceRows(layers, traced', j, w, b) = TraceRows(layers, traced, j, w, b)
  <2> SUFFICES ASSUME NEW j, NEW w, NEW b
               PROVE  /\ TraceRows(movements, traced', j, w, b) = TraceRows(movements, traced, j, w, b)
                      /\ TraceRows(layers, traced', j, w, b) = TraceRows(layers, traced, j, w, b)
    OBVIOUS
  <2>1. CASE HasMoved(movements, j)
    BY <2>1, <1>4 DEF TraceRows
  <2>2. CASE ~HasMoved(movements, j)
    <3>1. \A k \in DOMAIN movements : movements[k].item # j
      BY <2>2 DEF HasMoved
    <3>2. \A k \in DOMAIN layers : layers[k].item # j
      BY <2>2 DEF AllMoved
    <3> QED BY <3>1, <3>2 DEF TraceRows
  <2> QED BY <2>1, <2>2
<1>6. \A j, w, b : /\ Held(movements, traced', j, w, b) = Held(movements, traced, j, w, b)
                   /\ Worth(movements, traced', j, w, b) = Worth(movements, traced, j, w, b)
                   /\ Backing(layers, traced', j, w, b) = Backing(layers, traced, j, w, b)
  BY <1>5, Zenon DEF Held, Worth, Backing
<1>7. Flying' = Flying /\ \A c : PlanOf(c)' = PlanOf(c)
  BY <1>1, <1>2 DEF Flying, PlanOf
<1>8. ASSUME NEW f, NEW x, FlightSound(f, x, movements, layers, traced, overlapped)
      PROVE  FlightSound(f, x, movements, layers, traced', overlapped)
  <2>1. LayersRead(f, x, layers, traced')
    BY <1>5, <1>8, Zenon DEF FlightSound, LayersRead
  <2>2. StockRead(f, x, movements, layers, traced) => StockRead(f, x, movements, layers, traced')
    BY <1>5, <1>6, Zenon DEF StockRead
  <2> QED BY <1>8, <2>1, <2>2, Zenon DEF FlightSound
<1>9. FlightsSound'
  <2>1. \A c \in Flying : FlightSound(valuing[c], PlanOf(c), movements, layers, traced', overlapped)
    BY <1>8 DEF FlightsSound
  <2>2. ASSUME NEW c \in Flying, NEW d \in Flying, c # d
        PROVE  valuing[c].plan # valuing[d].plan /\ Apart(PlanOf(c), PlanOf(d), traced', overlapped)
    <3>1. valuing[c].plan # valuing[d].plan /\ Apart(PlanOf(c), PlanOf(d), traced, overlapped)
      BY <2>2 DEF FlightsSound
    <3>2. PlanOf(c).from # Nothing => HasMoved(movements, PlanOf(c).item)
      BY DEF FlightsSound, FlightSound
    <3> QED BY <3>1, <3>2, <1>4, Zenon DEF Apart
  <2> QED BY <2>1, <2>2, <1>1, <1>7, Zenon DEF FlightsSound
<1>10. AllMoved' /\ BooksAgree'
  BY <1>1, Zenon DEF AllMoved, BooksAgree
<1>11. TracesSound'
  <2>1. ASSUME NEW j, NEW w, NEW b, TraceSound(movements, layers, traced, j, w, b)
        PROVE  TraceSound(movements, layers, traced', j, w, b)
    BY <2>1, <1>5, <1>6, Zenon DEF TraceSound
  <2> QED BY <2>1, <1>1, Zenon DEF TracesSound
<1> QED BY <1>3, <1>9, <1>10, <1>11

-----------------------------------------------------------------------------
(* A post begins.                                                           *)

LEMMA LotsLeft ==
    ASSUME Stock!TypeOK, NEW i, NEW w, NEW b, NEW q \in Nat
    PROVE  LET takes == Stock!FifoTakes(i, w, b, q) IN
           /\ takes \in Seq(Nat) /\ Len(takes) = Len(layers) /\ DOMAIN takes = DOMAIN layers
           /\ \A k \in DOMAIN layers : /\ takes[k] # 0 => k \in TraceRows(layers, traced, i, w, b)
                                       /\ Lefts(layers)[k] >= 0 => takes[k] <= Lefts(layers)[k]
<1> DEFINE takes == Stock!FifoTakes(i, w, b, q)
           L == TraceRows(layers, traced, i, w, b)
<1>1. layers \in Seq(Stock!LayerRecords) /\ Stock!Lots(i, w, b) = L
  BY BalancesAre DEF Stock!TypeOK
<1>2. \A k \in DOMAIN layers : Stock!Left(k) = (IF Lefts(layers)[k] > 0 THEN Lefts(layers)[k] ELSE 0) /\ Lefts(layers)[k] \in Int
  BY <1>1, BalancesAre, LayersTyped DEF Stock!Left
<1>3. \A k \in DOMAIN layers : Stock!Left(k) \in Nat
  BY <1>2
<1>4. ASSUME NEW k \in DOMAIN layers
      PROVE  SumFunctionOnSet([j \in {j \in L : j < k} |-> Stock!Left(j)], {j \in L : j < k}) \in Int
  <2> DEFINE before == {j \in L : j < k}
             g == [j \in before |-> Stock!Left(j)]
  <2>1. before \in SUBSET DOMAIN layers
    BY DEF TraceRows
  <2>2. IsFiniteSet(before)
    BY <2>1, <1>1, RowsFinite
  <2>3. \A j \in before : g[j] \in Int
    BY <2>1, <1>3
  <2> QED BY <2>2, <2>3, SumInteger
<1>5. ASSUME NEW k \in DOMAIN layers
      PROVE  /\ takes[k] \in Nat /\ (takes[k] # 0 => k \in L)
             /\ Lefts(layers)[k] >= 0 => takes[k] <= Lefts(layers)[k]
  <2> DEFINE before == SumFunctionOnSet([j \in {j \in L : j < k} |-> Stock!Left(j)], {j \in L : j < k})
  <2>1. before \in Int
    BY <1>4
  <2>2. takes[k] = Stock!FifoTake(i, w, b, q, k)
    BY DEF Stock!FifoTakes
  <2>3. Stock!FifoTake(i, w, b, q, k) =
          IF k \notin L \/ before >= q THEN 0 ELSE IF q - before < Stock!Left(k) THEN q - before ELSE Stock!Left(k)
    BY <1>1, StockSums DEF Stock!FifoTake
  <2> HIDE DEF before
  <2> QED BY <2>1, <2>2, <2>3, <1>2, <1>3
<1>6. takes \in Seq(Nat) /\ Len(takes) = Len(layers) /\ DOMAIN takes = DOMAIN layers
  <2>1. takes = [k \in DOMAIN layers |-> takes[k]] /\ DOMAIN layers = 1 .. Len(layers) /\ Len(layers) \in Nat
    BY <1>1 DEF Stock!FifoTakes
  <2> HIDE DEF takes
  <2>2. takes \in [1 .. Len(layers) -> Nat]
    BY <2>1, <1>5
  <2> QED BY <2>1, <2>2
<1> QED BY <1>5, <1>6

\* An issue has an integer value; an average-valued one of all that is held is worth what is held.
LEMMA IssueValued ==
    ASSUME Stock!StockAssumption, Stock!TypeOK, NEW i, NEW w, NEW b, NEW q \in Nat \ {0}, Stock!Issuable(i, w, b, q)
    PROVE  /\ Stock!IssueValue(i, w, b, q) \in Int
           /\ i \notin Fifo /\ q < RateScale /\ Held(movements, traced, i, w, b) = q =>
                Stock!IssueValue(i, w, b, q) = Worth(movements, traced, i, w, b)
<1>1. RateScale \in Nat \ {0} /\ layers \in Seq(Stock!LayerRecords) /\ movements \in Seq(Stock!MovementRecords)
  BY DEF Stock!StockAssumption, Stock!TypeOK
<1>2. CASE i \in Fifo
  <2> DEFINE takes == Stock!FifoTakes(i, w, b, q)
             g == [k \in DOMAIN layers |-> Stock!Amount(takes[k], layers[k].rate)]
  <2>1. takes \in Seq(Nat) /\ DOMAIN takes = DOMAIN layers
    BY LotsLeft
  <2> HIDE DEF takes
  <2>2. \A k \in DOMAIN layers : takes[k] \in Nat /\ layers[k].rate \in Nat
    BY <2>1, <1>1, LayersTyped
  <2>3. \A k \in DOMAIN layers : g[k] \in Int
    <3> SUFFICES ASSUME NEW k \in DOMAIN layers PROVE Stock!Amount(takes[k], layers[k].rate) \in Int
      OBVIOUS
    <3>1. takes[k] \in Nat /\ layers[k].rate \in Int
      BY <2>2
    <3> QED BY <3>1, <1>1, AmountTyped
  <2>4. SumFunctionOnSet(g, DOMAIN layers) \in Int
    BY <2>3, <1>1, RowsFinite, SumInteger
  <2>5. Stock!FifoValue(i, w, b, q) = SumFunctionOnSet(g, DOMAIN g)
    BY StockSums DEF Stock!FifoValue, takes
  <2>6. DOMAIN g = DOMAIN layers
    OBVIOUS
  <2> QED BY <1>2, <2>4, <2>5, <2>6 DEF Stock!IssueValue
<1>3. CASE i \notin Fifo
  <2> DEFINE v == Worth(movements, traced, i, w, b)
             h == Held(movements, traced, i, w, b)
  <2>1. v \in Int /\ h \in Int /\ h >= q
    BY <1>1, BalancesAre, MovementsTyped DEF Stock!Issuable
  <2>2. Stock!IssueValue(i, w, b, q) = Stock!Amount(q, Stock!Rate(v, h))
    BY <1>3, BalancesAre DEF Stock!IssueValue, Stock!AverageValue
  <2> HIDE DEF v, h
  <2>3. h \in Nat \ {0}
    BY <2>1
  <2>4. Stock!Rate(v, h) \in Int
    BY <1>1, <2>1, <2>3, RateTyped
  <2>5. Stock!Amount(q, Stock!Rate(v, h)) \in Int
    BY <1>1, <2>4, AmountTyped
  <2>6. q < RateScale /\ h = q => Stock!Amount(q, Stock!Rate(v, h)) = v
    BY <1>1, <2>1, LastIssueTakesAll
  <2> QED BY <1>3, <2>2, <2>5, <2>6 DEF v, h
<1> QED BY <1>2, <1>3

LEMMA HeldHasMoved ==
    ASSUME Stock!TypeOK, NEW i, NEW w, NEW b, Held(movements, traced, i, w, b) # 0
    PROVE  HasMoved(movements, i)
<1>1. TraceRows(movements, traced, i, w, b) # {}
  BY SumEmpty DEF Held
<1> QED BY <1>1 DEF TraceRows, HasMoved

\* What a flight knows does not depend on where else issues overlap.
LEMMA FlightStays ==
    ASSUME NEW f, NEW x, NEW ms, NEW ls, NEW on, NEW ov, NEW more, ov \subseteq more, FlightSound(f, x, ms, ls, on, ov)
    PROVE  FlightSound(f, x, ms, ls, on, more)
  BY Zenon DEF FlightSound

LEMMA BeginRead ==
    ASSUME Stock!StockAssumption, StockInv, NEW c \in Members, NEW p \in StockPlans, Stock!BeginPost(c, p)
    PROVE  /\ valued[p] \in Stock!PlanRecords /\ valuing[c] = Stock!Idle
           /\ valuing'[c] \in Flights /\ valuing'[c].plan = p
           /\ \A d \in Members : d # c => valuing'[d] = valuing[d]
           /\ overlapped \subseteq overlapped' /\ overlapped' \in SUBSET (StockItems \X Warehouses)
           /\ \A r \in overlapped' \ overlapped : HasMoved(movements, r[1])
           /\ FlightSound(valuing'[c], valued[p], movements, layers, traced, overlapped')
<1> DEFINE x == valued[p]
           issue == x.from # Nothing
           takes == IF issue /\ x.item \in Fifo THEN Stock!FifoTakes(x.item, x.from, x.batch, x.quantity)
                    ELSE [k \in DOMAIN layers |-> 0]
           worth == IF x.from = Nothing THEN x.value ELSE Stock!IssueValue(x.item, x.from, x.batch, x.quantity)
           f == [plan |-> p, value |-> worth, takes |-> takes]
<1>1. /\ valuing[c] = Stock!Idle /\ x.stage = "drafted" /\ Stock!Revalued(x)
      /\ issue => Stock!Issuable(x.item, x.from, x.batch, x.quantity)
      /\ valuing' = [valuing EXCEPT ![c] = f]
      /\ overlapped' = IF Stock!Overlapping(x) THEN overlapped \cup {<<x.item, x.from>>} ELSE overlapped
  BY DEF Stock!BeginPost
<1> USE DEF StockInv
<1>2. Stock!TypeOK /\ layers \in Seq(Stock!LayerRecords) /\ movements \in Seq(Stock!MovementRecords)
      /\ valuing \in [Members -> {Stock!Idle} \cup Flights]
  BY DEF StockTypes, Stock!TypeOK
<1>3. x \in Stock!PlanRecords
  <2>1. x \in Stock!PlanRecords \cup {Stock!Undrafted}
    BY <1>2 DEF Stock!TypeOK
  <2> QED BY <2>1, <1>1, UndraftedStage
<1>4. /\ x.item \in StockItems /\ x.from \in Warehouses \cup {Nothing} /\ x.quantity \in Nat \ {0}
      /\ x.value \in Nat \ {0}
  BY <1>3, DraftedTyped
<1> HIDE DEF x
<1>5. worth = x.value
  BY <1>1 DEF Stock!Revalued
<1>6. /\ takes \in Seq(Nat) /\ Len(takes) = Len(layers) /\ DOMAIN takes = DOMAIN layers
      /\ \A k \in DOMAIN layers : takes[k] # 0 => issue /\ x.item \in Fifo /\ k \in TraceRows(layers, traced, x.item, x.from, x.batch)
      /\ \A k \in DOMAIN layers : Lefts(layers)[k] >= 0 => takes[k] <= Lefts(layers)[k]
      /\ issue /\ x.item \in Fifo => SumFunctionOnSet(takes, DOMAIN takes) = x.quantity
  <2>1. CASE issue /\ x.item \in Fifo
    <3>1. takes = Stock!FifoTakes(x.item, x.from, x.batch, x.quantity)
      BY <2>1
    <3>2. SumFunctionOnSet(takes, DOMAIN takes) = x.quantity
      BY <2>1, <3>1, <1>1, StockSums DEF Stock!Issuable
    <3> QED BY <2>1, <3>1, <3>2, <1>2, <1>4, LotsLeft
  <2>2. CASE ~(issue /\ x.item \in Fifo)
    <3>1. takes = [k \in DOMAIN layers |-> 0] /\ DOMAIN layers = 1 .. Len(layers) /\ Len(layers) \in Nat
      BY <2>2, <1>2
    <3>2. takes \in [1 .. Len(layers) -> Nat] /\ \A k \in DOMAIN layers : takes[k] = 0
      BY <3>1
    <3> HIDE DEF takes
    <3>3. takes \in Seq(Nat) /\ Len(takes) = Len(layers) /\ DOMAIN takes = DOMAIN layers
      BY <3>1, <3>2
    <3> QED BY <2>2, <3>2, <3>3
  <2> QED BY <2>1, <2>2
<1> HIDE DEF takes, worth
<1>7. f \in Flights /\ f.plan = p /\ f.value = x.value /\ f.takes = takes
  BY <1>4, <1>5, <1>6 DEF Flights
<1> HIDE DEF f
<1>8. valuing'[c] = f /\ \A d \in Members : d # c => valuing'[d] = valuing[d]
  BY <1>1, <1>2
<1>9. issue => Held(movements, traced, x.item, x.from, x.batch) >= x.quantity /\ HasMoved(movements, x.item)
  <2>1. issue => Held(movements, traced, x.item, x.from, x.batch) >= x.quantity
    BY <1>1, <1>2, BalancesAre DEF Stock!Issuable
  <2> QED BY <2>1, <1>2, <1>4, HeldHasMoved, MovementsTyped
<1>10. /\ overlapped \subseteq overlapped' /\ overlapped' \in SUBSET (StockItems \X Warehouses)
       /\ \A r \in overlapped' \ overlapped : HasMoved(movements, r[1])
  <2>1. Stock!Overlapping(x) => issue
    BY DEF Stock!Overlapping
  <2>2. overlapped \in SUBSET (StockItems \X Warehouses)
    BY DEF StockTypes
  <2> QED BY <2>1, <2>2, <1>1, <1>4, <1>9
<1>11. ASSUME issue, <<x.item, x.from>> \notin overlapped'
       PROVE  StockRead(f, x, movements, layers, traced)
  <2>1. <<x.item, x.from>> \notin overlapped /\ x.from \in Warehouses
    BY <1>4, <1>10, <1>11
  <2>2. TraceSound(movements, layers, traced, x.item, x.from, x.batch)
    BY <2>1, <1>4, Zenon DEF TracesSound
  <2>3. \A k \in DOMAIN takes : k \in TraceRows(layers, traced, x.item, x.from, x.batch) => takes[k] <= Lefts(layers)[k]
    BY <2>2, <1>6 DEF TraceSound
  <2>4. x.item \notin Fifo /\ x.quantity < RateScale /\ Held(movements, traced, x.item, x.from, x.batch) = x.quantity
          => Worth(movements, traced, x.item, x.from, x.batch) = x.value
    BY <1>1, <1>2, <1>4, <1>5, <1>11, IssueValued DEF worth
  <2> QED BY <2>3, <2>4, <1>7, <1>9, <1>11 DEF StockRead
<1>12. PlanRead(f, x)
  BY <1>1, <1>7 DEF PlanRead, Stock!Revalued
<1>13. LayersRead(f, x, layers, traced)
  <2>1. Len(takes) <= Len(layers)
    BY <1>2, <1>6, RowsFinite
  <2> QED BY <2>1, <1>6, <1>7 DEF LayersRead
<1>14. FlightSound(f, x, movements, layers, traced, overlapped')
  BY <1>9, <1>11, <1>12, <1>13 DEF FlightSound
<1> QED BY <1>1, <1>3, <1>7, <1>8, <1>10, <1>14 DEF x

LEMMA BeginKeeps ==
    ASSUME Stock!StockAssumption, StockInv, NEW c \in Members, NEW p \in StockPlans, Stock!BeginPost(c, p)
    PROVE  StockInv'
<1>1. /\ Stock!PeriodAndSeriesFree(valued[p]) /\ Stock!KeysFree(valued[p])
      /\ overlapped' = IF Stock!Overlapping(valued[p]) THEN overlapped \cup {<<valued[p].item, valued[p].from>>} ELSE overlapped
      /\ valued' = valued /\ movements' = movements /\ layers' = layers /\ traced' = traced /\ inactive' = inactive
      /\ valuing' = [valuing EXCEPT ![c] = valuing'[c]]
  BY DEF Stock!BeginPost, StockInv, StockTypes
<1>2. /\ valued[p] \in Stock!PlanRecords /\ valuing[c] = Stock!Idle
      /\ valuing'[c] \in Flights /\ valuing'[c].plan = p
      /\ \A d \in Members : d # c => valuing'[d] = valuing[d]
      /\ overlapped \subseteq overlapped' /\ overlapped' \in SUBSET (StockItems \X Warehouses)
      /\ \A r \in overlapped' \ overlapped : HasMoved(movements, r[1])
      /\ FlightSound(valuing'[c], valued[p], movements, layers, traced, overlapped')
  BY BeginRead
<1> USE DEF StockInv
<1>3. Stock!Idle' = Stock!Idle /\ Stock!Undrafted' = Stock!Undrafted
  BY DEF Stock!Idle, Stock!Undrafted
<1>4. StockTypes'
  <2>1. valuing' \in [Members -> {Stock!Idle} \cup Flights]
    BY <1>1, <1>2 DEF StockTypes
  <2>2. (Stock!TypeOK)'
    BY <2>1, <1>1, <1>3 DEF StockTypes, Stock!TypeOK, Flights
  <2> QED BY <1>1, <1>2, <1>3, <2>1, <2>2 DEF StockTypes
<1>5. \A d \in Flying' : d = c \/ (d # c /\ d \in Flying /\ valuing'[d] = valuing[d] /\ PlanOf(d)' = PlanOf(d))
  BY <1>1, <1>2, <1>3 DEF Flying, PlanOf
<1>6. PlanOf(c)' = valued[p] /\ c \notin Flying
  BY <1>1, <1>2 DEF PlanOf, Flying
<1>7. ASSUME NEW d \in Flying
      PROVE  /\ valuing[d].plan # p
             /\ Apart(valued[p], PlanOf(d), traced, overlapped') /\ Apart(PlanOf(d), valued[p], traced, overlapped')
  <2> DEFINE x == valued[p]
             y == PlanOf(d)
  <2>1. d \in Stock!InFlight /\ Stock!PostedBy(d) = y
    BY DEF Flying, Stock!InFlight, Stock!PostedBy, PlanOf
  <2>2. y.day # x.day /\ Stock!Keys(x) \cap Stock!Keys(y) = {}
    BY <2>1, <1>1 DEF Stock!PeriodAndSeriesFree, Stock!KeysFree
  <2>3. valuing[d].plan # p
    BY <2>2 DEF PlanOf
  <2> HIDE DEF x, y
  <2>4. ASSUME x.from # Nothing, x.item = y.item, x.from = y.from
        PROVE  x.batch # y.batch /\ (x.item \in traced \/ <<x.item, x.from>> \in overlapped')
    <3>1. <<x.item, x.from, x.batch>> \in Stock!Keys(x) /\ <<y.item, y.from, y.batch>> \in Stock!Keys(y)
      BY <2>4 DEF Stock!Keys
    <3>2. x.batch # y.batch
      BY <3>1, <2>2, <2>4
    <3>3. x.item \notin traced => Stock!Overlapping(x)
      BY <2>1, <2>4 DEF Stock!Overlapping
    <3> QED BY <3>2, <3>3, <1>1 DEF x
  <2> QED BY <2>3, <2>4 DEF Apart, x, y
<1>8. FlightsSound'
  <2>1. ASSUME NEW d \in Flying' PROVE FlightSound(valuing'[d], PlanOf(d)', movements, layers, traced, overlapped')
    <3>1. CASE d = c
      BY <3>1, <1>2, <1>6
    <3>2. CASE d # c
      <4>1. d \in Flying /\ valuing'[d] = valuing[d] /\ PlanOf(d)' = PlanOf(d)
        BY <3>2, <1>5
      <4>2. FlightSound(valuing[d], PlanOf(d), movements, layers, traced, overlapped)
        BY <4>1 DEF FlightsSound
      <4> QED BY <4>1, <4>2, <1>2, FlightStays
    <3> QED BY <3>1, <3>2
  <2>2. ASSUME NEW d \in Flying', NEW e \in Flying', d # e
        PROVE  valuing'[d].plan # valuing'[e].plan /\ Apart(PlanOf(d)', PlanOf(e)', traced, overlapped')
    <3>1. CASE d = c \/ e = c
      BY <3>1, <2>2, <1>2, <1>5, <1>6, <1>7
    <3>2. CASE d # c /\ e # c
      <4>1. /\ d \in Flying /\ valuing'[d] = valuing[d] /\ PlanOf(d)' = PlanOf(d)
            /\ e \in Flying /\ valuing'[e] = valuing[e] /\ PlanOf(e)' = PlanOf(e)
        BY <3>2, <1>5
      <4>2. valuing[d].plan # valuing[e].plan /\ Apart(PlanOf(d), PlanOf(e), traced, overlapped)
        BY <4>1, <2>2 DEF FlightsSound
      <4> QED BY <4>1, <4>2, <1>2 DEF Apart
    <3> QED BY <3>1, <3>2
  <2> QED BY <2>1, <2>2, <1>1, Zenon DEF FlightsSound
<1>9. AllMoved'
  BY <1>1, <1>2 DEF AllMoved
<1>10. TracesSound'
  BY <1>1, <1>2, Zenon DEF TracesSound
<1>11. BooksAgree'
  BY <1>1, Zenon DEF BooksAgree
<1> QED BY <1>4, <1>8, <1>9, <1>10, <1>11

-----------------------------------------------------------------------------
(* A post commits: its rows, as functions of the rows before.               *)

OutRow(x) == Stock!Movement(x, x.from, -1, x.value)
InRow(x) == Stock!Movement(x, x.to, 1, x.value)
Leaves(x, on, i, w, b) == x.from # Nothing /\ Belongs(OutRow(x), on, i, w, b)
Arrives(x, on, i, w, b) == x.to # Nothing /\ Belongs(InRow(x), on, i, w, b)

MovedOut(ms, x) == IF x.from = Nothing THEN ms ELSE Append(ms, OutRow(x))
Moved(ms, x) == IF x.to = Nothing THEN MovedOut(ms, x) ELSE Append(MovedOut(ms, x), InRow(x))
Stored(ls, x, takes) == IF x.to = Nothing THEN Taken(ls, takes) ELSE Append(Taken(ls, takes), Stock!Layer(x))

LEMMA RowsTyped ==
    ASSUME NEW x \in Stock!PlanRecords
    PROVE  /\ x.from # Nothing => OutRow(x) \in Stock!MovementRecords
           /\ x.to # Nothing => InRow(x) \in Stock!MovementRecords /\ Stock!Layer(x) \in Stock!LayerRecords
           /\ OutRow(x).item = x.item /\ OutRow(x).quantity = -x.quantity /\ OutRow(x).value = -x.value
           /\ InRow(x).item = x.item /\ InRow(x).quantity = x.quantity /\ InRow(x).value = x.value
           /\ Stock!Layer(x).item = x.item /\ Stock!Layer(x).quantity = x.quantity /\ Stock!Layer(x).used = 0
           /\ \A on, i, w, b : Leaves(x, on, i, w, b) <=>
                x.from # Nothing /\ x.item = i /\ x.from = w /\ (i \in on => x.batch = b)
           /\ \A on, i, w, b : Arrives(x, on, i, w, b) <=>
                x.to # Nothing /\ x.item = i /\ x.to = w /\ (i \in on => x.batch = b)
           /\ \A on, i, w, b : Belongs(Stock!Layer(x), on, i, w, b) <=> Belongs(InRow(x), on, i, w, b)
<1>1. /\ x.item \in StockItems /\ x.batch \in Stock!Traces
      /\ x.from \in Warehouses \cup {Nothing} /\ x.to \in Warehouses \cup {Nothing}
      /\ x.quantity \in Nat \ {0} /\ x.rate \in Nat /\ x.value \in Nat \ {0} /\ x.day \in StockDays
  BY DraftedTyped
<1>2. x.from # Nothing => OutRow(x) \in Stock!MovementRecords
  BY <1>1 DEF OutRow, Stock!Movement, Stock!MovementRecords
<1>3. x.to # Nothing => InRow(x) \in Stock!MovementRecords
  BY <1>1 DEF InRow, Stock!Movement, Stock!MovementRecords
<1>4. x.to # Nothing => Stock!Layer(x) \in Stock!LayerRecords
  BY <1>1 DEF Stock!Layer, Stock!LayerRecords
<1>5. /\ OutRow(x).item = x.item /\ OutRow(x).quantity = -x.quantity /\ OutRow(x).value = -x.value
      /\ OutRow(x).warehouse = x.from /\ OutRow(x).batch = x.batch
  BY <1>1 DEF OutRow, Stock!Movement
<1>6. /\ InRow(x).item = x.item /\ InRow(x).quantity = x.quantity /\ InRow(x).value = x.value
      /\ InRow(x).warehouse = x.to /\ InRow(x).batch = x.batch
  BY <1>1 DEF InRow, Stock!Movement
<1>7. /\ Stock!Layer(x).item = x.item /\ Stock!Layer(x).quantity = x.quantity /\ Stock!Layer(x).used = 0
      /\ Stock!Layer(x).warehouse = x.to /\ Stock!Layer(x).batch = x.batch
  BY DEF Stock!Layer
<1> QED BY <1>2, <1>3, <1>4, <1>5, <1>6, <1>7 DEF Leaves, Arrives, Belongs

LEMMA MovedRows ==
    ASSUME NEW x \in Stock!PlanRecords, x.from # x.to, NEW ms \in Seq(Stock!MovementRecords)
    PROVE  LET more == Moved(ms, x) IN
           /\ more \in Seq(Stock!MovementRecords) /\ DOMAIN ms \subseteq DOMAIN more
           /\ \A k \in DOMAIN ms : more[k] = ms[k]
           /\ HasMoved(more, x.item) /\ \A i : HasMoved(ms, i) => HasMoved(more, i)
           /\ SumFunctionOnSet(Worths(more), DOMAIN more) = SumFunctionOnSet(Worths(ms), DOMAIN ms)
                + (IF x.to = Nothing THEN 0 ELSE x.value) - (IF x.from = Nothing THEN 0 ELSE x.value)
           /\ \A on, i, w, b :
                /\ Leaves(x, on, i, w, b) =>
                     /\ Held(more, on, i, w, b) = Held(ms, on, i, w, b) - x.quantity
                     /\ Worth(more, on, i, w, b) = Worth(ms, on, i, w, b) - x.value
                     /\ \E k \in TraceRows(more, on, i, w, b) : more[k].quantity = -x.quantity
                /\ Arrives(x, on, i, w, b) => Held(more, on, i, w, b) = Held(ms, on, i, w, b) + x.quantity
                /\ ~Leaves(x, on, i, w, b) /\ ~Arrives(x, on, i, w, b) =>
                     /\ Held(more, on, i, w, b) = Held(ms, on, i, w, b)
                     /\ Worth(more, on, i, w, b) = Worth(ms, on, i, w, b)
<1> DEFINE less == MovedOut(ms, x)
           more == Moved(ms, x)
<1>1. /\ x.from # Nothing => OutRow(x) \in Stock!MovementRecords
      /\ x.to # Nothing => InRow(x) \in Stock!MovementRecords
      /\ OutRow(x).item = x.item /\ OutRow(x).quantity = -x.quantity /\ OutRow(x).value = -x.value
      /\ InRow(x).item = x.item /\ InRow(x).quantity = x.quantity /\ InRow(x).value = x.value
      /\ x.quantity \in Nat \ {0} /\ x.value \in Nat \ {0}
  BY RowsTyped, DraftedTyped
<1>2. x.from # Nothing \/ x.to # Nothing
  OBVIOUS
<1>3. ASSUME NEW on, NEW i, NEW w, NEW b PROVE ~(Leaves(x, on, i, w, b) /\ Arrives(x, on, i, w, b))
  BY RowsTyped
<1>4. less = IF x.from = Nothing THEN ms ELSE Append(ms, OutRow(x))
  BY DEF MovedOut
<1>5. more = IF x.to = Nothing THEN less ELSE Append(less, InRow(x))
  BY DEF Moved
<1> HIDE DEF less, more
<1>6. /\ less \in Seq(Stock!MovementRecords) /\ DOMAIN ms \subseteq DOMAIN less
      /\ \A k \in DOMAIN ms : less[k] = ms[k]
      /\ x.from # Nothing => /\ Len(ms) + 1 \in DOMAIN less /\ less[Len(ms) + 1] = OutRow(x)
                             /\ \A on, i, w, b : Leaves(x, on, i, w, b) => Len(ms) + 1 \in TraceRows(less, on, i, w, b)
  <2>1. CASE x.from = Nothing
    BY <2>1, <1>4
  <2>2. CASE x.from # Nothing
    <3>1. OutRow(x) \in Stock!MovementRecords /\ less = Append(ms, OutRow(x))
      BY <2>2, <1>1, <1>4
    <3>2. /\ less \in Seq(Stock!MovementRecords) /\ DOMAIN less = DOMAIN ms \cup {Len(ms) + 1}
          /\ less[Len(ms) + 1] = OutRow(x) /\ \A k \in DOMAIN ms : less[k] = ms[k]
      BY <3>1, RowAppended
    <3>3. \A on, i, w, b : Leaves(x, on, i, w, b) => Len(ms) + 1 \in TraceRows(less, on, i, w, b)
      BY <3>2 DEF Leaves, Belongs, TraceRows
    <3> QED BY <3>2, <3>3
  <2> QED BY <2>1, <2>2
<1>7. /\ SumFunctionOnSet(Worths(less), DOMAIN less)
           = SumFunctionOnSet(Worths(ms), DOMAIN ms) - (IF x.from = Nothing THEN 0 ELSE x.value)
      /\ \A on, i, w, b :
           /\ Leaves(x, on, i, w, b) =>
                /\ Held(less, on, i, w, b) = Held(ms, on, i, w, b) - x.quantity
                /\ Worth(less, on, i, w, b) = Worth(ms, on, i, w, b) - x.value
           /\ ~Leaves(x, on, i, w, b) =>
                /\ Held(less, on, i, w, b) = Held(ms, on, i, w, b)
                /\ Worth(less, on, i, w, b) = Worth(ms, on, i, w, b)
  <2>0. SumFunctionOnSet(Worths(ms), DOMAIN ms) \in Int /\ \A on, i, w, b : Held(ms, on, i, w, b) \in Int /\ Worth(ms, on, i, w, b) \in Int
    BY MovementsTyped
  <2>1. CASE x.from = Nothing
    BY <2>0, <2>1, <1>4 DEF Leaves
  <2>2. CASE x.from # Nothing
    <3>1. OutRow(x) \in Stock!MovementRecords /\ less = Append(ms, OutRow(x))
      BY <2>2, <1>1, <1>4
    <3>2. /\ SumFunctionOnSet(Worths(less), DOMAIN less) = SumFunctionOnSet(Worths(ms), DOMAIN ms) + OutRow(x).value
          /\ \A on, i, w, b :
               /\ Belongs(OutRow(x), on, i, w, b) =>
                    /\ Held(less, on, i, w, b) = Held(ms, on, i, w, b) + OutRow(x).quantity
                    /\ Worth(less, on, i, w, b) = Worth(ms, on, i, w, b) + OutRow(x).value
               /\ ~Belongs(OutRow(x), on, i, w, b) =>
                    /\ Held(less, on, i, w, b) = Held(ms, on, i, w, b)
                    /\ Worth(less, on, i, w, b) = Worth(ms, on, i, w, b)
      BY <3>1, MovementAppended
    <3> QED BY <3>2, <2>0, <2>2, <1>1 DEF Leaves
  <2> QED BY <2>1, <2>2
<1>8. /\ more \in Seq(Stock!MovementRecords) /\ DOMAIN less \subseteq DOMAIN more
      /\ \A k \in DOMAIN less : more[k] = less[k]
      /\ x.to # Nothing => Len(less) + 1 \in DOMAIN more /\ more[Len(less) + 1] = InRow(x)
  <2>1. CASE x.to = Nothing
    BY <2>1, <1>5, <1>6
  <2>2. CASE x.to # Nothing
    <3>1. InRow(x) \in Stock!MovementRecords /\ more = Append(less, InRow(x))
      BY <2>2, <1>1, <1>5
    <3>2. /\ more \in Seq(Stock!MovementRecords) /\ DOMAIN more = DOMAIN less \cup {Len(less) + 1}
          /\ more[Len(less) + 1] = InRow(x) /\ \A k \in DOMAIN less : more[k] = less[k]
      BY <3>1, <1>6, RowAppended
    <3> QED BY <3>2
  <2> QED BY <2>1, <2>2
<1>9. /\ SumFunctionOnSet(Worths(more), DOMAIN more)
           = SumFunctionOnSet(Worths(less), DOMAIN less) + (IF x.to = Nothing THEN 0 ELSE x.value)
      /\ \A on, i, w, b :
           /\ Arrives(x, on, i, w, b) => Held(more, on, i, w, b) = Held(less, on, i, w, b) + x.quantity
           /\ ~Arrives(x, on, i, w, b) =>
                /\ Held(more, on, i, w, b) = Held(less, on, i, w, b)
                /\ Worth(more, on, i, w, b) = Worth(less, on, i, w, b)
  <2>0. SumFunctionOnSet(Worths(less), DOMAIN less) \in Int /\ \A on, i, w, b : Held(less, on, i, w, b) \in Int /\ Worth(less, on, i, w, b) \in Int
    BY <1>6, MovementsTyped
  <2>1. CASE x.to = Nothing
    BY <2>0, <2>1, <1>5 DEF Arrives
  <2>2. CASE x.to # Nothing
    <3>1. InRow(x) \in Stock!MovementRecords /\ more = Append(less, InRow(x))
      BY <2>2, <1>1, <1>5
    <3>2. /\ SumFunctionOnSet(Worths(more), DOMAIN more) = SumFunctionOnSet(Worths(less), DOMAIN less) + InRow(x).value
          /\ \A on, i, w, b :
               /\ Belongs(InRow(x), on, i, w, b) =>
                    /\ Held(more, on, i, w, b) = Held(less, on, i, w, b) + InRow(x).quantity
                    /\ Worth(more, on, i, w, b) = Worth(less, on, i, w, b) + InRow(x).value
               /\ ~Belongs(InRow(x), on, i, w, b) =>
                    /\ Held(more, on, i, w, b) = Held(less, on, i, w, b)
                    /\ Worth(more, on, i, w, b) = Worth(less, on, i, w, b)
      BY <3>1, <1>6, MovementAppended
    <3> QED BY <3>2, <2>2, <1>1 DEF Arrives
  <2> QED BY <2>1, <2>2
<1>10. HasMoved(more, x.item) /\ \A i : HasMoved(ms, i) => HasMoved(more, i)
  <2>1. \A k \in DOMAIN ms : k \in DOMAIN more /\ more[k] = ms[k]
    BY <1>6, <1>8
  <2>2. HasMoved(more, x.item)
    BY <1>1, <1>2, <1>6, <1>8 DEF HasMoved
  <2> QED BY <2>1, <2>2 DEF HasMoved
<1>11. ASSUME NEW on, NEW i, NEW w, NEW b, Leaves(x, on, i, w, b)
       PROVE  \E k \in TraceRows(more, on, i, w, b) : more[k].quantity = -x.quantity
  <2>1. x.from # Nothing
    BY <1>11 DEF Leaves
  <2>2. Len(ms) + 1 \in TraceRows(less, on, i, w, b) /\ less[Len(ms) + 1] = OutRow(x) /\ Len(ms) + 1 \in DOMAIN less
    BY <2>1, <1>6, <1>11
  <2>3. Len(ms) + 1 \in TraceRows(more, on, i, w, b) /\ more[Len(ms) + 1] = OutRow(x)
    BY <2>2, <1>8 DEF TraceRows
  <2> QED BY <2>3, <1>1
<1>12. SumFunctionOnSet(Worths(ms), DOMAIN ms) \in Int
  BY MovementsTyped
<1>13. SumFunctionOnSet(Worths(more), DOMAIN more) = SumFunctionOnSet(Worths(ms), DOMAIN ms)
         + (IF x.to = Nothing THEN 0 ELSE x.value) - (IF x.from = Nothing THEN 0 ELSE x.value)
  BY <1>1, <1>7, <1>9, <1>12
<1>14. DOMAIN ms \subseteq DOMAIN more /\ \A k \in DOMAIN ms : more[k] = ms[k]
  BY <1>6, <1>8
<1>15. ASSUME NEW on, NEW i, NEW w, NEW b
       PROVE  /\ Leaves(x, on, i, w, b) =>
                   /\ Held(more, on, i, w, b) = Held(ms, on, i, w, b) - x.quantity
                   /\ Worth(more, on, i, w, b) = Worth(ms, on, i, w, b) - x.value
              /\ Arrives(x, on, i, w, b) => Held(more, on, i, w, b) = Held(ms, on, i, w, b) + x.quantity
              /\ ~Leaves(x, on, i, w, b) /\ ~Arrives(x, on, i, w, b) =>
                   /\ Held(more, on, i, w, b) = Held(ms, on, i, w, b)
                   /\ Worth(more, on, i, w, b) = Worth(ms, on, i, w, b)
  BY <1>3, <1>7, <1>9
<1> QED BY <1>8, <1>10, <1>11, <1>13, <1>14, <1>15 DEF more

LEMMA StoredRows ==
    ASSUME NEW x \in Stock!PlanRecords, NEW ls \in Seq(Stock!LayerRecords), NEW takes \in Seq(Nat), Len(takes) <= Len(ls)
    PROVE  LET more == Stored(ls, x, takes)
               less == Taken(ls, takes)
           IN
           /\ more \in Seq(Stock!LayerRecords) /\ DOMAIN ls \subseteq DOMAIN more /\ Len(ls) <= Len(more)
           /\ \A k \in DOMAIN ls : Lefts(more)[k] = Lefts(ls)[k] - Drawn(takes, k) /\ more[k].item = ls[k].item
           /\ \A k \in DOMAIN more \ DOMAIN ls : Lefts(more)[k] = x.quantity /\ more[k].item = x.item
           /\ \A on, i, w, b :
                /\ \A k \in DOMAIN ls : k \in TraceRows(more, on, i, w, b) <=> k \in TraceRows(ls, on, i, w, b)
                /\ Arrives(x, on, i, w, b) => Backing(more, on, i, w, b) = Backing(less, on, i, w, b) + x.quantity
                /\ ~Arrives(x, on, i, w, b) => Backing(more, on, i, w, b) = Backing(less, on, i, w, b)
<1> DEFINE less == Taken(ls, takes)
           more == Stored(ls, x, takes)
<1>1. /\ less \in Seq(Stock!LayerRecords) /\ Len(less) = Len(ls) /\ DOMAIN less = DOMAIN ls
      /\ \A k \in DOMAIN ls : Lefts(less)[k] = Lefts(ls)[k] - Drawn(takes, k) /\ less[k].item = ls[k].item
      /\ \A on, i, w, b : TraceRows(less, on, i, w, b) = TraceRows(ls, on, i, w, b)
  BY LayersTaken
<1>2. x.to # Nothing => Stock!Layer(x) \in Stock!LayerRecords
  BY RowsTyped
<1>3. /\ Stock!Layer(x).item = x.item /\ Stock!Layer(x).quantity = x.quantity /\ Stock!Layer(x).used = 0
      /\ x.quantity \in Nat
      /\ \A on, i, w, b : Belongs(Stock!Layer(x), on, i, w, b) <=> Belongs(InRow(x), on, i, w, b)
  BY RowsTyped, DraftedTyped
<1>4. more = IF x.to = Nothing THEN less ELSE Append(less, Stock!Layer(x))
  BY DEF Stored
<1> HIDE DEF less, more
<1>5. CASE x.to = Nothing
  <2>1. more = less
    BY <1>4, <1>5
  <2>2. \A on, i, w, b : ~Arrives(x, on, i, w, b)
    BY <1>5 DEF Arrives
  <2>3. Len(less) \in Nat
    BY <1>1
  <2> QED BY <2>1, <2>2, <2>3, <1>1 DEF less, more
<1>6. CASE x.to # Nothing
  <2> DEFINE n == Len(less) + 1
  <2>1. more = Append(less, Stock!Layer(x)) /\ Stock!Layer(x) \in Stock!LayerRecords
    BY <1>2, <1>4, <1>6
  <2>2. /\ more \in Seq(Stock!LayerRecords) /\ DOMAIN more = DOMAIN less \cup {n} /\ n \notin DOMAIN less
        /\ more[n] = Stock!Layer(x) /\ \A k \in DOMAIN less : more[k] = less[k]
    BY <2>1, <1>1, RowAppended
  <2>3. \A on, i, w, b : \/ TraceRows(more, on, i, w, b) = TraceRows(less, on, i, w, b) \cup {n}
                         \/ TraceRows(more, on, i, w, b) = TraceRows(less, on, i, w, b)
    BY <2>1, <1>1, RowAppended
  <2>4. \A on, i, w, b :
          /\ Belongs(Stock!Layer(x), on, i, w, b) =>
               Backing(more, on, i, w, b) = Backing(less, on, i, w, b) + Stock!Layer(x).quantity - Stock!Layer(x).used
          /\ ~Belongs(Stock!Layer(x), on, i, w, b) => Backing(more, on, i, w, b) = Backing(less, on, i, w, b)
    BY <2>1, <1>1, LayerAppended
  <2>5. Len(ls) <= Len(more)
    BY <2>1, <1>1
  <2>6. \A k \in DOMAIN more : Lefts(more)[k] = more[k].quantity - more[k].used
    BY <2>2, LayersTyped
  <2>7. \A k \in DOMAIN less : Lefts(less)[k] = less[k].quantity - less[k].used
    BY <1>1, LayersTyped
  <2> HIDE DEF n
  <2>8. \A k \in DOMAIN ls : Lefts(more)[k] = Lefts(ls)[k] - Drawn(takes, k) /\ more[k].item = ls[k].item
    BY <2>2, <2>6, <2>7, <1>1
  <2>9. \A k \in DOMAIN more \ DOMAIN ls : Lefts(more)[k] = x.quantity /\ more[k].item = x.item
    BY <2>2, <2>6, <1>1, <1>3
  <2>10. ASSUME NEW on, NEW i, NEW w, NEW b
         PROVE  /\ \A k \in DOMAIN ls : k \in TraceRows(more, on, i, w, b) <=> k \in TraceRows(ls, on, i, w, b)
                /\ Arrives(x, on, i, w, b) => Backing(more, on, i, w, b) = Backing(less, on, i, w, b) + x.quantity
                /\ ~Arrives(x, on, i, w, b) => Backing(more, on, i, w, b) = Backing(less, on, i, w, b)
    <3>1. \A k \in DOMAIN ls : k \in TraceRows(more, on, i, w, b) <=> k \in TraceRows(ls, on, i, w, b)
      <4>1. n \notin DOMAIN ls /\ TraceRows(less, on, i, w, b) = TraceRows(ls, on, i, w, b)
        BY <2>2, <1>1
      <4>2. \/ TraceRows(more, on, i, w, b) = TraceRows(ls, on, i, w, b) \cup {n}
            \/ TraceRows(more, on, i, w, b) = TraceRows(ls, on, i, w, b)
        BY <2>3, <4>1
      <4> QED BY <4>1, <4>2
    <3>2. Backing(less, on, i, w, b) \in Int
      BY <1>1, LayersTyped
    <3>3. Arrives(x, on, i, w, b) <=> Belongs(Stock!Layer(x), on, i, w, b)
      BY <1>3, <1>6 DEF Arrives
    <3> QED BY <3>1, <3>2, <3>3, <2>4, <1>3
  <2>11. DOMAIN ls \subseteq DOMAIN more
    BY <2>2, <1>1
  <2> QED BY <2>2, <2>5, <2>8, <2>9, <2>10, <2>11 DEF less, more
<1> QED BY <1>5, <1>6

\* A trace stays sound when a post commits whose issue, if it is of this trace, read it.
LEMMA TraceCommitted ==
    ASSUME RateScale \in Nat \ {0}, NEW x \in Stock!PlanRecords, x.from # x.to, NEW f \in Flights,
           NEW ms \in Seq(Stock!MovementRecords), NEW ls \in Seq(Stock!LayerRecords), NEW on,
           LayersRead(f, x, ls, on), NEW i, NEW w, NEW b, TraceSound(ms, ls, on, i, w, b),
           x.from # Nothing /\ x.item = i /\ x.from = w => StockRead(f, x, ms, ls, on)
    PROVE  TraceSound(Moved(ms, x), Stored(ls, x, f.takes), on, i, w, b)
<1> DEFINE more == Moved(ms, x)
           stored == Stored(ls, x, f.takes)
           left == Taken(ls, f.takes)
           H == Held(ms, on, i, w, b)
           W == Worth(ms, on, i, w, b)
           B == Backing(ls, on, i, w, b)
           out == Leaves(x, on, i, w, b)
           in == Arrives(x, on, i, w, b)
<1>1. f.takes \in Seq(Nat) /\ Len(f.takes) <= Len(ls)
  BY DEF Flights, LayersRead
<1>2. /\ more \in Seq(Stock!MovementRecords) /\ DOMAIN ms \subseteq DOMAIN more
      /\ \A k \in DOMAIN ms : more[k] = ms[k]
      /\ out => /\ Held(more, on, i, w, b) = H - x.quantity
                /\ Worth(more, on, i, w, b) = W - x.value
                /\ \E k \in TraceRows(more, on, i, w, b) : more[k].quantity = -x.quantity
      /\ in => Held(more, on, i, w, b) = H + x.quantity
      /\ ~out /\ ~in => Held(more, on, i, w, b) = H /\ Worth(more, on, i, w, b) = W
  <2>1. more \in Seq(Stock!MovementRecords) /\ DOMAIN ms \subseteq DOMAIN more /\ \A k \in DOMAIN ms : more[k] = ms[k]
    BY MovedRows
  <2>2. /\ out => /\ Held(more, on, i, w, b) = H - x.quantity
                  /\ Worth(more, on, i, w, b) = W - x.value
                  /\ \E k \in TraceRows(more, on, i, w, b) : more[k].quantity = -x.quantity
        /\ in => Held(more, on, i, w, b) = H + x.quantity
        /\ ~out /\ ~in => Held(more, on, i, w, b) = H /\ Worth(more, on, i, w, b) = W
    <3>1. \A o, j, v, c :
            /\ Leaves(x, o, j, v, c) =>
                 /\ Held(more, o, j, v, c) = Held(ms, o, j, v, c) - x.quantity
                 /\ Worth(more, o, j, v, c) = Worth(ms, o, j, v, c) - x.value
                 /\ \E k \in TraceRows(more, o, j, v, c) : more[k].quantity = -x.quantity
            /\ Arrives(x, o, j, v, c) => Held(more, o, j, v, c) = Held(ms, o, j, v, c) + x.quantity
            /\ ~Leaves(x, o, j, v, c) /\ ~Arrives(x, o, j, v, c) =>
                 /\ Held(more, o, j, v, c) = Held(ms, o, j, v, c)
                 /\ Worth(more, o, j, v, c) = Worth(ms, o, j, v, c)
      BY MovedRows
    <3> HIDE DEF more
    <3> QED BY <3>1
  <2> QED BY <2>1, <2>2
<1>3. /\ stored \in Seq(Stock!LayerRecords)
      /\ \A k \in DOMAIN ls : Lefts(stored)[k] = Lefts(ls)[k] - Drawn(f.takes, k)
      /\ \A k \in DOMAIN stored \ DOMAIN ls : Lefts(stored)[k] = x.quantity
      /\ \A k \in DOMAIN ls : k \in TraceRows(stored, on, i, w, b) <=> k \in TraceRows(ls, on, i, w, b)
      /\ in => Backing(stored, on, i, w, b) = Backing(left, on, i, w, b) + x.quantity
      /\ ~in => Backing(stored, on, i, w, b) = Backing(left, on, i, w, b)
  BY <1>1, StoredRows
<1>4. H \in Int /\ W \in Int /\ B \in Int /\ x.quantity \in Nat \ {0} /\ x.value \in Int
  BY MovementsTyped, LayersTyped, DraftedTyped
<1>5. /\ out <=> x.from # Nothing /\ x.item = i /\ x.from = w /\ (i \in on => x.batch = b)
      /\ in <=> x.to # Nothing /\ x.item = i /\ x.to = w /\ (i \in on => x.batch = b)
  BY RowsTyped
<1>6. out => TraceRows(ls, on, i, w, b) = TraceRows(ls, on, x.item, x.from, x.batch)
          /\ TraceRows(ms, on, i, w, b) = TraceRows(ms, on, x.item, x.from, x.batch)
  BY <1>5 DEF TraceRows
<1>7. /\ \A k \in DOMAIN f.takes : f.takes[k] # 0 => x.from # Nothing /\ x.item \in Fifo /\ k \in TraceRows(ls, on, x.item, x.from, x.batch)
      /\ x.from # Nothing /\ x.item \in Fifo => SumFunctionOnSet(f.takes, DOMAIN f.takes) = x.quantity
  BY DEF LayersRead
<1>8. \A k \in DOMAIN f.takes : f.takes[k] # 0 /\ k \in TraceRows(ls, on, i, w, b) => out
  BY <1>5, <1>7 DEF TraceRows
<1>9. out => /\ H >= x.quantity
             /\ \A k \in DOMAIN f.takes : k \in TraceRows(ls, on, i, w, b) => f.takes[k] <= Lefts(ls)[k]
             /\ i \notin Fifo /\ x.quantity < RateScale /\ H = x.quantity => W = x.value
  <2>1. out => StockRead(f, x, ms, ls, on)
    BY <1>5
  <2> QED BY <2>1, <1>5, <1>6 DEF StockRead, Held, Worth
<1>10. ~(out /\ in)
  BY <1>5
<1>11. /\ H >= 0 /\ (i \in Fifo => B = H)
       /\ \A k \in TraceRows(ls, on, i, w, b) : Lefts(ls)[k] >= 0
       /\ i \notin Fifo /\ H = 0 /\ (\A k \in TraceRows(ms, on, i, w, b) : ms[k].quantity > -RateScale) => W = 0
  BY DEF TraceSound
<1>12. \A k \in DOMAIN f.takes : f.takes[k] \in Nat
  BY <1>1
<1>13. /\ out /\ i \in Fifo => Backing(left, on, i, w, b) = B - x.quantity
       /\ ~out => Backing(left, on, i, w, b) = B
  <2>1. out /\ i \in Fifo => Backing(left, on, i, w, b) = B - x.quantity
    <3> SUFFICES ASSUME out, i \in Fifo PROVE Backing(left, on, i, w, b) = B - x.quantity
      OBVIOUS
    <3>1. \A k \in DOMAIN f.takes : f.takes[k] # 0 => k \in TraceRows(ls, on, i, w, b)
      BY <1>6, <1>7
    <3>2. SumFunctionOnSet(f.takes, DOMAIN f.takes) = x.quantity
      BY <1>5, <1>7
    <3> QED BY <3>1, <3>2, <1>1, BackingTaken
  <2>2. ~out => Backing(left, on, i, w, b) = B
    <3> SUFFICES ASSUME ~out PROVE Backing(left, on, i, w, b) = B
      OBVIOUS
    <3>1. \A k \in DOMAIN f.takes : k \in TraceRows(ls, on, i, w, b) => f.takes[k] = 0
      BY <1>8
    <3> QED BY <3>1, <1>1, BackingTaken
  <2> QED BY <2>1, <2>2
<1>14. \A k \in TraceRows(ls, on, i, w, b) : Lefts(ls)[k] \in Int /\ k \in DOMAIN ls
  BY LayersTyped DEF TraceRows
<1>15. \A k \in TraceRows(stored, on, i, w, b) : k \in DOMAIN stored
  BY DEF TraceRows
<1>a. \A k \in TraceRows(more, on, i, w, b) : k \in DOMAIN more
  BY DEF TraceRows
<1>b. \A k \in TraceRows(ms, on, i, w, b) : k \in TraceRows(more, on, i, w, b) /\ more[k] = ms[k]
  BY <1>2 DEF TraceRows
<1>c. \A k \in TraceRows(more, on, i, w, b) : more[k].quantity \in Int
  BY <1>2, <1>a, MovementsTyped
<1>d. \A k \in DOMAIN ls : (out => Drawn(f.takes, k) \in Nat /\ (k \in TraceRows(ls, on, i, w, b) /\ k \in DOMAIN f.takes => Drawn(f.takes, k) <= Lefts(ls)[k]))
                        /\ (k \notin DOMAIN f.takes => Drawn(f.takes, k) = 0)
                        /\ (~out /\ k \in TraceRows(ls, on, i, w, b) => Drawn(f.takes, k) = 0)
  BY <1>8, <1>9, <1>12 DEF Drawn
<1> HIDE DEF more, stored, left, H, W, B, out, in
<1>16. Held(more, on, i, w, b) >= 0
  BY <1>2, <1>4, <1>9, <1>11
<1>17. i \in Fifo => Backing(stored, on, i, w, b) = Held(more, on, i, w, b)
  BY <1>2, <1>3, <1>4, <1>10, <1>11, <1>13
<1>18. \A k \in TraceRows(stored, on, i, w, b) : Lefts(stored)[k] >= 0
  <2> SUFFICES ASSUME NEW k \in TraceRows(stored, on, i, w, b) PROVE Lefts(stored)[k] >= 0
    OBVIOUS
  <2>1. CASE k \in DOMAIN ls
    BY <2>1, <1>3, <1>11, <1>14, <1>d
  <2>2. CASE k \notin DOMAIN ls
    BY <2>2, <1>3, <1>4, <1>15
  <2> QED BY <2>1, <2>2
<1>19. ASSUME i \notin Fifo, Held(more, on, i, w, b) = 0, \A k \in TraceRows(more, on, i, w, b) : more[k].quantity > -RateScale
       PROVE  Worth(more, on, i, w, b) = 0
  <2>1. ~in
    BY <1>2, <1>4, <1>11, <1>19
  <2>2. CASE out
    <3>1. H = x.quantity /\ -x.quantity > -RateScale
      BY <2>2, <1>2, <1>4, <1>19
    <3> QED BY <3>1, <2>2, <1>2, <1>4, <1>9, <1>19
  <2>3. CASE ~out
    BY <2>1, <2>3, <1>2, <1>11, <1>19, <1>b
  <2> QED BY <2>2, <2>3
<1> QED BY <1>16, <1>17, <1>18, <1>19 DEF TraceSound, more, stored

\* What another post in flight has read is still so: an issue of its trace would have overlapped
\* it, and a receipt only adds.
LEMMA FlightCommitted ==
    ASSUME NEW x \in Stock!PlanRecords, x.from # x.to, NEW f \in Flights,
           NEW ms \in Seq(Stock!MovementRecords), NEW ls \in Seq(Stock!LayerRecords), NEW on, NEW ov,
           LayersRead(f, x, ls, on),
           NEW y \in Stock!PlanRecords, NEW g \in Flights, FlightSound(g, y, ms, ls, on, ov), Apart(x, y, on, ov)
    PROVE  FlightSound(g, y, Moved(ms, x), Stored(ls, x, f.takes), on, ov)
<1> DEFINE more == Moved(ms, x)
           stored == Stored(ls, x, f.takes)
           H == Held(ms, on, y.item, y.from, y.batch)
           out == Leaves(x, on, y.item, y.from, y.batch)
           in == Arrives(x, on, y.item, y.from, y.batch)
<1>1. f.takes \in Seq(Nat) /\ Len(f.takes) <= Len(ls) /\ g.takes \in Seq(Nat)
  BY DEF Flights, LayersRead
<1>2. /\ \A i : HasMoved(ms, i) => HasMoved(more, i)
      /\ in => Held(more, on, y.item, y.from, y.batch) = H + x.quantity
      /\ ~out /\ ~in => /\ Held(more, on, y.item, y.from, y.batch) = H
                        /\ Worth(more, on, y.item, y.from, y.batch) = Worth(ms, on, y.item, y.from, y.batch)
  <2>1. /\ \A i : HasMoved(ms, i) => HasMoved(more, i)
        /\ \A o, j, v, c :
             /\ Arrives(x, o, j, v, c) => Held(more, o, j, v, c) = Held(ms, o, j, v, c) + x.quantity
             /\ ~Leaves(x, o, j, v, c) /\ ~Arrives(x, o, j, v, c) =>
                  /\ Held(more, o, j, v, c) = Held(ms, o, j, v, c)
                  /\ Worth(more, o, j, v, c) = Worth(ms, o, j, v, c)
    BY MovedRows
  <2> HIDE DEF more
  <2> QED BY <2>1
<1>3. /\ stored \in Seq(Stock!LayerRecords) /\ Len(ls) <= Len(stored)
      /\ \A k \in DOMAIN ls : Lefts(stored)[k] = Lefts(ls)[k] - Drawn(f.takes, k)
      /\ \A o, j, v, c : \A k \in DOMAIN ls : k \in TraceRows(stored, o, j, v, c) <=> k \in TraceRows(ls, o, j, v, c)
  BY <1>1, StoredRows
<1>4. PlanRead(g, y) /\ LayersRead(g, y, ls, on)
  BY DEF FlightSound
<1>5. /\ Len(g.takes) <= Len(ls)
      /\ \A k \in DOMAIN g.takes : k \in DOMAIN ls
  <2>1. Len(g.takes) <= Len(ls)
    BY <1>4 DEF LayersRead
  <2>2. DOMAIN g.takes = 1 .. Len(g.takes) /\ DOMAIN ls = 1 .. Len(ls) /\ Len(g.takes) \in Nat /\ Len(ls) \in Nat
    BY <1>1
  <2> QED BY <2>1, <2>2
<1> HIDE DEF more, stored
<1>6. LayersRead(g, y, stored, on)
  <2>1. Len(g.takes) <= Len(stored)
    <3>1. Len(g.takes) \in Nat /\ Len(ls) \in Nat /\ Len(stored) \in Nat
      BY <1>1, <1>3
    <3> QED BY <3>1, <1>3, <1>5
  <2> QED BY <2>1, <1>3, <1>4, <1>5 DEF LayersRead
<1>7. y.from # Nothing => HasMoved(more, y.item)
  BY <1>2 DEF FlightSound
<1>8. ASSUME y.from # Nothing, <<y.item, y.from>> \notin ov PROVE StockRead(g, y, more, stored, on)
  <2>1. /\ H >= y.quantity
        /\ \A k \in DOMAIN g.takes : k \in TraceRows(ls, on, y.item, y.from, y.batch) => g.takes[k] <= Lefts(ls)[k]
        /\ y.item \notin Fifo /\ y.quantity < RateScale /\ H = y.quantity
             => Worth(ms, on, y.item, y.from, y.batch) = y.value
    BY <1>8 DEF FlightSound, StockRead
  <2>2. /\ out <=> x.from # Nothing /\ x.item = y.item /\ x.from = y.from /\ (y.item \in on => x.batch = y.batch)
        /\ H \in Int /\ x.quantity \in Nat \ {0} /\ y.quantity \in Nat
    BY RowsTyped, MovementsTyped, DraftedTyped
  <2>3. ~out
    BY <2>2, <1>8 DEF Apart
  <2>4. \A k \in DOMAIN ls : k \in TraceRows(ls, on, y.item, y.from, y.batch) => Drawn(f.takes, k) = 0
    <3> SUFFICES ASSUME NEW k \in DOMAIN ls, k \in TraceRows(ls, on, y.item, y.from, y.batch), Drawn(f.takes, k) # 0
                 PROVE  FALSE
      OBVIOUS
    <3>1. k \in DOMAIN f.takes /\ f.takes[k] # 0
      BY DEF Drawn
    <3>2. x.from # Nothing /\ k \in TraceRows(ls, on, x.item, x.from, x.batch)
      BY <3>1 DEF LayersRead
    <3> QED BY <3>2, <2>2, <2>3 DEF TraceRows
  <2>5. \A k \in DOMAIN ls : Lefts(ls)[k] \in Int
    BY LayersTyped
  <2>6. \A k \in DOMAIN g.takes : k \in TraceRows(stored, on, y.item, y.from, y.batch) => g.takes[k] <= Lefts(stored)[k]
    BY <2>1, <2>4, <2>5, <1>3, <1>5
  <2>7. Held(more, on, y.item, y.from, y.batch) >= y.quantity
    BY <2>1, <2>2, <2>3, <1>2
  <2>8. in => Held(more, on, y.item, y.from, y.batch) # y.quantity
    BY <2>1, <2>2, <1>2
  <2> HIDE DEF H, in, out
  <2>9. y.item \notin Fifo /\ y.quantity < RateScale /\ Held(more, on, y.item, y.from, y.batch) = y.quantity
          => Worth(more, on, y.item, y.from, y.batch) = y.value
    BY <2>1, <2>3, <2>8, <1>2
  <2> QED BY <2>6, <2>7, <2>9 DEF StockRead
<1> QED BY <1>4, <1>6, <1>7, <1>8 DEF FlightSound, more, stored

\* A posted plan books its value, once.
Posted(plans, p) == [plans EXCEPT ![p].stage = "posted"]

LEMMA PlanBooked ==
    ASSUME Stock!StockAssumption, NEW plans \in [StockPlans -> Stock!PlanRecords \cup {Stock!Undrafted}],
           NEW p \in StockPlans, plans[p].stage = "drafted"
    PROVE  LET after == Posted(plans, p) IN
           /\ after[p].stage = "posted" /\ after[p] \in Stock!PlanRecords /\ after[p].from = plans[p].from /\ after[p].to = plans[p].to
           /\ \A r \in StockPlans : r # p => after[r] = plans[r]
           /\ after \in [StockPlans -> Stock!PlanRecords \cup {Stock!Undrafted}]
           /\ SumFunctionOnSet(Books(after), StockPlans) = SumFunctionOnSet(Books(plans), StockPlans)
                + (IF plans[p].to = Nothing THEN 0 ELSE plans[p].value)
                - (IF plans[p].from = Nothing THEN 0 ELSE plans[p].value)
<1> DEFINE after == Posted(plans, p)
<1>1. plans[p] \in Stock!PlanRecords
  <2>1. plans[p] \in Stock!PlanRecords \cup {Stock!Undrafted} /\ plans[p] # Stock!Undrafted
    BY UndraftedStage
  <2> QED BY <2>1
<1>2. after[p] = [plans[p] EXCEPT !.stage = "posted"]
  BY DEF Posted
<1>3. /\ after[p] \in Stock!PlanRecords /\ after[p].stage = "posted"
      /\ after[p].from = plans[p].from /\ after[p].to = plans[p].to /\ after[p].value = plans[p].value
  BY <1>1, <1>2 DEF Stock!PlanRecords
<1>4. \A r \in StockPlans : r # p => after[r] = plans[r]
  BY DEF Posted
<1>5. after \in [StockPlans -> Stock!PlanRecords \cup {Stock!Undrafted}]
  <2>1. after = [plans EXCEPT ![p] = after[p]]
    BY <1>2 DEF Posted
  <2> QED BY <2>1, <1>3
<1> HIDE DEF after
<1>6. IsFiniteSet(StockPlans)
  BY DEF Stock!StockAssumption, Stock!IsFiniteSet, IsFiniteSet
<1>7. \A r \in StockPlans : /\ Books(plans)[r] \in Int /\ Books(after)[r] \in Int
                            /\ Books(plans)[r] = BookValue(plans[r]) /\ Books(after)[r] = BookValue(after[r])
  <2>1. ASSUME NEW x \in Stock!PlanRecords \cup {Stock!Undrafted} PROVE BookValue(x) \in Int
    <3>1. CASE x = Stock!Undrafted
      BY <3>1, UndraftedStage DEF BookValue
    <3>2. CASE x \in Stock!PlanRecords
      <4>1. x.value \in Int
        BY <3>2, DraftedTyped
      <4> QED BY <4>1 DEF BookValue
    <3> QED BY <3>1, <3>2
  <2> QED BY <2>1, <1>5 DEF Books
<1>8. SumFunctionOnSet(Books(plans), StockPlans) = Books(plans)[p] + SumFunctionOnSet(Books(plans), StockPlans \ {p})
  BY <1>6, <1>7, SumWithout
<1>9. SumFunctionOnSet(Books(after), StockPlans) = Books(after)[p] + SumFunctionOnSet(Books(after), StockPlans \ {p})
  BY <1>6, <1>7, SumWithout
<1>10. \A r \in StockPlans \ {p} : Books(plans)[r] \in Int /\ Books(plans)[r] = Books(after)[r]
  BY <1>4, <1>7
<1>11. IsFiniteSet(StockPlans \ {p})
  BY <1>6, FS_Subset
<1>12. SumFunctionOnSet(Books(plans), StockPlans \ {p}) = SumFunctionOnSet(Books(after), StockPlans \ {p})
  BY <1>10, <1>11, SumSame
<1>13. SumFunctionOnSet(Books(plans), StockPlans \ {p}) \in Int
  BY <1>10, <1>11, SumInteger
<1>14. plans[p].value \in Int
  BY <1>1, DraftedTyped
<1>15. /\ Books(plans)[p] = 0
       /\ Books(after)[p] = (IF plans[p].to = Nothing THEN 0 ELSE plans[p].value)
                            - (IF plans[p].from = Nothing THEN 0 ELSE plans[p].value)
  <2>1. Books(plans)[p] = 0
    BY <1>7 DEF BookValue
  <2>2. Books(after)[p] = (IF after[p].to = Nothing THEN 0 ELSE after[p].value)
                          - (IF after[p].from = Nothing THEN 0 ELSE after[p].value)
    BY <1>3, <1>7 DEF BookValue
  <2> QED BY <2>1, <2>2, <1>3
<1> QED BY <1>3, <1>4, <1>5, <1>8, <1>9, <1>12, <1>13, <1>14, <1>15 DEF after

\* The movements and layers of a commit are those above.
LEMMA CommitRows ==
    ASSUME Stock!StockAssumption, StockInv, NEW c \in Members, Stock!CommitPost(c)
    PROVE  /\ c \in Flying
           /\ PlanOf(c).value = valuing[c].value
           /\ movements' = Moved(movements, PlanOf(c))
           /\ layers' = Stored(layers, PlanOf(c), valuing[c].takes)
           /\ valued' = [valued EXCEPT ![valuing[c].plan].stage = "posted"]
           /\ valuing' = [valuing EXCEPT ![c] = Stock!Idle]
           /\ traced' = traced /\ inactive' = inactive /\ overlapped' = overlapped
<1> DEFINE x == PlanOf(c)
           v == valuing[c].value
           takes == valuing[c].takes
           outs == IF x.from = Nothing THEN <<>> ELSE <<Stock!Movement(x, x.from, -1, v)>>
           ins == IF x.to = Nothing THEN <<>> ELSE <<Stock!Movement(x, x.to, 1, Stock!Amount(x.quantity, x.rate))>>
           lots == IF x.to = Nothing THEN <<>> ELSE <<Stock!Layer(x)>>
<1>1. /\ valuing[c] # Stock!Idle
      /\ movements' = movements \o outs \o ins
      /\ layers' = Stock!Consumed(takes) \o lots
      /\ valued' = [valued EXCEPT ![valuing[c].plan].stage = "posted"]
      /\ valuing' = [valuing EXCEPT ![c] = Stock!Idle]
      /\ traced' = traced /\ inactive' = inactive /\ overlapped' = overlapped
  BY DEF Stock!CommitPost, PlanOf
<1>2. c \in Flying
  BY <1>1 DEF Flying
<1>3. StockTypes /\ FlightsSound
  BY DEF StockInv
<1>4. x \in Stock!PlanRecords /\ x.from # x.to /\ takes \in Seq(Nat)
  BY <1>2, <1>3, FlightDrafted, FlightTyped
<1>5. v = x.value /\ (x.to # Nothing => Stock!Amount(x.quantity, x.rate) = x.value)
  BY <1>2, <1>3 DEF FlightsSound, FlightSound, PlanRead
<1>6. movements \in Seq(Stock!MovementRecords) /\ layers \in Seq(Stock!LayerRecords)
  BY <1>3 DEF StockTypes, Stock!TypeOK
<1>7. /\ x.from # Nothing => OutRow(x) \in Stock!MovementRecords
      /\ x.to # Nothing => InRow(x) \in Stock!MovementRecords /\ Stock!Layer(x) \in Stock!LayerRecords
  BY <1>4, RowsTyped
<1>8. outs = (IF x.from = Nothing THEN <<>> ELSE <<OutRow(x)>>) /\ ins = (IF x.to = Nothing THEN <<>> ELSE <<InRow(x)>>)
  BY <1>5 DEF OutRow, InRow
<1>9. Stock!Consumed(takes) = Taken(layers, takes)
  BY DEF Stock!Consumed, Taken
<1> HIDE DEF x, outs, ins, takes
<1>10. movements \o outs = MovedOut(movements, x) /\ movements \o outs \in Seq(Stock!MovementRecords)
  <2>1. CASE x.from = Nothing
    BY <2>1, <1>6, <1>8, ConcatEmptySeq DEF MovedOut
  <2>2. CASE x.from # Nothing
    <3>1. movements \o outs = Append(movements, OutRow(x))
      BY <2>2, <1>6, <1>7, <1>8, AppendIsConcat
    <3>2. Append(movements, OutRow(x)) \in Seq(Stock!MovementRecords)
      BY <2>2, <1>6, <1>7
    <3> QED BY <2>2, <3>1, <3>2 DEF MovedOut
  <2> QED BY <2>1, <2>2
<1>11. movements' = Moved(movements, x)
  <2>1. CASE x.to = Nothing
    BY <2>1, <1>1, <1>8, <1>10, ConcatEmptySeq DEF Moved
  <2>2. CASE x.to # Nothing
    <3>1. MovedOut(movements, x) \o <<InRow(x)>> = Append(MovedOut(movements, x), InRow(x))
      BY <2>2, <1>7, <1>10, AppendIsConcat
    <3> QED BY <2>2, <3>1, <1>1, <1>8, <1>10 DEF Moved
  <2> QED BY <2>1, <2>2
<1>12. layers' = Stored(layers, x, takes)
  <2>1. Taken(layers, takes) \in Seq(Stock!LayerRecords)
    BY <1>4, <1>6, LayersTaken
  <2>2. CASE x.to = Nothing
    BY <2>1, <2>2, <1>1, <1>9, ConcatEmptySeq DEF Stored
  <2>3. CASE x.to # Nothing
    <3>1. Taken(layers, takes) \o <<Stock!Layer(x)>> = Append(Taken(layers, takes), Stock!Layer(x))
      BY <2>1, <2>3, <1>7, AppendIsConcat
    <3> QED BY <2>3, <3>1, <1>1, <1>9 DEF Stored
  <2> QED BY <2>2, <2>3
<1> QED BY <1>1, <1>2, <1>5, <1>11, <1>12 DEF x, takes

LEMMA CommitKeeps ==
    ASSUME Stock!StockAssumption, StockInv, NEW c \in Members, Stock!CommitPost(c)
    PROVE  StockInv'
<1> DEFINE p == valuing[c].plan
           x == PlanOf(c)
           f == valuing[c]
<1>1. /\ c \in Flying /\ movements' = Moved(movements, x) /\ layers' = Stored(layers, x, f.takes)
      /\ valued' = [valued EXCEPT ![p].stage = "posted"] /\ valuing' = [valuing EXCEPT ![c] = Stock!Idle]
      /\ traced' = traced /\ inactive' = inactive /\ overlapped' = overlapped
  BY CommitRows
<1>2. StockTypes /\ FlightsSound /\ AllMoved /\ TracesSound /\ BooksAgree
  BY DEF StockInv
<1>3. x \in Stock!PlanRecords /\ x.stage = "drafted" /\ x.from # x.to /\ x = valued[p]
      /\ p \in StockPlans /\ f \in Flights /\ f.takes \in Seq(Nat)
  BY <1>1, <1>2, FlightDrafted, FlightTyped DEF PlanOf
<1>4. FlightSound(f, x, movements, layers, traced, overlapped) /\ LayersRead(f, x, layers, traced)
  BY <1>1, <1>2 DEF FlightsSound, FlightSound
<1>5. /\ movements \in Seq(Stock!MovementRecords) /\ layers \in Seq(Stock!LayerRecords)
      /\ valued \in [StockPlans -> Stock!PlanRecords \cup {Stock!Undrafted}]
      /\ valuing \in [Members -> {Stock!Idle} \cup Flights]
      /\ RateScale \in Nat \ {0} /\ Nothing \notin Warehouses
  BY <1>2 DEF StockTypes, Stock!TypeOK, Stock!StockAssumption
<1>6. /\ movements' \in Seq(Stock!MovementRecords) /\ \A i : HasMoved(movements, i) => HasMoved(movements', i)
      /\ HasMoved(movements', x.item)
      /\ SumFunctionOnSet(Worths(movements'), DOMAIN movements') = SumFunctionOnSet(Worths(movements), DOMAIN movements)
           + (IF x.to = Nothing THEN 0 ELSE x.value) - (IF x.from = Nothing THEN 0 ELSE x.value)
  BY <1>1, <1>3, <1>5, MovedRows
<1>7. /\ layers' \in Seq(Stock!LayerRecords)
      /\ \A k \in DOMAIN layers : layers'[k].item = layers[k].item
      /\ \A k \in DOMAIN layers' \ DOMAIN layers : layers'[k].item = x.item
  <2>1. Len(f.takes) <= Len(layers)
    BY <1>4 DEF LayersRead
  <2> QED BY <2>1, <1>1, <1>3, <1>5, StoredRows
<1>8. /\ valued'[p].stage = "posted" /\ valued'[p] \in Stock!PlanRecords
      /\ valued'[p].from = x.from /\ valued'[p].to = x.to
      /\ \A r \in StockPlans : r # p => valued'[r] = valued[r]
      /\ valued' \in [StockPlans -> Stock!PlanRecords \cup {Stock!Undrafted}]
      /\ SumFunctionOnSet(Books(valued'), StockPlans) = SumFunctionOnSet(Books(valued), StockPlans)
           + (IF x.to = Nothing THEN 0 ELSE x.value) - (IF x.from = Nothing THEN 0 ELSE x.value)
  <2> HIDE DEF p
  <2>1. valued[p].stage = "drafted" /\ x = valued[p]
    BY <1>3
  <2>2. p \in StockPlans /\ valued' = Posted(valued, p)
    BY <1>1, <1>3 DEF Posted
  <2> HIDE DEF x
  <2>3. /\ valued'[p].stage = "posted" /\ valued'[p] \in Stock!PlanRecords
        /\ valued'[p].from = valued[p].from /\ valued'[p].to = valued[p].to
        /\ \A r \in StockPlans : r # p => valued'[r] = valued[r]
        /\ valued' \in [StockPlans -> Stock!PlanRecords \cup {Stock!Undrafted}]
        /\ SumFunctionOnSet(Books(valued'), StockPlans) = SumFunctionOnSet(Books(valued), StockPlans)
             + (IF valued[p].to = Nothing THEN 0 ELSE valued[p].value)
             - (IF valued[p].from = Nothing THEN 0 ELSE valued[p].value)
    BY <2>1, <2>2, <1>5, PlanBooked
  <2> QED BY <2>1, <2>3
<1>9. Stock!Idle' = Stock!Idle /\ Stock!Undrafted' = Stock!Undrafted
  BY DEF Stock!Idle, Stock!Undrafted
<1> HIDE DEF p, x, f
<1>10. /\ valuing' \in [Members -> {Stock!Idle} \cup Flights]
       /\ \A d \in Members : valuing'[d] = IF d = c THEN Stock!Idle ELSE valuing[d]
  BY <1>1, <1>5
<1>11. StockTypes'
  <2>1. (Stock!TypeOK)'
    BY <1>1, <1>2, <1>6, <1>7, <1>8, <1>9, <1>10 DEF StockTypes, Stock!TypeOK, Flights
  <2>2. \A r \in StockPlans : valued'[r] # Stock!Undrafted => valued'[r].from # valued'[r].to
    BY <1>2, <1>3, <1>8 DEF StockTypes
  <2> QED BY <1>1, <1>2, <1>9, <1>10, <2>1, <2>2 DEF StockTypes
<1>12. \A d \in Flying' : /\ d \in Flying /\ d # c /\ d \in Members /\ valuing'[d] = valuing[d]
                          /\ valuing[d].plan # p /\ PlanOf(d)' = PlanOf(d)
  <2> SUFFICES ASSUME NEW d \in Flying'
               PROVE  /\ d \in Flying /\ d # c /\ d \in Members /\ valuing'[d] = valuing[d]
                      /\ valuing[d].plan # p /\ PlanOf(d)' = PlanOf(d)
    OBVIOUS
  <2>1. d \in Members /\ d # c /\ d \in Flying /\ valuing'[d] = valuing[d]
    BY <1>9, <1>10 DEF Flying
  <2>2. valuing[d].plan # p /\ valuing[d].plan \in StockPlans
    BY <2>1, <1>1, <1>2, FlightTyped DEF FlightsSound, p
  <2> QED BY <2>1, <2>2, <1>8 DEF PlanOf
<1>13. FlightsSound'
  <2>1. ASSUME NEW d \in Flying'
        PROVE  FlightSound(valuing'[d], PlanOf(d)', movements', layers', traced', overlapped')
    <3>1. /\ d \in Flying /\ d # c /\ valuing'[d] = valuing[d] /\ PlanOf(d)' = PlanOf(d)
      BY <1>12
    <3>2. FlightSound(valuing[d], PlanOf(d), movements, layers, traced, overlapped) /\ Apart(x, PlanOf(d), traced, overlapped)
      BY <3>1, <1>1, <1>2 DEF FlightsSound, x
    <3>3. PlanOf(d) \in Stock!PlanRecords /\ valuing[d] \in Flights
      BY <3>1, <1>2, FlightDrafted, FlightTyped
    <3>4. FlightSound(valuing[d], PlanOf(d), Moved(movements, x), Stored(layers, x, f.takes), traced, overlapped)
      BY <3>2, <3>3, <1>3, <1>4, <1>5, FlightCommitted
    <3> QED BY <3>1, <3>4, <1>1
  <2>2. ASSUME NEW d \in Flying', NEW e \in Flying', d # e
        PROVE  valuing'[d].plan # valuing'[e].plan /\ Apart(PlanOf(d)', PlanOf(e)', traced', overlapped')
    <3>1. valuing[d].plan # valuing[e].plan /\ Apart(PlanOf(d), PlanOf(e), traced, overlapped)
      BY <2>2, <1>2, <1>12 DEF FlightsSound
    <3> QED BY <3>1, <1>1, <1>12
  <2> QED BY <2>1, <2>2, Zenon DEF FlightsSound
<1>14. AllMoved'
  <2>1. \A k \in DOMAIN layers' : HasMoved(movements', layers'[k].item)
    BY <1>2, <1>6, <1>7 DEF AllMoved
  <2> QED BY <2>1, <1>1, <1>2, <1>6 DEF AllMoved
<1>15. TracesSound'
  <2>1. ASSUME NEW i \in StockItems, NEW w \in Warehouses, <<i, w>> \notin overlapped, NEW b
        PROVE  TraceSound(Moved(movements, x), Stored(layers, x, f.takes), traced, i, w, b)
    <3>1. TraceSound(movements, layers, traced, i, w, b)
      BY <2>1, <1>2, Zenon DEF TracesSound
    <3>2. x.from # Nothing /\ x.item = i /\ x.from = w => StockRead(f, x, movements, layers, traced)
      BY <2>1, <1>4 DEF FlightSound
    <3> QED BY <3>1, <3>2, <1>3, <1>4, <1>5, TraceCommitted
  <2> QED BY <2>1, <1>1, Zenon DEF TracesSound
<1>16. BooksAgree'
  <2>1. SumFunctionOnSet(Worths(movements'), DOMAIN movements') = SumFunctionOnSet(Books(valued'), StockPlans)
    BY <1>2, <1>6, <1>8 DEF BooksAgree
  <2> QED BY <2>1 DEF BooksAgree
<1> QED BY <1>11, <1>13, <1>14, <1>15, <1>16 DEF StockInv

-----------------------------------------------------------------------------
(* Stock starts empty, or with receipts.                                    *)

LEMMA NothingSound ==
    /\ \A on, i, w, b : TraceSound(<<>>, <<>>, on, i, w, b)
    /\ SumFunctionOnSet(Worths(<<>>), DOMAIN <<>>) = 0
<1>1. \A on, i, w, b : TraceRows(<<>>, on, i, w, b) = {}
  BY DEF TraceRows
<1>2. \A on, i, w, b : Held(<<>>, on, i, w, b) = 0 /\ Worth(<<>>, on, i, w, b) = 0 /\ Backing(<<>>, on, i, w, b) = 0
  BY <1>1, SumEmpty DEF Held, Worth, Backing
<1>3. DOMAIN <<>> = {}
  OBVIOUS
<1> QED BY <1>1, <1>2, <1>3, SumEmpty DEF TraceSound

\* A state without posts in flight.
LEMMA NothingFlies ==
    ASSUME valuing = [c \in Members |-> Stock!Idle]
    PROVE  Flying = {} /\ FlightsSound
  BY DEF Flying, FlightsSound

LEMMA InitStock == ASSUME Stock!StockAssumption, Stock!Init PROVE StockInv
<1>1. /\ valued = [p \in StockPlans |-> Stock!Undrafted] /\ movements = <<>> /\ layers = <<>>
      /\ traced \in SUBSET StockItems /\ inactive = {} /\ valuing = [c \in Members |-> Stock!Idle] /\ overlapped = {}
  BY DEF Stock!Init
<1>2. StockTypes
  BY <1>1 DEF StockTypes, Stock!TypeOK
<1>3. FlightsSound
  BY <1>1, NothingFlies
<1>4. AllMoved
  BY <1>1 DEF AllMoved
<1>5. TracesSound
  BY <1>1, NothingSound DEF TracesSound
<1>6. BooksAgree
  <2>1. \A p \in StockPlans : Books(valued)[p] = 0
    BY <1>1, UndraftedStage DEF Books, BookValue
  <2>2. IsFiniteSet(StockPlans)
    BY DEF Stock!StockAssumption, Stock!IsFiniteSet, IsFiniteSet
  <2>3. SumFunctionOnSet(Books(valued), StockPlans) = 0
    BY <2>1, <2>2, SumZero
  <2> QED BY <2>3, <1>1, NothingSound DEF BooksAgree
<1> QED BY <1>2, <1>3, <1>4, <1>5, <1>6 DEF StockInv

\* A receipt on its own: what a post without an issue adds.
LEMMA ReceiptAdded ==
    ASSUME Stock!StockAssumption, NEW p \in StockPlans,
           NEW x \in Stock!PlanRecords, x.from = Nothing, x.to # Nothing,
           NEW ms \in Seq(Stock!MovementRecords), NEW ls \in Seq(Stock!LayerRecords), NEW on,
           \A i, w, b : TraceSound(ms, ls, on, i, w, b)
    PROVE  /\ Append(ms, InRow(x)) \in Seq(Stock!MovementRecords)
           /\ Append(ls, Stock!Layer(x)) \in Seq(Stock!LayerRecords)
           /\ \A i, w, b : TraceSound(Append(ms, InRow(x)), Append(ls, Stock!Layer(x)), on, i, w, b)
           /\ SumFunctionOnSet(Worths(Append(ms, InRow(x))), DOMAIN Append(ms, InRow(x)))
                = SumFunctionOnSet(Worths(ms), DOMAIN ms) + x.value
<1> DEFINE f == [plan |-> p, value |-> 0, takes |-> <<>>]
<1>1. /\ InRow(x) \in Stock!MovementRecords /\ Stock!Layer(x) \in Stock!LayerRecords
      /\ InRow(x).value = x.value
  BY RowsTyped
<1>2. Append(ms, InRow(x)) \in Seq(Stock!MovementRecords) /\ Append(ls, Stock!Layer(x)) \in Seq(Stock!LayerRecords)
  BY <1>1
<1>3. SumFunctionOnSet(Worths(Append(ms, InRow(x))), DOMAIN Append(ms, InRow(x)))
        = SumFunctionOnSet(Worths(ms), DOMAIN ms) + x.value
  BY <1>1, MovementAppended
<1>4. Moved(ms, x) = Append(ms, InRow(x))
  BY DEF Moved, MovedOut
<1>5. Stored(ls, x, <<>>) = Append(ls, Stock!Layer(x))
  <2>1. Taken(ls, <<>>) = ls
    BY DEF Taken
  <2> QED BY <2>1 DEF Stored
<1>6. RateScale \in Nat \ {0}
  BY DEF Stock!StockAssumption
<1>7. f \in Flights /\ f.takes = <<>>
  BY DEF Flights
<1>8. LayersRead(f, x, ls, on)
  BY <1>7 DEF LayersRead
<1> HIDE DEF f
<1>9. ASSUME NEW i, NEW w, NEW b
      PROVE  TraceSound(Append(ms, InRow(x)), Append(ls, Stock!Layer(x)), on, i, w, b)
  <2>1. TraceSound(Moved(ms, x), Stored(ls, x, f.takes), on, i, w, b)
    BY <1>6, <1>7, <1>8, TraceCommitted
  <2> QED BY <2>1, <1>4, <1>5, <1>7
<1> QED BY <1>2, <1>3, <1>9

-----------------------------------------------------------------------------
(* Drafts.                                                                  *)

LEMMA LineKeeps ==
    ASSUME Stock!StockAssumption, StockInv, NEW p \in StockPlans, NEW f \in Stock!Families,
           NEW i \in StockItems, NEW b \in BatchesOf[i],
           NEW from \in Warehouses \cup {Nothing}, NEW to \in Warehouses \cup {Nothing}, from # to,
           NEW q \in Nat \ {0}, NEW r, NEW v \in Int, v > 0 => r \in Nat, NEW d \in StockDays,
           Stock!Draft(p, Stock!Line(f, i, b, from, to, q, r, v, d))
    PROVE  StockInv'
<1> DEFINE x == Stock!Line(f, i, b, from, to, q, r, v, d)
<1>1. x.value = v /\ x.value > 0
  BY DEF Stock!Draft, Stock!Line
<1>2. v \in Nat \ {0} /\ r \in Nat
  BY <1>1
<1>3. b \in Stock!Traces
  BY DEF Stock!Traces
<1>4. x \in Stock!PlanRecords /\ x.stage = "drafted" /\ x.from # x.to
  BY <1>2, <1>3 DEF Stock!Line, Stock!PlanRecords
<1> HIDE DEF x
<1> QED BY <1>4, DraftKeeps DEF x

LEMMA ReceiptKeeps ==
    ASSUME Stock!StockAssumption, StockInv, NEW p \in StockPlans, NEW f \in Stock!Families,
           NEW i \in StockItems, NEW b \in BatchesOf[i], NEW w \in Warehouses, NEW q \in Nat \ {0}, NEW r \in StockRates,
           NEW d \in StockDays, Stock!DraftReceipt(p, f, i, b, w, q, r, d)
    PROVE  StockInv'
<1>1. r \in Nat /\ RateScale \in Nat \ {0} /\ Nothing # w
  BY DEF Stock!StockAssumption
<1>2. Stock!Amount(q, r) \in Int
  BY <1>1, AmountTyped
<1>3. Stock!Draft(p, Stock!Line(f, i, b, Nothing, w, q, r, Stock!Amount(q, r), d))
  BY DEF Stock!DraftReceipt
<1> QED BY <1>1, <1>2, <1>3, LineKeeps

LEMMA IssueKeeps ==
    ASSUME Stock!StockAssumption, StockInv, NEW p \in StockPlans, NEW f \in Stock!Families,
           NEW i \in StockItems, NEW b \in BatchesOf[i], NEW w \in Warehouses, NEW q \in Nat \ {0},
           NEW d \in StockDays, Stock!DraftIssue(p, f, i, b, w, q, d)
    PROVE  StockInv'
<1>1. Stock!Issuable(i, w, b, q) /\ Stock!Draft(p, Stock!Line(f, i, b, w, Nothing, q, 0, Stock!IssueValue(i, w, b, q), d))
  BY DEF Stock!DraftIssue, Stock!Estimable
<1>2. Stock!TypeOK /\ Nothing # w
  BY DEF StockInv, StockTypes, Stock!StockAssumption
<1>3. Stock!IssueValue(i, w, b, q) \in Int
  BY <1>1, <1>2, IssueValued
<1> QED BY <1>1, <1>2, <1>3, LineKeeps

LEMMA TransferKeeps ==
    ASSUME Stock!StockAssumption, StockInv, NEW p \in StockPlans, NEW i \in StockItems, NEW b \in BatchesOf[i],
           NEW from \in Warehouses, NEW to \in Warehouses, NEW q \in Nat \ {0}, NEW d \in StockDays,
           Stock!CreateTransfer(p, i, b, from, to, q, d)
    PROVE  StockInv'
<1> DEFINE v == Stock!IssueValue(i, from, b, q)
<1>1. /\ from # to /\ Stock!Issuable(i, from, b, q)
      /\ Stock!Draft(p, Stock!Line("stock_journal", i, b, from, to, q, Stock!Rate(v, q), v, d))
  BY DEF Stock!CreateTransfer, Stock!Estimable
<1>2. Stock!TypeOK /\ RateScale \in Nat \ {0} /\ "stock_journal" \in Stock!Families
  BY DEF StockInv, StockTypes, Stock!StockAssumption, Stock!Families
<1>3. v \in Int
  BY <1>1, <1>2, IssueValued
<1> HIDE DEF v
<1>4. v > 0 => Stock!Rate(v, q) \in Nat
  BY <1>2, <1>3, RateTyped
<1> QED BY <1>1, <1>2, <1>3, <1>4, LineKeeps

LEMMA CountKeeps ==
    ASSUME Stock!StockAssumption, StockInv, NEW p \in StockPlans, NEW i \in StockItems, NEW b \in BatchesOf[i],
           NEW w \in Warehouses, NEW counted \in Nat, NEW r \in StockRates, NEW d \in StockDays,
           Stock!CreatePhysicalCount(p, i, b, w, counted, r, d)
    PROVE  StockInv'
<1> DEFINE variance == counted - Stock!Book(i, w, b, d)
           rows == {k \in Stock!Rows(i, w, b) : movements[k].day <= d}
           g == [k \in rows |-> movements[k].quantity]
<1>1. /\ movements \in Seq(Stock!MovementRecords) /\ "stock_journal" \in Stock!Families
  BY DEF StockInv, StockTypes, Stock!TypeOK, Stock!Families
<1>2. rows \in SUBSET DOMAIN movements
  BY DEF Stock!Rows
<1>3. IsFiniteSet(rows) /\ \A k \in rows : g[k] \in Int
  BY <1>1, <1>2, RowsFinite, MovementsTyped
<1>4. Stock!Book(i, w, b, d) \in Int
  <2>1. Stock!Book(i, w, b, d) = SumFunctionOnSet(g, DOMAIN g) /\ DOMAIN g = rows
    BY StockSums DEF Stock!Book
  <2> HIDE DEF g, rows
  <2> QED BY <2>1, <1>3, SumInteger
<1>5. \/ variance > 0 /\ Stock!DraftReceipt(p, "stock_journal", i, b, w, variance, r, d)
      \/ variance < 0 /\ Stock!DraftIssue(p, "stock_journal", i, b, w, -variance, d)
  BY DEF Stock!CreatePhysicalCount
<1>6. variance \in Int
  BY <1>4
<1> HIDE DEF variance
<1>7. CASE variance > 0 /\ Stock!DraftReceipt(p, "stock_journal", i, b, w, variance, r, d)
  <2>1. variance \in Nat \ {0}
    BY <1>6, <1>7
  <2> QED BY <2>1, <1>1, <1>7, ReceiptKeeps
<1>8. CASE variance < 0 /\ Stock!DraftIssue(p, "stock_journal", i, b, w, -variance, d)
  <2>1. -variance \in Nat \ {0}
    BY <1>6, <1>8
  <2> QED BY <2>1, <1>1, <1>8, IssueKeeps
<1> QED BY <1>5, <1>7, <1>8

LEMMA NextStock ==
    ASSUME Stock!StockAssumption, StockInv, [Stock!Next]_(Stock!vars)
    PROVE  StockInv'
<1>1. CASE UNCHANGED Stock!vars
  <2>1. /\ valued' = valued /\ movements' = movements /\ layers' = layers /\ traced' = traced
        /\ inactive' = inactive /\ valuing' = valuing /\ overlapped' = overlapped
    BY <1>1 DEF Stock!vars
  <2>2. Stock!Idle' = Stock!Idle /\ Stock!Undrafted' = Stock!Undrafted
    BY DEF Stock!Idle, Stock!Undrafted
  <2>3. StockTypes'
    BY <2>1, <2>2 DEF StockInv, StockTypes, Stock!TypeOK
  <2>4. Flying' = Flying /\ \A c : PlanOf(c)' = PlanOf(c)
    BY <2>1, <2>2 DEF Flying, PlanOf
  <2>5. FlightsSound'
    BY <2>1, <2>4, Zenon DEF StockInv, FlightsSound
  <2>6. AllMoved' /\ TracesSound' /\ BooksAgree'
    BY <2>1, Zenon DEF StockInv, AllMoved, TracesSound, BooksAgree
  <2> QED BY <2>3, <2>5, <2>6 DEF StockInv
<1>2. ASSUME NEW p \in StockPlans, NEW i \in StockItems, NEW w \in Warehouses, NEW d \in StockDays,
             NEW q \in StockQuantities, NEW r \in StockRates, NEW b \in BatchesOf[i],
             \/ Stock!DraftDocument(p, i, b, w, q, r, d)
             \/ Stock!DraftManufacturing(p, i, b, w, q, r, d)
             \/ Stock!CreateAdjustment(p, i, b, w, q, r, d)
             \/ Stock!CreatePhysicalCount(p, i, b, w, q, r, d)
             \/ \E to \in Warehouses : Stock!CreateTransfer(p, i, b, w, to, q, d)
      PROVE  StockInv'
  <2>1. q \in Nat \ {0} /\ q \in Nat
    BY DEF Stock!StockAssumption
  <2>2. {"purchase", "sales", "manufacturing_journal", "stock_journal"} \subseteq Stock!Families
    BY DEF Stock!Families
  <2>3. ASSUME NEW f \in Stock!Families, Stock!DraftReceipt(p, f, i, b, w, q, r, d) \/ Stock!DraftIssue(p, f, i, b, w, q, d)
        PROVE  StockInv'
    BY <2>1, <2>3, ReceiptKeeps, IssueKeeps
  <2>4. CASE Stock!DraftDocument(p, i, b, w, q, r, d)
    BY <2>2, <2>3, <2>4 DEF Stock!DraftDocument
  <2>5. CASE Stock!DraftManufacturing(p, i, b, w, q, r, d)
    BY <2>2, <2>3, <2>5 DEF Stock!DraftManufacturing
  <2>6. CASE Stock!CreateAdjustment(p, i, b, w, q, r, d)
    BY <2>2, <2>3, <2>6 DEF Stock!CreateAdjustment
  <2>7. CASE Stock!CreatePhysicalCount(p, i, b, w, q, r, d)
    BY <2>1, <2>7, CountKeeps
  <2>8. CASE \E to \in Warehouses : Stock!CreateTransfer(p, i, b, w, to, q, d)
    BY <2>1, <2>8, TransferKeeps
  <2> QED BY <1>2, <2>4, <2>5, <2>6, <2>7, <2>8
<1>3. ASSUME NEW c \in Members,
             Stock!CommitPost(c) \/ Stock!AbortPost(c) \/ \E p \in StockPlans : Stock!BeginPost(c, p)
      PROVE  StockInv'
  BY <1>3, CommitKeeps, AbortKeeps, BeginKeeps
<1>4. ASSUME NEW i \in StockItems, NEW trackIt \in BOOLEAN, NEW active \in BOOLEAN, Stock!UpdateItem(i, trackIt, active)
      PROVE  StockInv'
  BY <1>4, ItemKeeps
<1>5. ASSUME NEW w \in Warehouses, NEW active \in BOOLEAN, Stock!UpdateWarehouse(w, active)
      PROVE  StockInv'
  BY <1>5, WarehouseKeeps
<1>6. CASE \E p \in StockPlans, i \in StockItems, w \in Warehouses, d \in StockDays, q \in StockQuantities, r \in StockRates :
              \E b \in BatchesOf[i] :
                \/ Stock!DraftDocument(p, i, b, w, q, r, d)
                \/ Stock!DraftManufacturing(p, i, b, w, q, r, d)
                \/ Stock!CreateAdjustment(p, i, b, w, q, r, d)
                \/ Stock!CreatePhysicalCount(p, i, b, w, q, r, d)
                \/ \E to \in Warehouses : Stock!CreateTransfer(p, i, b, w, to, q, d)
  <2>1. PICK p \in StockPlans, i \in StockItems, w \in Warehouses, d \in StockDays, q \in StockQuantities, r \in StockRates :
             \E b \in BatchesOf[i] :
               \/ Stock!DraftDocument(p, i, b, w, q, r, d)
               \/ Stock!DraftManufacturing(p, i, b, w, q, r, d)
               \/ Stock!CreateAdjustment(p, i, b, w, q, r, d)
               \/ Stock!CreatePhysicalCount(p, i, b, w, q, r, d)
               \/ \E to \in Warehouses : Stock!CreateTransfer(p, i, b, w, to, q, d)
    BY <1>6
  <2>2. PICK b \in BatchesOf[i] :
               \/ Stock!DraftDocument(p, i, b, w, q, r, d)
               \/ Stock!DraftManufacturing(p, i, b, w, q, r, d)
               \/ Stock!CreateAdjustment(p, i, b, w, q, r, d)
               \/ Stock!CreatePhysicalCount(p, i, b, w, q, r, d)
               \/ \E to \in Warehouses : Stock!CreateTransfer(p, i, b, w, to, q, d)
    BY <2>1
  <2> QED BY <2>2, <1>2
<1>7. CASE \E c \in Members : Stock!CommitPost(c) \/ Stock!AbortPost(c) \/ \E p \in StockPlans : Stock!BeginPost(c, p)
  BY <1>3, <1>7, Zenon
<1>8. CASE \/ \E i \in StockItems, trackIt, active \in BOOLEAN : Stock!UpdateItem(i, trackIt, active)
           \/ \E w \in Warehouses, active \in BOOLEAN : Stock!UpdateWarehouse(w, active)
  BY <1>4, <1>5, <1>8, Zenon
<1> QED BY <1>1, <1>6, <1>7, <1>8, Zenon DEF Stock!Next

LEMMA StockTells ==
    ASSUME Stock!StockAssumption, StockInv
    PROVE  Stock!TypeOK /\ Stock!StockNeverNegative /\ Stock!StockMatchesBooks /\ Stock!LayersBackStock
<1>1. Stock!TypeOK /\ TracesSound /\ BooksAgree
  BY DEF StockInv, StockTypes
<1>2. ASSUME NEW i \in StockItems, NEW w \in Warehouses, <<i, w>> \notin overlapped, NEW b
      PROVE  /\ Stock!BalanceQuantity(i, w, b) >= 0
             /\ i \in Fifo => Stock!SumFunction([k \in Stock!Lots(i, w, b) |-> Stock!Remaining(k)]) = Stock!BalanceQuantity(i, w, b)
             /\ \A k \in Stock!Lots(i, w, b) : Stock!Remaining(k) >= 0
             /\ /\ i \notin Fifo /\ Stock!BalanceQuantity(i, w, b) = 0
                /\ \A k \in Stock!Rows(i, w, b) : movements[k].quantity > -RateScale
                => Stock!BalanceValue(i, w, b) = 0
  <2>1. TraceSound(movements, layers, traced, i, w, b)
    BY <1>1, <1>2, Zenon DEF TracesSound
  <2>2. /\ Stock!Rows(i, w, b) = TraceRows(movements, traced, i, w, b)
        /\ Stock!Lots(i, w, b) = TraceRows(layers, traced, i, w, b)
        /\ Stock!BalanceQuantity(i, w, b) = Held(movements, traced, i, w, b)
        /\ Stock!BalanceValue(i, w, b) = Worth(movements, traced, i, w, b)
        /\ SumFunctionOnSet([k \in Stock!Lots(i, w, b) |-> Stock!Remaining(k)], Stock!Lots(i, w, b))
             = Backing(layers, traced, i, w, b)
        /\ \A k \in DOMAIN layers : Stock!Remaining(k) = Lefts(layers)[k]
    BY <1>1, BalancesAre
  <2>3. Stock!SumFunction([k \in Stock!Lots(i, w, b) |-> Stock!Remaining(k)]) = Backing(layers, traced, i, w, b)
    BY <2>2, StockSums
  <2>4. \A k \in Stock!Lots(i, w, b) : Stock!Remaining(k) >= 0
    BY <2>1, <2>2 DEF TraceSound, TraceRows
  <2>5. Stock!BalanceQuantity(i, w, b) >= 0
    BY <2>1, <2>2 DEF TraceSound
  <2>6. i \in Fifo => Stock!SumFunction([k \in Stock!Lots(i, w, b) |-> Stock!Remaining(k)]) = Stock!BalanceQuantity(i, w, b)
    BY <2>1, <2>2, <2>3 DEF TraceSound
  <2>7. /\ i \notin Fifo /\ Stock!BalanceQuantity(i, w, b) = 0
        /\ \A k \in Stock!Rows(i, w, b) : movements[k].quantity > -RateScale
        => Stock!BalanceValue(i, w, b) = 0
    BY <2>1, <2>2 DEF TraceSound
  <2> QED BY <2>4, <2>5, <2>6, <2>7
<1>3. Stock!StockNeverNegative
  BY <1>2, Zenon DEF Stock!StockNeverNegative
<1>4. Stock!LayersBackStock
  BY <1>2, Zenon DEF Stock!LayersBackStock
<1>5. Stock!StockMatchesBooks
  <2> DEFINE g == [k \in DOMAIN movements |-> movements[k].value]
             h == [p \in StockPlans |-> Stock!Booked(p)]
  <2>1. Stock!SumFunction(g) = SumFunctionOnSet(g, DOMAIN g) /\ Stock!SumFunction(h) = SumFunctionOnSet(h, DOMAIN h)
    BY StockSums
  <2>2. g = Worths(movements) /\ DOMAIN g = DOMAIN movements /\ DOMAIN h = StockPlans
    BY DEF Worths
  <2>3. h = Books(valued)
    BY DEF Books, BookValue, Stock!Booked
  <2> HIDE DEF g, h
  <2>4. Stock!SumFunction(g) = Stock!SumFunction(h)
    BY <2>1, <2>2, <2>3, <1>1 DEF BooksAgree
  <2> QED BY <2>4 DEF Stock!StockMatchesBooks, g, h
<1> QED BY <1>1, <1>3, <1>4, <1>5

\* Whatever the sources, items, rates and clients: a tracked item is never issued below zero, nor an
\* untracked one unless two issues overlapped; the stock ledger is worth what the books say; layers
\* back the stock, and what is left of none has no value (StockNeverNegative, StockMatchesBooks and
\* LayersBackStock of InventoryPosting).
THEOREM StockKept ==
    ASSUME Stock!StockAssumption
    PROVE  Stock!Spec => [](Stock!TypeOK /\ Stock!StockNeverNegative /\ Stock!StockMatchesBooks /\ Stock!LayersBackStock)
<1>1. Stock!Init => StockInv
  BY InitStock
<1>2. StockInv /\ [Stock!Next]_(Stock!vars) => StockInv'
  BY NextStock
<1>3. StockInv => Stock!TypeOK /\ Stock!StockNeverNegative /\ Stock!StockMatchesBooks /\ Stock!LayersBackStock
  BY StockTells
<1> QED BY <1>1, <1>2, <1>3, PTL DEF Stock!Spec

-----------------------------------------------------------------------------
(* TdsDeductions.                                                          *)

\* The sum that comes with the instance is that of this module.
LEMMA TaxSums == ASSUME NEW f, NEW S PROVE Tax!SumFunctionOnSet(f, S) = SumFunctionOnSet(f, S)
  BY DEF Tax!SumFunctionOnSet, SumFunctionOnSet, Tax!FoldFunctionOnSet, FoldFunctionOnSet,
         Tax!MapThenFoldSet, MapThenFoldSet
LEMMA TaxFinite == ASSUME NEW S PROVE Tax!IsFiniteSet(S) <=> IsFiniteSet(S)
  BY DEF Tax!IsFiniteSet, IsFiniteSet
LEMMA TaxCardinality == ASSUME NEW S PROVE Tax!Cardinality(S) = Cardinality(S)
  BY Zenon DEF Tax!Cardinality, Cardinality, Tax!IsFiniteSet, IsFiniteSet

\* The taxable amount of a row of the deduction d follows from its base before, under its rate.
Assessed(row, d) ==
    row.taxable = Tax!calculateTdsThresholdBasis(terms[row.rate], GrossPaid[d], row.prior)

\* What an open transaction about a deduction has read, under the locks of its payable and of its
\* year, still holds when it commits.
DeductionHolds(d) ==
    /\ deducting[d].status = "draft" =>
         /\ deduction[d] = Nothing
         /\ Tax!Reserved(PayableOf[d], {}) + GrossPaid[d] <= ValueOf[PayableOf[d]]
    /\ deducting[d].status # "draft" =>
         /\ deduction[d] # Nothing /\ deduction[d].status = "draft"
         /\ deducting[d].prior = Tax!GrossOf(Tax!Final)
         /\ Assessed(deducting[d], d)

\* As long as no two approvals were in flight at once, the one that is has found no overlap, and
\* approved masters of a kind cover no day twice.
ApprovalsApart ==
    /\ \A m, n \in Members : approving[m] # Nothing /\ approving[n] # Nothing => m = n
    /\ \A m \in Members : approving[m] # Nothing => ~Tax!Overlapping(approving[m])
    /\ \A kind \in {"rate", "classification"}, x, y \in Masters :
         x \in Tax!ApprovedMasters(kind) /\ y \in Tax!ApprovedMasters(kind) /\ x # y =>
           SpanOf[x] \cap SpanOf[y] = {}

\* Transactions of a year one after the other, each finding what it read, and their totals.
DeductionsInv ==
    /\ \A d, e \in Deductions : Tax!Open(d) /\ Tax!Open(e) => d = e
    /\ \A d \in Deductions : Tax!Open(d) => DeductionHolds(d)
    /\ Tax!AssessedInTurn
    /\ Tax!ExcessTaxedOnce
    /\ Tax!BasisWithinPayable

TaxInv ==
    /\ Tax!TypeOK
    /\ DeductionsInv
    /\ \A m \in Members : approving[m] # Nothing => master[approving[m]] # Nothing
    /\ ~crossed => ApprovalsApart

\* Sums of gross amounts, and of taxable ones, are natural numbers, and grow by a deduction more.
LEMMA GrossAdds ==
    ASSUME Tax!TdsAssumption, NEW S \in SUBSET Deductions, NEW d \in Deductions, d \notin S
    PROVE  /\ Tax!GrossOf(S) \in Nat
           /\ Tax!GrossOf(S \cup {d}) = Tax!GrossOf(S) + GrossPaid[d]
<1>1. IsFiniteSet(S) /\ \A x \in S : GrossPaid[x] \in Nat
  BY TaxFinite, FS_Subset DEF Tax!TdsAssumption
<1>2. SumFunctionOnSet(GrossPaid, S) \in Nat
  BY <1>1, SumWithin
<1>3. GrossPaid[d] \in Nat
  BY DEF Tax!TdsAssumption
<1>4. SumFunctionOnSet(GrossPaid, S \cup {d}) = GrossPaid[d] + SumFunctionOnSet(GrossPaid, S)
  BY <1>1, <1>3, SumWith
<1> QED BY <1>2, <1>3, <1>4, TaxSums DEF Tax!GrossOf

LEMMA GrossIsNat ==
    ASSUME Tax!TdsAssumption, NEW S \in SUBSET Deductions
    PROVE  Tax!GrossOf(S) \in Nat
<1>1. IsFiniteSet(S) /\ \A x \in S : GrossPaid[x] \in Nat
  BY TaxFinite, FS_Subset DEF Tax!TdsAssumption
<1> QED BY <1>1, SumWithin, TaxSums DEF Tax!GrossOf

LEMMA TaxableIsNat ==
    ASSUME Tax!TdsAssumption, NEW f, NEW S \in SUBSET Deductions, \A d \in S : f[d].taxable \in Nat
    PROVE  SumFunctionOnSet([d \in S |-> f[d].taxable], S) \in Nat
<1> DEFINE g == [d \in S |-> f[d].taxable]
<1>1. IsFiniteSet(S) /\ \A x \in S : g[x] \in Nat
  BY TaxFinite, FS_Subset DEF Tax!TdsAssumption
<1> HIDE DEF g
<1>2. SumFunctionOnSet(g, S) \in Nat
  BY <1>1, SumWithin
<1> QED BY <1>2 DEF g

\* The taxable total of deductions depends on nothing but their taxable amounts, and grows by that of one more.
LEMMA TaxableSame ==
    ASSUME Tax!TdsAssumption, NEW f, NEW g, NEW S \in SUBSET Deductions,
           \A d \in S : f[d].taxable \in Nat /\ g[d].taxable = f[d].taxable
    PROVE  SumFunctionOnSet([d \in S |-> g[d].taxable], S) = SumFunctionOnSet([d \in S |-> f[d].taxable], S)
<1>1. [d \in S |-> g[d].taxable] = [d \in S |-> f[d].taxable]
  OBVIOUS
<1> QED BY <1>1

LEMMA TaxableAdds ==
    ASSUME Tax!TdsAssumption, NEW f, NEW g, NEW S \in SUBSET Deductions, NEW e \in Deductions, e \notin S,
           \A d \in S : f[d].taxable \in Nat /\ g[d].taxable = f[d].taxable, g[e].taxable \in Nat
    PROVE  SumFunctionOnSet([d \in S \cup {e} |-> g[d].taxable], S \cup {e})
             = SumFunctionOnSet([d \in S |-> f[d].taxable], S) + g[e].taxable
<1> DEFINE F == [d \in S |-> f[d].taxable]
           G == [d \in S \cup {e} |-> g[d].taxable]
<1>1. /\ IsFiniteSet(S) /\ \A x \in S : F[x] \in Int /\ G[x] \in Int /\ F[x] = G[x]
      /\ G[e] \in Int /\ G[e] = g[e].taxable
  BY TaxFinite, FS_Subset DEF Tax!TdsAssumption
<1>2. SumFunctionOnSet(F, S) \in Nat
  BY TaxableIsNat
<1> HIDE DEF F, G
<1>3. SumFunctionOnSet(G, S \cup {e}) = G[e] + SumFunctionOnSet(G, S)
  BY <1>1, SumWith
<1>4. SumFunctionOnSet(F, S) = SumFunctionOnSet(G, S)
  BY <1>1, SumSame
<1>5. SumFunctionOnSet(G, S \cup {e}) = SumFunctionOnSet(F, S) + g[e].taxable
  BY <1>1, <1>2, <1>3, <1>4
<1> QED BY <1>5 DEF F, G

\* The taxable part of one payment: never more than the payment, never less than what it adds to the
\* excess over the aggregate threshold, and exactly that under the excess-only policy below the
\* single threshold.
LEMMA BasisOfOne ==
    ASSUME NEW tt \in Tax!Terms, NEW gross \in Nat, NEW prior \in Nat
    PROVE  LET basis == Tax!calculateTdsThresholdBasis(tt, gross, prior)
               added == Tax!Excess(tt, prior + gross) - Tax!Excess(tt, prior)
           IN  /\ basis \in Nat /\ basis <= gross
               /\ tt.aggregate > 0 => basis >= added
               /\ tt.aggregate > 0 /\ tt.excessOnly /\ (tt.single = 0 \/ gross < tt.single) => basis = added
<1>0. tt.single \in Nat /\ tt.aggregate \in Nat /\ tt.excessOnly \in BOOLEAN
  BY DEF Tax!Terms
<1>1. Tax!Excess(tt, prior) \in Nat /\ Tax!Excess(tt, prior + gross) \in Nat
  BY <1>0 DEF Tax!Excess
<1>2. /\ Tax!Excess(tt, prior + gross) >= Tax!Excess(tt, prior)
      /\ Tax!Excess(tt, prior + gross) - Tax!Excess(tt, prior) <= gross
      /\ prior + gross <= tt.aggregate => Tax!Excess(tt, prior + gross) = 0 /\ Tax!Excess(tt, prior) = 0
  BY <1>0 DEF Tax!Excess
<1> QED BY <1>0, <1>1, <1>2 DEF Tax!calculateTdsThresholdBasis

\* The terms of every master are terms.
LEMMA TermsTyped == ASSUME Tax!TdsAssumption, Tax!TypeOK, NEW x \in Masters PROVE terms[x] \in Tax!Terms
  BY DEF Tax!TypeOK, Tax!TdsAssumption

\* TaxInv holds before any master or deduction, and with the masters approved before.
LEMMA InitTax == ASSUME Tax!TdsAssumption, Tax!Init PROVE TaxInv
<1>1. Tax!TypeOK
  <2>1. PICK m \in Members, there \in InPlace :
           /\ section = IF there = {} THEN Nothing ELSE [status |-> "approved", maker |-> m]
           /\ master = [x \in Masters |-> IF x \in there THEN [status |-> "approved", maker |-> m] ELSE Nothing]
    BY DEF Tax!Init
  <2>2. section \in Tax!Section \cup {Nothing} /\ master \in [Masters -> Tax!Master \cup {Nothing}]
    BY <2>1 DEF Tax!Section, Tax!Master
  <2> QED BY <2>2 DEF Tax!Init, Tax!TypeOK
<1>2. DeductionsInv
  <2>1. Tax!Kept = {} /\ Tax!Final = {}
    BY DEF Tax!Init, Tax!Kept, Tax!Final
  <2>2. Tax!GrossOf({}) = 0 /\ Tax!TaxableOf({}) = 0
    BY TaxSums, SumEmpty DEF Tax!GrossOf, Tax!TaxableOf
  <2>3. Tax!ExcessTaxedOnce
    <3>1. Tax!report.gross = 0 /\ Tax!report.taxable = 0
      BY <2>1, <2>2 DEF Tax!report
    <3>2. \A x \in Masters : terms[x].aggregate \in Nat
      BY <1>1, TermsTyped DEF Tax!Terms
    <3> QED BY <2>1, <3>1, <3>2 DEF Tax!ExcessTaxedOnce, Tax!Excess
  <2>5. Tax!AssessedInTurn
    BY <2>1 DEF Tax!AssessedInTurn
  <2>4. Tax!BasisWithinPayable
    <3>1. \A p \in Payables : Tax!Reserved(p, {}) = 0
      <4> SUFFICES ASSUME NEW p \in Payables PROVE Tax!Reserved(p, {}) = 0
        OBVIOUS
      <4>1. {d \in Tax!Kept \ {} : PayableOf[d] = p} = {}
        BY <2>1
      <4> QED BY <4>1, <2>2 DEF Tax!Reserved
    <3> QED BY <3>1 DEF Tax!BasisWithinPayable, Tax!TdsAssumption
  <2> QED BY <2>3, <2>4, <2>5 DEF DeductionsInv, Tax!Init, Tax!Open
<1>3. ApprovalsApart
  BY DEF ApprovalsApart, Tax!Init, Tax!TdsAssumption, Tax!ApprovedMasters
<1>4. \A m \in Members : approving[m] = Nothing
  BY DEF Tax!Init
<1> QED BY <1>1, <1>2, <1>3, <1>4 DEF TaxInv

\* What deductions say rests on the deductions and the terms alone.
LEMMA DeductionsStay ==
    ASSUME DeductionsInv, UNCHANGED <<terms, deduction, deducting>>
    PROVE  DeductionsInv'
<1>1. /\ Tax!Kept' = Tax!Kept /\ Tax!Final' = Tax!Final
      /\ \A d \in Deductions : Tax!Open(d)' <=> Tax!Open(d)
  BY DEF Tax!Kept, Tax!Final, Tax!Open
<1>2. Tax!ExcessTaxedOnce'
  BY <1>1 DEF DeductionsInv, Tax!ExcessTaxedOnce, Tax!report, Tax!TaxableOf, Tax!GrossOf, Tax!Excess
<1>3. Tax!BasisWithinPayable'
  BY <1>1 DEF DeductionsInv, Tax!BasisWithinPayable, Tax!Reserved, Tax!GrossOf
<1>4. \A d \in Deductions : Tax!Open(d)' => DeductionHolds(d)'
  BY <1>1 DEF DeductionsInv, DeductionHolds, Assessed, Tax!Reserved, Tax!GrossOf, Tax!calculateTdsThresholdBasis, Tax!Excess
<1>5. Tax!AssessedInTurn'
  BY <1>1 DEF DeductionsInv, Tax!AssessedInTurn, Tax!report, Tax!GrossOf, Tax!calculateTdsThresholdBasis, Tax!Excess
<1> QED BY <1>1, <1>2, <1>3, <1>4, <1>5 DEF DeductionsInv

\* And what approvals say, on the masters and the approvals in flight.
LEMMA ApprovalsStay ==
    ASSUME ~crossed => ApprovalsApart, UNCHANGED <<master, approving, crossed>>
    PROVE  ~crossed' => ApprovalsApart'
  BY DEF ApprovalsApart, Tax!Overlapping, Tax!ApprovedMasters

\* Sections, rates and classifications.
LEMMA MastersMove ==
    ASSUME Tax!TdsAssumption, TaxInv, NEW m \in Members,
           \/ Tax!CreateSection(m) \/ Tax!ApproveSection(m) \/ Tax!CommitApprove(m)
           \/ \E x \in Masters : Tax!CreateRate(m, x) \/ Tax!CreateVendorClassification(m, x) \/ Tax!BeginApprove(m, x)
    PROVE  TaxInv'
<1>1. CASE Tax!CreateSection(m) \/ Tax!ApproveSection(m)
  <2>1. Tax!TypeOK'
    BY <1>1 DEF TaxInv, Tax!TypeOK, Tax!CreateSection, Tax!ApproveSection, Tax!Section
  <2> QED BY <1>1, <2>1, DeductionsStay, ApprovalsStay DEF TaxInv, Tax!CreateSection, Tax!ApproveSection
<1>2. CASE \E x \in Masters : Tax!CreateRate(m, x) \/ Tax!CreateVendorClassification(m, x)
  <2>1. PICK x \in Masters : Tax!CreateMaster(m, x)
    BY <1>2 DEF Tax!CreateRate, Tax!CreateVendorClassification
  <2>2. Tax!TypeOK'
    BY <2>1 DEF TaxInv, Tax!TypeOK, Tax!CreateMaster, Tax!Master
  <2>3. \A kind : Tax!ApprovedMasters(kind)' = Tax!ApprovedMasters(kind)
    BY <2>1 DEF TaxInv, Tax!TypeOK, Tax!CreateMaster, Tax!ApprovedMasters
  <2>4. ~crossed' => ApprovalsApart'
    BY <2>1, <2>3 DEF TaxInv, ApprovalsApart, Tax!CreateMaster, Tax!Overlapping
  <2> QED BY <2>1, <2>2, <2>4, DeductionsStay DEF TaxInv, Tax!CreateMaster
<1>3. CASE \E x \in Masters : Tax!BeginApprove(m, x)
  <2>1. PICK x \in Masters : Tax!BeginApprove(m, x)
    BY <1>3
  <2>2. Tax!TypeOK'
    BY <2>1 DEF TaxInv, Tax!TypeOK, Tax!BeginApprove
  <2>3. \A kind : Tax!ApprovedMasters(kind)' = Tax!ApprovedMasters(kind)
    BY <2>1 DEF Tax!BeginApprove, Tax!ApprovedMasters
  <2>4. ~crossed' => ApprovalsApart'
    <3> SUFFICES ASSUME ~crossed' PROVE ApprovalsApart'
      OBVIOUS
    <3>1. ~crossed /\ \A n \in Members : approving[n] = Nothing
      BY <2>1 DEF Tax!BeginApprove
    <3>2. \A n \in Members : approving'[n] # Nothing => n = m /\ approving'[n] = x
      BY <2>1, <3>1 DEF TaxInv, Tax!TypeOK, Tax!BeginApprove
    <3>3. ~Tax!Overlapping(x)'
      BY <2>1, <2>3 DEF Tax!BeginApprove, Tax!Overlapping
    <3>4. \A n \in Members : approving'[n] # Nothing => ~Tax!Overlapping(approving[n])'
      BY <3>2, <3>3 DEF Tax!Overlapping
    <3> QED BY <2>3, <3>1, <3>2, <3>4 DEF TaxInv, ApprovalsApart
  <2>5. \A n \in Members : approving'[n] # Nothing => master'[approving'[n]] # Nothing
    BY <2>1 DEF TaxInv, Tax!TypeOK, Tax!BeginApprove
  <2> QED BY <2>1, <2>2, <2>4, <2>5, DeductionsStay DEF TaxInv, Tax!BeginApprove
<1>4. CASE Tax!CommitApprove(m)
  <2> DEFINE x == approving[m]
  <2>1. x \in Masters /\ crossed' = crossed /\ approving' = [approving EXCEPT ![m] = Nothing]
    BY <1>4 DEF TaxInv, Tax!TypeOK, Tax!CommitApprove
  <2>2. Tax!TypeOK' /\ \A y \in Masters : master[y] # Nothing => master'[y] # Nothing
    <3>1. master[x] \in Tax!Master
      BY <1>4, <2>1 DEF TaxInv, Tax!TypeOK, Tax!CommitApprove
    <3>2. [master[x] EXCEPT !.status = "approved"] \in Tax!Master
      BY <3>1 DEF Tax!Master
    <3>3. \/ master' = master
          \/ master' = [master EXCEPT ![x] = [master[x] EXCEPT !.status = "approved"]]
      BY <1>4 DEF Tax!CommitApprove
    <3>4. /\ master' \in [Masters -> Tax!Master \cup {Nothing}]
          /\ \A y \in Masters : master[y] # Nothing => master'[y] # Nothing
      BY <2>1, <3>2, <3>3 DEF TaxInv, Tax!TypeOK, Tax!TdsAssumption
    <3> QED BY <1>4, <2>1, <3>4 DEF TaxInv, Tax!TypeOK, Tax!CommitApprove
  <2>5. \A n \in Members : approving'[n] # Nothing => master'[approving'[n]] # Nothing
    BY <2>1, <2>2 DEF TaxInv, Tax!TypeOK
  <2>3. \A kind : Tax!ApprovedMasters(kind)' \subseteq
           Tax!ApprovedMasters(kind) \cup (IF KindOf[x] = kind THEN {x} ELSE {})
    BY <1>4, <2>1 DEF TaxInv, Tax!TypeOK, Tax!CommitApprove, Tax!ApprovedMasters
  <2>4. ~crossed' => ApprovalsApart'
    <3> SUFFICES ASSUME ~crossed PROVE ApprovalsApart'
      BY <2>1
    <3>1. \A n \in Members : approving'[n] = Nothing
      BY <1>4, <2>1 DEF TaxInv, Tax!TypeOK, ApprovalsApart, Tax!CommitApprove
    <3>2. \A y \in Tax!ApprovedMasters(KindOf[x]) \ {x} : SpanOf[x] \cap SpanOf[y] = {}
      BY <1>4 DEF TaxInv, ApprovalsApart, Tax!CommitApprove, Tax!Overlapping
    <3>3. \A kind \in {"rate", "classification"}, y, z \in Masters :
            y \in Tax!ApprovedMasters(kind)' /\ z \in Tax!ApprovedMasters(kind)' /\ y # z =>
              SpanOf[y] \cap SpanOf[z] = {}
      BY <2>1, <2>3, <3>2 DEF TaxInv, ApprovalsApart
    <3> QED BY <3>1, <3>3 DEF ApprovalsApart
  <2> QED BY <1>4, <2>2, <2>4, <2>5, DeductionsStay DEF TaxInv, Tax!CommitApprove
<1> QED BY <1>1, <1>2, <1>3, <1>4

\* A transaction about a deduction that reads under the lock of its year.
LEMMA DeductionBegins ==
    ASSUME Tax!TdsAssumption, TaxInv, NEW d \in Deductions,
           \/ \E m \in Members : Tax!BeginCreate(m, d)
           \/ Tax!BeginSubmit(d)
    PROVE  TaxInv'
<1>1. /\ UNCHANGED <<section, master, approving, crossed, terms, vendor, deduction>>
      /\ \A e \in Deductions : ~Tax!Open(e)
  BY DEF Tax!BeginCreate, Tax!BeginSubmit, Tax!masterVars, Tax!YearLockFree
<1>2. PICK row : deducting' = [deducting EXCEPT ![d] = row] /\ row \in Tax!Deduction
                 /\ (row.status = "draft" =>
                       /\ deduction[d] = Nothing
                       /\ Tax!Reserved(PayableOf[d], {}) + GrossPaid[d] <= ValueOf[PayableOf[d]])
                 /\ (row.status # "draft" =>
                       /\ deduction[d] # Nothing /\ deduction[d].status = "draft"
                       /\ row.prior = Tax!GrossOf(Tax!Final) /\ Assessed(row, d))
  <2>1. GrossPaid[d] \in Nat /\ \A x \in Masters : terms[x] \in Tax!Terms
    BY TermsTyped DEF TaxInv, Tax!TdsAssumption
  <2>2. Tax!Final \ {d} \subseteq Deductions
    BY DEF Tax!Final, Tax!Kept
  <2>3. \A s \in {"draft", "submitted"}, m \in Members, r, c \in Masters :
           /\ Tax!Computed(d, s, m, r, c) \in Tax!Deduction
           /\ Tax!Computed(d, s, m, r, c).status = s
           /\ Tax!Computed(d, s, m, r, c).prior = Tax!GrossOf(Tax!Final \ {d})
           /\ Assessed(Tax!Computed(d, s, m, r, c), d)
    <3> DEFINE prior == Tax!GrossOf(Tax!Final \ {d})
    <3>1. prior \in Nat
      BY <2>2, GrossIsNat
    <3>2. \A r \in Masters : Tax!calculateTdsThresholdBasis(terms[r], GrossPaid[d], prior) \in Nat
      BY <2>1, <3>1, BasisOfOne
    <3> SUFFICES ASSUME NEW s \in {"draft", "submitted"}, NEW m \in Members, NEW r \in Masters, NEW c \in Masters
                 PROVE  /\ Tax!Computed(d, s, m, r, c) \in Tax!Deduction
                        /\ Tax!Computed(d, s, m, r, c).status = s
                        /\ Tax!Computed(d, s, m, r, c).prior = prior
                        /\ Assessed(Tax!Computed(d, s, m, r, c), d)
      OBVIOUS
    <3>3. Tax!Computed(d, s, m, r, c) =
            [status |-> s, maker |-> m, rate |-> r, classification |-> c, prior |-> prior,
             taxable |-> Tax!calculateTdsThresholdBasis(terms[r], GrossPaid[d], prior)]
      BY DEF Tax!Computed
    <3> HIDE DEF prior
    <3> QED BY <3>1, <3>2, <3>3 DEF Tax!Deduction, Assessed
  <2>4. CASE \E m \in Members : Tax!BeginCreate(m, d)
    <3>1. PICK m \in Members, r \in Masters, c \in Masters :
             /\ deducting' = [deducting EXCEPT ![d] = Tax!Computed(d, "draft", m, r, c)]
             /\ deduction[d] = Nothing
             /\ Tax!Reserved(PayableOf[d], {}) + GrossPaid[d] <= ValueOf[PayableOf[d]]
      BY <2>4 DEF Tax!BeginCreate, Tax!FitsPayable
    <3> DEFINE R == Tax!Computed(d, "draft", m, r, c)
    <3>2. R \in Tax!Deduction /\ R.status = "draft"
      BY <2>3
    <3> HIDE DEF R
    <3> QED BY <3>1, <3>2 DEF R
  <2>5. CASE Tax!BeginSubmit(d)
    <3>1. /\ deduction[d] # Nothing /\ deduction[d].status = "draft" /\ deduction[d] \in Tax!Deduction
          /\ deducting' = [deducting EXCEPT ![d] = Tax!Computed(d, "submitted", deduction[d].maker,
                                                 deduction[d].rate, deduction[d].classification)]
      BY <2>5 DEF Tax!BeginSubmit, Tax!Kept, TaxInv, Tax!TypeOK
    <3>2. Tax!Final \ {d} = Tax!Final
      BY <3>1 DEF Tax!Final
    <3>3. PICK m \in Members, r \in Masters, c \in Masters :
             m = deduction[d].maker /\ r = deduction[d].rate /\ c = deduction[d].classification
      BY <3>1 DEF Tax!Deduction
    <3> DEFINE R == Tax!Computed(d, "submitted", m, r, c)
    <3>4. /\ R \in Tax!Deduction /\ R.status = "submitted"
          /\ R.prior = Tax!GrossOf(Tax!Final \ {d}) /\ Assessed(R, d)
      BY <2>3
    <3>5. /\ R \in Tax!Deduction /\ R.status = "submitted"
          /\ R.prior = Tax!GrossOf(Tax!Final) /\ Assessed(R, d)
      <4> HIDE DEF R
      <4> QED BY <3>2, <3>4
    <3>6. deducting' = [deducting EXCEPT ![d] = R]
      BY <3>1, <3>3
    <3> HIDE DEF R
    <3> QED BY <3>1, <3>5, <3>6
  <2> QED BY <2>4, <2>5
<1>3. Tax!TypeOK'
  BY <1>1, <1>2 DEF TaxInv, Tax!TypeOK
<1>4. /\ \A e \in Deductions : Tax!Open(e)' => e = d
      /\ deducting'[d] = row
  BY <1>1, <1>2 DEF Tax!Open, TaxInv, Tax!TypeOK
<1>5. Tax!Kept' = Tax!Kept /\ Tax!Final' = Tax!Final
  BY <1>1 DEF Tax!Kept, Tax!Final
<1>6. Tax!Open(d)' => DeductionHolds(d)'
  BY <1>1, <1>2, <1>4, <1>5 DEF DeductionHolds, Assessed, Tax!Reserved, Tax!GrossOf, Tax!calculateTdsThresholdBasis, Tax!Excess
<1>7. Tax!ExcessTaxedOnce'
  BY <1>1, <1>5 DEF TaxInv, DeductionsInv, Tax!ExcessTaxedOnce, Tax!report, Tax!TaxableOf, Tax!GrossOf, Tax!Excess
<1>8. Tax!BasisWithinPayable'
  BY <1>1, <1>5 DEF TaxInv, DeductionsInv, Tax!BasisWithinPayable, Tax!Reserved, Tax!GrossOf
<1>9. ~crossed' => ApprovalsApart'
  BY <1>1, ApprovalsStay DEF TaxInv
<1>10. \A n \in Members : approving'[n] # Nothing => master'[approving'[n]] # Nothing
  BY <1>1 DEF TaxInv
<1>11. Tax!AssessedInTurn'
  BY <1>1, <1>5 DEF TaxInv, DeductionsInv, Tax!AssessedInTurn, Tax!report, Tax!GrossOf, Tax!calculateTdsThresholdBasis, Tax!Excess
<1> QED BY <1>3, <1>4, <1>6, <1>7, <1>8, <1>9, <1>10, <1>11 DEF TaxInv, DeductionsInv

\* A commit adds a draft, or makes one final: the totals grow by that deduction.
LEMMA DeductionCommits ==
    ASSUME Tax!TdsAssumption, TaxInv, NEW d \in Deductions, Tax!CommitDeduction(d)
    PROVE  TaxInv'
<1> DEFINE row == deducting[d]
<1>1. /\ UNCHANGED <<section, master, approving, crossed, terms, vendor>>
      /\ Tax!Open(d) /\ row # Nothing /\ row \in Tax!Deduction
      /\ deduction' = [deduction EXCEPT ![d] = row] /\ deducting' = [deducting EXCEPT ![d] = Nothing]
  BY DEF Tax!CommitDeduction, Tax!masterVars, Tax!Open, TaxInv, Tax!TypeOK
<1>2. DeductionHolds(d) /\ deduction \in [Deductions -> Tax!Deduction \cup {Nothing}]
  BY <1>1 DEF TaxInv, DeductionsInv, Tax!TypeOK
<1>3. Tax!TypeOK'
  BY <1>1 DEF TaxInv, Tax!TypeOK
<1>4. \A e \in Deductions : ~Tax!Open(e)'
  BY <1>1 DEF TaxInv, DeductionsInv, Tax!TypeOK, Tax!Open
<1>5. Tax!Kept \subseteq Deductions /\ Tax!Kept' = Tax!Kept \cup {d}
  BY <1>1, <1>2 DEF Tax!Kept
<1>10. deduction'[d] = row /\ \A e \in Deductions \ {d} : deduction'[e] = deduction[e]
  BY <1>1, <1>2
<1>6. Tax!BasisWithinPayable'
  <2> SUFFICES ASSUME NEW p \in Payables PROVE Tax!Reserved(p, {})' <= ValueOf[p]
    BY DEF Tax!BasisWithinPayable
  <2> DEFINE S == {e \in Tax!Kept : PayableOf[e] = p}
             T == {e \in Tax!Kept' : PayableOf[e] = p}
  <2>1. Tax!Reserved(p, {}) = Tax!GrossOf(S) /\ Tax!Reserved(p, {})' = Tax!GrossOf(T)
    <3>1. {e \in Tax!Kept \ {} : PayableOf[e] = p} = S /\ {e \in Tax!Kept' \ {} : PayableOf[e] = p} = T
      OBVIOUS
    <3> QED BY <3>1 DEF Tax!Reserved, Tax!GrossOf
  <2>2. Tax!GrossOf(S) <= ValueOf[p]
    BY <2>1 DEF TaxInv, DeductionsInv, Tax!BasisWithinPayable
  <2>3. CASE T = S
    BY <2>1, <2>2, <2>3
  <2>4. CASE T # S
    <3>1. d \notin Tax!Kept /\ PayableOf[d] = p /\ T = S \cup {d}
      BY <1>5, <2>4
    <3>2. row.status = "draft"
      BY <1>2, <3>1 DEF DeductionHolds, Tax!Kept
    <3>3. Tax!GrossOf(S) + GrossPaid[d] <= ValueOf[p]
      BY <1>2, <2>1, <3>1, <3>2 DEF DeductionHolds
    <3>4. S \in SUBSET Deductions /\ d \notin S
      BY <1>5, <3>1
    <3>5. Tax!GrossOf(S \cup {d}) = Tax!GrossOf(S) + GrossPaid[d]
      BY <3>4, GrossAdds
    <3> QED BY <2>1, <3>1, <3>3, <3>5
  <2> QED BY <2>3, <2>4
<1>7. Tax!ExcessTaxedOnce' /\ Tax!AssessedInTurn'
  <2>0. PICK F : F = Tax!Final
    OBVIOUS
  <2>1. F \in SUBSET Deductions /\ d \notin F /\ \A e \in F : deduction[e] \in Tax!Deduction /\ deduction'[e] = deduction[e]
    BY <1>1, <1>2, <2>0 DEF DeductionHolds, Tax!Final, Tax!Kept
  <2>2. \A e \in F : deduction[e].taxable \in Nat /\ deduction'[e].taxable = deduction[e].taxable
    BY <2>1 DEF Tax!Deduction
  <2>3. PICK gross, taxable : gross = Tax!GrossOf(F) /\ taxable = Tax!TaxableOf(F)
    OBVIOUS
  <2>4. GrossPaid[d] \in Nat /\ gross \in Nat /\ taxable \in Nat
    BY <2>1, <2>2, <2>3, GrossIsNat, TaxableIsNat, TaxSums DEF Tax!TdsAssumption, Tax!TaxableOf
  <2>5. \A x \in Masters : terms[x] \in Tax!Terms
    BY TermsTyped DEF TaxInv
  <2>6. CASE row.status = "draft"
    <3>1. Tax!Final' = F
      BY <1>1, <1>5, <2>0, <2>1, <2>6 DEF Tax!Final, Tax!Kept
    <3>2. Tax!TaxableOf(F)' = Tax!TaxableOf(F)
      BY <2>1, <2>2, TaxableSame, TaxSums DEF Tax!TaxableOf
    <3>3. Tax!report' = Tax!report
      BY <2>0, <3>1, <3>2 DEF Tax!report, Tax!GrossOf, Tax!TaxableOf
    <3>4. Tax!ExcessTaxedOnce'
      BY <1>1, <2>0, <2>1, <3>1, <3>3 DEF TaxInv, DeductionsInv, Tax!ExcessTaxedOnce, Tax!Excess
    <3>5. Tax!AssessedInTurn'
      BY <1>1, <2>0, <2>1, <3>1, <3>3
         DEF TaxInv, DeductionsInv, Tax!AssessedInTurn, Tax!calculateTdsThresholdBasis, Tax!Excess
    <3> QED BY <3>4, <3>5
  <2>7. CASE row.status # "draft"
    <3>1. Tax!Final' = F \cup {d}
      <4>1. deduction'[d].status # "draft" /\ \A e \in Tax!Kept \ {d} : deduction'[e] = deduction[e]
        BY <1>5, <1>10, <2>7
      <4> QED BY <1>5, <2>0, <4>1 DEF Tax!Final
    <3>2. /\ deduction'[d] = row /\ row.prior = gross /\ Assessed(row, d)
          /\ row.rate \in Masters /\ row.taxable \in Nat
      BY <1>1, <1>2, <1>10, <2>0, <2>3, <2>7 DEF DeductionHolds, Tax!Deduction
    <3>3. Tax!GrossOf(F \cup {d})' = gross + GrossPaid[d]
      BY <2>1, <2>3, GrossAdds DEF Tax!GrossOf
    <3>4. Tax!TaxableOf(F \cup {d})' = taxable + row.taxable
      <4>1. SumFunctionOnSet([x \in F \cup {d} |-> deduction'[x].taxable], F \cup {d})
              = SumFunctionOnSet([x \in F |-> deduction[x].taxable], F) + deduction'[d].taxable
        BY <2>1, <2>2, <3>2, TaxableAdds
      <4>2. taxable = SumFunctionOnSet([x \in F |-> deduction[x].taxable], F)
        BY <2>3, TaxSums DEF Tax!TaxableOf
      <4>3. Tax!TaxableOf(F \cup {d})' = SumFunctionOnSet([x \in F \cup {d} |-> deduction'[x].taxable], F \cup {d})
        BY TaxSums DEF Tax!TaxableOf
      <4> QED BY <3>2, <4>1, <4>2, <4>3
    <3>5. Tax!report' = [gross |-> gross + GrossPaid[d], taxable |-> taxable + row.taxable]
      BY <3>1, <3>3, <3>4 DEF Tax!report, Tax!GrossOf, Tax!TaxableOf
    <3>6. Tax!report.gross = gross /\ Tax!report.taxable = taxable
      BY <2>0, <2>3 DEF Tax!report
    <3>7. \A e \in F : deduction'[e] = deduction[e] /\ e \in Deductions
      BY <2>1
    <3> HIDE DEF row
    <3>8. Tax!ExcessTaxedOnce'
      <4> SUFFICES ASSUME NEW x \in Masters, \A e \in F \cup {d} : terms[deduction'[e].rate] = terms[x]
                   PROVE  /\ terms[x].aggregate > 0 =>
                               taxable + row.taxable >= Tax!Excess(terms[x], gross + GrossPaid[d])
                          /\ terms[x].aggregate > 0 /\ terms[x].excessOnly
                               /\ (\A e \in F \cup {d} : terms[x].single = 0 \/ GrossPaid[e] < terms[x].single) =>
                               taxable + row.taxable = Tax!Excess(terms[x], gross + GrossPaid[d])
        BY <1>1, <3>1, <3>5 DEF Tax!ExcessTaxedOnce, Tax!Excess
      <4>1. /\ terms[x].aggregate > 0 => taxable >= Tax!Excess(terms[x], gross)
            /\ terms[x].aggregate > 0 /\ terms[x].excessOnly
                 /\ (\A e \in F : terms[x].single = 0 \/ GrossPaid[e] < terms[x].single) =>
                 taxable = Tax!Excess(terms[x], gross)
        <5>1. \A e \in Tax!Final : terms[deduction[e].rate] = terms[x]
          BY <2>0, <3>7
        <5> QED BY <2>0, <3>6, <5>1 DEF TaxInv, DeductionsInv, Tax!ExcessTaxedOnce
      <4>2. row.taxable = Tax!calculateTdsThresholdBasis(terms[x], GrossPaid[d], gross)
        <5>1. terms[row.rate] = terms[x]
          BY <3>2
        <5> QED BY <3>2, <5>1 DEF Assessed
      <4>3. PICK tt \in Tax!Terms : tt = terms[x]
        BY <2>5
      <4>4. /\ tt.aggregate > 0 => row.taxable >= Tax!Excess(tt, gross + GrossPaid[d]) - Tax!Excess(tt, gross)
            /\ tt.aggregate > 0 /\ tt.excessOnly /\ (tt.single = 0 \/ GrossPaid[d] < tt.single) =>
                 row.taxable = Tax!Excess(tt, gross + GrossPaid[d]) - Tax!Excess(tt, gross)
        <5>1. row.taxable = Tax!calculateTdsThresholdBasis(tt, GrossPaid[d], gross)
          BY <4>2, <4>3
        <5>2. PICK basis : basis = Tax!calculateTdsThresholdBasis(tt, GrossPaid[d], gross)
          OBVIOUS
        <5>3. /\ tt.aggregate > 0 => basis >= Tax!Excess(tt, gross + GrossPaid[d]) - Tax!Excess(tt, gross)
              /\ tt.aggregate > 0 /\ tt.excessOnly /\ (tt.single = 0 \/ GrossPaid[d] < tt.single) =>
                   basis = Tax!Excess(tt, gross + GrossPaid[d]) - Tax!Excess(tt, gross)
          BY <2>4, <5>2, BasisOfOne
        <5> QED BY <5>1, <5>2, <5>3
      <4>5. Tax!Excess(tt, gross) \in Nat /\ Tax!Excess(tt, gross + GrossPaid[d]) \in Nat
        BY <2>4 DEF Tax!Excess, Tax!Terms
      <4> QED BY <2>4, <3>2, <4>1, <4>3, <4>4, <4>5
    <3>9. Tax!AssessedInTurn'
      <4>1. \A e \in F : /\ Assessed(deduction[e], e)
                         /\ deduction[e].prior + GrossPaid[e] <= gross
                         /\ deduction[e].prior \in Nat /\ GrossPaid[e] \in Nat
        BY <2>0, <2>1, <3>6 DEF TaxInv, DeductionsInv, Tax!AssessedInTurn, Assessed, Tax!Deduction, Tax!TdsAssumption
      <4>2. \A e \in F \cup {d} : Assessed(deduction'[e], e)
        BY <3>2, <3>7, <4>1
      <4>3. \A e \in F \cup {d} : deduction'[e].prior + GrossPaid[e] <= gross + GrossPaid[d]
        BY <2>4, <3>2, <3>7, <4>1
      <4>4. \A e, f \in F : e # f => \/ deduction[e].prior + GrossPaid[e] <= deduction[f].prior
                                    \/ deduction[f].prior + GrossPaid[f] <= deduction[e].prior
        BY <2>0 DEF TaxInv, DeductionsInv, Tax!AssessedInTurn
      <4>5. \A e, f \in F \cup {d} : e # f => \/ deduction'[e].prior + GrossPaid[e] <= deduction'[f].prior
                                            \/ deduction'[f].prior + GrossPaid[f] <= deduction'[e].prior
        BY <3>2, <3>7, <4>1, <4>4
      <4> QED BY <1>1, <3>1, <3>5, <4>2, <4>3, <4>5
              DEF Tax!AssessedInTurn, Assessed, Tax!calculateTdsThresholdBasis, Tax!Excess
    <3> QED BY <3>8, <3>9
  <2> QED BY <2>6, <2>7
<1>8. ~crossed' => ApprovalsApart'
  BY <1>1, ApprovalsStay DEF TaxInv
<1>9. \A n \in Members : approving'[n] # Nothing => master'[approving'[n]] # Nothing
  BY <1>1 DEF TaxInv
<1> QED BY <1>3, <1>4, <1>6, <1>7, <1>8, <1>9 DEF TaxInv, DeductionsInv

\* An abort forgets what was read.
LEMMA DeductionAborts ==
    ASSUME Tax!TdsAssumption, TaxInv, NEW d \in Deductions, Tax!AbortDeduction(d)
    PROVE  TaxInv'
<1>1. /\ UNCHANGED <<section, master, approving, crossed, terms, vendor, deduction>>
      /\ Tax!Open(d) /\ deducting' = [deducting EXCEPT ![d] = Nothing]
  BY DEF Tax!AbortDeduction, Tax!masterVars
<1>2. Tax!TypeOK'
  BY <1>1 DEF TaxInv, Tax!TypeOK
<1>3. \A e \in Deductions : ~Tax!Open(e)'
  BY <1>1 DEF TaxInv, DeductionsInv, Tax!TypeOK, Tax!Open
<1>4. Tax!Kept' = Tax!Kept /\ Tax!Final' = Tax!Final
  BY <1>1 DEF Tax!Kept, Tax!Final
<1>5. Tax!ExcessTaxedOnce'
  BY <1>1, <1>4 DEF TaxInv, DeductionsInv, Tax!ExcessTaxedOnce, Tax!report, Tax!TaxableOf, Tax!GrossOf, Tax!Excess
<1>6. Tax!BasisWithinPayable'
  BY <1>1, <1>4 DEF TaxInv, DeductionsInv, Tax!BasisWithinPayable, Tax!Reserved, Tax!GrossOf
<1>7. ~crossed' => ApprovalsApart'
  BY <1>1, ApprovalsStay DEF TaxInv
<1>8. \A n \in Members : approving'[n] # Nothing => master'[approving'[n]] # Nothing
  BY <1>1 DEF TaxInv
<1>9. Tax!AssessedInTurn'
  BY <1>1, <1>4 DEF TaxInv, DeductionsInv, Tax!AssessedInTurn, Tax!report, Tax!GrossOf, Tax!calculateTdsThresholdBasis, Tax!Excess
<1> QED BY <1>2, <1>3, <1>5, <1>6, <1>7, <1>8, <1>9 DEF TaxInv, DeductionsInv

\* An approval changes no total: the deduction was final before.
LEMMA DeductionApproved ==
    ASSUME Tax!TdsAssumption, TaxInv, NEW d \in Deductions, NEW m \in Members, Tax!ApproveDeduction(m, d)
    PROVE  TaxInv'
<1> DEFINE row == [deduction[d] EXCEPT !.status = "approved"]
<1>1. /\ UNCHANGED <<section, master, approving, crossed, terms, vendor, deducting>>
      /\ deduction[d] # Nothing /\ deduction[d].status = "submitted" /\ ~Tax!Open(d)
      /\ deduction' = [deduction EXCEPT ![d] = row]
      /\ deduction \in [Deductions -> Tax!Deduction \cup {Nothing}]
  BY DEF Tax!ApproveDeduction, Tax!masterVars, Tax!Kept, TaxInv, Tax!TypeOK
<1>2. deduction[d] \in Tax!Deduction
  BY <1>1
<1>3. /\ row \in Tax!Deduction /\ row.status = "approved" /\ row # Nothing
      /\ row.taxable = deduction[d].taxable /\ row.rate = deduction[d].rate /\ row.prior = deduction[d].prior
  BY <1>2 DEF Tax!Deduction, Tax!TdsAssumption
<1> HIDE DEF row
<1>4. Tax!TypeOK'
  BY <1>1, <1>3 DEF TaxInv, Tax!TypeOK
<1>5. Tax!Kept' = Tax!Kept /\ Tax!Final' = Tax!Final
  BY <1>1, <1>3 DEF Tax!Kept, Tax!Final
<1>6. \A e \in Tax!Final : /\ e \in Deductions /\ deduction[e].taxable \in Nat
                          /\ deduction'[e].taxable = deduction[e].taxable
                          /\ deduction'[e].rate = deduction[e].rate /\ deduction'[e].prior = deduction[e].prior
  BY <1>1, <1>3 DEF Tax!Final, Tax!Kept, Tax!Deduction
<1>7. Tax!ExcessTaxedOnce' /\ Tax!AssessedInTurn'
  <2>1. Tax!TaxableOf(Tax!Final)' = Tax!TaxableOf(Tax!Final)
    <3>1. Tax!Final \in SUBSET Deductions
      BY <1>6
    <3> QED BY <1>5, <1>6, <3>1, TaxableSame, TaxSums DEF Tax!TaxableOf
  <2>2. Tax!report' = Tax!report
    BY <1>5, <2>1 DEF Tax!report, Tax!GrossOf
  <2>3. Tax!ExcessTaxedOnce'
    BY <1>1, <1>5, <1>6, <2>2 DEF TaxInv, DeductionsInv, Tax!ExcessTaxedOnce, Tax!Excess
  <2>4. Tax!AssessedInTurn'
    BY <1>1, <1>5, <1>6, <2>2
       DEF TaxInv, DeductionsInv, Tax!AssessedInTurn, Tax!calculateTdsThresholdBasis, Tax!Excess
  <2> QED BY <2>3, <2>4
<1>8. Tax!BasisWithinPayable'
  BY <1>1, <1>5 DEF TaxInv, DeductionsInv, Tax!BasisWithinPayable, Tax!Reserved, Tax!GrossOf
<1>9. \A e \in Deductions : /\ Tax!Open(e)' <=> Tax!Open(e)
                           /\ Tax!Open(e) => deduction'[e] = deduction[e]
  BY <1>1 DEF Tax!Open
<1>10. \A e \in Deductions : Tax!Open(e)' => DeductionHolds(e)'
  <2> SUFFICES ASSUME NEW e \in Deductions, Tax!Open(e)' PROVE DeductionHolds(e)'
    OBVIOUS
  <2>1. DeductionHolds(e) /\ deduction'[e] = deduction[e] /\ deducting'[e] = deducting[e]
    BY <1>1, <1>9 DEF TaxInv, DeductionsInv, Tax!Open
  <2>2. Tax!Reserved(PayableOf[e], {})' = Tax!Reserved(PayableOf[e], {})
    BY <1>5 DEF Tax!Reserved, Tax!GrossOf
  <2>3. Tax!GrossOf(Tax!Final)' = Tax!GrossOf(Tax!Final) /\ (Assessed(deducting[e], e) => Assessed(deducting[e], e)')
    BY <1>1, <1>5, <2>1 DEF Tax!GrossOf, Assessed, Tax!calculateTdsThresholdBasis, Tax!Excess
  <2> QED BY <2>1, <2>2, <2>3 DEF DeductionHolds
<1>11. ~crossed' => ApprovalsApart'
  BY <1>1, ApprovalsStay DEF TaxInv
<1>12. \A n \in Members : approving'[n] # Nothing => master'[approving'[n]] # Nothing
  BY <1>1 DEF TaxInv
<1>13. \A e, f \in Deductions : Tax!Open(e)' /\ Tax!Open(f)' => e = f
  BY <1>1 DEF TaxInv, DeductionsInv, Tax!Open
<1>14. DeductionsInv'
  BY <1>7, <1>8, <1>10, <1>13 DEF DeductionsInv
<1> QED BY <1>4, <1>11, <1>12, <1>14 DEF TaxInv

\* TaxInv is inductive.
LEMMA NextTax ==
    ASSUME Tax!TdsAssumption, TaxInv, [Tax!Next]_(Tax!vars)
    PROVE  TaxInv'
<1>1. CASE UNCHANGED Tax!vars
  <2>1. Tax!TypeOK'
    BY <1>1 DEF TaxInv, Tax!TypeOK, Tax!vars
  <2> QED BY <1>1, <2>1, DeductionsStay, ApprovalsStay DEF TaxInv, Tax!vars
<1>2. CASE \E m \in Members :
             \/ Tax!CreateSection(m) \/ Tax!ApproveSection(m) \/ Tax!CommitApprove(m)
             \/ \E x \in Masters : Tax!CreateRate(m, x) \/ Tax!CreateVendorClassification(m, x) \/ Tax!BeginApprove(m, x)
  BY <1>2, MastersMove
<1>3. CASE \E d \in Deductions : (\E m \in Members : Tax!BeginCreate(m, d)) \/ Tax!BeginSubmit(d)
  BY <1>3, DeductionBegins
<1>4. CASE \E d \in Deductions : Tax!CommitDeduction(d) \/ Tax!AbortDeduction(d)
  BY <1>4, DeductionCommits, DeductionAborts
<1>5. CASE \E m \in Members, d \in Deductions : Tax!ApproveDeduction(m, d)
  BY <1>5, DeductionApproved
<1>6. CASE Tax!VendorChanges
  <2>1. Tax!TypeOK'
    BY <1>6 DEF TaxInv, Tax!TypeOK, Tax!VendorChanges, Tax!masterVars
  <2> QED BY <1>6, <2>1, DeductionsStay, ApprovalsStay DEF TaxInv, Tax!VendorChanges, Tax!masterVars
<1> QED BY <1>1, <1>2, <1>3, <1>4, <1>5, <1>6 DEF Tax!Next

\* TaxInv says what the module promises.
LEMMA TaxTells ==
    ASSUME TaxInv
    PROVE  Tax!TypeOK /\ Tax!AssessedInTurn /\ Tax!ExcessTaxedOnce /\ Tax!BasisWithinPayable /\ Tax!OneMasterUnlessRaced
<1>1. Tax!OneMasterUnlessRaced
  <2> SUFFICES ASSUME ~crossed, NEW kind \in {"rate", "classification"}, NEW day \in TaxDays
               PROVE  Tax!Cardinality(Tax!Covering(kind, day)) <= 1
    BY DEF Tax!OneMasterUnlessRaced
  <2>1. \A x, y \in Tax!Covering(kind, day) : x = y
    BY DEF TaxInv, ApprovalsApart, Tax!Covering, Tax!ApprovedMasters
  <2>2. Cardinality(Tax!Covering(kind, day)) <= 1
    BY <2>1, AtMostOne
  <2> QED BY <2>2, TaxCardinality
<1> QED BY <1>1 DEF TaxInv, DeductionsInv

\* Whatever the masters, the terms of each rate, payables and deductions: every final deduction is
\* assessed on a stretch of its own of the year's gross, under the terms of its rate; where those
\* rates have the same terms the tax of the year is that on its excess over the threshold; no payable
\* is deducted from beyond its value, and one master applies on a day unless two approvals raced
\* (AssessedInTurn, ExcessTaxedOnce, BasisWithinPayable and OneMasterUnlessRaced of TdsDeductions).
THEOREM TaxKept ==
    ASSUME Tax!TdsAssumption
    PROVE  Tax!Spec => [](Tax!TypeOK /\ Tax!AssessedInTurn /\ Tax!ExcessTaxedOnce /\ Tax!BasisWithinPayable /\ Tax!OneMasterUnlessRaced)
<1>1. Tax!Init => TaxInv
  BY InitTax
<1>2. TaxInv /\ [Tax!Next]_(Tax!vars) => TaxInv'
  BY NextTax
<1>3. TaxInv => Tax!TypeOK /\ Tax!AssessedInTurn /\ Tax!ExcessTaxedOnce /\ Tax!BasisWithinPayable /\ Tax!OneMasterUnlessRaced
  BY TaxTells
<1> QED BY <1>1, <1>2, <1>3, PTL DEF Tax!Spec

\* No payable is accepted for two vendors, nor with a payment of another vendor.
LEMMA OneOwner == ASSUME NEW p, NEW q, NEW vendors PROVE Tax!OwnedByOneVendor(p, q, vendors)
  BY DEF Tax!OwnedByOneVendor, Tax!assertTdsSourceOwnership, Tax!payableVendorBinding
=============================================================================
