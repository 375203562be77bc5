----------------------------- MODULE StoreAndGate -----------------------------
(***************************************************************************)
(* What enters a plant and what may leave it: raw material received,       *)
(* issued to machines and consumed by production (mesaops/inventory), the  *)
(* machines with their maintenance (mesaops/maintenance), and the          *)
(* statutory rule profiles that decide which evidence a dispatch needs     *)
(* (mesaops/dispatch/statutory.ts, statutoryProfileService.ts).            *)
(*                                                                         *)
(* The stock of a row is the sum of its ledger.  An issue sums it and      *)
(* writes in a later transaction; an approval checks and writes under the  *)
(* lock of its own profile only; a dispatch reads the profiles and commits *)
(* later.  How much of an order may leave is PlantOrder.                   *)
(***************************************************************************)
EXTENDS Integers, FiniteSets, FiniteSetsExt

CONSTANTS Keepers, PlantsOf,            \* store keepers and the plants each may work in
          Plants, Primary,              \* and the plant of a receipt that names none
          Materials, Units, Kg,         \* production books in Kg
          Codes, Tasks,                 \* machine codes, maintenance tasks
          MaxStock, MaxIssue,           \* bounds of a row and of one movement
          Members, Versions, Contents,  \* who keeps rule profiles, their versions and what these may say
          All,                          \* "*": every plant, every movement
          Movements, Supply,            \* Supply: the movement the dispatch page knows
          LastDay, RowLimit,            \* RowLimit: how many profiles a selection reads
          Gates, Evidence, MaxDispatches, \* dispatches under way, signed evidence there may be
          Environments,                 \* of {TRUE, FALSE}: is the server a production server
          Bootstrap, Nothing

Rows == Plants \X Materials \X Units
Days == 1 .. LastDay

\* A profile that is well formed: it has a scope, and does not end before it starts.
Wellformed(c) ==
    /\ c.plant \in Plants \cup {All} /\ c.movement \in Movements \cup {All}
    /\ c.from \in Days /\ c.to \in Days \cup {Nothing}
    /\ c.to # Nothing => c.from <= c.to
    /\ c.needs \subseteq {"invoice", "eway"}

StoreAndGateAssumption ==
    /\ Primary \in Plants /\ Kg \in Units /\ All \notin Plants \cup Movements
    /\ PlantsOf \in [Keepers -> SUBSET Plants]
    /\ MaxStock \in Nat /\ MaxIssue \in 1 .. MaxStock /\ LastDay \in Nat \ {0} /\ RowLimit \in Nat \ {0}
    /\ MaxDispatches \in Nat /\ Environments \subseteq BOOLEAN
    /\ Supply \in Movements /\ \A c \in Contents : Wellformed(c)
    /\ \A e \in Evidence : e.version \in Versions /\ e.holds \subseteq {"invoice", "eway"} /\ e.until \in Days \cup {0}
    /\ Bootstrap \notin Versions /\ Nothing \notin Versions

VARIABLES
    ledger,       \* stock of a row, Nothing as long as no transaction names it
    page,         \* what the board of a keeper shows of a material in a unit
    issue,        \* an issue between its check and its write
    taken,        \* rows on which withdrawals overlapped, or that production drew from
    machine,      \* the plant of a machine code
    task,         \* maintenance task: machine, done
    profile,      \* rule profile of a version: content, status, maker, approver
    approving,    \* the version a member is approving, between check and write
    gate,         \* a dispatch between reading the profiles and its commit
    dispatched,   \* what has left, with the profile it left under
    day, production
vars == <<ledger, page, issue, taken, machine, task, profile, approving, gate, dispatched, day, production>>
storeVars == <<ledger, page, issue, taken>>
floorVars == <<machine, task>>
gateVars == <<profile, approving, gate, dispatched, day, production>>

Dispatch == [plant : Plants, movement : Movements, day : Days, version : Versions \cup {Bootstrap},
             evidence : Evidence \cup {Nothing}, known : SUBSET Versions]
TypeOK ==
    /\ \A r \in Rows : ledger[r] # Nothing => ledger[r] \in -MaxStock .. MaxStock
    /\ DOMAIN page = Keepers /\ \A k \in Keepers : DOMAIN page[k] = Materials \X Units
    /\ \A k \in Keepers : issue[k] # Nothing => issue[k].row \in Rows /\ issue[k].quantity \in 1 .. MaxIssue
    /\ taken \subseteq Rows
    /\ machine \in [Codes -> Plants \cup {Nothing}]
    /\ \A t \in Tasks : task[t] # Nothing => task[t].machine \in Codes /\ task[t].done \in BOOLEAN
    /\ \A v \in Versions : profile[v] # Nothing =>
          /\ profile[v].content \in Contents /\ profile[v].status \in {"draft", "approved"}
          /\ profile[v].maker \in Members /\ profile[v].approver \in Members \cup {Nothing}
    /\ approving \in [Members -> Versions \cup {Nothing}]
    /\ \A g \in Gates : gate[g] # Nothing => gate[g] \in Dispatch
    /\ dispatched \subseteq Dispatch
    /\ day \in Days /\ production \in BOOLEAN

Init ==
    /\ ledger = [r \in Rows |-> Nothing]
    /\ page = [k \in Keepers |-> [s \in Materials \X Units |-> Nothing]]
    /\ issue = [k \in Keepers |-> Nothing]
    /\ taken = {}
    /\ machine = [c \in Codes |-> Nothing]
    /\ task = [t \in Tasks |-> Nothing]
    /\ profile = [v \in Versions |-> Nothing]
    /\ approving = [m \in Members |-> Nothing]
    /\ gate = [g \in Gates |-> Nothing]
    /\ dispatched = {}
    /\ day = 1
    /\ production \in Environments

-----------------------------------------------------------------------------
(* The store.                                                              *)

MachinesOf(k) == {c \in Codes : machine[c] # Nothing /\ machine[c] \in PlantsOf[k]}

Held(r) == IF ledger[r] = Nothing THEN 0 ELSE ledger[r]

\* The board adds up the plants of its keeper; a material without transactions has no row.
Board(k) == [s \in Materials \X Units |->
    LET rows == {r \in Rows : r[1] \in PlantsOf[k] /\ <<r[2], r[3]>> = s /\ ledger[r] # Nothing}
    IN IF rows = {} THEN Nothing ELSE MapThenSumSet(Held, rows)]

Load(k) ==
    /\ page' = [page EXCEPT ![k] = Board(k)]
    /\ UNCHANGED <<ledger, issue, taken, floorVars, gateVars>>

\* Nobody receives for a plant that is not theirs.
Receive(k, p, m, u, q) ==
    /\ p \in PlantsOf[k]
    /\ Held(<<p, m, u>>) + q <= MaxStock
    /\ ledger' = [ledger EXCEPT ![<<p, m, u>>] = Held(<<p, m, u>>) + q]
    /\ UNCHANGED <<page, issue, taken, floorVars, gateVars>>

\* The receiving page names no plant, so its receipts are the primary plant's.
ReceiveOnPage(k, m, u, q) == Receive(k, Primary, m, u, q)

\* What an issue is compared with: the plant of its machine, the material in the unit.
OnHand(p, m, u) == Held(<<p, m, u>>)

\* The page offers what its board shows over all plants of the keeper.
Offered(k, m, u, q) == page[k][<<m, u>>] # Nothing /\ q <= page[k][<<m, u>>]

\* The service sums the plant of the machine, in a transaction of its own.
BeginIssue(k, c, m, u, q) ==
    /\ issue[k] = Nothing
    /\ Offered(k, m, u, q)
    /\ c \in MachinesOf(k)
    /\ OnHand(machine[c], m, u) >= q
    /\ issue' = [issue EXCEPT ![k] = [row |-> <<machine[c], m, u>>, quantity |-> q]]
    /\ UNCHANGED <<ledger, page, taken, floorVars, gateVars>>

Withdraw(r, q) == ledger' = [ledger EXCEPT ![r] = Held(r) - q]

CommitIssue(k) ==
    /\ issue[k] # Nothing
    /\ Held(issue[k].row) - issue[k].quantity >= -MaxStock
    /\ Withdraw(issue[k].row, issue[k].quantity)
    /\ taken' = taken \cup {issue[j].row : j \in {j \in Keepers \ {k} : issue[j] # Nothing /\ issue[j].row = issue[k].row}}
    /\ issue' = [issue EXCEPT ![k] = Nothing]
    /\ UNCHANGED <<page, floorVars, gateVars>>

AbortIssue(k) ==
    /\ issue[k] # Nothing
    /\ issue' = [issue EXCEPT ![k] = Nothing]
    /\ UNCHANGED <<ledger, page, taken, floorVars, gateVars>>

\* A submitted logbook books what the formula says, in Kg, without looking at the store.
Consume(p, m, q) ==
    /\ Held(<<p, m, Kg>>) - q >= -MaxStock
    /\ Withdraw(<<p, m, Kg>>, q)
    /\ taken' = taken \cup {<<p, m, Kg>>}
    /\ UNCHANGED <<page, issue, floorVars, gateVars>>

-----------------------------------------------------------------------------
(* Machines and their maintenance.                                         *)

\* A code is registered once in the organization, whatever the plant.
CreateMachine(k, c, p) ==
    /\ p \in PlantsOf[k]
    /\ machine[c] = Nothing
    /\ machine' = [machine EXCEPT ![c] = p]
    /\ UNCHANGED <<task, storeVars, gateVars>>

\* The page names no plant here either.
CreateMachineOnPage(k, c) == CreateMachine(k, c, Primary)

AddMaintenance(k, t, c) ==
    /\ task[t] = Nothing
    /\ c \in MachinesOf(k)
    /\ task' = [task EXCEPT ![t] = [machine |-> c, done |-> FALSE]]
    /\ UNCHANGED <<machine, storeVars, gateVars>>

\* The schedule shows the open tasks of the machines of one's plants.
OpenTasks(k) == {t \in Tasks : task[t] # Nothing /\ ~task[t].done /\ task[t].machine \in MachinesOf(k)}

CompleteMaintenance(k, t) ==
    /\ t \in OpenTasks(k)
    /\ task' = [task EXCEPT ![t].done = TRUE]
    /\ UNCHANGED <<machine, storeVars, gateVars>>

-----------------------------------------------------------------------------
(* Rule profiles: made by one member, approved by another, then immutable. *)

Approved == {v \in Versions : profile[v] # Nothing /\ profile[v].status = "approved"}

CreateProfile(m, v, c) ==
    /\ profile[v] = Nothing
    /\ profile' = [profile EXCEPT ![v] = [content |-> c, status |-> "draft", maker |-> m, approver |-> Nothing]]
    /\ UNCHANGED <<approving, gate, dispatched, day, production, storeVars, floorVars>>

SameStart(c, d) == c.plant = d.plant /\ c.movement = d.movement /\ c.from = d.from
StartTaken(v) == \E w \in Approved \ {v} : SameStart(profile[w].content, profile[v].content)

BeginApprove(m, v) ==
    /\ approving[m] = Nothing
    /\ \A n \in Members : approving[n] # v
    /\ profile[v] # Nothing /\ profile[v].status = "draft" /\ profile[v].maker # m
    /\ ~StartTaken(v)
    /\ approving' = [approving EXCEPT ![m] = v]
    /\ UNCHANGED <<profile, gate, dispatched, day, production, storeVars, floorVars>>

\* The trigger locks the scope and looks again, and a partial unique index stands behind it.
StillFree(v) == ~StartTaken(v)
CommitApprove(m) ==
    /\ approving[m] # Nothing
    /\ StillFree(approving[m])
    /\ profile' = [profile EXCEPT ![approving[m]].status = "approved", ![approving[m]].approver = m]
    /\ approving' = [approving EXCEPT ![m] = Nothing]
    /\ UNCHANGED <<gate, dispatched, day, production, storeVars, floorVars>>

AbortApprove(m) ==
    /\ approving[m] # Nothing
    /\ approving' = [approving EXCEPT ![m] = Nothing]
    /\ UNCHANGED <<profile, gate, dispatched, day, production, storeVars, floorVars>>

-----------------------------------------------------------------------------
(* The gate.                                                               *)

Covers(c, p, m, d) ==
    /\ c.plant \in {All, p} /\ c.movement \in {All, m}
    /\ c.from <= d /\ (c.to # Nothing => d <= c.to)

\* More specific first, the plant before the movement; then the later start, then the version.
Specificity(c, p, m) == (IF c.plant = p THEN 2 ELSE 0) + (IF c.movement = m THEN 1 ELSE 0)
Before(v, w, p, m) ==
    LET a == profile[v].content b == profile[w].content IN
    \/ Specificity(a, p, m) > Specificity(b, p, m)
    \/ Specificity(a, p, m) = Specificity(b, p, m) /\ (a.from > b.from \/ (a.from = b.from /\ v > w))

InForce(p, m, d) == {v \in Approved : Covers(profile[v].content, p, m, d)}

\* The query returns at most RowLimit rows, in no order; without one, production refuses
\* and a development server goes by its bootstrap profile, which asks for nothing.
Selectable(p, m, d) ==
    LET reads == IF Cardinality(InForce(p, m, d)) <= RowLimit THEN {InForce(p, m, d)}
                 ELSE kSubset(RowLimit, InForce(p, m, d))
    IN UNION {IF rows = {} THEN {Bootstrap} ELSE {v \in rows : \A w \in rows \ {v} : Before(v, w, p, m)} : rows \in reads}

Needs(v) == IF v = Bootstrap THEN {} ELSE profile[v].content.needs
\* Evidence is signed for one order and one version of the rules.
Verifies(e, v, d) ==
    IF e = Nothing THEN Needs(v) = {}
    ELSE /\ e.version = v
         /\ Needs(v) \subseteq e.holds
         /\ "eway" \in Needs(v) => d < e.until

BeginDispatch(g, p, m, e) ==
    /\ gate[g] = Nothing /\ Cardinality(dispatched) < MaxDispatches
    /\ \E v \in Selectable(p, m, day) :
          /\ v = Bootstrap => ~production
          /\ Verifies(e, v, day)
          /\ gate' = [gate EXCEPT ![g] = [plant |-> p, movement |-> m, day |-> day, version |-> v, evidence |-> e, known |-> Approved]]
    /\ UNCHANGED <<profile, approving, dispatched, day, production, storeVars, floorVars>>

\* The dispatch page sends no evidence, other clients may.
DispatchOnPage(g, p) == BeginDispatch(g, p, Supply, Nothing)

\* The invoice of the evidence becomes the reference of the dispatch, which is unique: an
\* order that leaves in two parts needs two invoices.
ReferenceFree(e) == e # Nothing /\ "invoice" \in e.holds => \A d \in dispatched : d.evidence # e

CommitDispatch(g) ==
    /\ gate[g] # Nothing
    /\ ReferenceFree(gate[g].evidence)
    /\ dispatched' = dispatched \cup {gate[g]}
    /\ gate' = [gate EXCEPT ![g] = Nothing]
    /\ UNCHANGED <<profile, approving, day, production, storeVars, floorVars>>

AbortDispatch(g) ==
    /\ gate[g] # Nothing
    /\ gate' = [gate EXCEPT ![g] = Nothing]
    /\ UNCHANGED <<profile, approving, dispatched, day, production, storeVars, floorVars>>

NextDay ==
    /\ day < LastDay
    /\ day' = day + 1
    /\ UNCHANGED <<profile, approving, gate, dispatched, production, storeVars, floorVars>>

StoreNext ==
    \/ \E k \in Keepers : Load(k) \/ CommitIssue(k) \/ AbortIssue(k)
    \/ \E k \in Keepers, p \in Plants, m \in Materials, u \in Units, q \in 1 .. MaxIssue :
          Receive(k, p, m, u, q) \/ ReceiveOnPage(k, m, u, q)
    \/ \E k \in Keepers, c \in Codes, m \in Materials, u \in Units, q \in 1 .. MaxIssue : BeginIssue(k, c, m, u, q)
    \/ \E p \in Plants, m \in Materials, q \in 1 .. MaxIssue : Consume(p, m, q)
FloorNext ==
    \/ \E k \in Keepers, c \in Codes : CreateMachineOnPage(k, c) \/ \E p \in Plants : CreateMachine(k, c, p)
    \/ \E k \in Keepers, t \in Tasks : CompleteMaintenance(k, t) \/ \E c \in Codes : AddMaintenance(k, t, c)
GateNext ==
    \/ \E m \in Members, v \in Versions : BeginApprove(m, v) \/ \E c \in Contents : CreateProfile(m, v, c)
    \/ \E m \in Members : CommitApprove(m) \/ AbortApprove(m)
    \/ \E g \in Gates, p \in Plants, m \in Movements, e \in Evidence \cup {Nothing} : BeginDispatch(g, p, m, e)
    \/ \E g \in Gates : CommitDispatch(g) \/ AbortDispatch(g) \/ \E p \in Plants : DispatchOnPage(g, p)
    \/ NextDay
Next == StoreNext \/ FloorNext \/ GateNext
Spec == Init /\ [][Next]_vars

-----------------------------------------------------------------------------

\* Raw material runs below zero only where withdrawals overlapped or production drew on it:
\* an issue alone never takes what its plant does not have, however many plants, units and
\* boards a keeper has.
StoreCovers == \A r \in Rows \ taken : Held(r) >= 0

\* The profiles in force for a movement never tie, so the order in which the database returns
\* them decides nothing: approvals of two profiles of one scope and start do not both pass.
RulesDiffer ==
    /\ \A v, w \in Approved : v # w => ~SameStart(profile[v].content, profile[w].content)
    /\ \A p \in Plants, m \in Movements, d \in Days : Cardinality(Selectable(p, m, d)) = 1

\* What left, left under rules that two members vouch for, none of those approved when it was
\* decided being closer to it, with the evidence they ask for; without rules only outside of
\* production.
LeftUnderRules == \A d \in dispatched :
    IF d.version = Bootstrap
    THEN ~production /\ \A v \in d.known : ~Covers(profile[v].content, d.plant, d.movement, d.day)
    ELSE LET c == profile[d.version].content IN
         /\ profile[d.version].approver \notin {profile[d.version].maker, Nothing}
         /\ Covers(c, d.plant, d.movement, d.day)
         /\ c.needs # {} => d.evidence # Nothing /\ c.needs \subseteq d.evidence.holds /\ d.evidence.version = d.version
         /\ \A v \in d.known \ {d.version} :
               LET b == profile[v].content IN
               Covers(b, d.plant, d.movement, d.day) =>
                  \/ b.plant = All /\ c.plant = d.plant
                  \/ b.plant = c.plant /\ b.movement = All /\ c.movement = d.movement
                  \/ b.plant = c.plant /\ b.movement = c.movement /\ b.from < c.from
=============================================================================
