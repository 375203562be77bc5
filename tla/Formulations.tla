----------------------------- MODULE Formulations -----------------------------
(***************************************************************************)
(* The formulations of the plant under one code: revisions, of which the   *)
(* latest activated is in use (mesaops/formulation/service.ts), the page   *)
(* on which a planner normalizes their percentages (PlannerScreens.tsx),   *)
(* and how a logbook's Formula No finds its revision when raw material is  *)
(* booked (mesaops/logbook/service.ts).                                    *)
(*                                                                         *)
(* A request checks first and writes in a transaction after it; the        *)
(* transaction retires the active revisions its statement sees, waits for  *)
(* those another transaction has retired, and then writes its own row.     *)
(* Percentages are counted in tenths.                                      *)
(***************************************************************************)
EXTENDS Integers, Sequences, FiniteSets, FiniteSetsExt, Functions

CONSTANTS Clients, Pages,          \* requests in flight, planners with the page open
          FirstRevisions,          \* the revisions there are at the start
          MaxRevision, MaxChanges, \* bounds of what is created and of what is asked
          Entries,                 \* what a planner may type as a percentage
          Bare, Nothing            \* Bare: a Formula No that names the code alone

Revisions == 1 .. MaxRevision

VARIABLES
    revision,    \* row of a revision: active, locked, parts; Nothing before it is created
    request,     \* a request between its check and its commit
    page,        \* per planner: the rows shown, the one selected, its draft and preview
    raced,       \* have two transactions that activate a revision overlapped
    switchedOff, \* has somebody switched a revision off
    changes
vars == <<revision, request, page, raced, switchedOff, changes>>

Existing == {r \in Revisions : revision[r] # Nothing}
Active == {r \in Existing : revision[r].active}

IsParts(p) == p \in Seq(0 .. 1000) /\ Len(p) > 0
FormulationsAssumption ==
    /\ Pages \subseteq Clients /\ MaxChanges \in Nat /\ Bare \notin Revisions /\ Nothing \notin Revisions
    /\ DOMAIN FirstRevisions = Revisions /\ Entries \subseteq 0 .. 1000
    /\ \A r \in Revisions : FirstRevisions[r] # Nothing =>
         IsParts(FirstRevisions[r].parts) /\ \A q \in 1 .. r : FirstRevisions[q] # Nothing

Steps == {"checked", "retiring", "retired"}
TypeOK ==
    /\ DOMAIN revision = Revisions
    /\ \A r \in Existing : /\ revision[r].active \in BOOLEAN /\ revision[r].locked \in BOOLEAN
                           /\ IsParts(revision[r].parts)
    /\ \A c \in Clients : request[c] # Nothing =>
         /\ request[c].op \in {"create", "update"} /\ request[c].step \in Steps
         /\ request[c].target \in Revisions /\ request[c].seen \subseteq Revisions
         /\ request[c].active \in BOOLEAN \cup {Nothing}
    /\ \A c \in Pages : page[c].selected \in Revisions \cup {Nothing}
    /\ raced \in BOOLEAN /\ switchedOff \in BOOLEAN /\ changes \in 0 .. MaxChanges

Closed == [shown |-> [r \in Revisions |-> Nothing], selected |-> Nothing, draft |-> <<>>, preview |-> Nothing]
Init ==
    /\ revision = FirstRevisions
    /\ request = [c \in Clients |-> Nothing]
    /\ page = [c \in Pages |-> Closed]
    /\ raced = FALSE
    /\ switchedOff = FALSE
    /\ changes = 0

-----------------------------------------------------------------------------
(* Requests.                                                               *)

\* What a request is after its check: parts and active are Nothing where the patch has none.
Checked(op, target, parts, active) ==
    [op |-> op, step |-> "checked", target |-> target, parts |-> parts, active |-> active, seen |-> {}]

Asks(c, r) ==
    /\ request[c] = Nothing
    /\ changes < MaxChanges
    /\ request' = [request EXCEPT ![c] = r]
    /\ changes' = changes + 1
    /\ UNCHANGED <<revision, raced, switchedOff>>

\* A code that exists gets its next revision.
createFormulation(c, parts) ==
    /\ Cardinality(Existing) < MaxRevision
    /\ Asks(c, Checked("create", Cardinality(Existing) + 1, parts, TRUE))
    /\ UNCHANGED page

\* A locked revision is frozen.
Editable(r) == revision[r] # Nothing /\ ~revision[r].locked

updateFormulation(c, r, parts, active) ==
    /\ Editable(r)
    /\ Asks(c, Checked("update", r, parts, active))

\* The first statement of the transaction sees the revisions that are active when it starts.
Retires(q) == IF q.op = "create" THEN q.target > 1 ELSE q.active = TRUE
Others(r) == Active \ {r}
InTransaction(c) == request[c] # Nothing /\ request[c].step # "checked"
BeginRetire(c) ==
    /\ request[c] # Nothing /\ request[c].step = "checked" /\ Retires(request[c])
    /\ request' = [request EXCEPT ![c].step = "retiring", ![c].seen = Others(request[c].target)]
    /\ raced' = (raced \/ \E d \in Clients : InTransaction(d))
    /\ UNCHANGED <<revision, page, switchedOff, changes>>

\* A row that another transaction has retired is locked until that one ends.
LockedFor(c) == UNION {request[d].seen : d \in {x \in Clients \ {c} :
                                        request[x] # Nothing /\ request[x].step = "retired"}}
EndRetire(c) ==
    /\ request[c] # Nothing /\ request[c].step = "retiring"
    /\ request[c].seen \cap LockedFor(c) = {}
    /\ request' = [request EXCEPT ![c].step = "retired", ![c].seen = @ \cap Active]
    /\ UNCHANGED <<revision, page, raced, switchedOff, changes>>

\* The row written: a new one, or the fields the patch has.
NewRow(q) ==
    IF q.op = "create" THEN [active |-> TRUE, locked |-> FALSE, parts |-> q.parts]
    ELSE LET old == revision[q.target]
         IN [old EXCEPT !.active = IF q.active = Nothing THEN @ ELSE q.active,
                        !.parts = IF q.parts = Nothing THEN @ ELSE q.parts]

\* Of two revisions of one number the second insert fails.
NumberFree(q) == q.op = "create" => revision[q.target] = Nothing

Ready(q) == q.step = IF Retires(q) THEN "retired" ELSE "checked"
Commit(c) ==
    LET q == request[c]
    IN  /\ q # Nothing /\ Ready(q)
        /\ q.target \notin LockedFor(c)
        /\ NumberFree(q)
        /\ revision' = [r \in Revisions |-> CASE r = q.target -> NewRow(q)
                                              [] r \in q.seen -> [revision[r] EXCEPT !.active = FALSE]
                                              [] OTHER -> revision[r]]
        /\ request' = [request EXCEPT ![c] = Nothing]
        /\ switchedOff' = (switchedOff \/ q.active = FALSE)
        /\ UNCHANGED <<raced, changes>>

\* A collision, a deadlock the database breaks, a lost connection: everything is taken back.
Fail(c) ==
    /\ request[c] # Nothing
    /\ request' = [request EXCEPT ![c] = Nothing]
    /\ UNCHANGED <<revision, page, raced, switchedOff, changes>>

-----------------------------------------------------------------------------
(* The page of a planner.                                                  *)

Total(p) == FoldFunction(+, 0, p)

\* The page opens on the active revision, a later fetch keeps selection and draft.
FirstSelected(rows) ==
    LET there == {r \in DOMAIN rows : rows[r] # Nothing}
        active == {r \in there : rows[r].active}
    IN  IF active # {} THEN Min(active) ELSE IF there # {} THEN Min(there) ELSE Nothing
Load(c) ==
    /\ page' = [page EXCEPT ![c].shown = revision,
                            ![c].selected = IF @ = Nothing THEN FirstSelected(revision) ELSE @]
    /\ UNCHANGED <<revision, request, raced, switchedOff, changes>>

SelectFormula(c, r) ==
    /\ page[c].shown[r] # Nothing
    /\ page' = [page EXCEPT ![c].selected = r, ![c].draft = page[c].shown[r].parts, ![c].preview = Nothing]
    /\ UNCHANGED <<revision, request, raced, switchedOff, changes>>

Chosen(c) == page[c].shown[page[c].selected]
CanEdit(c) == page[c].selected # Nothing /\ ~Chosen(c).locked

\* What the inputs show: the draft while it has as many rows as the revision.
Current(c) == IF Len(page[c].draft) = Len(Chosen(c).parts) THEN page[c].draft ELSE Chosen(c).parts

EditPercentage(c, i, v) ==
    /\ CanEdit(c) /\ i \in DOMAIN Current(c)
    /\ page' = [page EXCEPT ![c].draft = [Current(c) EXCEPT ![i] = v], ![c].preview = Nothing]
    /\ UNCHANGED <<revision, request, raced, switchedOff, changes>>

\* Rounded to whole per cent; every part to a tenth.
Rounded(n, d) == (2 * n + d) \div (2 * d)
TotalsHundred(p) == Rounded(Total(p), 10) = 100
Normalized(p) == [i \in DOMAIN p |-> Rounded(1000 * p[i], Total(p))]

\* Percentages that total 100 already are told so, and not kept.
Normalize(c) ==
    /\ CanEdit(c) /\ ~TotalsHundred(Current(c)) /\ Total(Current(c)) > 0
    /\ page' = [page EXCEPT ![c].preview = Normalized(Current(c))]
    /\ UNCHANGED <<revision, request, raced, switchedOff, changes>>

ConfirmNormalize(c) ==
    /\ CanEdit(c) /\ page[c].preview # Nothing
    /\ updateFormulation(c, page[c].selected, page[c].preview, Nothing)
    /\ UNCHANGED page

\* When the answer comes the page makes what it sent the draft, whatever is selected by then;
\* the list is fetched again later.
Answered(c) ==
    /\ Commit(c)
    /\ page' = IF c \in Pages THEN [page EXCEPT ![c].draft = request[c].parts, ![c].preview = Nothing] ELSE page

-----------------------------------------------------------------------------
(* Formula No of a logbook.                                                *)

\* The revisions a logbook is offered.
listActiveFormulas == Active

\* The revisions one of which the booking finds: the one named, else any active one.
resolveFormula(no) == IF no \in Existing THEN {no} ELSE IF no = Bare THEN Active ELSE {}

-----------------------------------------------------------------------------
Next ==
    \/ \E c \in Clients \ Pages :
         \/ \E r \in Revisions : \E a \in BOOLEAN : updateFormulation(c, r, Nothing, a) /\ UNCHANGED page
         \/ createFormulation(c, FirstRevisions[1].parts)
    \/ \E c \in Clients : BeginRetire(c) \/ EndRetire(c) \/ Answered(c) \/ Fail(c)
    \/ \E c \in Pages :
         \/ Load(c) \/ Normalize(c) \/ ConfirmNormalize(c)
         \/ \E r \in Revisions : SelectFormula(c, r)
         \/ \E i \in 1 .. 3 : \E v \in Entries : EditPercentage(c, i, v)

-----------------------------------------------------------------------------
\* A Formula No that names the code alone books by one revision, unless two transactions that
\* each activated another revision overlapped: each retires the active revisions it sees
\* (formulation/service.ts:30 and :52).
OneInUse == ~raced => Cardinality(resolveFormula(Bare)) <= 1

\* As long as nobody switches a revision off, a logbook is offered one of the code, whatever
\* creations collide and whatever activations overlap.
NeverWithout == ~switchedOff => listActiveFormulas # {}

\* What the page keeps as normalized totals 100 per cent, up to the rounding of its parts
\* (PlannerScreens.tsx:499).
NormalizedTotals == \A c \in Pages : page[c].preview # Nothing =>
    /\ TotalsHundred(page[c].preview)
    /\ \A i \in DOMAIN page[c].preview : page[c].preview[i] <= 1000
=============================================================================
