---------------------------- MODULE PlanningBoms ----------------------------
(***************************************************************************)
(* Planning BOMs of a MesaERP company and their revisions                  *)
(* (mesaerp/planningService.ts).  A partial unique index allows one active *)
(* BOM per item, so a BOM is named by its item.  Its revisions go from     *)
(* draft to submitted to approved; an approval reads the approved          *)
(* revisions, decides, and writes, under an advisory lock of its own BOM.  *)
(***************************************************************************)
EXTENDS FiniteSets, Naturals, Relation

CONSTANTS Items, Revisions, Members,
          Spans,      \* effective periods a revision may be given, as sets of days
          Nothing

VARIABLES revision,   \* revision[r]
          approving,  \* approving[m]: the revision member m has found approvable
          raced       \* history: two approvals have been in flight at once

vars == <<revision, approving, raced>>

Unused == [stage |-> "unused"]
Used == {r \in Revisions : revision[r] # Unused}
Of(i) == {r \in Used : revision[r].parent = i}
Approved == {r \in Used : revision[r].stage = "approved"}

\* Components are other items than the parent; at least one.
PartLists(i) == SUBSET (Items \ {i}) \ {{}}
Sheet(i, parts, span, m) ==
    [stage |-> "draft", parent |-> i, parts |-> parts, span |-> span, maker |-> m]

TypeOK ==
    /\ \A r \in Used : /\ revision[r].parent \in Items
                       /\ revision[r].parts \in PartLists(revision[r].parent)
                       /\ revision[r].span \in Spans /\ revision[r].maker \in Members
                       /\ revision[r].stage \in {"draft", "submitted", "approved"}
    /\ \A m \in Members : approving[m] \in Revisions \cup {Nothing}

Init ==
    /\ revision = [r \in Revisions |-> Unused]
    /\ approving = [m \in Members |-> Nothing]
    /\ raced = FALSE

-----------------------------------------------------------------------------
\* The advisory lock of BOM i is free.
BomLockFree(i) == \A m \in Members : approving[m] # Nothing => revision[approving[m]].parent # i

AddRevision(m, r, i, parts, span) ==
    /\ revision[r] = Unused
    /\ parts \in PartLists(i)
    /\ revision' = [revision EXCEPT ![r] = Sheet(i, parts, span, m)]
    /\ UNCHANGED <<approving, raced>>

\* The BOM of an item with its first revision; the unique index settles a race of two.
CreateBom(m, r, i, parts, span) == Of(i) = {} /\ AddRevision(m, r, i, parts, span)

CreateBomRevision(m, r, i, parts, span) ==
    /\ Of(i) # {} /\ BomLockFree(i)
    /\ AddRevision(m, r, i, parts, span)

UpdateBomRevision(r, parts, span) ==
    /\ r \in Used /\ revision[r].stage = "draft"
    /\ parts \in PartLists(revision[r].parent)
    /\ revision' = [revision EXCEPT ![r].parts = parts, ![r].span = span]
    /\ UNCHANGED <<approving, raced>>

SubmitBomRevision(r) ==
    /\ r \in Used /\ revision[r].stage = "draft"
    /\ revision' = [revision EXCEPT ![r].stage = "submitted"]
    /\ UNCHANGED <<approving, raced>>

Overlaps(r) == \E o \in Approved \ {r} :
    revision[o].parent = revision[r].parent /\ revision[o].span \cap revision[r].span # {}

Edges(rs) == UNION {{<<revision[r].parent, p>> : p \in revision[r].parts} : r \in rs}
Cyclic(edges) ==
    LET reach == TransitiveClosure([e \in Items \X Items |-> e \in edges], Items)
    IN  \E i \in Items : reach[i, i]

\* Mutant of CreatesCycle: only a direct exchange of parent and component is seen.
CreatesCycleDirectly(r) ==
    \E o \in Approved : /\ revision[o].parent \in revision[r].parts
                        /\ revision[r].parent \in revision[o].parts
\* Among the approved revisions of other items and the candidate.
CreatesCycle(r) ==
    Cyclic(Edges({r} \cup {o \in Approved : revision[o].parent # revision[r].parent}))

\* Mutant of Approvable: the effective periods of other revisions are not looked at.
ApprovableAnyPeriod(m, r) == revision[r].maker # m /\ ~CreatesCycle(r)
Approvable(m, r) == revision[r].maker # m /\ ~Overlaps(r) /\ ~CreatesCycle(r)

BeginApprove(m, r) ==
    /\ approving[m] = Nothing
    /\ r \in Used /\ revision[r].stage = "submitted"
    /\ BomLockFree(revision[r].parent)
    /\ Approvable(m, r)
    /\ approving' = [approving EXCEPT ![m] = r]
    /\ raced' = (raced \/ \E n \in Members : approving[n] # Nothing)
    /\ UNCHANGED revision

CommitApprove(m) ==
    /\ approving[m] # Nothing
    /\ revision' = [revision EXCEPT ![approving[m]].stage = "approved"]
    /\ approving' = [approving EXCEPT ![m] = Nothing]
    /\ UNCHANGED raced

AbortApprove(m) ==
    /\ approving[m] # Nothing
    /\ approving' = [approving EXCEPT ![m] = Nothing]
    /\ UNCHANGED <<revision, raced>>

Next ==
    \/ \E m \in Members, r \in Revisions, i \in Items, span \in Spans :
         \E parts \in PartLists(i) : \/ CreateBom(m, r, i, parts, span)
                                     \/ CreateBomRevision(m, r, i, parts, span)
    \/ \E r \in Used : \/ SubmitBomRevision(r)
                       \/ \E parts \in PartLists(revision[r].parent), span \in Spans :
                            UpdateBomRevision(r, parts, span)
    \/ \E m \in Members : \/ CommitApprove(m) \/ AbortApprove(m)
                          \/ \E r \in Used : BeginApprove(m, r)

Spec == Init /\ [][Next]_vars

-----------------------------------------------------------------------------
\* On no day two approved revisions of one BOM are effective, whoever approves them
\* and however the approvals overlap: MRP takes the one selectBom sorts first.
EffectiveOnce ==
    \A r, o \in Approved : r # o /\ revision[r].parent = revision[o].parent
                             => revision[r].span \cap revision[o].span = {}

\* Approved BOMs do not consume each other ("would create a cyclic multi-level BOM"),
\* whatever their periods, until two approvals of different BOMs overlap: the lock is
\* one BOM's, so each can miss the other.
AcyclicUnlessRaced == ~raced => ~Cyclic(Edges(Approved))
=============================================================================
