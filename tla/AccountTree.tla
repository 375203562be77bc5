----------------------------- MODULE AccountTree -----------------------------
(***************************************************************************)
(* The chart of accounts of a company: parents, types and first use        *)
(* (mesaerp/financeControlService.ts and the account triggers of its       *)
(* migration).  An update holds the account's row from its trigger's check *)
(* to its commit; updates of different accounts overlap.                   *)
(***************************************************************************)
EXTENDS FiniteSets, Naturals, Relation

CONSTANTS Accounts, Members, Types, Nothing

VARIABLES account,   \* account[a]: parent, type and whether a voucher line uses it
          updating,  \* updating[m]: the update member m has not committed
          raced      \* history: two updates have been in flight at once

vars == <<account, updating, raced>>

Created == {a \in Accounts : account[a] # Nothing}
Account == [parent : Accounts \cup {Nothing}, type : Types, used : BOOLEAN]

TypeOK ==
    /\ \A a \in Accounts : account[a] \in Account \cup {Nothing}
    /\ \A m \in Members : updating[m] # Nothing => updating[m].account \in Created

Init ==
    /\ account = [a \in Accounts |-> Nothing]
    /\ updating = [m \in Members |-> Nothing]
    /\ raced = FALSE

CreateAccount(a, parent, type) ==
    /\ account[a] = Nothing
    /\ parent \in Created \cup {Nothing}
    /\ account' = [account EXCEPT ![a] = [parent |-> parent, type |-> type, used |-> FALSE]]
    /\ UNCHANGED <<updating, raced>>

\* A voucher draft takes the account as one of its lines.
UseAccount(a) ==
    /\ a \in Created /\ ~account[a].used
    /\ account' = [account EXCEPT ![a].used = TRUE]
    /\ UNCHANGED <<updating, raced>>

RowLockFree(a) == \A m \in Members : updating[m] # Nothing => updating[m].account # a

ParentOf == [e \in Accounts \X Accounts |-> e[1] \in Created /\ account[e[1]].parent = e[2]]
\* p is a, or below it.
\* Mutant of Below: only the children of a are looked at.
BelowDirectly(p, a) == p = a \/ ParentOf[p, a]
Below(p, a) == p = a \/ TransitiveClosure(ParentOf, Accounts)[p, a]

BeginUpdate(m, a, parent, type) ==
    /\ updating[m] = Nothing
    /\ a \in Created /\ RowLockFree(a)
    /\ parent \in Created \cup {Nothing}
    /\ account[a].used => type = account[a].type
    /\ parent # Nothing => ~Below(parent, a)
    /\ updating' = [updating EXCEPT ![m] = [account |-> a, parent |-> parent, type |-> type]]
    /\ raced' = (raced \/ \E n \in Members : updating[n] # Nothing)
    /\ UNCHANGED account

CommitUpdate(m) ==
    /\ updating[m] # Nothing
    /\ account' = [account EXCEPT ![updating[m].account].parent = updating[m].parent,
                                  ![updating[m].account].type = updating[m].type]
    /\ updating' = [updating EXCEPT ![m] = Nothing]
    /\ UNCHANGED raced

AbortUpdate(m) ==
    /\ updating[m] # Nothing
    /\ updating' = [updating EXCEPT ![m] = Nothing]
    /\ UNCHANGED <<account, raced>>

Next ==
    \/ \E a \in Accounts : UseAccount(a)
    \/ \E a \in Accounts, parent \in Accounts \cup {Nothing}, type \in Types :
         \/ CreateAccount(a, parent, type)
         \/ \E m \in Members : BeginUpdate(m, a, parent, type)
    \/ \E m \in Members : CommitUpdate(m) \/ AbortUpdate(m)

Spec == Init /\ [][Next]_vars

-----------------------------------------------------------------------------
\* accountTree lists what hangs from a root: the accounts reached upwards from `a`
\* end in one that has no parent.
Listed(a) == \E r \in Created : account[r].parent = Nothing /\ Below(a, r)

\* No account is beneath one of its descendants, so every account is in the tree the
\* company is shown.
EveryAccountListed == \A a \in Created : Listed(a)

\* The same, until two updates overlap: the trigger of each sees the tree without the
\* other's change, and no lock covers the tree.
ListedUnlessRaced == ~raced => EveryAccountListed
=============================================================================
