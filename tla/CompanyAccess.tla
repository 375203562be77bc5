---------------------------- MODULE CompanyAccess ----------------------------
(***************************************************************************)
(* Who may do what in a company of MesaERP: company roles, their           *)
(* permissions, their assignment to members, delegations, and the two      *)
(* questions asked of them: may a member use a permission in a company     *)
(* (every request), and is the company shown to the member at all (company *)
(* list).  Changes come from the access desk, whose pages show a role or   *)
(* an assignment as it was when it was loaded.                             *)
(***************************************************************************)
EXTENDS Integers, FiniteSets

CONSTANTS Members, Companies, Roles, Assignments,
          Keys,         \* the permission catalogue, with "create" (companies) and "access"
          Sensitive,    \* keys of risk level sensitive or high
          Grants,       \* what a role may be given: subsets of Keys
          FirstRoles, FirstAssignments,  \* what the database holds at the start
          Delegations,  \* [from, to, company, keys], made outside this code
          Wildcard,     \* the delegated key that stands for all
          Organization, \* the scope of what belongs to no company
          Nothing,
          Overlap,      \* do requests fall between another request's checks and its write?
          MaxChanges

VARIABLES company,     \* the companies there are
          role,        \* by role: its company, its allowed and its denied keys, its version
          assignment,  \* by assignment: member, role, company, status, row version, window
          delegated,   \* the delegations in force
          desk,        \* by member: the page open at the access desk
          selfmade,    \* has a member's own change ever given that member a sensitive permission?
          changes

vars == <<company, role, assignment, delegated, desk, selfmade, changes>>

Scopes == Companies \cup {Organization}
Windows == {"coming", "open", "over"}

\* A page: a role or an assignment as loaded, and the permissions chosen once checked.
Pages == [of : Roles \cup Assignments, version : Nat, seen : SUBSET Keys,
          chosen : Grants \cup {Nothing}]

RoleRows == [company : Scopes, allow : SUBSET Keys, deny : SUBSET Keys,
             system : BOOLEAN, version : Nat]
AssignmentRows == [member : Members, role : Roles, company : Scopes,
                   status : {"active", "revoked"}, version : Nat, window : Windows]

TypeOK ==
    /\ company \subseteq Companies
    /\ role \in [Roles -> RoleRows \cup {Nothing}]
    /\ assignment \in [Assignments -> AssignmentRows \cup {Nothing}]
    /\ delegated \subseteq Delegations
    /\ desk \in [Members -> Pages \cup {Nothing}]
    /\ selfmade \in BOOLEAN
    /\ changes \in 0 .. MaxChanges

\* An active assignment is to a role of its company, and not there twice (the partial
\* unique index of active scopes).
Bound(roles, assignments) ==
    \A a, b \in Assignments :
      (assignments[a] # Nothing /\ assignments[a].status = "active") =>
         /\ roles[assignments[a].role].company = assignments[a].company
         /\ (assignments[b] # Nothing /\ assignments[b].status = "active" /\ a # b) =>
               <<assignments[a].member, assignments[a].role>> # <<assignments[b].member, assignments[b].role>>

\* Of the start: assignments are of roles there are, and only seeded roles deny.
AccessAssumption ==
    /\ {"create", "access"} \subseteq Keys /\ Sensitive \subseteq Keys
    /\ \A g \in Grants : g \subseteq Keys
    /\ Wildcard \notin Keys /\ Organization \notin Companies
    /\ \A d \in Delegations : d.from \in Members /\ d.to \in Members /\ d.keys \subseteq Keys \cup {Wildcard}
    /\ Nothing \notin Grants \cup RoleRows \cup AssignmentRows \cup Pages
    /\ Roles \cap Assignments = {} /\ Overlap \in BOOLEAN /\ MaxChanges \in Nat
    /\ FirstRoles \in [Roles -> RoleRows \cup {Nothing}]
    /\ FirstAssignments \in [Assignments -> AssignmentRows \cup {Nothing}]
    /\ \A r \in Roles : FirstRoles[r] # Nothing /\ ~FirstRoles[r].system => FirstRoles[r].deny = {}
    /\ \A a \in Assignments : FirstAssignments[a] # Nothing => FirstRoles[FirstAssignments[a].role] # Nothing
    /\ Bound(FirstRoles, FirstAssignments)

-----------------------------------------------------------------------------
(* The two questions.                                                      *)

\* The assignments that count in a scope: active, in their window, the company of the
\* assignment and the company of its role both exactly that scope.
Counting(m, c) ==
    {a \in Assignments : /\ assignment[a] # Nothing
                         /\ assignment[a].member = m /\ assignment[a].status = "active"
                         /\ assignment[a].window = "open"
                         /\ assignment[a].company = c /\ role[assignment[a].role].company = c}

Allowed(m, c) == UNION {role[assignment[a].role].allow : a \in Counting(m, c)}
Denied(m, c)  == UNION {role[assignment[a].role].deny : a \in Counting(m, c)}

\* What the roles of a member give there: a deny of any role wins.
Held(m, c) == Allowed(m, c) \ Denied(m, c)

Delegators(m, c) == {d \in delegated : d.to = m /\ d.company = c}

\* hasMesaErpPermission: a delegation counts only for what its maker holds by roles, and
\* never against a deny of the member's own.
Permitted(m, c, k) ==
    \/ k \in Held(m, c)
    \/ /\ k \notin Denied(m, c)
       /\ \E d \in Delegators(m, c) : d.keys \cap {k, Wildcard} # {} /\ k \in Held(d.from, c)

\* hasAnyMesaErpCompanyAccess: by a permission of the roles, or of a delegation.
Visible(m, c) ==
    \/ Held(m, c) # {}
    \/ \E d \in Delegators(m, c) :
         \E k \in d.keys : IF k = Wildcard THEN Held(d.from, c) # {} ELSE k \in Held(d.from, c)

\* The company list asks the second question of every company, the guards of the routes
\* the first: of the company in the path, or of no company when one is to be created.
Entities(m) == {c \in company : Visible(m, c)}
MayAdminister(m, c) == c \in company /\ Permitted(m, c, "access")
MayCreateCompany(m) == Permitted(m, Organization, "create")

-----------------------------------------------------------------------------
(* Requests.                                                               *)

Count == changes < MaxChanges /\ changes' = changes + 1
Alone == Overlap \/ \A m \in Members : desk[m] # Nothing => desk[m].chosen = Nothing

NewRole(c, g) == [company |-> c, allow |-> g, deny |-> {}, system |-> FALSE, version |-> 0]
NewAssignment(m, r, c, w) == [member |-> m, role |-> r, company |-> c, status |-> "active",
                              version |-> 0, window |-> w]

\* createLegalEntity: the company comes with an administrator role of every permission,
\* assigned to the member who created it.
CreateCompany(m, c, r, a) ==
    /\ Count /\ Alone
    /\ MayCreateCompany(m)
    /\ c \notin company /\ role[r] = Nothing /\ assignment[a] = Nothing
    /\ company' = company \cup {c}
    /\ role' = [role EXCEPT ![r] = NewRole(c, Keys)]
    /\ assignment' = [assignment EXCEPT ![a] = NewAssignment(m, r, c, "open")]
    /\ UNCHANGED <<delegated, desk, selfmade>>

CreateRole(m, c, r, g) ==
    /\ Count /\ Alone
    /\ MayAdminister(m, c) /\ role[r] = Nothing
    /\ role' = [role EXCEPT ![r] = NewRole(c, g)]
    /\ UNCHANGED <<company, assignment, delegated, desk, selfmade>>

\* The desk lists the roles and the assignments of one company.
OpenRole(m, r) ==
    /\ changes < MaxChanges /\ desk[m] = Nothing /\ role[r] # Nothing
    /\ MayAdminister(m, role[r].company)
    /\ desk' = [desk EXCEPT ![m] = [of |-> r, version |-> role[r].version, seen |-> role[r].allow,
                                    chosen |-> Nothing]]
    /\ UNCHANGED <<company, role, assignment, delegated, selfmade, changes>>

OpenAssignment(m, a) ==
    /\ changes < MaxChanges /\ desk[m] = Nothing /\ assignment[a] # Nothing
    /\ MayAdminister(m, assignment[a].company)
    /\ desk' = [desk EXCEPT ![m] = [of |-> a, version |-> assignment[a].version, seen |-> {},
                                    chosen |-> Nothing]]
    /\ UNCHANGED <<company, role, assignment, delegated, selfmade, changes>>

Close(m) ==
    /\ desk[m] # Nothing
    /\ desk' = [desk EXCEPT ![m] = Nothing]
    /\ UNCHANGED <<company, role, assignment, delegated, selfmade, changes>>

\* An assignment of the role that is active, whether or not it is in its window.
Uses(m, r) == \E a \in Assignments : /\ assignment[a] # Nothing
                                     /\ assignment[a].member = m /\ assignment[a].role = r
                                     /\ assignment[a].status = "active"

\* Mutant: another is asked only when the role gave nothing so far.
NeedsAnotherForNew(m, r, g) == Uses(m, r) /\ role[r].allow = {} /\ g \cap Sensitive # {}

\* Sensitive permissions are not added to a role by one who holds it.
NeedsAnother(m, r, g) == Uses(m, r) /\ (g \ role[r].allow) \cap Sensitive # {}

\* replaceRolePermissions, up to its last check ...
CheckPermissions(m, g) ==
    LET page == desk[m]  r == page.of
    IN  /\ Alone /\ page # Nothing /\ r \in Roles /\ page.chosen = Nothing
        /\ MayAdminister(m, role[r].company)
        /\ ~role[r].system /\ role[r].version = page.version
        /\ ~NeedsAnother(m, r, g)
        /\ desk' = [desk EXCEPT ![m].chosen = g]
        /\ UNCHANGED <<company, role, assignment, delegated, selfmade, changes>>

\* ... and its write: every permission of the role is replaced, if the version is still
\* the one that was loaded.
WritePermissions(m) ==
    \E r \in Roles :
      /\ Count
      /\ desk[m] # Nothing /\ desk[m].of = r /\ desk[m].chosen # Nothing
      /\ desk' = [desk EXCEPT ![m] = Nothing]
      /\ role' = IF role[r].version = desk[m].version
                 THEN [role EXCEPT ![r].allow = desk[m].chosen, ![r].deny = {}, ![r].version = @ + 1]
                 ELSE role
      /\ UNCHANGED <<company, assignment, delegated>>
      /\ selfmade' = (selfmade \/ \E c \in Scopes : (Held(m, c)' \ Held(m, c)) \cap Sensitive # {})

\* assignRole: to another member, a role of that company that allows something, not twice
\* (the partial unique index of active scopes).
AssignRole(m, other, r, a, w) ==
    /\ Count /\ Alone
    /\ role[r] # Nothing /\ ~role[r].system /\ MayAdminister(m, role[r].company)
    /\ other # m
    /\ role[r].allow # {}
    /\ ~Uses(other, r)
    /\ assignment[a] = Nothing
    /\ assignment' = [assignment EXCEPT ![a] = NewAssignment(other, r, role[r].company, w)]
    /\ UNCHANGED <<company, role, delegated, desk, selfmade>>

\* revokeRole: from the page, while the assignment is active and unchanged.
RevokeRole(m) ==
    LET page == desk[m]  a == page.of
    IN  /\ Count /\ Alone /\ page # Nothing /\ a \in Assignments
        /\ MayAdminister(m, assignment[a].company)
        /\ assignment[a].status = "active" /\ assignment[a].version = page.version
        /\ assignment' = [assignment EXCEPT ![a].status = "revoked", ![a].version = @ + 1]
        /\ desk' = [desk EXCEPT ![m] = Nothing]
        /\ UNCHANGED <<company, role, delegated, selfmade>>

\* The window of an assignment opens and ends.
TimePasses(a) ==
    /\ assignment[a] # Nothing
    /\ \/ assignment[a].window = "coming" /\ assignment' = [assignment EXCEPT ![a].window = "open"]
       \/ assignment[a].window = "open" /\ assignment' = [assignment EXCEPT ![a].window = "over"]
    /\ Count
    /\ UNCHANGED <<company, role, delegated, desk, selfmade>>

\* A delegation begins or ends.
Delegate(d) ==
    /\ Count
    /\ delegated' = (delegated \ {d}) \cup ({d} \ delegated)
    /\ UNCHANGED <<company, role, assignment, desk, selfmade>>

Init ==
    /\ company = {c \in Companies : \E r \in Roles : FirstRoles[r] # Nothing /\ FirstRoles[r].company = c}
    /\ role = FirstRoles /\ assignment = FirstAssignments
    /\ delegated = {} /\ desk = [m \in Members |-> Nothing]
    /\ selfmade = FALSE /\ changes = 0

Next ==
    \/ \E m \in Members :
         \/ \E c \in Companies, r \in Roles :
              \/ \E a \in Assignments : CreateCompany(m, c, r, a)
              \/ \E g \in Grants : CreateRole(m, c, r, g)
         \/ \E r \in Roles : OpenRole(m, r)
         \/ \E a \in Assignments : OpenAssignment(m, a)
         \/ \E g \in Grants : CheckPermissions(m, g)
         \/ \E other \in Members, r \in Roles, a \in Assignments, w \in {"coming", "open"} : AssignRole(m, other, r, a, w)
         \/ WritePermissions(m) \/ RevokeRole(m) \/ Close(m)
    \/ \E a \in Assignments : TimePasses(a)
    \/ \E d \in Delegations : Delegate(d)

Spec == Init /\ [][Next]_vars

-----------------------------------------------------------------------------
(* Properties.                                                             *)

\* A member who may use a permission in a company finds the company in the list.
VisibleWhenPermitted ==
    \A m \in Members, c \in company : (\E k \in Keys : Permitted(m, c, k)) => c \in Entities(m)

\* A page that shows the current version of a role shows its current permissions, so that
\* a replacement never undoes what its maker has not seen.
PagesTellVersions ==
    \A m \in Members :
      (desk[m] # Nothing /\ desk[m].of \in Roles) =>
         (desk[m].version = role[desk[m].of].version => desk[m].seen = role[desk[m].of].allow)

\* No active assignment twice, and none to a role of another company.
AssignmentsBound == Bound(role, assignment)

\* Nobody's own change gives them a sensitive permission, while requests do not overlap.
NoSelfGrant == ~Overlap => ~selfmade
=============================================================================
