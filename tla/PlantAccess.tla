----------------------------- MODULE PlantAccess -----------------------------
(***************************************************************************)
(* Who may do what in the plant: roles and the screens they open, what one *)
(* member is granted or denied beyond the role, and the plants a member    *)
(* works in, which assignments give and the revocation or the end of an    *)
(* assignment takes away.  Administrators change these from pages that     *)
(* show what was there when they were opened.                              *)
(***************************************************************************)
EXTENDS Integers, FiniteSets

CONSTANTS Members, Roles, Names, Screens, Assignments, Plants,
          Users, Acl,      \* the screens of the employee directory and of roles and access
          Desk, DeskParts, \* a screen and the older ones it merges: either opens the other
          BuiltIn,         \* by name of a built-in role: its screens in the code
          AnchorName,      \* the built-in role that only stands for plant scope
          AllPlants,
          Overrides,       \* sets of grants a page may be given: Screens -> "on", "off", "inherit"
          FirstRoles, FirstMembers, FirstAssignments,
          Legacy,          \* a local process that lets the never assigned into every plant
          Overlap,         \* do requests fall between the read of a role and the write of its name?
          Nothing, MaxChanges

PlantAccessAssumption ==
    /\ {Users, Acl} \subseteq Screens
    /\ DOMAIN BuiltIn \subseteq Names /\ \A n \in DOMAIN BuiltIn : BuiltIn[n] \subseteq Screens
    /\ Assignments \subseteq Nat /\ AllPlants \notin Plants /\ Legacy \in BOOLEAN /\ Overlap \in BOOLEAN

VARIABLES role,        \* by role: name, screens, built-in, full access, owned by the ERP
          member,      \* by member: role, name of the role, may sign in
          grants,      \* by member: on, off or inherit, for every screen
          assignment,  \* by assignment: member, role, plant, status, version, window
          page,        \* by member: what the member is at as an administrator: a page that is
                       \* open, or a change of an employee whose role has been read
          scoped,      \* members that were ever assigned a plant
          changes

vars == <<role, member, grants, assignment, page, scoped, changes>>

Override == [Screens -> {"on", "off", "inherit"}]
Scopes == Plants \cup {AllPlants}

TypeOK ==
    /\ role \in [Roles -> [name : Names, screens : SUBSET Screens, system : BOOLEAN,
                           admin : BOOLEAN, erp : BOOLEAN] \cup {Nothing}]
    /\ member \in [Members -> [role : Roles, roleName : Names, active : BOOLEAN] \cup {Nothing}]
    /\ grants \in [Members -> Override]
    /\ assignment \in [Assignments -> [member : Members, role : Roles, plant : Scopes,
             status : {"active", "revoked"}, version : Nat, window : {"coming", "open", "over"}] \cup {Nothing}]
    /\ \A m \in Members : page[m] # Nothing => page[m].kind \in {"access", "role", "assignment", "employee"}
    /\ scoped \subseteq Members /\ changes \in 0 .. MaxChanges

-----------------------------------------------------------------------------
(* The questions asked on every request.                                   *)

\* resolveScreens: a built-in role opens the screens of the code, another those of its row,
\* and the grants of the member come on top.
RoleScreens(r) == IF role[r].system /\ role[r].name \in DOMAIN BuiltIn
                  THEN BuiltIn[role[r].name] ELSE role[r].screens
Override_(base, g) == {s \in Screens : g[s] = "on" \/ (s \in base /\ g[s] # "off")}
Effective(m) == Override_(RoleScreens(member[m].role), grants[m])

\* accessAllows: the desk that merged other screens opens with any of them, and they with it.
Opens(m, s) ==
    /\ member[m] # Nothing /\ member[m].active
    /\ \/ role[member[m].role].admin
       \/ s \in Effective(m)
       \/ s = Desk /\ Effective(m) \cap DeskParts # {}
       \/ s \in DeskParts /\ Desk \in Effective(m)

\* resolveMesaOpsPlantScope: assignments in force, by a role that is not the ERP's.
History(m) == {a \in Assignments : assignment[a] # Nothing /\ assignment[a].member = m}
InForce(m) == {a \in History(m) : /\ assignment[a].status = "active" /\ assignment[a].window = "open"
                                  /\ ~role[assignment[a].role].erp}

\* deriveMesaOpsPlantScope: nobody without an assignment, except in a legacy process who
\* never had one.
PlantsOf(m) ==
    IF InForce(m) = {} THEN IF History(m) = {} /\ Legacy THEN Plants ELSE {}
    ELSE IF \E a \in InForce(m) : assignment[a].plant = AllPlants THEN Plants
    ELSE {assignment[a].plant : a \in InForce(m)}

-----------------------------------------------------------------------------
(* The employee directory.                                                 *)

Count == changes < MaxChanges /\ changes' = changes + 1
Alone == Overlap \/ \A m \in Members : page[m] # Nothing => page[m].kind # "employee"

\* assertEmployeeRole
ForEmployees(r) == role[r] # Nothing /\ ~role[r].erp /\ ~(role[r].system /\ role[r].name = AnchorName)

\* createEmployee and updateEmployee read the role ...
ReadRole(by, m, r) ==
    /\ Opens(by, Users) /\ Alone /\ page[by] = Nothing /\ changes < MaxChanges
    /\ ForEmployees(r)
    /\ page' = [page EXCEPT ![by] = [kind |-> "employee", of |-> m, role |-> r, name |-> role[r].name]]
    /\ UNCHANGED <<role, member, grants, assignment, scoped, changes>>

\* ... and write it with its name; a role deleted meanwhile fails the write (foreign key).
WriteRole(by) ==
    /\ page[by] # Nothing /\ page[by].kind = "employee" /\ Count
    /\ LET m == page[by].of  r == page[by].role
           active == member[m] = Nothing \/ member[m].active
       IN  member' = IF role[r] = Nothing THEN member
                     ELSE [member EXCEPT ![m] = [role |-> r, roleName |-> page[by].name, active |-> active]]
    /\ page' = [page EXCEPT ![by] = Nothing]
    /\ UNCHANGED <<role, grants, assignment, scoped>>

SetStatus(by, m, active) ==
    /\ Opens(by, Users) /\ Count /\ Alone
    /\ member[m] # Nothing /\ member[m].active # active
    /\ member' = [member EXCEPT ![m].active = active]
    /\ UNCHANGED <<role, grants, assignment, page, scoped>>

-----------------------------------------------------------------------------
(* Roles and access.                                                       *)

Taken(n, r) == \E q \in Roles \ {r} : role[q] # Nothing /\ role[q].name = n

CreateRole(by, r, n, screens) ==
    /\ Opens(by, Acl) /\ Count /\ Alone
    /\ role[r] = Nothing /\ n # AnchorName /\ ~Taken(n, r)
    /\ role' = [role EXCEPT ![r] = [name |-> n, screens |-> screens, system |-> FALSE, admin |-> FALSE, erp |-> FALSE]]
    /\ UNCHANGED <<member, grants, assignment, page, scoped>>

\* RoleModal, on any role the ERP does not own but the scope anchor.
OpenRole(by, r) ==
    /\ Opens(by, Acl) /\ page[by] = Nothing /\ changes < MaxChanges
    /\ role[r] # Nothing /\ ~role[r].erp /\ role[r].name # AnchorName
    /\ page' = [page EXCEPT ![by] = [kind |-> "role", of |-> r, name |-> role[r].name, screens |-> role[r].screens]]
    /\ UNCHANGED <<role, member, grants, assignment, scoped, changes>>

\* updateRole: name and screens as the page has them; the members of a renamed role are
\* renamed with it.
SaveRole(by, n, screens) ==
    \E r \in Roles :
      /\ page[by] # Nothing /\ page[by].kind = "role" /\ page[by].of = r
      /\ Opens(by, Acl) /\ Count /\ Alone /\ role[r] # Nothing
      /\ n \in {page[by].name} \cup (Names \ {role[q].name : q \in {q \in Roles : role[q] # Nothing}})
      /\ n # role[r].name => ~role[r].system /\ ~Taken(n, r)
      /\ role' = [role EXCEPT ![r].name = n, ![r].screens = screens]
      /\ member' = [m \in Members |->
            IF member[m] # Nothing /\ member[m].role = r /\ n # role[r].name
            THEN [member[m] EXCEPT !.roleName = n] ELSE member[m]]
      /\ page' = [page EXCEPT ![by] = Nothing]
      /\ UNCHANGED <<grants, assignment, scoped>>

\* Mutant: the scope history of a role does not keep it from being deleted.
DeletableUnused(r) == role[r] # Nothing /\ ~role[r].erp /\ ~role[r].system
    /\ \A m \in Members : member[m] # Nothing => member[m].role # r

\* deleteRole: under the lock of its row, a role without employees and without assignments,
\* revoked and expired ones included.
Deletable(r) ==
    /\ role[r] # Nothing /\ ~role[r].erp /\ ~role[r].system
    /\ \A m \in Members : member[m] # Nothing => member[m].role # r
    /\ \A a \in Assignments : assignment[a] # Nothing => assignment[a].role # r

\* The assignments of a deleted role go with it (the foreign key cascades).
DeleteRole(by, r) ==
    /\ Opens(by, Acl) /\ Count /\ Alone
    /\ Deletable(r)
    /\ role' = [role EXCEPT ![r] = Nothing]
    /\ assignment' = [a \in Assignments |->
          IF assignment[a] # Nothing /\ assignment[a].role = r THEN Nothing ELSE assignment[a]]
    /\ UNCHANGED <<member, grants, page, scoped>>

\* AccessModal: the screens of the role as its row has them, and the saved grants.
OpenAccess(by, m) ==
    /\ Opens(by, Acl) /\ page[by] = Nothing /\ changes < MaxChanges
    /\ member[m] # Nothing /\ ~role[member[m].role].admin
    /\ page' = [page EXCEPT ![by] = [kind |-> "access", of |-> m, role |-> member[m].role,
                                     screens |-> role[member[m].role].screens, grants |-> grants[m]]]
    /\ UNCHANGED <<role, member, grants, assignment, scoped, changes>>

\* setGrants: what the page shows replaces everything that was saved.
SaveAccess(by, g) ==
    /\ page[by] # Nothing /\ page[by].kind = "access"
    /\ Opens(by, Acl) /\ Count /\ Alone
    /\ grants' = [grants EXCEPT ![page[by].of] = g]
    /\ page' = [page EXCEPT ![by] = Nothing]
    /\ UNCHANGED <<role, member, assignment, scoped>>

\* createMesaOpsRoleAssignment: under the lock of member, role and plant, not twice.
Assign(by, m, r, p, a, w) ==
    /\ Opens(by, Acl) /\ Count /\ Alone
    /\ member[m] # Nothing /\ member[m].active /\ role[r] # Nothing /\ ~role[r].erp
    /\ \A b \in History(m) : assignment[b].status = "active" => <<assignment[b].role, assignment[b].plant>> # <<r, p>>
    /\ assignment[a] = Nothing /\ \A b \in Assignments : b < a => assignment[b] # Nothing
    /\ assignment' = [assignment EXCEPT ![a] = [member |-> m, role |-> r, plant |-> p, status |-> "active",
                                                version |-> 0, window |-> w]]
    /\ scoped' = scoped \cup {m}
    /\ UNCHANGED <<role, member, grants, page>>

OpenAssignment(by, a) ==
    /\ Opens(by, Acl) /\ page[by] = Nothing /\ changes < MaxChanges
    /\ assignment[a] # Nothing /\ assignment[a].status = "active"
    /\ page' = [page EXCEPT ![by] = [kind |-> "assignment", of |-> a, version |-> assignment[a].version]]
    /\ UNCHANGED <<role, member, grants, assignment, scoped, changes>>

\* revokeMesaOpsRoleAssignment: active, and at the version the page shows.
Revoke(by) ==
    \E a \in Assignments :
      /\ page[by] # Nothing /\ page[by].kind = "assignment" /\ page[by].of = a
      /\ Opens(by, Acl) /\ Count /\ Alone
      /\ assignment[a] # Nothing /\ assignment[a].status = "active" /\ assignment[a].version = page[by].version
      /\ assignment' = [assignment EXCEPT ![a].status = "revoked", ![a].version = @ + 1]
      /\ page' = [page EXCEPT ![by] = Nothing]
      /\ UNCHANGED <<role, member, grants, scoped>>

Close(by) ==
    /\ page[by] # Nothing /\ page' = [page EXCEPT ![by] = Nothing]
    /\ UNCHANGED <<role, member, grants, assignment, scoped, changes>>

TimePasses(a) ==
    /\ Count /\ assignment[a] # Nothing /\ assignment[a].window # "over"
    /\ assignment' = [assignment EXCEPT ![a].window = IF @ = "coming" THEN "open" ELSE "over"]
    /\ UNCHANGED <<role, member, grants, page, scoped>>

Init ==
    /\ role = FirstRoles /\ member = FirstMembers
    /\ grants = [m \in Members |-> [s \in Screens |-> "inherit"]]
    /\ assignment = FirstAssignments
    /\ page = [m \in Members |-> Nothing]
    /\ scoped = {m \in Members : History(m) # {}} /\ changes = 0

Next ==
    \/ \E by \in Members :
         \/ \E m \in Members : \/ \E r \in Roles : ReadRole(by, m, r)
                               \/ \E active \in BOOLEAN : SetStatus(by, m, active)
                               \/ OpenAccess(by, m)
                               \/ \E r \in Roles, p \in Scopes, a \in Assignments, w \in {"coming", "open"} : Assign(by, m, r, p, a, w)
         \/ \E r \in Roles : OpenRole(by, r) \/ DeleteRole(by, r)
         \/ \E n \in Names, s \in {{}, {Acl}} : SaveRole(by, n, s) \/ \E r \in Roles : CreateRole(by, r, n, s)
         \/ \E g \in Overrides : SaveAccess(by, g)
         \/ \E a \in Assignments : OpenAssignment(by, a)
         \/ WriteRole(by) \/ Revoke(by) \/ Close(by)
    \/ \E a \in Assignments : TimePasses(a)

Spec == Init /\ [][Next]_vars

-----------------------------------------------------------------------------
(* Properties.                                                             *)

\* Who was ever assigned a plant works where an assignment in force says, and in every
\* plant only by an assignment to all plants: whatever roles are deleted, the end of the
\* last assignment never brings back the access of the never assigned.
ScopeRemembered ==
    \A m \in scoped :
      PlantsOf(m) = Plants \cap UNION {IF assignment[a].plant = AllPlants THEN Plants ELSE {assignment[a].plant} : a \in InForce(m)}

\* The name of the role a member carries (the directory and the fallback of sign-in read
\* it) is that of the member's role, while requests do not overlap.
NamesFollow == ~Overlap => \A m \in Members :
    (member[m] # Nothing /\ role[member[m].role] # Nothing) => member[m].roleName = role[member[m].role].name

\* No employee is left without a role, and none has a role of the ERP.
EmployeesHaveRoles == \A m \in Members : member[m] # Nothing =>
    role[member[m].role] # Nothing /\ ~role[member[m].role].erp

\* What the access page of a member with a role of the plant's own shows is what the
\* server lets the member open, as long as nothing was changed since.
PageShowsAccess ==
    \A by \in Members :
      (page[by] # Nothing /\ page[by].kind = "access") =>
         LET m == page[by].of
         IN  (/\ page[by].role = member[m].role /\ role[member[m].role].screens = page[by].screens
              /\ grants[m] = page[by].grants /\ ~role[member[m].role].system)
             => Override_(page[by].screens, page[by].grants) = Effective(m)
=============================================================================
