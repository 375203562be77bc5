---------------------------- MODULE PlatformAccess ----------------------------
(***************************************************************************)
(* The platform around the three products: which product is switched on,   *)
(* which an organization has, who belongs to which organization, the       *)
(* sessions of people, and the control center through which the platform's *)
(* administrators create organizations and switch products.                *)
(* A person (User) may belong to several organizations; the password and   *)
(* the sessions are the person's.                                          *)
(***************************************************************************)
EXTENDS Integers, FiniteSets

CONSTANTS People, Orgs, Services, Sessions,
          Admins,         \* the people allowed at the control center, if they are owners somewhere
          Books,          \* the product that needs a platform role of its own
          FirstUsers,     \* people with an account at the start: [password, ...] or Nothing
          FirstMembers,   \* the memberships there are at the start
          FirstServices,  \* what each organization has at the start, Nothing if it is new
          Lost,           \* may the answer of a request be lost on its way to the console?
          Overlap,        \* do requests fall between a password check and the new session?
          Nothing, MaxChanges

PlatformAssumption ==
    /\ Books \in Services /\ Admins \subseteq People /\ Lost \in BOOLEAN /\ Overlap \in BOOLEAN
    /\ FirstServices \in [Orgs -> SUBSET Services \cup {Nothing}]

VARIABLES service,    \* by product: active, paused or stopped, for everybody
          org,        \* by organization: its products and whether it is suspended
          user,       \* by person: the version of the password (0: none yet), or no account
          member,     \* by organization and person: owner or employee, may sign in
          keeper,     \* by organization: who holds the platform role of the books
          session,    \* by session: whose it is, with which password, in its twelve hours?
          checked,    \* people whose password was just found right, and which
          console,    \* by platform administrator: what the control center shows, what it does
          changes

vars == <<service, org, user, member, keeper, session, checked, console, changes>>

Status == {"active", "paused", "stopped"}

TypeOK ==
    /\ service \in [Services -> Status]
    /\ org \in [Orgs -> [services : SUBSET Services, suspended : BOOLEAN] \cup {Nothing}]
    /\ user \in [People -> Nat \cup {Nothing}]
    /\ member \in [Orgs \X People -> [owner : BOOLEAN, active : BOOLEAN] \cup {Nothing}]
    /\ keeper \in [Orgs -> SUBSET People]
    /\ session \in [Sessions -> [of : People, password : Nat \cup {Nothing}, live : BOOLEAN] \cup {Nothing}]
    /\ checked \subseteq People \X Nat
    /\ console \in [Admins -> [open : BOOLEAN, shown : [Services -> Status], directory : [Orgs -> SUBSET Services],
                               restarting : Services \cup {Nothing}]]
    /\ changes \in 0 .. MaxChanges

-----------------------------------------------------------------------------
(* What a request may enter.                                               *)

\* The memberships a person can act in, and the products an organization can use.
Memberships(p) == {o \in Orgs : member[<<o, p>>] # Nothing /\ member[<<o, p>>].active}

\* activeServicesForOrganization: what the signed-in person is shown.
ListedServices(o) == {s \in org[o].services : service[s] = "active" /\ ~org[o].suspended}

\* hasActiveServiceEntitlement: what a request to a product is let into.
Entitled(o, s) ==
    /\ org[o] # Nothing /\ s \in org[o].services
    /\ ~org[o].suspended
    /\ service[s] = "active"

\* buildAuthenticatedUserContext: the organization asked for if the person belongs to it;
\* unasked, one with a product if there is one.
Contexts(p, hint) ==
    IF hint # Nothing THEN Memberships(p) \cap {hint}
    ELSE LET open == {o \in Memberships(p) : ListedServices(o) # {}}
         IN  IF open # {} THEN open ELSE Memberships(p)

-----------------------------------------------------------------------------
(* Sessions.                                                               *)

Count == changes < MaxChanges /\ changes' = changes + 1
Alone == Overlap \/ checked = {}

\* passwordLogin compares the password first ...
CheckPassword(p) ==
    /\ Alone /\ changes < MaxChanges
    /\ user[p] # Nothing /\ user[p] > 0 /\ \A c \in checked : c[1] # p
    /\ checked' = checked \cup {<<p, user[p]>>}
    /\ UNCHANGED <<service, org, user, member, keeper, session, console, changes>>

\* ... then chooses the context, and only if there is one creates the session.
CreateSession(p, x, hint) ==
    /\ Count /\ session[x] = Nothing
    /\ \E c \in checked :
         /\ c[1] = p /\ checked' = checked \ {c}
         /\ session' = IF Contexts(p, hint) = {} THEN session
                       ELSE [session EXCEPT ![x] = [of |-> p, password |-> c[2], live |-> TRUE]]
    /\ UNCHANGED <<service, org, user, member, keeper, console>>

\* Sign-in with Google: of somebody with an account and a membership, without a password.
GoogleSession(p, x) ==
    /\ Count /\ Alone /\ session[x] = Nothing
    /\ user[p] # Nothing /\ Memberships(p) # {}
    /\ session' = [session EXCEPT ![x] = [of |-> p, password |-> Nothing, live |-> TRUE]]
    /\ UNCHANGED <<service, org, user, member, keeper, checked, console>>

Expires(x) ==
    /\ Count /\ session[x] # Nothing /\ session[x].live
    /\ session' = [session EXCEPT ![x].live = FALSE]
    /\ UNCHANGED <<service, org, user, member, keeper, checked, console>>

\* Logout, and any use of a session that has expired, delete it.
Delete(x) ==
    /\ Alone /\ session[x] # Nothing
    /\ session' = [session EXCEPT ![x] = Nothing]
    /\ UNCHANGED <<service, org, user, member, keeper, checked, console, changes>>

-----------------------------------------------------------------------------
(* The directory of an organization (mesaops/admin), as far as it touches  *)
(* what organizations share.                                               *)

\* createEmployee: an account that exists is reused as it is.
AddEmployee(o, p) ==
    /\ Count /\ Alone /\ org[o] # Nothing /\ member[<<o, p>>] = Nothing
    /\ user' = [user EXCEPT ![p] = IF @ = Nothing THEN 0 ELSE @]
    /\ member' = [member EXCEPT ![<<o, p>>] = [owner |-> FALSE, active |-> TRUE]]
    /\ UNCHANGED <<service, org, keeper, session, checked, console>>

SetActive(o, p, active) ==
    /\ Count /\ Alone /\ member[<<o, p>>] # Nothing /\ member[<<o, p>>].active # active
    /\ member' = [member EXCEPT ![<<o, p>>].active = active]
    /\ UNCHANGED <<service, org, user, keeper, session, checked, console>>

\* setEmployeePassword: not of somebody who belongs to another organization too, and with
\* the end of every session of the person.
SetPassword(o, p) ==
    /\ Count /\ Alone
    /\ member[<<o, p>>] # Nothing
    /\ \A q \in Orgs \ {o} : member[<<q, p>>] = Nothing
    /\ user' = [user EXCEPT ![p] = @ + 1]
    /\ session' = [x \in Sessions |-> IF session[x] # Nothing /\ session[x].of = p THEN Nothing ELSE session[x]]
    /\ UNCHANGED <<service, org, member, keeper, checked, console>>

-----------------------------------------------------------------------------
(* The control center.                                                     *)

Answered == {TRUE} \cup {~Lost}

\* canAccessPlatformAdmin, asked by admin-login and by every request of the control center:
\* on the list, and owner of an organization.
MayControl(a) == a \in Admins /\ \E o \in Memberships(a) : member[<<o, a>>].owner
AtConsole(a) == console[a].open /\ MayControl(a)

\* listOrganizations
Directory == [o \in Orgs |-> IF org[o] = Nothing THEN {} ELSE org[o].services]

\* The control center opens on a session that may control, and loads what it shows.
OpenConsole(a) ==
    /\ ~console[a].open /\ MayControl(a) /\ changes < MaxChanges
    /\ console' = [console EXCEPT ![a] = [open |-> TRUE, shown |-> service, directory |-> Directory,
                                          restarting |-> Nothing]]
    /\ UNCHANGED <<service, org, user, member, keeper, session, checked, changes>>

CloseConsole(a) ==
    /\ console[a].open /\ console[a].restarting = Nothing
    /\ console' = [console EXCEPT ![a].open = FALSE]
    /\ UNCHANGED <<service, org, user, member, keeper, session, checked, changes>>
Owners(o, m) == {p \in People : m[<<o, p>>] # Nothing /\ m[<<o, p>>].owner /\ m[<<o, p>>].active}

\* ensureMesaErpPlatformAccess: the active owners, beside those who hold the role already.
Keepers(o, chosen, m) == IF Books \in chosen THEN keeper[o] \cup Owners(o, m) ELSE keeper[o]

\* bootstrapOrganization: a new organization and a new account for its first owner, or none.
Bootstrap(a, o, p, chosen) ==
    /\ Count /\ Alone /\ AtConsole(a) /\ chosen # {}
    /\ org[o] = Nothing /\ user[p] = Nothing
    /\ org' = [org EXCEPT ![o] = [services |-> chosen, suspended |-> FALSE]]
    /\ user' = [user EXCEPT ![p] = 1]
    /\ member' = [member EXCEPT ![<<o, p>>] = [owner |-> TRUE, active |-> TRUE]]
    /\ keeper' = [keeper EXCEPT ![o] = Keepers(o, chosen, member')]
    /\ console' = [console EXCEPT ![a].directory = Directory']
    /\ UNCHANGED <<service, session, checked>>

\* setOrganizationServices: the products an organization has are replaced.
SetServices(o, chosen) ==
    /\ chosen # {}
    /\ org' = [org EXCEPT ![o].services = chosen]
    /\ keeper' = [keeper EXCEPT ![o] = Keepers(o, chosen, member)]

\* toggleService: what the directory shows, with one product ticked or unticked, replaces
\* what the organization has; the last one stays.
ToggleService(a, o, s) ==
    LET shown == console[a].directory[o]
        chosen == (shown \ {s}) \cup ({s} \ shown)
    IN  /\ Count /\ Alone /\ AtConsole(a) /\ org[o] # Nothing /\ shown # {}
        /\ SetServices(o, chosen)
        /\ \E answer \in Answered :
             console' = IF answer THEN [console EXCEPT ![a].directory[o] = chosen] ELSE console
        /\ UNCHANGED <<service, user, member, session, checked>>

\* The directory is loaded again (after an organization was created, or by hand).
LoadDirectory(a) ==
    /\ AtConsole(a) /\ changes < MaxChanges
    /\ console' = [console EXCEPT ![a].directory = Directory]
    /\ UNCHANGED <<service, org, user, member, keeper, session, checked, changes>>

\* writeServiceStatus: the console shows the new status once it is answered.
Write(a, s, status, restarting) ==
    /\ service' = [service EXCEPT ![s] = status]
    /\ \E answer \in Answered :
         console' = IF answer THEN [console EXCEPT ![a].shown[s] = status, ![a].restarting = restarting]
                    ELSE [console EXCEPT ![a].restarting = Nothing]
    /\ UNCHANGED <<org, user, member, keeper, session, checked>>

\* A request the platform refuses leaves everything, and ends a restart half-way.
Refused(a) ==
    /\ console[a].restarting # Nothing
    /\ console' = [console EXCEPT ![a].restarting = Nothing]
    /\ UNCHANGED <<service, org, user, member, keeper, session, checked, changes>>

UpdateService(a, s, status) ==
    /\ Count /\ Alone /\ AtConsole(a) /\ console[a].restarting = Nothing /\ console[a].shown[s] # status
    /\ Write(a, s, status, Nothing)

\* restartService: stopped first, running next, each its own request.
Restart(a, s) == /\ Count /\ Alone /\ AtConsole(a) /\ console[a].restarting = Nothing
                 /\ Write(a, s, "stopped", s)
RestartEnds(a) == \E s \in Services :
                    /\ Count /\ Alone /\ AtConsole(a) /\ console[a].restarting = s
                    /\ Write(a, s, "active", Nothing)

LoadServices(a) ==
    /\ AtConsole(a) /\ changes < MaxChanges
    /\ console' = [console EXCEPT ![a].shown = service]
    /\ UNCHANGED <<service, org, user, member, keeper, session, checked, changes>>

\* Billing (outside this code) suspends an organization and restores it.
Suspend(o) ==
    /\ Count /\ Alone /\ org[o] # Nothing
    /\ org' = [org EXCEPT ![o].suspended = ~@]
    /\ UNCHANGED <<service, user, member, keeper, session, checked, console>>

Init ==
    /\ service = [s \in Services |-> "active"]
    /\ org = [o \in Orgs |-> IF FirstServices[o] = Nothing THEN Nothing
                             ELSE [services |-> FirstServices[o], suspended |-> FALSE]]
    /\ user = FirstUsers /\ member = FirstMembers
    /\ keeper = [o \in Orgs |-> IF org[o] = Nothing THEN {}
                   ELSE IF Books \in FirstServices[o] THEN Owners(o, FirstMembers) ELSE {}]
    /\ session = [x \in Sessions |-> Nothing] /\ checked = {}
    /\ console = [a \in Admins |-> [open |-> FALSE, shown |-> service, restarting |-> Nothing,
                                        directory |-> Directory]]
    /\ changes = 0

Next ==
    \/ \E p \in People :
         \/ CheckPassword(p)
         \/ \E x \in Sessions : GoogleSession(p, x) \/ \E h \in Orgs \cup {Nothing} : CreateSession(p, x, h)
         \/ \E o \in Orgs : AddEmployee(o, p) \/ SetPassword(o, p) \/ \E b \in BOOLEAN : SetActive(o, p, b)
    \/ \E x \in Sessions : Expires(x) \/ Delete(x)
    \/ \E a \in Admins :
         \/ \E o \in Orgs, s \in Services : ToggleService(a, o, s)
         \/ \E o \in Orgs, p \in People, c \in SUBSET Services : Bootstrap(a, o, p, c)
         \/ \E s \in Services : Restart(a, s) \/ \E status \in Status : UpdateService(a, s, status)
         \/ OpenConsole(a) \/ CloseConsole(a) \/ RestartEnds(a) \/ Refused(a) \/ LoadDirectory(a) \/ LoadServices(a)
    \/ \E o \in Orgs : Suspend(o)

Spec == Init /\ [][Next]_vars

-----------------------------------------------------------------------------
(* Properties.                                                             *)

\* The products a person is shown in an organization are those its requests are let into:
\* the list and the gate of a request ask the same three switches.
ListedAreOpen == \A o \in Orgs : org[o] # Nothing => ListedServices(o) = {s \in Services : Entitled(o, s)}

\* No session outlives the password it was opened with, while no request falls between the
\* comparison of a password and the new session.
SessionsFresh == ~Overlap => \A x \in Sessions :
    session[x] # Nothing => session[x].password \in {Nothing, user[session[x].of]}

\* One control center whose answers arrive shows the products as they are.
ConsoleTells == (~Lost /\ Cardinality(Admins) = 1) =>
    \A a \in Admins : console[a].open => console[a].shown = service /\ console[a].directory = Directory
=============================================================================
