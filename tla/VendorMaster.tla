---------------------------- MODULE VendorMaster ----------------------------
(***************************************************************************)
(* The vendors of a company: lifecycle by maker and checker, bank          *)
(* accounts, documents and requested changes (mesaerp/vendorAccessService, *)
(* supplierPortalService), and the people of a vendor who sign in to the   *)
(* supplier portal by invitation (supplierPortalAuth).                     *)
(***************************************************************************)
EXTENDS Integers, Sequences, FiniteSets, SequencesExt

CONSTANTS Vendors, Banks, Papers, Changes,   \* records that may be created
          Users, VendorOf,                   \* portal users and their vendors
          Invites, Sessions,
          Members, Nothing,
          MaxDecisions                       \* bounds the history of a vendor and of a paper

VARIABLES vendor,     \* vendor[v]
          bank,       \* bank[b]: payable account
          paper,      \* paper[p]: vendor document
          change,     \* change[c]: case requested by a portal user
          deciding,   \* deciding[m]: what the open transaction of a member has read
          user,       \* user[u]: portal user
          invite,     \* invite[i]
          session     \* session[s]

vars == <<vendor, bank, paper, change, deciding, user, invite, session>>

VendorLifecycleStatus ==
    {"invited", "onboarding", "under_review", "approved", "conditionally_approved",
     "suspended", "blocked"}
TRANSITIONS ==
    [s \in VendorLifecycleStatus |->
        CASE s = "invited"                -> {"onboarding", "blocked"}
          [] s = "onboarding"             -> {"under_review", "blocked"}
          [] s = "under_review"           -> {"approved", "conditionally_approved", "blocked"}
          [] s = "approved"               -> {"suspended", "blocked"}
          [] s = "conditionally_approved" -> {"approved", "suspended", "blocked"}
          [] s = "suspended"              -> {"under_review", "blocked"}
          [] OTHER                        -> {"under_review"}]
CHECKER_DECISIONS == {"approved", "conditionally_approved", "suspended", "blocked"}

\* history keeps who moved the vendor to which status, its length is the row version.
VendorRecord == [history : Seq([to : VendorLifecycleStatus, by : Members]), applied : SUBSET Changes]
VendorBank == [vendor : Vendors, maker : Members, status : {"pending_verification", "verified", "rejected"},
               checker : Members \cup {Nothing}]
VendorDocument == [vendor : Vendors, maker : Members \cup {Nothing},
                   reviews : Seq([by : Members, decision : {"verified", "rejected"}])]
VendorChangeCase == [user : Users, type : {"profile", "legal", "gstin", "bank"},
                     status : {"pending", "approved", "rejected"}]
Invite == [user : Users, state : {"open", "used", "expired"}]
Session == [invite : Invites, user : Users, state : {"open", "revoked", "expired"}]

TypeOK ==
    /\ \A v \in Vendors : vendor[v] = Nothing \/ vendor[v] \in VendorRecord
    /\ \A b \in Banks : bank[b] = Nothing \/ bank[b] \in VendorBank
    /\ \A p \in Papers : paper[p] = Nothing \/ paper[p] \in VendorDocument
    /\ \A c \in Changes : change[c] = Nothing \/ change[c] \in VendorChangeCase
    /\ user \in [Users -> {"none", "invited", "active"}]
    /\ \A i \in Invites : invite[i] = Nothing \/ invite[i] \in Invite
    /\ \A s \in Sessions : session[s] = Nothing \/ session[s] \in Session

Init ==
    /\ vendor = [v \in Vendors |-> Nothing]
    /\ bank = [b \in Banks |-> Nothing]
    /\ paper = [p \in Papers |-> Nothing]
    /\ change = [c \in Changes |-> Nothing]
    /\ deciding = [m \in Members |-> Nothing]
    /\ user = [u \in Users |-> "none"]
    /\ invite = [i \in Invites |-> Nothing]
    /\ session = [s \in Sessions |-> Nothing]

portalVars == <<user, invite, session>>
Status(v) == Last(vendor[v].history).to
Known(v) == vendor[v] # Nothing
supplierPortalLifecycleAllowed(v) == Known(v) /\ Status(v) \notin {"suspended", "blocked"}

-----------------------------------------------------------------------------
(* Lifecycle.  A transaction reads the vendor, checks, and writes only if    *)
(* the row version is still the expected one.                              *)

CreateVendor(m, v) ==
    /\ ~Known(v)
    /\ vendor' = [vendor EXCEPT ![v] = [history |-> <<[to |-> "invited", by |-> m]>>, applied |-> {}]]
    /\ UNCHANGED <<bank, paper, change, deciding, portalVars>>

assertVendorLifecycleTransition(m, v, to) ==
    /\ to \in TRANSITIONS[Status(v)]
    /\ to \in CHECKER_DECISIONS => m # Last(vendor[v].history).by /\ m # vendor[v].history[1].by

BeginTransition(m, v, to) ==
    /\ deciding[m] = Nothing /\ Known(v)
    /\ Len(vendor[v].history) < MaxDecisions
    /\ assertVendorLifecycleTransition(m, v, to)
    /\ deciding' = [deciding EXCEPT ![m] = [on |-> v, version |-> Len(vendor[v].history), to |-> to]]
    /\ UNCHANGED <<vendor, bank, paper, change, portalVars>>

VersionIgnored(v, version) == Len(vendor[v].history) < MaxDecisions
VersionUnmoved(v, version) == Len(vendor[v].history) = version
CommitTransition(m) ==
    /\ deciding[m] # Nothing /\ deciding[m].on \in Vendors
    /\ VersionUnmoved(deciding[m].on, deciding[m].version)
    /\ vendor' = [vendor EXCEPT ![deciding[m].on].history =
                      Append(@, [to |-> deciding[m].to, by |-> m])]
    /\ deciding' = [deciding EXCEPT ![m] = Nothing]
    /\ UNCHANGED <<bank, paper, change, portalVars>>

\* The write finds another version, or the transaction fails.
AbortTransition(m) ==
    /\ deciding[m] # Nothing
    /\ deciding' = [deciding EXCEPT ![m] = Nothing]
    /\ UNCHANGED <<vendor, bank, paper, change, portalVars>>

-----------------------------------------------------------------------------
(* Bank accounts and documents.                                            *)

AddVendorBank(m, v, b) ==
    /\ bank[b] = Nothing /\ Known(v) /\ Status(v) # "blocked"
    /\ bank' = [bank EXCEPT ![b] = [vendor |-> v, maker |-> m, status |-> "pending_verification",
                                    checker |-> Nothing]]
    /\ UNCHANGED <<vendor, paper, change, deciding, portalVars>>

VerifyVendorBank(m, b, decision) ==
    /\ bank[b] # Nothing /\ bank[b].status = "pending_verification" /\ bank[b].maker # m
    /\ bank' = [bank EXCEPT ![b].status = decision, ![b].checker = m]
    /\ UNCHANGED <<vendor, paper, change, deciding, portalVars>>

\* By a member, or from the portal (m = Nothing).
AddDocument(m, v, p) ==
    /\ paper[p] = Nothing /\ Known(v)
    /\ paper' = [paper EXCEPT ![p] = [vendor |-> v, maker |-> m, reviews |-> <<>>]]
    /\ UNCHANGED <<vendor, bank, change, deciding, portalVars>>

\* A review checks the version it has read; its update names the row only, so of two
\* overlapping reviews the later replaces the earlier.
BeginReview(m, p, decision) ==
    /\ deciding[m] = Nothing /\ paper[p] # Nothing /\ paper[p].maker # m
    /\ Len(paper[p].reviews) < MaxDecisions
    /\ deciding' = [deciding EXCEPT ![m] = [on |-> p, version |-> Len(paper[p].reviews), to |-> decision]]
    /\ UNCHANGED <<vendor, bank, paper, change, portalVars>>

CommitReview(m) ==
    /\ deciding[m] # Nothing /\ deciding[m].on \in Papers
    /\ Len(paper[deciding[m].on].reviews) < MaxDecisions
    /\ paper' = [paper EXCEPT ![deciding[m].on].reviews =
                     Append(@, [by |-> m, decision |-> deciding[m].to])]
    /\ deciding' = [deciding EXCEPT ![m] = Nothing]
    /\ UNCHANGED <<vendor, bank, change, portalVars>>

-----------------------------------------------------------------------------
(* The portal.  An invitation puts its user back to invited, so that no      *)
(* session of the user works until an invitation is accepted again.        *)

InvitePortalUser(u, i) ==
    /\ invite[i] = Nothing /\ supplierPortalLifecycleAllowed(VendorOf[u])
    /\ user' = [user EXCEPT ![u] = "invited"]
    /\ invite' = [invite EXCEPT ![i] = [user |-> u, state |-> "open"]]
    /\ UNCHANGED <<vendor, bank, paper, change, deciding, session>>

AcceptableTwice(i) == invite[i] # Nothing /\ invite[i].state # "expired"
Acceptable(i) == invite[i] # Nothing /\ invite[i].state = "open"
AcceptInvite(i, s) ==
    /\ Acceptable(i) /\ session[s] = Nothing
    /\ supplierPortalLifecycleAllowed(VendorOf[invite[i].user])
    /\ invite' = [invite EXCEPT ![i].state = "used"]
    /\ session' = [session EXCEPT ![s] = [invite |-> i, user |-> invite[i].user, state |-> "open"]]
    /\ user' = [user EXCEPT ![invite[i].user] = "active"]
    /\ UNCHANGED <<vendor, bank, paper, change, deciding>>

\* The hours of an invitation or of a session are over.
InviteExpires(i) ==
    /\ Acceptable(i)
    /\ invite' = [invite EXCEPT ![i].state = "expired"]
    /\ UNCHANGED <<vendor, bank, paper, change, deciding, user, session>>
EndSession(s, how) ==
    /\ session[s] # Nothing /\ session[s].state = "open"
    /\ session' = [session EXCEPT ![s].state = how]
    /\ UNCHANGED <<vendor, bank, paper, change, deciding, user, invite>>
Logout(s) == EndSession(s, "revoked")
SessionExpires(s) == EndSession(s, "expired")

authenticateSupplier(s) ==
    /\ session[s] # Nothing /\ session[s].state = "open"
    /\ user[session[s].user] = "active"
    /\ supplierPortalLifecycleAllowed(VendorOf[session[s].user])

AddDocumentFromPortal(s, p) ==
    authenticateSupplier(s) /\ AddDocument(Nothing, VendorOf[session[s].user], p)

RequestChange(s, c, type) ==
    /\ authenticateSupplier(s) /\ change[c] = Nothing
    /\ change' = [change EXCEPT ![c] = [user |-> session[s].user, type |-> type, status |-> "pending"]]
    /\ UNCHANGED <<vendor, bank, paper, deciding, portalVars>>

\* An approved bank case changes nothing: bank accounts have their own maker and checker.
Applies(type) == type # "bank"
DecideVendorChange(c, decision) ==
    /\ change[c] # Nothing /\ change[c].status = "pending"
    /\ change' = [change EXCEPT ![c].status = decision]
    /\ vendor' = IF decision = "approved" /\ Applies(change[c].type)
                 THEN [vendor EXCEPT ![VendorOf[change[c].user]].applied = @ \cup {c}] ELSE vendor
    /\ UNCHANGED <<bank, paper, deciding, portalVars>>

-----------------------------------------------------------------------------

Next ==
    \/ \E m \in Members, v \in Vendors :
          \/ CreateVendor(m, v)
          \/ \E to \in VendorLifecycleStatus : BeginTransition(m, v, to)
          \/ \E b \in Banks : AddVendorBank(m, v, b)
          \/ \E p \in Papers : AddDocument(m, v, p)
    \/ \E m \in Members :
          \/ CommitTransition(m) \/ AbortTransition(m) \/ CommitReview(m)
          \/ \E b \in Banks, d \in {"verified", "rejected"} : VerifyVendorBank(m, b, d)
          \/ \E p \in Papers, d \in {"verified", "rejected"} : BeginReview(m, p, d)
    \/ \E u \in Users, i \in Invites : InvitePortalUser(u, i)
    \/ \E i \in Invites : InviteExpires(i) \/ \E s \in Sessions : AcceptInvite(i, s)
    \/ \E s \in Sessions :
          \/ Logout(s) \/ SessionExpires(s)
          \/ \E p \in Papers : AddDocumentFromPortal(s, p)
          \/ \E c \in Changes, t \in {"profile", "bank"} : RequestChange(s, c, t)
    \/ \E c \in Changes, d \in {"approved", "rejected"} : DecideVendorChange(c, d)

Spec == Init /\ [][Next]_vars

-----------------------------------------------------------------------------
(* Properties.                                                             *)

\* Whoever approves, suspends or blocks a vendor neither created it nor made the move
\* before, also when two members decide at once.
DecisionsSeparate ==
    \A v \in Vendors : Known(v) =>
        \A k \in 2..Len(vendor[v].history) :
            LET h == vendor[v].history IN
            h[k].to \in CHECKER_DECISIONS => h[k].by # h[k - 1].by /\ h[k].by # h[1].by

\* A vendor that was blocked or suspended is approved only after a new review.
ReviewedAgain ==
    \A v \in Vendors : Known(v) =>
        \A k \in 1..Len(vendor[v].history) :
            LET h == vendor[v].history IN
            h[k].to = "approved" =>
                \E j \in 1..(k - 1) : h[j].to = "under_review"
                                   /\ \A i \in j..(k - 1) : h[i].to \notin {"suspended", "blocked"}

\* Each used invitation opened one session, and no other session exists; a user is
\* active only through a session of its own.
OneSessionPerInvite ==
    /\ \A i \in Invites :
          Cardinality({s \in Sessions : session[s] # Nothing /\ session[s].invite = i})
            = IF invite[i] # Nothing /\ invite[i].state = "used" THEN 1 ELSE 0
    /\ \A u \in Users : user[u] = "active" =>
          \E s \in Sessions : session[s] # Nothing /\ session[s].user = u
=============================================================================
