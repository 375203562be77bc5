----------------------------- MODULE LeadJourney -----------------------------
(***************************************************************************)
(* Questionnaires of MesaLeads (mesaleads/service.ts): forms with their    *)
(* revisions, the links that carry them to customers, and the submissions  *)
(* that turn into leads.  A request looks its link up before its           *)
(* transaction, so it is a check and an entry; the transaction holds the   *)
(* entitlement and the link until it ends, an invitation alone and a       *)
(* generic link together with other keys.                                  *)
(***************************************************************************)
EXTENDS Naturals, FiniteSets, FiniteSetsExt

CONSTANTS Forms, Links, Leads,
          Keys,      \* submission keys browsers draw
          Requests,  \* requests that can be in flight
          Moves,     \* stages members move leads to by hand
          Nothing

VARIABLES form,       \* form[f]: Nothing, or its revision
          link,       \* link[l]
          lead,       \* lead[x]
          submission, \* what customers submitted
          portal,     \* leads with a portal link of their own
          entitled,   \* the organization has MesaLeads
          request     \* request[r]: Nothing, a submission, or a link about to be made

vars == <<form, link, lead, submission, portal, entitled, request>>

Form == [family : Forms, revision : Nat \ {0}, status : {"draft", "published", "archived"},
         questions : 0..2]   \* what it asks, 0 for nothing that can be answered
Link == [form : Forms, kind : {"generic", "invitation"}, lead : Leads \cup {Nothing},
         status : {"active", "submitted", "revoked"}, expired : BOOLEAN]
Lead == [stage : {"new", "questionnaire_sent", "requirements_received", "quotation", "won", "lost"},
         source : {"direct", "public_form"}]
Submission == [link : Links, key : Keys, lead : Leads, form : Forms, questions : 1..2]

TypeOK ==
    /\ \A f \in Forms : form[f] # Nothing => form[f] \in Form
    /\ \A l \in Links : link[l] # Nothing => link[l] \in Link
    /\ \A x \in Leads : lead[x] # Nothing => lead[x] \in Lead
    /\ submission \subseteq Submission /\ portal \subseteq Leads /\ entitled \in BOOLEAN
    /\ \A r \in Requests : request[r] # Nothing => request[r].state \in {"resolved", "inside", "linking"}

Init ==
    /\ form = [f \in Forms |-> Nothing] /\ link = [l \in Links |-> Nothing] /\ lead = [x \in Leads |-> Nothing]
    /\ submission = {} /\ portal = {} /\ entitled = TRUE
    /\ request = [r \in Requests |-> Nothing]

Is(f, s) == form[f] # Nothing /\ form[f].status = s
Inside(r) == request[r] # Nothing /\ request[r].state = "inside"
\* Nobody who submits holds the link.
LinkFree(l) == \A r \in Requests : Inside(r) => request[r].link # l
NewLink(f, kind, x) == [form |-> f, kind |-> kind, lead |-> x, status |-> "active", expired |-> FALSE]
Early == {"new", "questionnaire_sent"}

-----------------------------------------------------------------------------
(* Forms.                                                                  *)

createForm(f, q) ==
    /\ form[f] = Nothing
    /\ form' = [form EXCEPT ![f] = [family |-> f, revision |-> 1, status |-> "draft", questions |-> q]]
    /\ UNCHANGED <<link, lead, submission, portal, entitled, request>>

updateForm(f, q) ==
    /\ Is(f, "draft")
    /\ form' = [form EXCEPT ![f].questions = q]
    /\ UNCHANGED <<link, lead, submission, portal, entitled, request>>

\* One more than the latest revision of the family, which a unique index keeps.
cloneFormRevision(f, g) ==
    /\ form[f] # Nothing /\ form[g] = Nothing
    /\ LET family == {h \in Forms : form[h] # Nothing /\ form[h].family = form[f].family} IN
       form' = [form EXCEPT ![g] = [form[f] EXCEPT !.status = "draft",
                                                   !.revision = Max({form[h].revision : h \in family}) + 1]]
    /\ UNCHANGED <<link, lead, submission, portal, entitled, request>>

publishForm(f, l) ==
    /\ Is(f, "draft") /\ form[f].questions # 0 /\ link[l] = Nothing
    /\ form' = [form EXCEPT ![f].status = "published"]
    /\ link' = [link EXCEPT ![l] = NewLink(f, "generic", Nothing)]
    /\ UNCHANGED <<lead, submission, portal, entitled, request>>

\* Submissions that hold a link are waited for; links that are submitted stay.
archiveForm(f) ==
    /\ form[f] # Nothing /\ ~Is(f, "archived")
    /\ \A l \in Links : link[l] # Nothing /\ link[l].form = f /\ link[l].status = "active" => LinkFree(l)
    /\ form' = [form EXCEPT ![f].status = "archived"]
    /\ link' = [l \in Links |-> IF link[l] # Nothing /\ link[l].form = f /\ link[l].status = "active"
                                THEN [link[l] EXCEPT !.status = "revoked"] ELSE link[l]]
    /\ UNCHANGED <<lead, submission, portal, entitled, request>>

-----------------------------------------------------------------------------
(* Links and leads.                                                        *)

BeginLink(r, f, x) ==
    /\ request[r] = Nothing /\ Is(f, "published") /\ (x # Nothing => lead[x] # Nothing)
    /\ request' = [request EXCEPT ![r] = [state |-> "linking", form |-> f, lead |-> x]]
    /\ UNCHANGED <<form, link, lead, submission, portal, entitled>>

Journeys(x) == {l \in Links : link[l] # Nothing /\ link[l].kind = "invitation" /\ link[l].lead = x
                                /\ link[l].status \in {"active", "submitted"}}
\* Mutant of Linkable: what was seen before the transaction is trusted.
LinkableAsSeen(f, x) == TRUE
\* Under the locks of the form and the lead.
Linkable(f, x) == Is(f, "published") /\ (x # Nothing => Journeys(x) = {})
createFormLink(r, l) ==
    LET f == request[r].form  x == request[r].lead IN
    /\ request[r] # Nothing /\ request[r].state = "linking" /\ link[l] = Nothing
    /\ request' = [request EXCEPT ![r] = Nothing]
    /\ IF Linkable(f, x)
       THEN /\ link' = [link EXCEPT ![l] = NewLink(f, IF x = Nothing THEN "generic" ELSE "invitation", x)]
            /\ lead' = IF x # Nothing /\ lead[x].stage = "new"
                       THEN [lead EXCEPT ![x].stage = "questionnaire_sent"] ELSE lead
       ELSE UNCHANGED <<link, lead>>
    /\ UNCHANGED <<form, submission, portal, entitled>>

revokeFormLink(l) ==
    /\ link[l] # Nothing /\ link[l].status # "revoked" /\ LinkFree(l)
    /\ link' = [link EXCEPT ![l].status = "revoked"]
    /\ UNCHANGED <<form, lead, submission, portal, entitled, request>>

createLead(f, x, l) ==
    /\ Is(f, "published") /\ lead[x] = Nothing /\ link[l] = Nothing
    /\ lead' = [lead EXCEPT ![x] = [stage |-> "questionnaire_sent", source |-> "direct"]]
    /\ link' = [link EXCEPT ![l] = NewLink(f, "invitation", x)]
    /\ UNCHANGED <<form, submission, portal, entitled, request>>

\* A member moves the lead by hand.
updateLead(x, s) ==
    /\ lead[x] # Nothing /\ lead[x].stage \notin {"won", "lost"}
    /\ lead' = [lead EXCEPT ![x].stage = s]
    /\ UNCHANGED <<form, link, submission, portal, entitled, request>>

-----------------------------------------------------------------------------
(* Submissions.                                                            *)

resolvePublicLink(r, l, k) ==
    /\ request[r] = Nothing /\ link[l] # Nothing
    /\ entitled /\ link[l].status # "revoked" /\ ~link[l].expired
    /\ request' = [request EXCEPT ![r] = [state |-> "resolved", link |-> l, key |-> k]]
    /\ UNCHANGED <<form, link, lead, submission, portal, entitled>>

\* Mutant of Exclusive: the keys are not locked.
ExclusiveLinks(l, k, r) == link[l].kind = "invitation" => LinkFree(l)
\* An invitation is held alone, a generic link by one request for each key.
Exclusive(l, k, r) ==
    IF link[l].kind = "invitation" THEN LinkFree(l)
    ELSE \A s \in Requests : Inside(s) => request[s].link # l \/ request[s].key # k
Submitted(l, k) == {s \in submission : s.link = l /\ s.key = k}
\* Enters the transaction and looks for the submission of its key.
Enter(r) ==
    LET l == request[r].link  k == request[r].key IN
    /\ request[r] # Nothing /\ request[r].state = "resolved" /\ Exclusive(l, k, r)
    /\ request' = [request EXCEPT ![r] =
          IF ~entitled \/ link[l].status = "revoked" \/ Submitted(l, k) # {} THEN Nothing
          ELSE [state |-> "inside", link |-> l, key |-> k]]
    /\ UNCHANGED <<form, link, lead, submission, portal, entitled>>

\* Its link was active, or it was generic, and not expired; the form is published.
Open(l) == ~link[l].expired /\ link[l].status = "active" /\ Is(link[l].form, "published")
submitPublicForm(r, x) ==
    LET l == request[r].link  f == link[l].form IN
    /\ Inside(r) /\ (link[l].lead = Nothing => \E y \in Leads : lead[y] = Nothing)
    /\ x = IF link[l].lead # Nothing THEN link[l].lead ELSE CHOOSE y \in Leads : lead[y] = Nothing
    /\ request' = [request EXCEPT ![r] = Nothing]
    /\ IF Open(l)
       THEN /\ submission' = submission \cup {[link |-> l, key |-> request[r].key, lead |-> x, form |-> f,
                                               questions |-> form[f].questions]}
            /\ lead' = [lead EXCEPT ![x] =
                 IF @ = Nothing THEN [stage |-> "requirements_received", source |-> "public_form"]
                 ELSE IF @.stage \in Early THEN [@ EXCEPT !.stage = "requirements_received"] ELSE @]
            /\ IF link[l].kind = "invitation"
               THEN link' = [link EXCEPT ![l].status = "submitted"] /\ UNCHANGED portal
               ELSE portal' = portal \cup {x} /\ UNCHANGED link
       ELSE UNCHANGED <<submission, lead, link, portal>>
    /\ UNCHANGED <<form, entitled>>

\* The answers are refused, or the connection breaks.
Leave(r) ==
    /\ request[r] # Nothing
    /\ request' = [request EXCEPT ![r] = Nothing]
    /\ UNCHANGED <<form, link, lead, submission, portal, entitled>>

\* The platform stops the service or starts it again; it waits for submissions.
Entitle(e) ==
    /\ entitled # e /\ \A r \in Requests : ~Inside(r)
    /\ entitled' = e
    /\ UNCHANGED <<form, link, lead, submission, portal, request>>

Expire(l) ==
    /\ link[l] # Nothing /\ ~link[l].expired /\ link[l].status = "active"
    /\ link' = [link EXCEPT ![l].expired = TRUE]
    /\ UNCHANGED <<form, lead, submission, portal, entitled, request>>

Next ==
    \/ \E f \in Forms : \/ \E q \in 0..2 : createForm(f, q) \/ updateForm(f, q)
                        \/ \E g \in Forms : cloneFormRevision(f, g)
                        \/ \E l \in Links : publishForm(f, l) \/ \E x \in Leads : createLead(f, x, l)
                        \/ archiveForm(f)
                        \/ \E r \in Requests, x \in Leads \cup {Nothing} : BeginLink(r, f, x)
    \/ \E l \in Links : \/ revokeFormLink(l) \/ Expire(l)
                        \/ \E r \in Requests : createFormLink(r, l) \/ \E k \in Keys : resolvePublicLink(r, l, k)
    \/ \E x \in Leads : \/ \E s \in Moves : updateLead(x, s)
                        \/ \E r \in Requests : submitPublicForm(r, x)
    \/ \E r \in Requests : Enter(r) \/ Leave(r)
    \/ \E e \in BOOLEAN : Entitle(e)

Spec == Init /\ [][Next]_vars

-----------------------------------------------------------------------------
(* Properties.                                                             *)

\* An invitation is answered at most once and a key of a generic link at most once,
\* however often requests are repeated and overlap.
AnsweredOnce ==
    /\ \A s, t \in submission : s.link = t.link /\ (s.key = t.key \/ link[s.link].kind = "invitation") => s = t
    /\ \A s \in submission : link[s.link].kind = "generic" => s.lead \in portal

\* Submissions answer the questions their form was published with, and the form can no
\* longer change.
AnswersFit == \A s \in submission : ~Is(s.form, "draft") /\ form[s.form].questions = s.questions

\* A lead has one customer journey, and nobody can start one on a form out of use.
OneJourney ==
    /\ \A x \in Leads : Cardinality(Journeys(x)) <= 1
    /\ \A l \in Links : link[l] # Nothing /\ link[l].status = "active" => Is(link[l].form, "published")
    /\ \A f, g \in Forms : f # g /\ form[f] # Nothing /\ form[g] # Nothing /\ form[f].family = form[g].family
                             => form[f].revision # form[g].revision
=============================================================================
