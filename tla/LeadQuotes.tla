----------------------------- MODULE LeadQuotes ------------------------------
(***************************************************************************)
(* Quotations of a MesaLeads lead, the customer's decision about them and  *)
(* the fulfilment that follows (mesaleads/service.ts).  Every transaction  *)
(* locks the lead first, but a request brings the row version its client   *)
(* has seen, and most look for their idempotency key before they have the  *)
(* lock; so a request is a beginning and a write under the lock.           *)
(***************************************************************************)
EXTENDS Naturals, FiniteSets, FiniteSetsExt

CONSTANTS Quotes,
          Keys,        \* idempotency keys of quotations and milestones
          Challenges,  \* verification codes sent to the customer
          MaxAttempts, \* wrong codes a challenge survives
          Requests,    \* requests in flight
          Operations,  \* what the clients ask for, and whether time passes
          Terms,       \* terms a quotation can have
          MaxVersion,  \* lead, drafts and fulfilment are not changed from here on
          Nothing

VARIABLES lead,       \* its stage and version
          quote,      \* quote[q]: Nothing, or the version of the quotation
          event,      \* idempotency keys that are used, with what they did
          challenge,  \* challenge[c]
          portal,     \* the customer's link is open
          fulfilment,
          request     \* request[r]

vars == <<lead, quote, event, challenge, portal, fulfilment, request>>

Closed == {"won", "lost"}
Stages == {"technical_review", "quotation"} \cup Closed
Quote == [number : Nat \ {0}, row : Nat, status : {"draft", "sent", "revision_requested", "superseded", "approved"},
          terms : Terms, offered : Terms \cup {Nothing}, expired : BOOLEAN]
Challenge == [attempts : 0..MaxAttempts, used : BOOLEAN, expired : BOOLEAN]
Fulfilment == [status : {"not_started", "in_progress", "completed"}, row : Nat, milestones : Nat \ {0}]

TypeOK ==
    /\ lead \in [stage : Stages, version : Nat]
    /\ \A q \in Quotes : quote[q] # Nothing => quote[q] \in Quote
    /\ \A e \in event : e.op \in {"create", "send", "revise", "decision", "milestone"} /\ e.key \in Keys
    /\ \A c \in Challenges : challenge[c] # Nothing => challenge[c] \in Challenge
    /\ portal \in BOOLEAN
    /\ fulfilment # Nothing => fulfilment \in Fulfilment
    /\ \A r \in Requests : request[r] # Nothing => request[r].version \in Nat

Init ==
    /\ lead = [stage |-> "technical_review", version |-> 0]
    /\ quote = [q \in Quotes |-> Nothing]
    /\ event = {}
    /\ challenge = [c \in Challenges |-> Nothing]
    /\ portal = TRUE
    /\ fulfilment = Nothing
    /\ request = [r \in Requests |-> Nothing]

-----------------------------------------------------------------------------
(* Requests.                                                               *)

With(s) == {q \in Quotes : quote[q] # Nothing /\ quote[q].status \in s}
Used(op, k) == \E e \in event : e.op = op /\ e.key = k

\* Quotation q as the client has seen it, or the lead when it has seen no quotation; a
\* used key answers as before.
Begin(r, op, k, q) ==
    /\ request[r] = Nothing /\ op \in Operations /\ ~Used(op, k)
    /\ op \in {"send", "revise", "update", "decision"} => q \in With({"draft", "sent", "revision_requested"})
    /\ request' = [request EXCEPT ![r] =
          [op |-> op, key |-> k, quote |-> q, stage |-> IF op = "lead" THEN lead.stage ELSE Nothing,
           version |-> IF op \in {"send", "revise", "update", "decision"} THEN quote[q].row ELSE lead.version]]
    /\ UNCHANGED <<lead, quote, event, challenge, portal, fulfilment>>

Leave(r) ==
    /\ request[r] # Nothing
    /\ request' = [request EXCEPT ![r] = Nothing]
    /\ UNCHANGED <<lead, quote, event, challenge, portal, fulfilment>>

Writes(r, op) == request[r] # Nothing /\ request[r].op = op /\ request' = [request EXCEPT ![r] = Nothing]
Did(op, k, q, c) == [op |-> op, key |-> k, quote |-> q, challenge |-> c]
Unseen(r) == quote[request[r].quote].row = request[r].version

-----------------------------------------------------------------------------
(* The organization's side.                                                *)

NextNumber == Max({quote[q].number : q \in {p \in Quotes : quote[p] # Nothing}} \cup {0}) + 1
Draft(terms) == [number |-> NextNumber, row |-> 0, status |-> "draft", terms |-> terms, offered |-> Nothing,
                 expired |-> FALSE]

\* Mutant of Superseded: a quotation sent back for revision stays open.
SupersededWhenSent(q) == With({"sent"}) \ {q}
Superseded(q) == With({"sent", "revision_requested"}) \ {q}
\* Quotations after q, with content v, has been sent.
Sent(q, v) == [p \in Quotes |->
    IF p = q THEN [v EXCEPT !.status = "sent", !.row = @ + 1, !.offered = v.terms]
    ELSE IF p \in Superseded(q) THEN [quote[p] EXCEPT !.status = "superseded", !.row = @ + 1]
    ELSE quote[p]]
Quoted == [stage |-> "quotation", version |-> lead.version + 1]

createQuote(r, q, terms, send) ==
    /\ Writes(r, "create")
    /\ quote[q] = Nothing
    /\ IF ~Used("create", request[r].key) /\ With({"approved"}) = {}
       THEN /\ quote' = IF send THEN Sent(q, Draft(terms)) ELSE [quote EXCEPT ![q] = Draft(terms)]
            /\ event' = event \cup {Did(op, request[r].key, q, Nothing) :
                                       op \in IF send THEN {"create", "send"} ELSE {"create"}}
            /\ lead' = IF send THEN Quoted ELSE lead
       ELSE UNCHANGED <<quote, event, lead>>
    /\ UNCHANGED <<challenge, portal, fulfilment>>

updateQuote(r, terms) ==
    LET q == request[r].quote IN
    /\ Writes(r, "update")
    /\ quote' = IF quote[q].status = "draft" /\ Unseen(r)
                THEN [quote EXCEPT ![q].terms = terms, ![q].row = @ + 1] ELSE quote
    /\ UNCHANGED <<lead, event, challenge, portal, fulfilment>>

\* Whatever the stage of the lead, closed ones included.
sendDraftQuote(r) ==
    LET q == request[r].quote IN
    /\ Writes(r, "send")
    /\ IF quote[q].status = "draft" /\ Unseen(r) /\ ~quote[q].expired /\ With({"approved"}) = {}
       THEN /\ quote' = Sent(q, quote[q])
            /\ event' = event \cup {Did("send", request[r].key, q, Nothing)}
            /\ lead' = Quoted
       ELSE UNCHANGED <<quote, event, lead>>
    /\ UNCHANGED <<challenge, portal, fulfilment>>

reviseQuote(r, q) ==
    LET source == request[r].quote IN
    /\ Writes(r, "revise")
    /\ quote[q] = Nothing
    /\ IF ~Used("revise", request[r].key) /\ quote[source].status \in {"sent", "revision_requested"} /\ Unseen(r)
       THEN /\ quote' = [quote EXCEPT ![q] = [Draft(quote[source].terms) EXCEPT !.expired = quote[source].expired]]
            /\ event' = event \cup {Did("revise", request[r].key, source, Nothing)}
       ELSE UNCHANGED <<quote, event>>
    /\ UNCHANGED <<lead, challenge, portal, fulfilment>>

\* Mutant of Current: another change of the lead is overwritten.
CurrentNever(r) == TRUE
Current(r) == lead.version = request[r].version
\* Whether the lead is closed is looked at when the request begins.
updateLead(r, stage) ==
    /\ Writes(r, "lead")
    /\ lead' = IF Current(r) /\ (request[r].stage \in Closed => stage = request[r].stage)
               THEN [stage |-> stage, version |-> lead.version + 1] ELSE lead
    /\ UNCHANGED <<quote, event, challenge, portal, fulfilment>>

-----------------------------------------------------------------------------
(* The customer's side.                                                    *)

\* Sent to the address of the submission; without a delivery there is no challenge.
createDecisionChallenge(c) ==
    /\ portal /\ challenge[c] = Nothing
    /\ challenge' = [challenge EXCEPT ![c] = [attempts |-> 0, used |-> FALSE, expired |-> FALSE]]
    /\ UNCHANGED <<lead, quote, event, portal, fulfilment, request>>

\* Mutant of Usable: a challenge can be used again.
UsableAgain(c) == challenge[c] # Nothing /\ ~challenge[c].expired /\ challenge[c].attempts < MaxAttempts
Usable(c) == challenge[c] # Nothing /\ ~challenge[c].used /\ ~challenge[c].expired
               /\ challenge[c].attempts < MaxAttempts

\* A wrong code is counted, and the count stays though the decision is refused.
WrongCode(r, c) ==
    /\ Writes(r, "decision")
    /\ portal /\ Usable(c) /\ ~Used("decision", request[r].key)
    /\ challenge' = [challenge EXCEPT ![c].attempts = @ + 1]
    /\ UNCHANGED <<lead, quote, event, portal, fulfilment>>

\* A fulfilment with the default milestones.
ensureDefaultFulfillment ==
    IF fulfilment = Nothing THEN [status |-> "not_started", row |-> 0, milestones |-> 1] ELSE fulfilment
decidePublicQuote(r, c, decision) ==
    LET q == request[r].quote IN
    /\ Writes(r, "decision")
    /\ IF /\ portal /\ ~Used("decision", request[r].key) /\ Usable(c)
          /\ quote[q].status = "sent" /\ Unseen(r) /\ (decision = "approved" => ~quote[q].expired)
       THEN /\ challenge' = [challenge EXCEPT ![c].used = TRUE]
            /\ quote' = [quote EXCEPT ![q].status = decision, ![q].row = @ + 1]
            /\ event' = event \cup {Did("decision", request[r].key, q, c)}
            /\ lead' = [stage |-> IF decision = "approved" THEN "won" ELSE "quotation", version |-> lead.version + 1]
            /\ fulfilment' = IF decision = "approved" THEN ensureDefaultFulfillment ELSE fulfilment
       ELSE UNCHANGED <<challenge, quote, event, lead, fulfilment>>
    /\ UNCHANGED portal

-----------------------------------------------------------------------------
(* Fulfilment, and time.                                                   *)

createFulfillment(status) ==
    /\ fulfilment = Nothing /\ With({"approved"}) # {}
    /\ fulfilment' = [status |-> status, row |-> 0, milestones |-> 1]
    /\ UNCHANGED <<lead, quote, event, challenge, portal, request>>
updateFulfillment(status) ==
    /\ fulfilment # Nothing /\ fulfilment.row < MaxVersion
    /\ fulfilment' = [fulfilment EXCEPT !.status = status, !.row = @ + 1]
    /\ UNCHANGED <<lead, quote, event, challenge, portal, request>>
createMilestone(k) ==
    /\ fulfilment # Nothing /\ ~Used("milestone", k)
    /\ fulfilment' = [fulfilment EXCEPT !.milestones = @ + 1]
    /\ event' = event \cup {Did("milestone", k, Nothing, Nothing)}
    /\ UNCHANGED <<lead, quote, challenge, portal, request>>

\* The link is revoked, and the days of a challenge or a quotation pass.
ClosePortal ==
    /\ "close" \in Operations /\ portal
    /\ portal' = FALSE
    /\ UNCHANGED <<lead, quote, event, challenge, fulfilment, request>>
ExpireChallenge(c) ==
    /\ "lapse" \in Operations /\ challenge[c] # Nothing /\ ~challenge[c].expired
    /\ challenge' = [challenge EXCEPT ![c].expired = TRUE]
    /\ UNCHANGED <<lead, quote, event, portal, fulfilment, request>>
ExpireQuote(q) ==
    /\ "lapse" \in Operations /\ q \in With({"draft", "sent"}) /\ ~quote[q].expired
    /\ quote' = [quote EXCEPT ![q].expired = TRUE]
    /\ UNCHANGED <<lead, event, challenge, portal, fulfilment, request>>

Next ==
    \/ \E r \in Requests :
          \/ \E q \in Quotes : quote[q] # Nothing /\ quote[q].row < MaxVersion /\ Begin(r, "update", Nothing, q)
          \/ \E k \in Keys : \/ Begin(r, "create", k, Nothing)
                             \/ \E q \in Quotes, op \in {"send", "revise", "decision"} : Begin(r, op, k, q)
          \/ lead.version < MaxVersion /\ Begin(r, "lead", Nothing, Nothing)
          \/ \E q \in Quotes : \/ \E terms \in Terms, send \in BOOLEAN : createQuote(r, q, terms, send)
                               \/ reviseQuote(r, q)
          \/ \E terms \in Terms : updateQuote(r, terms)
          \/ sendDraftQuote(r) \/ Leave(r)
          \/ \E stage \in Stages : updateLead(r, stage)
          \/ \E c \in Challenges : WrongCode(r, c) \/ \E d \in {"approved", "revision_requested"} : decidePublicQuote(r, c, d)
    \/ \E c \in Challenges : createDecisionChallenge(c) \/ ExpireChallenge(c)
    \/ \E s \in {"not_started", "in_progress", "completed"} : createFulfillment(s) \/ updateFulfillment(s)
    \/ "milestone" \in Operations /\ \E k \in Keys : createMilestone(k)
    \/ ClosePortal \/ \E q \in Quotes : ExpireQuote(q)

Spec == Init /\ [][Next]_vars

-----------------------------------------------------------------------------
(* Properties.                                                             *)

\* The customer has at most one quotation to act on, and none beside an approved one.
OneOffer == Cardinality(With({"sent", "revision_requested", "approved"})) <= 1

\* What is approved is what was offered; the lead is won for good and its fulfilment has
\* begun, with no other way to begin.
ApprovedWon ==
    /\ \A q \in With({"sent", "revision_requested", "approved"}) : quote[q].terms = quote[q].offered
    /\ With({"approved"}) # {} <=> fulfilment # Nothing
    /\ With({"approved"}) # {} => lead.stage = "won"

\* Each decision is verified by a code of its own.
DecisionsVerified ==
    LET decisions == {e \in event : e.op = "decision"} IN
    /\ \A e \in decisions : challenge[e.challenge].used
    /\ \A e, f \in decisions : e # f => e.challenge # f.challenge /\ e.quote # f.quote

\* Versions are numbered without gap or duplicate, once for each key.
NumbersInOrder ==
    LET made == {q \in Quotes : quote[q] # Nothing} IN
    /\ {quote[q].number : q \in made} = 1..Cardinality(made)
    /\ Cardinality(made) = Cardinality({e \in event : e.op \in {"create", "revise"}})
=============================================================================
