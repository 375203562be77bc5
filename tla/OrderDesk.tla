------------------------------- MODULE OrderDesk -------------------------------
(***************************************************************************)
(* The sales desk of the plant: inquiries, quotations, the orders they     *)
(* become, and the complaints about what was dispatched, each with its     *)
(* corrective action (CAPA).  The services check an inquiry or a CAPA      *)
(* first and write in a transaction of its own after it, so a request is   *)
(* two steps here; cancelOrder locks the order and is one.                 *)
(* The page of a salesperson keeps copies of three lists, which its own    *)
(* requests refresh and nobody else's do.                                  *)
(***************************************************************************)
EXTENDS Integers, FiniteSets

CONSTANTS Inquiries, Complaints,
          Quantity,      \* what every inquiry asks for
          Overlapping,   \* the kinds of request that may fall between another's two steps
          Nothing, MaxChanges

OrderDeskAssumption ==
    /\ Quantity \in Nat \ {0}
    /\ Overlapping \subseteq {"quote", "confirm", "work", "close", "resolve"}

VARIABLES inquiry,     \* by inquiry: submitted, quotation or ordered
          order,       \* by inquiry: the one sales order made of it
          planned,     \* by inquiry: how much of the operational order is in production plans
          shipped,     \* by inquiry: how much of it is in dispatch records
          complaint,   \* by complaint: about which order, how severe, resolved?
          capa,        \* by complaint: its CAPA, and whether the three answers are filled in
          request,     \* requests that passed their checks and have not written yet
          page,        \* what the salesperson's page shows of the three lists
          behind,      \* lists somebody else changed since the page fetched them
          changes

vars == <<inquiry, order, planned, shipped, complaint, capa, request, page, behind, changes>>

Lists == {"inquiries", "orders", "complaints"}
Users == {"page", "other"}

\* The lists as the server would answer them now.
Served == [inquiries |-> inquiry, orders |-> order,
           complaints |-> [k \in Complaints |->
                             IF complaint[k] = Nothing THEN Nothing
                             ELSE [resolved |-> complaint[k].resolved, high |-> complaint[k].high,
                                   capa |-> capa[k].status]]]

TypeOK ==
    /\ inquiry \in [Inquiries -> {"submitted", "quotation", "ordered", Nothing}]
    /\ order \in [Inquiries -> [status : {"pending", "planned", "dispatched"}, high : BOOLEAN] \cup {Nothing}]
    /\ planned \in [Inquiries -> 0 .. Quantity] /\ shipped \in [Inquiries -> 0 .. Quantity]
    /\ complaint \in [Complaints -> [of : Inquiries, high : BOOLEAN, resolved : BOOLEAN] \cup {Nothing}]
    /\ capa \in [Complaints -> [status : {"open", "in_progress", "closed"}, complete : BOOLEAN] \cup {Nothing}]
    /\ behind \subseteq Lists
    /\ changes \in 0 .. MaxChanges

Init ==
    /\ inquiry = [i \in Inquiries |-> Nothing] /\ order = [i \in Inquiries |-> Nothing]
    /\ planned = [i \in Inquiries |-> 0] /\ shipped = [i \in Inquiries |-> 0]
    /\ complaint = [k \in Complaints |-> Nothing] /\ capa = [k \in Complaints |-> Nothing]
    /\ request = {} /\ behind = {} /\ changes = 0
    /\ page = Served

-----------------------------------------------------------------------------
(* Who writes: a request of the page fetches again the lists it names; one *)
(* of somebody else leaves the lists it changed behind.                    *)

Refreshes(u, lists) ==
    IF u = "page" THEN /\ page' = [l \in Lists |-> IF l \in lists THEN Served'[l] ELSE page[l]]
                       /\ behind' = behind \ lists
    ELSE page' = page /\ behind' = behind \cup {l \in Lists : Served'[l] # Served[l]}

\* Opening a screen fetches its lists.
Opens ==
    /\ behind # {} /\ page' = Served /\ behind' = {}
    /\ UNCHANGED <<inquiry, order, planned, shipped, complaint, capa, request, changes>>

\* A request is checked now and writes later; another kind waits unless it may overlap.
Alone(kind) == \A r \in request : r.kind \in Overlapping /\ kind \in Overlapping
Checks(u, kind, of, with) ==
    /\ Alone(kind) /\ changes < MaxChanges
    /\ \A r \in request : r.user # u
    /\ request' = request \cup {[user |-> u, kind |-> kind, of |-> of, with |-> with]}
    /\ UNCHANGED <<inquiry, order, planned, shipped, complaint, capa, page, behind, changes>>
Writes(r) == changes < MaxChanges /\ changes' = changes + 1 /\ request' = request \ {r}

-----------------------------------------------------------------------------
(* Inquiries, quotations and orders.                                       *)

LogInquiry(u, i) ==
    /\ Alone("log") /\ changes < MaxChanges /\ changes' = changes + 1
    /\ inquiry[i] = Nothing
    /\ inquiry' = [inquiry EXCEPT ![i] = "submitted"]
    /\ UNCHANGED <<order, planned, shipped, complaint, capa, request>>
    /\ Refreshes(u, {"inquiries"})

\* The page offers a quotation for what it shows as new; the service takes any not ordered.
ReadyToQuote(i) == page["inquiries"][i] = "submitted"
QuoteChecks(u, i) ==
    /\ u = "page" => ReadyToQuote(i)
    /\ inquiry[i] \in {"submitted", "quotation"}
    /\ Checks(u, "quote", i, Nothing)
QuoteWrites(r) ==
    /\ Writes(r)
    /\ inquiry' = [inquiry EXCEPT ![r.of] = "quotation"]
    /\ UNCHANGED <<order, planned, shipped, complaint, capa>>
    /\ Refreshes(r.user, {"inquiries"})

\* confirmOrder: of a quoted inquiry without an order ...
ReadyToConfirm(i) == page["inquiries"][i] = "quotation"
ConfirmChecks(u, i, high) ==
    /\ u = "page" => ReadyToConfirm(i)
    /\ inquiry[i] = "quotation" /\ order[i] = Nothing
    /\ Checks(u, "confirm", i, high)

\* ... and the inquiry's order is unique: a second one fails, whole.
ConfirmWrites(r) ==
    /\ Writes(r)
    /\ \/ /\ order[r.of] = Nothing
          /\ order' = [order EXCEPT ![r.of] = [status |-> "pending", high |-> r.with]]
          /\ inquiry' = [inquiry EXCEPT ![r.of] = "ordered"]
          /\ UNCHANGED <<planned, shipped, complaint, capa>>
          /\ Refreshes(r.user, {"orders", "inquiries"})
       \/ /\ order[r.of] # Nothing
          /\ UNCHANGED <<inquiry, order, planned, shipped, complaint, capa, page, behind>>

\* cancelOrder: pending, and the operational order can only be deleted without plans.
Cancellable(i) == order[i] # Nothing /\ order[i].status = "pending" /\ planned[i] = 0
Cancel(u, i) ==
    /\ Alone("cancel") /\ changes < MaxChanges /\ changes' = changes + 1
    /\ u = "page" => page["orders"][i] # Nothing
    /\ u = "page" => page["orders"][i].status = "pending"
    /\ Cancellable(i)
    /\ order' = [order EXCEPT ![i] = Nothing]
    /\ inquiry' = [inquiry EXCEPT ![i] = "quotation"]
    /\ UNCHANGED <<planned, shipped, complaint, capa, request>>
    /\ Refreshes(u, {"orders", "inquiries"})

-----------------------------------------------------------------------------
(* What planning and dispatch write into the sales order.                  *)

SetOrder(i, s) == order' = [order EXCEPT ![i].status = s]

\* planOrder: planned once the whole quantity is.
Plan(i, q) ==
    /\ Alone("plan") /\ changes < MaxChanges /\ changes' = changes + 1
    /\ order[i] # Nothing /\ planned[i] + q <= Quantity
    /\ planned' = [planned EXCEPT ![i] = @ + q]
    /\ SetOrder(i, IF planned[i] + q = Quantity THEN "planned" ELSE "pending")
    /\ UNCHANGED <<inquiry, shipped, complaint, capa, request>> /\ Refreshes("other", {})

\* releasePlan, of what is not yet made: planned as long as anything is.
Release(i, q) ==
    /\ Alone("plan") /\ changes < MaxChanges /\ changes' = changes + 1
    /\ planned[i] - q >= shipped[i]
    /\ planned' = [planned EXCEPT ![i] = @ - q]
    /\ SetOrder(i, IF planned[i] = q THEN "pending" ELSE "planned")
    /\ UNCHANGED <<inquiry, shipped, complaint, capa, request>> /\ Refreshes("other", {})

\* createDispatch: a part of what was made, the order dispatched with the last of it.
Ship(i, q) ==
    /\ Alone("ship") /\ changes < MaxChanges /\ changes' = changes + 1
    /\ shipped[i] + q <= planned[i]
    /\ shipped' = [shipped EXCEPT ![i] = @ + q]
    /\ order' = IF shipped[i] + q < Quantity THEN order ELSE [order EXCEPT ![i].status = "dispatched"]
    /\ UNCHANGED <<inquiry, planned, complaint, capa, request>> /\ Refreshes("other", {})

-----------------------------------------------------------------------------
(* Complaints and their CAPA.                                              *)

LogComplaint(u, k, i, high) ==
    /\ Alone("log") /\ changes < MaxChanges /\ changes' = changes + 1
    /\ complaint[k] = Nothing /\ shipped[i] > 0
    /\ complaint' = [complaint EXCEPT ![k] = [of |-> i, high |-> high, resolved |-> FALSE]]
    /\ capa' = [capa EXCEPT ![k] = [status |-> "open", complete |-> FALSE]]
    /\ UNCHANGED <<inquiry, order, planned, shipped, request>>
    /\ Refreshes(u, {"complaints"})

\* updateCapa: not of a closed one; it saves what the form holds.
Work(u, k, complete) ==
    /\ capa[k] # Nothing /\ capa[k].status # "closed"
    /\ Checks(u, "work", k, complete)
WorkWrites(r) ==
    /\ Writes(r)
    /\ capa' = [capa EXCEPT ![r.of] = [status |-> "in_progress", complete |-> r.with]]
    /\ UNCHANGED <<inquiry, order, planned, shipped, complaint>>
    /\ Refreshes(r.user, {"complaints"})

\* closeCapa: not closed before, the three answers filled in.
MayClose(k) == capa[k] # Nothing /\ capa[k].status # "closed" /\ capa[k].complete
Close(u, k) == MayClose(k) /\ Checks(u, "close", k, Nothing)
CloseWrites(r) ==
    /\ Writes(r)
    /\ capa' = [capa EXCEPT ![r.of].status = "closed"]
    /\ UNCHANGED <<inquiry, order, planned, shipped, complaint>>
    /\ Refreshes(r.user, {"complaints"})

\* Mutant: a complaint may be resolved whatever its CAPA.
MayResolveOpen(k) == complaint[k] # Nothing /\ ~complaint[k].resolved

\* resolveComplaint: not resolved before, its CAPA closed.
MayResolve(k) == complaint[k] # Nothing /\ ~complaint[k].resolved /\ capa[k].status = "closed"
Resolve(u, k) ==
    /\ u = "page" => page["complaints"][k] # Nothing
    /\ u = "page" => page["complaints"][k].capa = "closed" /\ ~page["complaints"][k].resolved
    /\ MayResolve(k)
    /\ Checks(u, "resolve", k, Nothing)
ResolveWrites(r) ==
    /\ Writes(r)
    /\ complaint' = [complaint EXCEPT ![r.of].resolved = TRUE]
    /\ UNCHANGED <<inquiry, order, planned, shipped, capa>>
    /\ Refreshes(r.user, {"complaints"})

Next ==
    \/ Opens
    \/ \E u \in Users, i \in Inquiries :
         \/ LogInquiry(u, i) \/ QuoteChecks(u, i) \/ Cancel(u, i)
         \/ \E high \in BOOLEAN : ConfirmChecks(u, i, high)
    \/ \E i \in Inquiries, q \in 1 .. Quantity : Plan(i, q) \/ Release(i, q) \/ Ship(i, q)
    \/ \E u \in Users, k \in Complaints :
         \/ \E i \in Inquiries, high \in BOOLEAN : LogComplaint(u, k, i, high)
         \/ \E complete \in BOOLEAN : Work(u, k, complete)
         \/ Close(u, k) \/ Resolve(u, k)
    \/ \E r \in request :
         \/ r.kind = "quote" /\ QuoteWrites(r)
         \/ r.kind = "confirm" /\ ConfirmWrites(r)
         \/ r.kind = "work" /\ WorkWrites(r)
         \/ r.kind = "close" /\ CloseWrites(r)
         \/ r.kind = "resolve" /\ ResolveWrites(r)

Spec == Init /\ [][Next]_vars

-----------------------------------------------------------------------------
(* The tiles above the lists, and the lists their chips select.            *)

ShownInquiries(chip) ==
    {i \in Inquiries : page["inquiries"][i] # Nothing /\
        CASE chip = "open" -> page["inquiries"][i] # "ordered"
          [] chip = "pending_quote" -> page["inquiries"][i] = "submitted"
          [] chip = "quotation" -> page["inquiries"][i] = "quotation"
          [] chip = "converted" -> page["inquiries"][i] = "ordered"}
ShownOrders(chip) ==
    {i \in Inquiries : page["orders"][i] # Nothing /\
        LET o == page["orders"][i]
        IN  CASE chip = "active" -> o.status # "dispatched"
              [] chip = "pending" -> o.status = "pending"
              [] chip = "high" -> o.high
              [] chip = "dispatched" -> o.status = "dispatched"}
OrderTile(tile) ==
    {i \in Inquiries : page["orders"][i] # Nothing /\
        LET o == page["orders"][i]
        IN  CASE tile = "active" -> o.status # "dispatched"
              [] tile = "awaitingPlan" -> o.status = "pending"
              [] tile = "high" -> o.high /\ o.status # "dispatched"
              [] tile = "dispatched" -> o.status = "dispatched"}
ShownComplaints(chip) ==
    {k \in Complaints : page["complaints"][k] # Nothing /\
        LET c == page["complaints"][k]
        IN  CASE chip = "open" -> ~c.resolved
              [] chip = "high" -> c.high /\ ~c.resolved
              [] chip = "capa_open" -> c.capa # "closed" /\ ~c.resolved
              [] chip = "resolved" -> c.resolved}

-----------------------------------------------------------------------------
(* Properties.                                                             *)

\* An inquiry that is ordered has its order, whatever quotations and confirmations overlap.
OrderedHasOrder == \A i \in Inquiries : inquiry[i] = "ordered" => order[i] # Nothing

\* No plan and no dispatch outlives the order it is for.
PlansHaveOrder == \A i \in Inquiries : planned[i] > 0 => order[i] # Nothing

\* A resolved complaint has a CAPA that is closed, with the three answers.
ResolvedIsAnswered ==
    \A k \in Complaints : complaint[k] # Nothing =>
        (complaint[k].resolved => capa[k].status = "closed" /\ capa[k].complete)

\* What nobody else changed, the page shows as it is after each request of its own.
PageFollows == \A l \in Lists \ behind : page[l] = Served[l]

\* On a page whose lists are fresh, an inquiry waits for a quotation, for confirmation, or
\* is an order; and what is resolved is not counted as an open CAPA.
PipelineComplete ==
    behind = {} =>
        /\ \A i \in Inquiries : inquiry[i] # Nothing =>
             \/ ReadyToQuote(i) \/ ReadyToConfirm(i) \/ i \in ShownOrders("active") \cup ShownOrders("dispatched")
        /\ ShownInquiries("converted") \subseteq OrderTile("active") \cup OrderTile("dispatched")
        /\ ShownComplaints("resolved") \cap ShownComplaints("capa_open") = {}
===============================================================================
