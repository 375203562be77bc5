--------------------------- MODULE MC_PlantServices ---------------------------
(***************************************************************************)
(* The services of the plant and the inbox its events enter, each checked  *)
(* on an instance of its own in one run: a behaviour is about one subject, *)
(* whose variables are x1, x2, ... in the order of its module, and the     *)
(* variables it does not use stay Nothing.                                 *)
(***************************************************************************)
EXTENDS Integers, Sequences, FiniteSets, TLC, TLAPS

CONSTANTS Subjects, Nothing,
          a1, a2, a3, v1, v2,   \* plans, machine slots
          m1, m2                \* members and clients

VARIABLES subject, x1, x2, x3, x4, x5, x6, x7, x8, x9, x10, x11, x12

\* The variables from the k-th on are not used by the subject.
Unused12 == x12 = Nothing
Unused11 == x11 = Nothing /\ Unused12
Unused10 == x10 = Nothing /\ Unused11
Unused9 == x9 = Nothing /\ Unused10
Unused8 == x8 = Nothing /\ Unused9
Unused7 == x7 = Nothing /\ Unused8
Unused6 == x6 = Nothing /\ Unused7
Unused5 == x5 = Nothing /\ Unused6
Unused4 == x4 = Nothing /\ Unused5
Unused3 == x3 = Nothing /\ Unused4
Same12 == UNCHANGED <<subject, x12>>
Same11 == UNCHANGED x11 /\ Same12
Same10 == UNCHANGED x10 /\ Same11
Same9 == UNCHANGED x9 /\ Same10
Same8 == UNCHANGED x8 /\ Same9
Same7 == UNCHANGED x7 /\ Same8
Same6 == UNCHANGED x6 /\ Same7
Same5 == UNCHANGED x5 /\ Same6
Same4 == UNCHANGED x4 /\ Same5
Same3 == UNCHANGED x3 /\ Same4

-----------------------------------------------------------------------------
(* Two overlapping submissions of one logbook, edited in between, so that    *)
(* their events name one aggregate, and the QA of a lot; and one completion  *)
(* of two lots, the second of which is held.                                 *)

Three(a, b, c) == <<a, b, c>>
Pair == INSTANCE PlantHandoff_proofs WITH
    Companies <- {"c1"}, Events <- 1..3, Kind <- Three("execution", "execution", "qa"),
    Aggregate <- Three("logbook", "logbook", "inspection1"),
    Home <- [e \in 1..3 |-> "c1"], NoCompany <- Nothing, Order <- [e \in 1..3 |-> "order"],
    Lots <- Three({"lot1", "lot2"}, {"lot1"}, {"lot1"}),
    Verdict <- [e \in 1..3 |-> "accepted"],
    Quantity <- [e \in 1..3 |-> 0], InvoiceQuantity <- [c \in {"c1"} |-> 0], Members <- {m1, m2},
    RefreshLimit <- 2, MaxInFlight <- 2,
    emitted <- x1, published <- x2, route <- x3, inbox <- x4, receipt <- x5, intake <- x6,
    accepting <- x7, voucher <- x8, disposition <- x9, qaEvidence <- x10, dispatched <- x11,
    unmapped <- x12
Held == INSTANCE PlantHandoff_proofs WITH
    Companies <- {"c1"}, Events <- 1..3, Kind <- Three("execution", "qa", "qa"),
    Aggregate <- Three("logbook", "inspection1", "inspection2"),
    Home <- [e \in 1..3 |-> "c1"], NoCompany <- Nothing, Order <- [e \in 1..3 |-> "order"],
    Lots <- Three({"lot1", "lot2"}, {"lot1"}, {"lot2"}),
    Verdict <- Three("accepted", "accepted", "hold"),
    Quantity <- [e \in 1..3 |-> 0], InvoiceQuantity <- [c \in {"c1"} |-> 0], Members <- {m1, m2},
    RefreshLimit <- 2, MaxInFlight <- 2,
    emitted <- x1, published <- x2, route <- x3, inbox <- x4, receipt <- x5, intake <- x6,
    accepting <- x7, voucher <- x8, disposition <- x9, qaEvidence <- x10, dispatched <- x11,
    unmapped <- x12

\* Two dispatches of two companies, one of them to be routed.
Routing == INSTANCE PlantHandoff_proofs WITH
    Companies <- {"c1", "c2"}, Events <- {1, 2}, Kind <- [e \in {1, 2} |-> "dispatch"],
    Aggregate <- <<"dispatch1", "dispatch2">>, Home <- <<Nothing, "c1">>, NoCompany <- Nothing,
    Order <- [e \in {1, 2} |-> "order"], Lots <- [e \in {1, 2} |-> {}],
    Verdict <- [e \in {1, 2} |-> "accepted"], Quantity <- <<2, 2>>,
    InvoiceQuantity <- [c \in {"c1", "c2"} |-> 3], Members <- {m1, m2},
    RefreshLimit <- 2, MaxInFlight <- 3,
    emitted <- x1, published <- x2, route <- x3, inbox <- x4, receipt <- x5, intake <- x6,
    accepting <- x7, voucher <- x8, disposition <- x9, qaEvidence <- x10, dispatched <- x11,
    unmapped <- x12

ASSUME HandoffsAssumed == Pair!HandoffAssumption /\ Held!HandoffAssumption /\ Routing!HandoffAssumption

-----------------------------------------------------------------------------
(* Two clients with two orders; and one client that takes an order through   *)
(* the plant.                                                                *)

Planned == INSTANCE PlantOrder_proofs WITH
    Orders <- {"o1", "o2"}, Plans <- {a1, a2, a3}, Clients <- {m1, m2}, Slots <- {v1, v2},
    Machine <- [s \in {v1, v2} |-> s], Lots <- {"l1"},
    OrderQuantity <- [o \in {"o1", "o2"} |-> IF o = "o1" THEN 1 ELSE 2],
    Sheets <- {[total |-> 1, lots |-> {"l1"}]}, NoPlan <- Nothing,
    status <- x1, plan <- x2, running <- x3, logbook <- x4, submitted <- x5, actuals <- x6,
    verdict <- x7, dispatched <- x8, tx <- x9

Plant == INSTANCE PlantOrder_proofs WITH
    Orders <- {"order"}, Plans <- {a1, a2}, Clients <- {m1}, Slots <- {v1, v2},
    Machine <- [s \in {v1, v2} |-> "machine"], Lots <- {"l1", "l2"},
    OrderQuantity <- [o \in {"order"} |-> 2],
    Sheets <- {[total |-> 1, lots |-> {"l1"}], [total |-> 2, lots |-> {"l1", "l2"}]},
    NoPlan <- Nothing,
    status <- x1, plan <- x2, running <- x3, logbook <- x4, submitted <- x5, actuals <- x6,
    verdict <- x7, dispatched <- x8, tx <- x9

ASSUME OrdersAssumed == Planned!PlantAssumption /\ Plant!PlantAssumption

-----------------------------------------------------------------------------
(* The logbook of a plan, filled in by two operators: one request at a time  *)
(* at the server, and with requests between check and write.                 *)

Filled == INSTANCE LogbookEntry WITH
    Clients <- {m1, m2}, Rolls <- {"roll"}, Templates <- {"coil", "pipe"}, Layouts <- {"guided", "paper"},
    Operations <- {"plan", "template"}, MaxEdits <- 2, MaxRevision <- 1, MaxLength <- 4,
    plan <- x1, templates <- x2, logbook <- x3, booked <- x4, page <- x5, call <- x6, edits <- x7
Cleared == INSTANCE LogbookEntry WITH
    Clients <- {m1, m2}, Rolls <- {"roll"}, Templates <- {"coil"}, Layouts <- {"panel", "mobile"},
    Operations <- {"clear"}, MaxEdits <- 2, MaxRevision <- 0, MaxLength <- 0,
    plan <- x1, templates <- x2, logbook <- x3, booked <- x4, page <- x5, call <- x6, edits <- x7
Overlapped == INSTANCE LogbookEntry WITH
    Clients <- {m1, m2}, Rolls <- {"roll"}, Templates <- {"coil"}, Layouts <- {"guided"},
    Operations <- {"overlap"}, MaxEdits <- 2, MaxRevision <- 0, MaxLength <- 0,
    plan <- x1, templates <- x2, logbook <- x3, booked <- x4, page <- x5, call <- x6, edits <- x7

\* One field by itself: its kind and what is in it.
FieldsInit == x1 \in Filled!FieldKinds /\ x2 \in Filled!FirstTexts(x1)
FieldsStep ==
    /\ \/ x2' \in Filled!Type(x1, x2)
       \/ x2' = Filled!normalizeLogbookFormats(x1, x2) /\ x2' # x2
    /\ UNCHANGED x1

-----------------------------------------------------------------------------
(* Roles, screens and plants: an administrator, a planner who may be given   *)
(* the access screen, the scope anchor and a role of the ERP.                *)

RoleRow(n, screens, system, admin, erp) == [name |-> n, screens |-> screens, system |-> system, admin |-> admin, erp |-> erp]
RoleRows == [r \in {"owner", "anchor", "erp", "r1", "r2"} |->
    CASE r = "owner" -> RoleRow("Owner", {}, TRUE, TRUE, FALSE) [] r = "anchor" -> RoleRow("Anchor", {}, TRUE, FALSE, FALSE)
      [] r = "erp" -> RoleRow("Erp", {}, FALSE, FALSE, TRUE)
      [] r = "r2" -> RoleRow("Day", {}, FALSE, FALSE, FALSE) [] OTHER -> RoleRow("Night", {"plan"}, FALSE, FALSE, FALSE)]
Rights == INSTANCE PlantAccess WITH
    Members <- {"o", "w"}, Roles <- DOMAIN RoleRows, Names <- {"Owner", "Anchor", "Erp", "Night", "Day", "New"},
    Screens <- {"users", "acl", "plan"}, Assignments <- 1..2,
    FirstAssignments <- [a \in 1..2 |-> IF a = 2 THEN Nothing ELSE [member |-> "w", role |-> "r2", plant |-> "p", status |-> "active", version |-> 0, window |-> "coming"]],
    Plants <- {"p", "q"},
    Users <- "users", Acl <- "acl", Desk <- "plan", DeskParts <- {}, BuiltIn <- [n \in {} |-> {}],
    AnchorName <- "Anchor", AllPlants <- "all",
    Overrides <- {[s \in {"users", "acl", "plan"} |-> IF s = "acl" THEN "on" ELSE "inherit"],
                  [s \in {"users", "acl", "plan"} |-> IF s = "plan" THEN "off" ELSE "inherit"]},
    FirstRoles <- RoleRows,
    FirstMembers <- [m \in {"o", "w"} |-> IF m = "o" THEN [role |-> "owner", roleName |-> "Owner", active |-> TRUE]
                                          ELSE [role |-> "r1", roleName |-> "Night", active |-> TRUE]],
    Legacy <- TRUE, Overlap <- FALSE, MaxChanges <- 2,
    role <- x1, member <- x2, grants <- x3, assignment <- x4, page <- x5, scoped <- x6, changes <- x7

ASSUME Rights!PlantAccessAssumption

-----------------------------------------------------------------------------
(* The platform: an organization with its owner, one to be created, a person *)
(* who may join both, and one control center.                                *)

Control == INSTANCE PlatformAccess WITH
    People <- {"o", "w"}, Orgs <- {"mill", "new"}, Services <- {"plant", "books"}, Sessions <- {"s"},
    Admins <- {"o"}, Books <- "books",
    FirstUsers <- [p \in {"o", "w"} |-> IF p = "o" THEN 1 ELSE Nothing],
    FirstMembers <- [k \in {"mill", "new"} \X {"o", "w"} |->
                       IF k = <<"mill", "o">> THEN [owner |-> TRUE, active |-> TRUE] ELSE Nothing],
    FirstServices <- [o \in {"mill", "new"} |-> IF o = "mill" THEN {"plant"} ELSE Nothing],
    Lost <- FALSE, Overlap <- FALSE, MaxChanges <- 4,
    service <- x1, org <- x2, user <- x3, member <- x4, keeper <- x5, session <- x6, checked <- x7,
    console <- x8, changes <- x9

ASSUME Control!PlatformAssumption

-----------------------------------------------------------------------------
(* The sales desk: an inquiry on its way to an order and a complaint, with   *)
(* a salesperson's page and somebody else.                                   *)

Desk == INSTANCE OrderDesk WITH
    Inquiries <- {"i"}, Complaints <- {"c"}, Quantity <- 2, Overlapping <- {"quote", "confirm"}, MaxChanges <- 9,
    inquiry <- x1, order <- x2, planned <- x3, shipped <- x4, complaint <- x5, capa <- x6, request <- x7,
    page <- x8, behind <- x9, changes <- x10

ASSUME Desk!OrderDeskAssumption

-----------------------------------------------------------------------------
(* Demand becoming orders: two events of one source that differ, one of      *)
(* another source that wants the same number, and a planner of each plant.   *)

Intake == INSTANCE PlantIntake WITH
    Events <- {"first", "again", "revised", "rival"},
    EventOf <- [e \in {"first", "again", "revised", "rival"} |->
                  [source |-> IF e = "rival" THEN "t" ELSE "s", version |-> IF e = "revised" THEN 2 ELSE 1,
                   number |-> "n1", plant |-> "north", stored |-> e # "again"]],
    Keys <- {"k"}, Numbers <- {"n1", "n2"},
    Planners <- [p \in {"planner", "both"} |-> IF p = "both" THEN {"north", "south"} ELSE {"north"}],
    Quantity <- 2, MaxChanges <- 5,
    receipt <- x1, link <- x2, order <- x3, published <- x4, modal <- x5, changes <- x6

ASSUME Intake!PlantIntakeAssumption

-----------------------------------------------------------------------------
(* The store of two plants with two keepers, one of them in both plants; and *)
(* the gate, with rules of three scopes.                                     *)

RuleFor(p, m, f, t, n) == [plant |-> p, movement |-> m, from |-> f, to |-> t, needs |-> n]
Rules == {RuleFor("*", "supply", 1, 1, {"invoice"}), RuleFor("north", "*", 1, Nothing, {"invoice", "eway"}),
          RuleFor("north", "*", 2, Nothing, {}), RuleFor("*", "*", 1, Nothing, {"eway"})}
Store == INSTANCE StoreAndGate WITH
    Keepers <- {"k1", "k2"}, PlantsOf <- [k \in {"k1", "k2"} |-> IF k = "k1" THEN {"north", "south"} ELSE {"north"}],
    Plants <- {"north", "south"}, Primary <- "north", Materials <- {"resin"}, Units <- {"kg"}, Kg <- "kg",
    Codes <- {"c1"}, Tasks <- {"t"}, MaxStock <- 1, MaxIssue <- 1,
    Members <- {}, Versions <- {}, Contents <- {}, All <- "*", Movements <- {"supply"}, Supply <- "supply", LastDay <- 1, RowLimit <- 2,
    Gates <- {}, Evidence <- {}, MaxDispatches <- 0, Environments <- {TRUE}, Bootstrap <- 0,
    ledger <- x1, page <- x2, issue <- x3, taken <- x4, machine <- x5, task <- x6,
    profile <- x7, approving <- x8, gate <- x9, dispatched <- x10, day <- x11, production <- x12
Gate == INSTANCE StoreAndGate WITH
    Keepers <- {}, PlantsOf <- [k \in {} |-> {}],
    Plants <- {"north"}, Primary <- "north", Materials <- {}, Units <- {"kg"}, Kg <- "kg",
    Codes <- {}, Tasks <- {}, MaxStock <- 1, MaxIssue <- 1,
    Members <- {m1, m2}, Versions <- 1..2, Contents <- Rules, All <- "*",
    Movements <- {"supply", "return"}, Supply <- "supply", LastDay <- 2, RowLimit <- 2,
    Gates <- {"g"}, Evidence <- [version : 1..2, holds : {{"invoice"}, {"invoice", "eway"}}, until : {2}], MaxDispatches <- 2,
    Environments <- BOOLEAN, Bootstrap <- 0,
    ledger <- x1, page <- x2, issue <- x3, taken <- x4, machine <- x5, task <- x6,
    profile <- x7, approving <- x8, gate <- x9, dispatched <- x10, day <- x11, production <- x12

ASSUME Store!StoreAndGateAssumption /\ Gate!StoreAndGateAssumption

-----------------------------------------------------------------------------
(* The formulations of a code: two revisions and one to come, with two        *)
(* requests; and a locked one and another, with the page of a planner.       *)

Recipe(a, l) == [active |-> a, locked |-> l, parts |-> <<800, 140, 60>>]
Recipes == INSTANCE Formulations WITH
    Clients <- {m1, m2}, Pages <- {}, FirstRevisions <- <<Recipe(FALSE, FALSE), Recipe(TRUE, FALSE), Nothing>>,
    MaxRevision <- 3, MaxChanges <- 4, Entries <- {}, Bare <- 0,
    revision <- x1, request <- x2, page <- x3, raced <- x4, switchedOff <- x5, changes <- x6
RecipePage == INSTANCE Formulations WITH
    Clients <- {"page"}, Pages <- {"page"}, FirstRevisions <- <<Recipe(FALSE, TRUE), Recipe(TRUE, FALSE)>>,
    MaxRevision <- 2, MaxChanges <- 1, Entries <- {0, 10}, Bare <- 0,
    revision <- x1, request <- x2, page <- x3, raced <- x4, switchedOff <- x5, changes <- x6

ASSUME Recipes!FormulationsAssumption /\ RecipePage!FormulationsAssumption


-----------------------------------------------------------------------------
(* One subject at a time.                                                  *)

Init ==
    /\ subject \in Subjects
    /\ \/ subject = "pair"    /\ Pair!Init
       \/ subject = "held"    /\ Held!Init
       \/ subject = "routing" /\ Routing!Init
       \/ subject = "orders"  /\ Planned!Init /\ Unused10
       \/ subject = "plant"   /\ Plant!Init /\ Unused10
       \/ subject = "logbook" /\ Filled!Init /\ Unused8
       \/ subject = "overlapped" /\ Overlapped!Init /\ Unused8
       \/ subject = "cleared" /\ Cleared!Init /\ Unused8
       \/ subject = "fields" /\ FieldsInit /\ Unused3
       \/ subject = "access" /\ Rights!Init /\ Unused8
       \/ subject = "platform" /\ Control!Init /\ Unused10
       \/ subject = "desk" /\ Desk!Init /\ Unused11
       \/ subject = "intake" /\ Intake!Init /\ Unused7
       \/ subject = "store" /\ Store!Init
       \/ subject = "gate" /\ Gate!Init
       \/ subject = "recipes" /\ Recipes!Init /\ Unused7
       \/ subject = "percent" /\ RecipePage!Init /\ Unused7

PairNext    == subject = "pair" /\ Pair!Next /\ UNCHANGED subject
HeldNext    == subject = "held" /\ Held!Next /\ UNCHANGED subject
RoutingNext == subject = "routing" /\ Routing!Next /\ UNCHANGED subject
OrdersNext  == subject = "orders" /\ Planned!Next /\ Same10
PlantNext   == subject = "plant" /\ Plant!Next /\ Same10
FilledNext == subject = "logbook" /\ Filled!Next /\ Same8
OverlappedNext == subject = "overlapped" /\ Overlapped!Next /\ Same8
ClearedNext == subject = "cleared" /\ Cleared!Next /\ Same8
FieldsNext == subject = "fields" /\ FieldsStep /\ Same3
RightsNext == subject = "access" /\ Rights!Next /\ Same8
ControlNext == subject = "platform" /\ Control!Next /\ Same10
DeskNext == subject = "desk" /\ Desk!Next /\ Same11
IntakeNext == subject = "intake" /\ Intake!Next /\ Same7
StoreNext == subject = "store" /\ Store!Next /\ UNCHANGED subject
GateNext == subject = "gate" /\ Gate!Next /\ UNCHANGED subject
RecipesNext == subject = "recipes" /\ Recipes!Next /\ Same7
RecipePageNext == subject = "percent" /\ RecipePage!Next /\ Same7
Next == PairNext \/ HeldNext \/ RoutingNext \/ OrdersNext \/ PlantNext \/ FilledNext \/ OverlappedNext \/ ClearedNext \/ FieldsNext \/ RightsNext \/ ControlNext \/ DeskNext \/ IntakeNext \/ StoreNext \/ GateNext \/ RecipesNext \/ RecipePageNext
vars == <<subject, x1, x2, x3, x4, x5, x6, x7, x8, x9, x10, x11, x12>>
Spec == Init /\ [][Next]_vars

Symmetry == Permutations({m1, m2}) \cup Permutations({a1, a2, a3}) \cup Permutations({v1, v2})

-----------------------------------------------------------------------------
(* Properties: those of the modules, by area.                              *)

\* Every variable of every service keeps its type.
PlantTypes ==
    CASE subject = "pair"    -> Pair!TypeOK
      [] subject = "held"    -> Held!TypeOK
      [] subject = "routing" -> Routing!TypeOK
      [] subject = "orders"  -> Planned!TypeOK
      [] subject = "plant"   -> Plant!TypeOK
      [] subject = "logbook" -> Filled!TypeOK
      [] subject = "overlapped" -> Overlapped!TypeOK
      [] subject = "cleared" -> Cleared!TypeOK
      [] subject = "fields" -> Filled!FieldTyped(x1, x2)
      [] subject = "access" -> Rights!TypeOK
      [] subject = "platform" -> Control!TypeOK
      [] subject = "desk" -> Desk!TypeOK
      [] subject = "intake" -> Intake!TypeOK
      [] subject = "store" -> Store!TypeOK
      [] subject = "gate" -> Gate!TypeOK
      [] subject = "recipes" -> Recipes!TypeOK
      [] subject = "percent" -> RecipePage!TypeOK

\* Inbox and receipt tell one story, and ERP evidence exists exactly for accepted events,
\* whatever acceptances fail half-way.
InboxSound ==
    /\ subject = "pair" => Pair!ReceiptMirrorsInbox /\ Pair!EvidenceIffAccepted
    /\ subject = "held" => Held!ReceiptMirrorsInbox /\ Held!EvidenceIffAccepted

\* No completion leaves draft without accepted QA for each of its lots.
ReviewedCompletionHasQa ==
    /\ subject = "pair" => Pair!ReviewedCompletionHasQa
    /\ subject = "held" => Held!ReviewedCompletionHasQa

\* Accepted and rejected are final, whatever transactions were in flight.
FinalStatesStay == [][(subject = "pair" => Pair!StaysFinal) /\ (subject = "held" => Held!StaysFinal)]_vars

\* An event lands in one inbox, and two dispatches accepted at once stay within the
\* linked invoice quantity.
RoutingSound == subject = "routing" => Routing!PublishedInOneInbox /\ Routing!DispatchWithinInvoice

\* Two planners at once: no order is planned or dispatched beyond its quantity.
QuantitiesKept == subject = "orders" => Planned!NoOverPlanning /\ Planned!NoOverDispatch

\* No machine slot is booked twice, however plans of several orders move.
NoDoubleBooking == subject = "orders" => Planned!NoDoubleBooking

\* The status of an order in planning is what its plans amount to.
StatusTellsPlanning == subject = "orders" => Planned!StatusTellsPlanning

\* With one client at a time, what is dispatched was completed in submitted logbooks and
\* released by QA.
DispatchBacked == subject = "plant" => Plant!DispatchBacked

\* A closed logbook is complete, its raw material is booked by the figures it shows, its
\* totals are those of its register and its template exists, whoever saved last; and the
\* formulation it names is one.
LogbooksKept ==
    /\ subject = "recipes" => Recipes!OneInUse /\ Recipes!NeverWithout
    /\ subject = "percent" => RecipePage!NormalizedTotals
    /\ subject = "logbook" => Filled!BookedAsClosed /\ Filled!TotalsDerived /\ Filled!ClosedPageAgrees /\ Filled!TemplatesKept
    /\ subject = "cleared" => Cleared!BookedAsClosed /\ Cleared!ClosedPageAgrees
    /\ subject = "fields" => Filled!Settled(x1, x2) /\ Filled!NumbersComeOut(x1, x2) /\ Filled!ClockAndCalendar(x1, x2)
    /\ subject = "overlapped" => Overlapped!TotalsDerived /\ Overlapped!TemplatesKept

\* Who was once assigned plants keeps to them, names follow roles, and the access page
\* shows what the server enforces.
AccountsSound ==
    /\ subject = "access" => /\ Rights!ScopeRemembered /\ Rights!NamesFollow
                             /\ Rights!EmployeesHaveRoles /\ Rights!PageShowsAccess
    /\ subject = "platform" => /\ Control!ListedAreOpen /\ Control!SessionsFresh /\ Control!ConsoleTells

\* The sales desk of the plant keeps orders, plans and inquiries together, resolves only
\* complaints whose CAPA is answered, and shows what its own requests did; demand of a source
\* becomes one order, a change of it shows, and plans fit the order whatever a planner was shown.
DeskSound ==
    /\ subject = "intake" => /\ Intake!OneOrderPerSource /\ Intake!ReceiptTells /\ Intake!ChangeShows
                             /\ Intake!WithinPlants /\ Intake!BalanceKept /\ Intake!DeliveredHasReceipt
    /\ subject = "store" => Store!StoreCovers
    /\ subject = "gate" => Gate!RulesDiffer /\ Gate!LeftUnderRules
    /\ subject = "desk" => /\ Desk!OrderedHasOrder /\ Desk!PlansHaveOrder /\ Desk!ResolvedIsAnswered
                        /\ Desk!PageFollows /\ Desk!PipelineComplete

\* "Once immutable QA evidence arrives, the draft is refreshed": no draft is left with a
\* disposition its QA evidence contradicts.
QaReachesDraft == subject = "held" => Held!QaReachesDraft

\* "Booked exactly once, since a submitted logbook is locked against re-submit."
BookedOnce == subject = "orders" => Planned!BookedOnce

-----------------------------------------------------------------------------
(* Theorems: what is proved of the handoff and of the orders for every value *)
(* of their constants is so of the subjects of this module, whatever the     *)
(* members, plans and slots given to it are.                                 *)

\* A behaviour is about one subject.
LEMMA SubjectKept == [Next]_vars => subject' = subject
  BY DEF Next, vars, PairNext, HeldNext, RoutingNext, OrdersNext, PlantNext, FilledNext, OverlappedNext, ClearedNext,
    FieldsNext, RightsNext, ControlNext, DeskNext, IntakeNext, StoreNext, GateNext, RecipesNext, RecipePageNext,
    Same3, Same4, Same5, Same6, Same7, Same8, Same9, Same10, Same11, Same12

\* While the subject is "pair", the run is a behaviour of Pair.
LEMMA PairSteps ==
    /\ Init /\ subject = "pair" => Pair!Init
    /\ [Next]_vars /\ subject = "pair" => [Pair!Next]_(Pair!vars) /\ subject' = "pair"
    /\ [Next]_vars /\ subject # "pair" => subject' # "pair"
<1>1. Init /\ subject = "pair" => Pair!Init
  BY DEF Init
<1>2. [Next]_vars /\ subject = "pair" => [Pair!Next]_(Pair!vars)
  BY DEF Next, vars, Pair!vars, PairNext, HeldNext, RoutingNext, OrdersNext, PlantNext, FilledNext, OverlappedNext, ClearedNext,
    FieldsNext, RightsNext, ControlNext, DeskNext, IntakeNext, StoreNext, GateNext, RecipesNext, RecipePageNext
<1> QED BY <1>1, <1>2, SubjectKept

\* While the subject is "held", the run is a behaviour of Held.
LEMMA HeldSteps ==
    /\ Init /\ subject = "held" => Held!Init
    /\ [Next]_vars /\ subject = "held" => [Held!Next]_(Held!vars) /\ subject' = "held"
    /\ [Next]_vars /\ subject # "held" => subject' # "held"
<1>1. Init /\ subject = "held" => Held!Init
  BY DEF Init
<1>2. [Next]_vars /\ subject = "held" => [Held!Next]_(Held!vars)
  BY DEF Next, vars, Held!vars, PairNext, HeldNext, RoutingNext, OrdersNext, PlantNext, FilledNext, OverlappedNext, ClearedNext,
    FieldsNext, RightsNext, ControlNext, DeskNext, IntakeNext, StoreNext, GateNext, RecipesNext, RecipePageNext
<1> QED BY <1>1, <1>2, SubjectKept

\* While the subject is "routing", the run is a behaviour of Routing.
LEMMA RoutingSteps ==
    /\ Init /\ subject = "routing" => Routing!Init
    /\ [Next]_vars /\ subject = "routing" => [Routing!Next]_(Routing!vars) /\ subject' = "routing"
    /\ [Next]_vars /\ subject # "routing" => subject' # "routing"
<1>1. Init /\ subject = "routing" => Routing!Init
  BY DEF Init
<1>2. [Next]_vars /\ subject = "routing" => [Routing!Next]_(Routing!vars)
  BY DEF Next, vars, Routing!vars, PairNext, HeldNext, RoutingNext, OrdersNext, PlantNext, FilledNext, OverlappedNext, ClearedNext,
    FieldsNext, RightsNext, ControlNext, DeskNext, IntakeNext, StoreNext, GateNext, RecipesNext, RecipePageNext
<1> QED BY <1>1, <1>2, SubjectKept

\* While the subject is "orders", the run is a behaviour of Planned.
LEMMA OrdersSteps ==
    /\ Init /\ subject = "orders" => Planned!Init
    /\ [Next]_vars /\ subject = "orders" => [Planned!Next]_(Planned!vars) /\ subject' = "orders"
    /\ [Next]_vars /\ subject # "orders" => subject' # "orders"
<1>1. Init /\ subject = "orders" => Planned!Init
  BY DEF Init
<1>2. [Next]_vars /\ subject = "orders" => [Planned!Next]_(Planned!vars)
  BY DEF Next, vars, Planned!vars, Planned!bookVars, PairNext, HeldNext, RoutingNext, OrdersNext, PlantNext, FilledNext, OverlappedNext, ClearedNext,
    FieldsNext, RightsNext, ControlNext, DeskNext, IntakeNext, StoreNext, GateNext, RecipesNext, RecipePageNext
<1> QED BY <1>1, <1>2, SubjectKept

\* While the subject is "plant", the run is a behaviour of Plant.
LEMMA PlantSteps ==
    /\ Init /\ subject = "plant" => Plant!Init
    /\ [Next]_vars /\ subject = "plant" => [Plant!Next]_(Plant!vars) /\ subject' = "plant"
    /\ [Next]_vars /\ subject # "plant" => subject' # "plant"
<1>1. Init /\ subject = "plant" => Plant!Init
  BY DEF Init
<1>2. [Next]_vars /\ subject = "plant" => [Plant!Next]_(Plant!vars)
  BY DEF Next, vars, Plant!vars, Plant!bookVars, PairNext, HeldNext, RoutingNext, OrdersNext, PlantNext, FilledNext, OverlappedNext, ClearedNext,
    FieldsNext, RightsNext, ControlNext, DeskNext, IntakeNext, StoreNext, GateNext, RecipesNext, RecipePageNext
<1> QED BY <1>1, <1>2, SubjectKept

\* Inbox, receipt and ERP evidence of the two subjects tell one story in every reachable state,
\* whatever acceptances fail half-way (handoffService.ts: acceptInboxEvent, failure path included).
THEOREM InboxStaysSound == Spec => []InboxSound
<1> DEFINE InPair == subject = "pair"
           InHeld == subject = "held"
<1>1. Init /\ InPair => Pair!Init
  BY PairSteps
<1>2. [Next]_vars /\ InPair => [Pair!Next]_(Pair!vars) /\ InPair'
  BY PairSteps
<1>3. [Next]_vars /\ ~InPair => ~InPair'
  BY PairSteps
<1>4. Pair!Spec => []Pair!ReceiptMirrorsInbox
  BY HandoffsAssumed, Pair!ReceiptsMirror
<1>5. Pair!Spec => []Pair!EvidenceIffAccepted
  BY HandoffsAssumed, Pair!EvidenceOfAccepted
<1>6. Init /\ InHeld => Held!Init
  BY HeldSteps
<1>7. [Next]_vars /\ InHeld => [Held!Next]_(Held!vars) /\ InHeld'
  BY HeldSteps
<1>8. [Next]_vars /\ ~InHeld => ~InHeld'
  BY HeldSteps
<1>9. Held!Spec => []Held!ReceiptMirrorsInbox
  BY HandoffsAssumed, Held!ReceiptsMirror
<1>10. Held!Spec => []Held!EvidenceIffAccepted
  BY HandoffsAssumed, Held!EvidenceOfAccepted
<1>11. (InPair => Pair!ReceiptMirrorsInbox /\ Pair!EvidenceIffAccepted) /\ (InHeld => Held!ReceiptMirrorsInbox /\ Held!EvidenceIffAccepted) => InboxSound
  BY DEF InboxSound
<1> HIDE DEF InPair, InHeld
<1> QED BY <1>1, <1>2, <1>3, <1>4, <1>5, <1>6, <1>7, <1>8, <1>9, <1>10, <1>11, PTL DEF Spec, Pair!Spec, Held!Spec

\* No completion of the two subjects leaves draft without accepted QA for each of its lots
\* (handoffService.ts: effective disposition at acceptance, refreshCompletionDrafts).
THEOREM ReviewedStaysBacked == Spec => []ReviewedCompletionHasQa
<1> DEFINE InPair == subject = "pair"
           InHeld == subject = "held"
<1>1. Init /\ InPair => Pair!Init
  BY PairSteps
<1>2. [Next]_vars /\ InPair => [Pair!Next]_(Pair!vars) /\ InPair'
  BY PairSteps
<1>3. [Next]_vars /\ ~InPair => ~InPair'
  BY PairSteps
<1>4. Pair!Spec => []Pair!ReviewedCompletionHasQa
  BY HandoffsAssumed, Pair!ReviewedHasQa
<1>5. Init /\ InHeld => Held!Init
  BY HeldSteps
<1>6. [Next]_vars /\ InHeld => [Held!Next]_(Held!vars) /\ InHeld'
  BY HeldSteps
<1>7. [Next]_vars /\ ~InHeld => ~InHeld'
  BY HeldSteps
<1>8. Held!Spec => []Held!ReviewedCompletionHasQa
  BY HandoffsAssumed, Held!ReviewedHasQa
<1>9. (InPair => Pair!ReviewedCompletionHasQa) /\ (InHeld => Held!ReviewedCompletionHasQa) => ReviewedCompletionHasQa
  BY DEF ReviewedCompletionHasQa
<1> HIDE DEF InPair, InHeld
<1> QED BY <1>1, <1>2, <1>3, <1>4, <1>5, <1>6, <1>7, <1>8, <1>9, PTL DEF Spec, Pair!Spec, Held!Spec

\* An event is in the inbox of one company, and dispatches accepted at once stay within the linked
\* invoice (handoffService.ts: receive, acceptDispatch; integrationOutboxWorker.ts: deliverMesaOpsEvent).
THEOREM RoutingStaysSound == Spec => []RoutingSound
<1> DEFINE InRouting == subject = "routing"
<1>1. Init /\ InRouting => Routing!Init
  BY RoutingSteps
<1>2. [Next]_vars /\ InRouting => [Routing!Next]_(Routing!vars) /\ InRouting'
  BY RoutingSteps
<1>3. [Next]_vars /\ ~InRouting => ~InRouting'
  BY RoutingSteps
<1>4. Routing!Spec => []Routing!PublishedInOneInbox
  BY HandoffsAssumed, Routing!OneInbox
<1>5. Routing!Spec => []Routing!DispatchWithinInvoice
  BY HandoffsAssumed, Routing!DispatchesCapped
<1>6. (InRouting => Routing!PublishedInOneInbox /\ Routing!DispatchWithinInvoice) => RoutingSound
  BY DEF RoutingSound
<1> HIDE DEF InRouting
<1> QED BY <1>1, <1>2, <1>3, <1>4, <1>5, <1>6, PTL DEF Spec, Routing!Spec

\* No machine slot is booked twice by the two planners (planning/service.ts: assertNoClash).
THEOREM BookingsStayApart == Spec => []NoDoubleBooking
<1> DEFINE InPlanned == subject = "orders"
<1>1. Init /\ InPlanned => Planned!Init
  BY OrdersSteps
<1>2. [Next]_vars /\ InPlanned => [Planned!Next]_(Planned!vars) /\ InPlanned'
  BY OrdersSteps
<1>3. [Next]_vars /\ ~InPlanned => ~InPlanned'
  BY OrdersSteps
<1>4. Planned!Spec => []Planned!NoDoubleBooking
  BY OrdersAssumed, Planned!SlotsBookedOnce
<1>5. (InPlanned => Planned!NoDoubleBooking) => NoDoubleBooking
  BY DEF NoDoubleBooking
<1> HIDE DEF InPlanned
<1> QED BY <1>1, <1>2, <1>3, <1>4, <1>5, PTL DEF Spec, Planned!Spec

\* The two planners plan and dispatch no order beyond its quantity (planning/service.ts,
\* dispatch/service.ts: the remaining quantity under the order lock).
THEOREM QuantitiesStayKept == Spec => []QuantitiesKept
<1> DEFINE InPlanned == subject = "orders"
<1>1. Init /\ InPlanned => Planned!Init
  BY OrdersSteps
<1>2. [Next]_vars /\ InPlanned => [Planned!Next]_(Planned!vars) /\ InPlanned'
  BY OrdersSteps
<1>3. [Next]_vars /\ ~InPlanned => ~InPlanned'
  BY OrdersSteps
<1>4. Planned!Spec => [](Planned!NoOverPlanning /\ Planned!NoOverDispatch)
  BY OrdersAssumed, Planned!QuantitiesBounded
<1>5. (InPlanned => Planned!NoOverPlanning /\ Planned!NoOverDispatch) => QuantitiesKept
  BY DEF QuantitiesKept
<1> HIDE DEF InPlanned
<1> QED BY <1>1, <1>2, <1>3, <1>4, <1>5, PTL DEF Spec, Planned!Spec

\* The status of the two planners' orders in planning is what their plans amount to
\* (planning/service.ts: the status writes of create, update and release).
THEOREM StatusStaysTrue == Spec => []StatusTellsPlanning
<1> DEFINE InPlanned == subject = "orders"
<1>1. Init /\ InPlanned => Planned!Init
  BY OrdersSteps
<1>2. [Next]_vars /\ InPlanned => [Planned!Next]_(Planned!vars) /\ InPlanned'
  BY OrdersSteps
<1>3. [Next]_vars /\ ~InPlanned => ~InPlanned'
  BY OrdersSteps
<1>4. Planned!Spec => []Planned!StatusTellsPlanning
  BY OrdersAssumed, Planned!StatusFollowsPlans
<1>5. (InPlanned => Planned!StatusTellsPlanning) => StatusTellsPlanning
  BY DEF StatusTellsPlanning
<1> HIDE DEF InPlanned
<1> QED BY <1>1, <1>2, <1>3, <1>4, <1>5, PTL DEF Spec, Planned!Spec

\* What the one client dispatches was completed in submitted logbooks and released by QA
\* (dispatch/service.ts: dispatchEvidence).
THEOREM DispatchStaysBacked == Spec => []DispatchBacked
<1> DEFINE InPlant == subject = "plant"
<1>1. Init /\ InPlant => Plant!Init
  BY PlantSteps
<1>2. [Next]_vars /\ InPlant => [Plant!Next]_(Plant!vars) /\ InPlant'
  BY PlantSteps
<1>3. [Next]_vars /\ ~InPlant => ~InPlant'
  BY PlantSteps
<1>4. Plant!Spec => []Plant!DispatchBacked
  BY OrdersAssumed, Plant!DispatchesBacked
<1>5. (InPlant => Plant!DispatchBacked) => DispatchBacked
  BY DEF DispatchBacked
<1> HIDE DEF InPlant
<1> QED BY <1>1, <1>2, <1>3, <1>4, <1>5, PTL DEF Spec, Plant!Spec

\* No step of the two subjects changes an accepted or rejected inbox row (handoffService.ts:
\* the status checks under the row lock of every transition).
THEOREM FinalStatesAreKept == Spec => FinalStatesStay
<1> DEFINE InPair == subject = "pair"
           InHeld == subject = "held"
           PairStays == InPair => Pair!StaysFinal
           HeldStays == InHeld => Held!StaysFinal
<1>1. (Init /\ InPair => Pair!Init) /\ (Init /\ InHeld => Held!Init)
  BY PairSteps, HeldSteps
<1>2. [Next]_vars /\ InPair => [Pair!Next]_(Pair!vars) /\ InPair'
  BY PairSteps
<1>3. [Next]_vars /\ InHeld => [Held!Next]_(Held!vars) /\ InHeld'
  BY HeldSteps
<1>4. ([Next]_vars /\ ~InPair => ~InPair') /\ ([Next]_vars /\ ~InHeld => ~InHeld')
  BY PairSteps, HeldSteps
<1>5. (Pair!Spec => Pair!FinalStatesStay) /\ (Held!Spec => Held!FinalStatesStay)
  BY HandoffsAssumed, Pair!FinalStates, Held!FinalStates
<1>6. [Pair!StaysFinal]_(Pair!vars) => PairStays
  BY DEF Pair!StaysFinal, Pair!vars
<1>7. [Held!StaysFinal]_(Held!vars) => HeldStays
  BY DEF Held!StaysFinal, Held!vars
<1>8. ~InPair => PairStays
  OBVIOUS
<1>9. ~InHeld => HeldStays
  OBVIOUS
<1>10. PairStays /\ HeldStays <=> (subject = "pair" => Pair!StaysFinal) /\ (subject = "held" => Held!StaysFinal)
  OBVIOUS
<1> HIDE DEF InPair, InHeld, PairStays, HeldStays
<1>11. Spec => [][PairStays /\ HeldStays]_vars
  BY <1>1, <1>2, <1>3, <1>4, <1>5, <1>6, <1>7, <1>8, <1>9, PTL
     DEF Spec, Pair!Spec, Held!Spec, Pair!FinalStatesStay, Held!FinalStatesStay
<1> QED BY <1>10, <1>11, PTL DEF FinalStatesStay
=============================================================================
