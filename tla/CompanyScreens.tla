---------------------------- MODULE CompanyScreens ----------------------------
(***************************************************************************)
(* What the company workspace of MesaERP shows.  Every list is a query     *)
(* cached in the browser under a hierarchical key; a list is fetched when  *)
(* a view that shows it opens and its copy is stale, and an action that    *)
(* succeeds invalidates the lists under the keys it names.  Row versions   *)
(* in a list go back to the server with the next action on a row, so a     *)
(* list that stays behind makes the next action fail.                      *)
(*                                                                         *)
(* The cache keeps lists apart, so one list is watched, whichever it is.   *)
(* Its content is a counter: how often the server changed what it shows.   *)
(* The lists come first, as constants: what each shows, its key, the views *)
(* that show it, and the actions these offer, with what an action writes   *)
(* and the keys it invalidates.                                            *)
(***************************************************************************)
EXTENDS Integers, SequencesExt

CONSTANTS Nothing, MaxVersion

\* The entries of two tables.
f ++ g == [x \in DOMAIN f \cup DOMAIN g |-> IF x \in DOMAIN f THEN f[x] ELSE g[x]]

-----------------------------------------------------------------------------
(* What the lists show: the tables of the server.                          *)

ShellShows ==
    [entities |-> {"entities"}, accounts |-> {"accounts"}, vendors |-> {"vendors"},
     vouchers |-> {"vouchers"}, roles |-> {"roles"}, permissions |-> {},
     assignments |-> {"assignments", "roles"}]
PurchaseShows ==
    [requisitions |-> {"requisitions"}, orders |-> {"orders"}, receipts |-> {"receipts"},
     invoices |-> {"invoices"}, matches |-> {"matches"}]
WorkspaceShows ==
    [workspace |-> {"vendors", "rfqs", "agreements", "orders", "acknowledgements", "asns", "vendorDocuments",
                    "changeCases", "disputes", "proposals", "invoices", "receipts", "matches", "evidence"}]
CommercialShows ==
    [customers |-> {"customers"}, salesOrders |-> {"salesOrders"}, salesInvoices |-> {"salesInvoices"}]
ManufacturingShows ==
    [demands |-> {"demands"}, manufacturing |-> {"manufacturing", "batchCosts"}, batchCosts |-> {"batchCosts"}]
InventoryShows ==
    [items |-> {"items"}, warehouses |-> {"warehouses"},
     balances |-> {"movements", "items", "warehouses"}, ledger |-> {"movements", "items", "warehouses"}]
PlanningShows ==
    [boms |-> {"boms"}, forecasts |-> {"forecasts"}, reservations |-> {"reservations"}, runs |-> {"runs"},
     transfers |-> {"transfers"}, policy |-> {"items"},
     atp |-> {"movements", "reservations", "orders", "demands", "items"}]
FinanceShows ==
    [accountTree |-> {"accounts"}, periods |-> {"periods"}, banks |-> {"banks"}, assets |-> {"assets"},
     budgets |-> {"budgets"}, pairs |-> {"pairs"}, report |-> {"journal", "accounts", "budgets"}]
ComplianceShows ==
    [profiles |-> {"profiles"}, outbound |-> {"outbound"}, eWayBills |-> {"eWayBills"},
     inbound |-> {"inbound"}, gstr2b |-> {"gstr2b"}]
HandoffShows == [handoffs |-> {"erpEvents"}, opsReturns |-> {"opsEvents"}]

Shows == ShellShows ++ PurchaseShows ++ WorkspaceShows ++ CommercialShows ++ ManufacturingShows ++ InventoryShows
         ++ PlanningShows ++ FinanceShows ++ ComplianceShows ++ HandoffShows
Lists == DOMAIN Shows

-----------------------------------------------------------------------------
(* Keys, below ["mesaerp", entityId].                                      *)

ErpKeys ==
    [entities |-> <<"entities">>, accounts |-> <<"accounts">>, vendors |-> <<"vendors">>,
     vouchers |-> <<"vouchers">>, roles |-> <<"roles">>, permissions |-> <<"permissions">>,
     assignments |-> <<"role-assignments">>,
     requisitions |-> <<"source-to-pay", "purchase_requisition">>, orders |-> <<"source-to-pay", "purchase_order">>,
     receipts |-> <<"source-to-pay", "goods_receipt">>, invoices |-> <<"source-to-pay", "supplier_invoice">>,
     matches |-> <<"purchase-matches">>, workspace |-> <<"supplier-workspace">>,
     customers |-> <<"commercial", "customers">>, salesOrders |-> <<"commercial", "sales_order">>,
     salesInvoices |-> <<"commercial", "sales_invoice">>,
     demands |-> <<"manufacturing", "production-demands">>, manufacturing |-> <<"manufacturing", "vouchers">>,
     batchCosts |-> <<"manufacturing", "batch-costs">>]
PanelKeys ==
    [l \in DOMAIN InventoryShows |-> <<"valued-inventory", l>>]
    ++ [l \in DOMAIN PlanningShows |-> <<"planning", l>>]
    ++ [l \in DOMAIN FinanceShows |-> <<"finance-controls", l>>]
    ++ [l \in DOMAIN ComplianceShows |-> <<"india-compliance", l>>]
    ++ [handoffs |-> <<"handoff-inbox", "mesaerp-to-mesaops">>, opsReturns |-> <<"handoff-inbox", "mesaops-to-mesaerp">>]
KeyOf == ErpKeys ++ PanelKeys

\* Mutant: a key invalidates only itself.
UnderExactly(l, key) == KeyOf[l] = key

\* invalidateQueries matches every key that starts with the one it is given.
Under(l, key) == IsPrefix(key, KeyOf[l])

-----------------------------------------------------------------------------
(* Actions of the views: what they write on the server, and the keys they  *)
(* invalidate when they succeed.                                           *)

Does(writes, refreshes) == [writes |-> writes, refreshes |-> refreshes]
Only(tables, key) == Does(tables, {<<key>>})

ShellActions ==
    [createVendor |-> Only({"vendors"}, "vendors"), transitionVendor |-> Only({"vendors"}, "vendors"),
     saveVoucher |-> Only({"vouchers"}, "vouchers"), reverseVoucher |-> Only({"vouchers"}, "vouchers"),
     postVoucher |-> Only({"vouchers", "journal", "movements", "assets"}, "vouchers")]
RoleActions ==
    [replacePermissions |-> Does({"roles"}, {<<"roles">>, <<"permissions">>, <<"role-assignments">>}),
     createRole |-> Does({"roles"}, {<<"roles">>, <<"role-assignments">>}),
     assignRole |-> Only({"assignments"}, "role-assignments"), revokeRole |-> Only({"assignments"}, "role-assignments")]

PurchaseKeys == {<<"source-to-pay">>, <<"purchase-matches">>}
PurchaseActions ==
    [createDocument |-> Only({"requisitions", "orders", "receipts", "invoices"}, "source-to-pay"),
     submitDocument |-> Does({"requisitions", "orders", "receipts", "invoices"}, PurchaseKeys),
     approveRequest |-> Does({"requisitions", "orders"}, PurchaseKeys),
     approveReceipt |-> Does({"receipts", "invoices", "vouchers"}, PurchaseKeys),
     createMatch |-> Only({"matches"}, "purchase-matches"), approveMatch |-> Only({"matches"}, "purchase-matches")]

SupplierActions ==
    [a \in {"createRfq", "issueRfq"} |-> Only({"rfqs"}, "supplier-workspace")]
    ++ [selectQuotation |-> Only({"rfqs", "agreements"}, "supplier-workspace"),
        activateAgreement |-> Only({"agreements"}, "supplier-workspace"),
        addDocument |-> Does({"vendorDocuments"}, {<<"supplier-workspace">>, <<"vendors">>}),
        reviewDocument |-> Does({"vendorDocuments", "vendors"}, {<<"supplier-workspace">>, <<"vendors">>}),
        decideChange |-> Does({"changeCases", "vendors"}, {<<"supplier-workspace">>, <<"vendors">>}),
        raiseDispute |-> Only({"disputes"}, "supplier-workspace"), resolveDispute |-> Only({"disputes"}, "supplier-workspace"),
        proposePayment |-> Only({"proposals"}, "supplier-workspace"),
        approvePayment |-> Does({"proposals", "vouchers"}, {<<"supplier-workspace">>, <<"vouchers">>})]

CommercialActions ==
    [createCustomer |-> Does({"customers"}, {<<"commercial", "customers">>}),
     createSalesDocument |-> Only({"salesOrders", "salesInvoices"}, "commercial"),
     submitSalesDocument |-> Does({"salesOrders", "salesInvoices"},
                                  {<<"commercial">>, <<"manufacturing", "production-demands">>}),
     approveSalesDocument |-> Does({"salesOrders", "salesInvoices", "vouchers"},
                                   {<<"commercial">>, <<"manufacturing", "production-demands">>})]
ManufacturingActions ==
    [saveDemand |-> Does({"demands"}, {<<"manufacturing", "production-demands">>}),
     releaseDemand |-> Does({"demands", "erpEvents"}, {<<"manufacturing", "production-demands">>}),
     saveManufacturing |-> Only({"manufacturing"}, "manufacturing"),
     approveManufacturing |-> Only({"manufacturing", "vouchers"}, "manufacturing"),
     postManufacturing |-> Only({"manufacturing", "batchCosts", "demands"}, "manufacturing")]

InventoryActions ==
    [saveItem |-> Only({"items"}, "valued-inventory"), saveWarehouse |-> Only({"warehouses"}, "valued-inventory"),
     adjustStock |-> Only({"vouchers"}, "valued-inventory"), transferStock |-> Only({"vouchers"}, "valued-inventory"),
     countStock |-> Only({"vouchers"}, "valued-inventory")]
PlanningActions ==
    [updatePolicy |-> Only({"items"}, "planning"), saveBom |-> Only({"boms"}, "planning"),
     saveForecast |-> Only({"forecasts"}, "planning"), saveReservation |-> Only({"reservations"}, "planning"),
     runMrp |-> Only({"runs"}, "planning"), decideSuggestion |-> Only({"runs"}, "planning"),
     releaseSuggestion |-> Only({"runs", "requisitions", "demands", "transfers"}, "planning")]
FinanceActions ==
    [saveAccount |-> Only({"accounts"}, "finance-controls"), movePeriod |-> Only({"periods"}, "finance-controls"),
     reconcile |-> Only({"banks"}, "finance-controls"), saveAsset |-> Only({"assets"}, "finance-controls"),
     proposeAssetVoucher |-> Only({"assets", "vouchers"}, "finance-controls"),
     saveBudget |-> Only({"budgets"}, "finance-controls"),
     createPair |-> Only({"pairs", "vouchers"}, "finance-controls"),
     eliminate |-> Only({"vouchers"}, "finance-controls"), consolidate |-> Does({}, {})]
ComplianceActions ==
    [saveProfile |-> Only({"profiles"}, "india-compliance"), file |-> Only({"outbound"}, "india-compliance"),
     fileEWayBill |-> Only({"eWayBills"}, "india-compliance"), recordInbound |-> Only({"inbound"}, "india-compliance"),
     uploadGstr2b |-> Only({"gstr2b"}, "india-compliance")]
HandoffActions ==
    [acceptHandoff |-> Does({"erpEvents"}, {<<"handoff-inbox", "mesaerp-to-mesaops">>}),
     receiveReturn |-> Does({"opsEvents"}, {<<"handoff-inbox", "mesaops-to-mesaerp">>}),
     decideReturn |-> Does({"opsEvents"}, {<<"handoff-inbox", "mesaops-to-mesaerp">>}),
     acceptReturn |-> Does({"opsEvents", "manufacturing", "vouchers"}, {<<"handoff-inbox", "mesaops-to-mesaerp">>})]

Actions == ShellActions ++ RoleActions ++ PurchaseActions ++ SupplierActions ++ CommercialActions ++ ManufacturingActions
           ++ InventoryActions ++ PlanningActions ++ FinanceActions ++ ComplianceActions ++ HandoffActions

\* Of one of the Actions, and of a list.
Affects(does, l) == does.writes \cap Shows[l] # {}
Refreshes(does, l) == \E key \in does.refreshes : Under(l, key)

-----------------------------------------------------------------------------
(* Views: the lists of the shell are always mounted, a panel mounts its    *)
(* own.  Each view offers its own actions.                                 *)

ShellLists == DOMAIN ShellShows \cup DOMAIN PurchaseShows \cup DOMAIN CommercialShows \cup DOMAIN ManufacturingShows
PanelLists ==
    [sourceToPay |-> {"workspace", "accounts"}, inventory |-> DOMAIN InventoryShows,
     planning |-> DOMAIN PlanningShows \cup {"items", "warehouses"},
     financeBooks |-> {"accountTree", "periods", "banks"}, financeAssets |-> {"assets", "periods"},
     financeReports |-> {"budgets", "periods", "report"}, financeGroup |-> {"pairs", "accountTree"},
     taxCompliance |-> DOMAIN ComplianceShows, handoffs |-> DOMAIN HandoffShows]
    ++ [v \in {"overview", "purchaseMatch", "commercial", "manufacturing", "voucherDesk", "rolesAccess"} |-> {}]
Views == DOMAIN PanelLists

MatchActions == {"createMatch", "approveMatch"}

Offers ==
    [overview |-> {}, voucherDesk |-> {"saveVoucher", "reverseVoucher", "postVoucher"}, rolesAccess |-> DOMAIN RoleActions,
     sourceToPay |-> {"createVendor", "transitionVendor"} \cup (DOMAIN PurchaseActions \ MatchActions) \cup DOMAIN SupplierActions,
     purchaseMatch |-> MatchActions,
     commercial |-> DOMAIN CommercialActions, manufacturing |-> DOMAIN ManufacturingActions,
     inventory |-> DOMAIN InventoryActions, planning |-> DOMAIN PlanningActions,
     financeBooks |-> {"saveAccount", "movePeriod", "reconcile"}, financeAssets |-> {"saveAsset", "proposeAssetVoucher"},
     financeReports |-> {"saveBudget"}, financeGroup |-> {"createPair", "eliminate", "consolidate"},
     taxCompliance |-> DOMAIN ComplianceActions, handoffs |-> DOMAIN HandoffActions]

MountedIn(l, v) == l \in ShellLists \cup PanelLists[v]

-----------------------------------------------------------------------------
(* The watched list.                                                       *)

Calls == [of : DOMAIN Actions, done : BOOLEAN, changed : BOOLEAN]
Reasons == {"others", "failed", "lost", "raced"}

ScreensAssumption ==
    /\ MaxVersion \in Nat \ {0}
    /\ Nothing \notin Calls \cup Reasons \cup DOMAIN Actions

VARIABLES list,     \* the list that is watched
          shown,    \* the open view (or tab of it) shows it
          version,  \* the server's
          cached,   \* the one in the cache
          stale,    \* the copy is invalidated or older than staleTime
          fetch,    \* NoFetch, Asked, or the version that was read and is on its way
          call,     \* the action that is sent: which, whether it is done, whether it changed the list
          missed    \* why the copy may be behind: what happened last

vars == <<list, shown, version, cached, stale, fetch, call, missed>>

-----------------------------------------------------------------------------

NoFetch == -2
Asked == -1
OnItsWay == fetch >= 0

TypeOK ==
    /\ list \in Lists /\ shown \in BOOLEAN
    /\ version \in 0 .. MaxVersion /\ (cached = Nothing \/ cached \in 0 .. version)
    /\ stale \in BOOLEAN /\ fetch \in {NoFetch, Asked} \cup 0 .. version
    /\ call \in Calls \cup {Nothing}

Init ==
    /\ list \in Lists /\ shown = (list \in ShellLists) /\ version = 0 /\ cached = Nothing /\ stale = FALSE
    /\ fetch = IF list \in ShellLists THEN Asked ELSE NoFetch
    /\ call = Nothing /\ missed = Nothing

-----------------------------------------------------------------------------
(* The cache.                                                              *)

\* A list that was not mounted fetches when it has no copy or a stale one.  Going between views
\* that both show it, or both do not, changes nothing.
Open ==
    /\ ~shown /\ shown' = TRUE
    /\ fetch' = IF fetch = NoFetch /\ (cached = Nothing \/ stale) THEN Asked ELSE fetch
    /\ UNCHANGED <<list, version, cached, stale, call, missed>>
Leave ==
    /\ shown /\ list \notin ShellLists /\ shown' = FALSE
    /\ UNCHANGED <<list, version, cached, stale, fetch, call, missed>>

\* The window gets the focus back.
Focus ==
    /\ shown /\ stale /\ fetch = NoFetch /\ fetch' = Asked
    /\ UNCHANGED <<list, shown, version, cached, stale, call, missed>>

\* staleTime passes.
Ages ==
    /\ cached # Nothing /\ ~stale /\ stale' = TRUE
    /\ UNCHANGED <<list, shown, version, cached, fetch, call, missed>>

\* A copy no view shows is dropped in the end.
Forget ==
    /\ ~shown /\ cached # Nothing /\ fetch = NoFetch
    /\ cached' = Nothing /\ stale' = FALSE /\ missed' = Nothing
    /\ UNCHANGED <<list, shown, version, fetch, call>>

ServerReads ==
    /\ fetch = Asked /\ fetch' = version /\ missed' = Nothing
    /\ UNCHANGED <<list, shown, version, cached, stale, call>>
Arrives ==
    /\ OnItsWay
    /\ cached' = fetch /\ stale' = FALSE /\ fetch' = NoFetch
    /\ UNCHANGED <<list, shown, version, call, missed>>
FetchFails ==
    /\ fetch # NoFetch /\ fetch' = NoFetch /\ missed' = "failed"
    /\ UNCHANGED <<list, shown, version, cached, stale, call>>

-----------------------------------------------------------------------------
(* Actions.                                                                *)

\* Those of the views that may be open.  Actions that neither write nor refresh the watched list
\* are left out.
Offered ==
    LET all == Actions
        offers == Offers
    IN  {a \in DOMAIN all : /\ Affects(all[a], list) \/ Refreshes(all[a], list)
                            /\ \E v \in Views : MountedIn(list, v) = shown /\ a \in offers[v]}
Send ==
    /\ call = Nothing
    /\ \E a \in Offered : call' = [of |-> a, done |-> FALSE, changed |-> FALSE]
    /\ UNCHANGED <<list, shown, version, cached, stale, fetch, missed>>

Commit ==
    /\ call # Nothing /\ ~call.done
    /\ \/ /\ Affects(Actions[call.of], list) /\ version < MaxVersion
          /\ version' = version + 1 /\ call' = [call EXCEPT !.done = TRUE, !.changed = TRUE]
       \/ /\ version' = version /\ call' = [call EXCEPT !.done = TRUE]
    /\ UNCHANGED <<list, shown, cached, stale, fetch, missed>>

\* Refused, or never arrived: onError, which invalidates nothing.
Refused ==
    /\ call # Nothing /\ ~call.done /\ call' = Nothing
    /\ UNCHANGED <<list, shown, version, cached, stale, fetch, missed>>

\* Done, but the answer does not arrive: for the browser that is an error too.
AnswerLost ==
    /\ call # Nothing /\ call.done /\ call' = Nothing
    /\ missed' = IF call.changed THEN "lost" ELSE missed
    /\ UNCHANGED <<list, shown, version, cached, stale, fetch>>

\* onSuccess.  A mounted list is fetched again, in place of a fetch that is under way; one that
\* is not mounted is marked, but a fetch under way for it goes on and clears the mark.
Succeeds ==
    /\ call # Nothing /\ call.done /\ call' = Nothing
    /\ IF Refreshes(Actions[call.of], list)
       THEN /\ stale' = (cached # Nothing)
            /\ fetch' = IF shown THEN Asked ELSE fetch
            /\ missed' = IF ~shown /\ OnItsWay /\ call.changed THEN "raced" ELSE missed
       ELSE /\ missed' = IF call.changed THEN call.of ELSE missed
            /\ UNCHANGED <<stale, fetch>>
    /\ UNCHANGED <<list, shown, version, cached>>

\* Another member, the worker, a supplier, the plant.
Others ==
    /\ version < MaxVersion /\ version' = version + 1 /\ missed' = "others"
    /\ UNCHANGED <<list, shown, cached, stale, fetch, call>>

Next ==
    \/ Send \/ Open \/ Leave \/ Focus \/ Ages \/ Forget \/ ServerReads \/ Arrives \/ FetchFails
    \/ Commit \/ Refused \/ AnswerLost \/ Succeeds \/ Others

Spec == Init /\ [][Next]_vars

-----------------------------------------------------------------------------
(* Properties.                                                             *)

\* A copy that is behind the server has a reason: somebody else's change, an answer or a fetch
\* that was lost, an action under way, a mark that waits for the list to be opened, or an action
\* that does not invalidate the list.
BehindForAReason ==
    cached # Nothing /\ cached < version /\ fetch = NoFetch =>
        \/ missed # Nothing
        \/ call # Nothing /\ call.changed
        \/ stale /\ ~shown

\* The last reason is an action that does not invalidate the list.
LeftBehind == missed \notin Reasons \cup {Nothing}

\* Actions leave a list of their own view behind only in the supplier workspace, and in planning
\* the items, whose row version the planning policy shares; elsewhere only lists of other views.
OwnListsFresh ==
    LeftBehind =>
        \A v \in Views : missed \in Offers[v] /\ list \in PanelLists[v] =>
            list = "workspace" \/ (missed = "updatePolicy" /\ list = "items")

\* What an action of one view leaves behind in another.
LeavesBehind ==
    [vouchers |-> {"approveReceipt", "approveSalesDocument", "approveManufacturing", "adjustStock", "transferStock",
                   "countStock", "proposeAssetVoucher", "createPair", "eliminate", "acceptReturn"}]
OthersListsKnown == LeftBehind /\ list \in DOMAIN LeavesBehind => missed \in LeavesBehind[list]
===============================================================================
