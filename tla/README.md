# MesaOrigins: TLA+ models, checks and proofs

MesaOrigins is one Express server over one PostgreSQL database (Prisma), serving three products to
tenants: **MesaLeads** (questionnaires, leads and quotations), **MesaERP** (the legal company:
vouchers, periods, stock, purchase, tax) and **MesaOps** (the plant: planning, logbooks, QA,
dispatch). The server runs in several processes; the browser keeps copies of what it was shown.
The modules here model the parts whose correctness depends on interleaving, failure, order or on a
copy that is behind. Everything is translated from `src/server/src` and the pages in `src/src`.

## 1. Inventory

Every command runs in one interactive transaction at READ COMMITTED (`tenantTx`/`withTenant`,
`db.ts`); what a service reads through `prisma.x` before `tenantTx` is a transaction of its own, so
those reads may be stale when the command writes. Exclusion comes from row locks (`FOR UPDATE`),
advisory locks, row versions in the `WHERE` of an update, unique indexes and triggers. Products
exchange data only through the outbox. The recurring pattern in the models follows from this: a
command that checks outside the lock it writes under is two actions (a beginning that reads, an end
that writes), a command that reads under its lock is one.

| Component | State | Operations | Interacts with | Hard behaviour | What makes it correct |
|---|---|---|---|---|---|
| Outbox worker (`lib/integrationOutboxWorker.ts`, `integrationOutboxNotify.ts`, `db.ts`, `index.ts`) | outbox rows; per process timer, queued drain, active poll, offset | insert, drain, poll, visit tenant, deliver, retry, start, stop | every emitting command; handoff inbox | several processes, crash, time-out, back-off, on-demand mode | no shared claim, delays hold, delivered once, everything committed arrives |
| Handoff inbox (`mesaerp/handoffService.ts`) | inbox rows, receipts, routes, mappings, plant evidence, drafted vouchers | route, receive, accept, reject, retry, map | worker; completion vouchers; sales invoices | two receivers, QA racing completion, savepoint failure | one inbox per event, evidence iff accepted, no completion reviewed without QA, dispatch within invoice |
| Legal ledger (`mesaerp/prismaRepository.ts`, periods of `financeControlService.ts`, `repository.ts`) | vouchers, number series, periods | create, edit, submit, approve, post, reverse, open and close period | every ERP module drafts vouchers | stale versions, close racing post, failed post | append-only journal, gapless numbers, one reversal, open period |
| Financial controls (`financeControlService.ts`, `financeControlPosting.ts`) | accounts, assets, statements | edit the chart, capitalize to dispose, match and complete, report | ledger | unlocked checks of other rows | register equals books, completed statements explained, reports agree |
| Inventory posting (`inventoryPosting.ts`, `valuedInventoryService.ts`) | plans, movements, FIFO layers, balances | draft, post, count, switch masters | post of a voucher | lock keys, an estimate becoming stale | stock never negative, value conserved |
| ERP planning (`planningService.ts`) | BOM revisions, MRP runs, suggestions, reservations | revise, approve, run, release, reserve | stock, purchase | concurrent approvals, inputs read twice | no BOM cycle, no over-reservation, plan covers demand |
| Commercial and manufacturing (`commercialManufacturingService.ts`) | documents, demands, vouchers, batch costs | order, invoice, release, post completion | ledger, plant | two completions of one batch | demand within order, every voucher costed once |
| Source to pay (`sourceToPayService.ts`, `purchaseMatchControl.ts`) | purchase documents, match | create, submit, approve, match | ledger, stock | lines that find each other twice | an approved invoice is backed by a match |
| Supplier portal, vendor master (`supplierPortal*.ts`, `vendorAccessService.ts`) | vendors, banks, invitations, sessions, quotations, proposals | decide, invite, award, propose, ship | source to pay | decisions overlapping a block | maker and checker, within invoice and order |
| Company access (`access.ts`, `vendorAccessService.ts`) | roles, assignments, delegations | grant, assign, delegate, check | every ERP command | stale pages, changes around a check | what is shown is permitted, nobody widens own grants |
| TDS (`tdsService.ts`) | rates, classifications, deductions | approve, reserve, submit | payables | thresholds under concurrency | excess taxed once, basis within payable |
| India compliance (`indiaCompliance*.ts`) | e-invoices, bills, profiles, credits | prepare, call provider, commit, retry, reconcile | authorised provider | late, duplicate or lost answers | nothing fabricated, once per key |
| MesaLeads (`mesaleads/service.ts` and its pages) | forms, links, leads, quotations, codes | publish, submit, quote, decide, fulfil | | browser and server deciding apart | answered once, one offer, decisions verified |
| Command replay (`lib/mesaOpsIdempotency.ts` and its variants) | idempotency records | run once | every command | a retry while the first is running | one effect, one answer |
| Platform (`platform/*`), identity (`middleware/*`, `lib/*`) | organizations, products, members, sessions | sign in, switch, reset, suspend | all products | a session created from an old password | sessions are fresh, switched-off products are closed |
| Plant administration (`mesaops/admin`) | roles, screens, assignments | edit, assign, revoke | identity | stale access page | scope remembered, page shows access |
| Plant sales desk (`mesaops/sales`, `mesaops/capa`) | inquiries, orders, complaints | quote, confirm, cancel, resolve | planning, dispatch | check before the transaction | an ordered inquiry has its order |
| Plant intake and planning (`mesaops/planning`) | orders, plans, links | take demand in, create, update, release plan | ERP demand, logbook, dispatch | changed events, split plans, slots | one order per source, no over-planning, no double booking |
| Machine logbook (`mesaops/logbook`, `LogbookModule.tsx`) | sheet, status, bookings, pages | seed, edit, save, close, submit | plan, store, outbox | two pages holding whole copies | booked as closed, totals derived |
| Formulations (`mesaops/formulation`) | revisions, page | create, activate, normalize | logbook | two activations | one revision in use |
| Plant quality, dispatch, statutory rules (`mesaops/quality`, `mesaops/dispatch`) | verdicts, dispatches, rule profiles | inspect, dispatch, approve a profile | order, logbook, outbox | concurrent dispatches, a profile changing meanwhile | only completed, released and documented quantity leaves |
| Plant store and maintenance (`mesaops/inventory`, `mesaops/maintenance`) | ledger rows, machines, tasks | receive, issue, consume, log | logbook | unlocked sums | stock covers what one issue at a time takes |
| ERP browser workspace (`mesaerp/lib/queries`, `Live*.tsx`) | cached lists per key | open, fetch, act, invalidate | every ERP service | a list left behind makes the next action fail | an action refreshes the lists of its view |

`PROJECT.json` lists every component with its status and every hazard at its line.

## 2. Modules

The core:

| Module | Models | State and actions |
|---|---|---|
| `IntegrationOutbox` | worker, notify, emission | a row is absent, open, committed or rolled back; `Insert` queues the drain as the Prisma extension does; `DrainMicrotask`/`TimerFires` start a poll; `VisitOrganization`, `DeliverNext`, `CommitOrganization`, `TimeoutOrganization`, `FinishPoll` are `runPoll`/`processOrganization`; `StopWorker`, `Exit`, `Crash` are `index.ts` and the platform |
| `Contracts` | what the outbox promises (abstract) | `OutboxSpec`: one stage per event; announced by the commit, delivered once |
| `PlantHandoff` | routes, intake, acceptance, exceptions | `BeginIntake`/`CommitIntake` and `BeginAccept`/`CommitAccept` split a handler where another can overlap; `FailAccept` is the rollback to the savepoint, `AbortAccept` any other failure |
| `PlantOrder` | planning, logbook, quality, dispatch of an order | a request in flight per client: `Begin...` is lock, read, check; `Commit...` the writes; `Abort` a rollback |
| `VoucherLedger` | vouchers, numbering, periods | `Begin` is the read, every other request a compare-and-swap (`Swaps`); `LockForPost` takes period, original and series |
| `Contracts` | what the ledger promises (abstract) | `JournalSpec`: per voucher family a journal that only grows |

Plant, accounts and platform, all instantiated in `MC_PlantServices`:

| Module | Models |
|---|---|
| `PlantIntake` | orders entered under a key or accepted from ERP demand by outbox or signed call; receipts, links that become stale, the planner's modal |
| `OrderDesk` | inquiries, quotations, confirmation, cancellation, complaints with CAPA, and the lists of a salesperson |
| `StoreAndGate` | receipts, issues, consumption, machines and maintenance; statutory profiles and the evidence a dispatch needs |
| `Formulations` | revisions of one code, overlapping activations, the page that normalizes percentages |
| `LogbookEntry` | a logbook filled in on pages that hold whole copies; what an input makes of each key |
| `PlantAccess`, `PlatformAccess` | roles, screens and plants; organizations, products, sessions and the control center |

The company, in `MC_CompanyServices` (the first four rows through `MaterialServices`, which it extends):

| Module | Models |
|---|---|
| `InventoryPosting`, `StockReservations` | valued stock with FIFO layers and moving average; reservations against stock and source |
| `MrpRuns`, `MrpNetting` | a run collected twice and its suggestions' three steps; the netting passes |
| `CommercialManufacturing` | orders, invoices, demands, manufacturing vouchers and batch costs |
| `TdsDeductions` | rates and deductions of a vendor, section and year; whose payable a voucher is |
| `FixedAssets`, `BankReconciliation`, `FinanceReports` | assets and what posting does to them; statements and matches; the reports of one ledger |
| `CompanyAccess` | company roles, delegations, and the two questions asked of them |
| `CommandReplay`, `MemoryLedger` | five ways to run a command once; the process-local ledger |
| `CompanyScreens` | every list with its key, views and actions, as constants; the cache over time |

Further services, in `MC_Services`:

| Module | Models |
|---|---|
| `PlanningBoms`, `AccountTree` | BOM revisions and the chart of accounts: trees whose nodes are locked one at a time |
| `SourceToPay` | documents from requisition to invoice and the three-way match |
| `VendorMaster`, `SupplierDealings` | lifecycle, banks, papers and portal people; tender, proposals, shipments, disputes |
| `StatutoryFilings`, `ComplianceRecords` | filings through a provider; profiles, bills and credits without one |
| `LeadJourney`, `LeadQuotes`, `LeadQuestionnaire` | forms, links and submissions; quotations and decisions; the questionnaire in editor, browser and server |

`IntegrationOutbox_proofs`, `VoucherLedger_proofs`, `PlantHandoff_proofs`, `PlantOrder_proofs`,
`MaterialServices`, `CompanyServices_proofs` and the last part of `MC_PlantServices` hold the theorems,
`Sums` the lemmas about sums over finite sets they use (section 5). Three runs of the outbox check `IntegrationOutbox`
itself, whose last definitions are the tenants and the symmetry of those runs; `MC_Outbox` instantiates it for
`OutboxDelivery`, once with polling and twice for the production mode (one instance at the limit of a tenant,
one at the total of a poll), each under the fairness of `FairSpec`.

The three `MC_*Services` modules check many services in one run: a behaviour picks a `subject` in
`Init` and is then about that subject alone; what it does not use stays `Nothing`. In
`MC_PlantServices` and `MC_Services` the variables of the subject are `x1`, `x2`, ...; the thirteen services of
`MC_CompanyServices`, which are all proved about, have variables and constants of their own there, so that a
theorem of one speaks of no other. `MaterialServices` instantiates the five of them that plan and move
material, and the deduction of tax, and holds their proofs, since the provers slow down with every service in view. `PlantHandoff` and `PlantOrder` are instantiated through their proof
modules, so that their theorems come along. The services in them share no variables, so nothing is lost by keeping them
apart, and each keeps bounds of its own. Their assumptions are definitions of the modules and
asserted by `ASSUME Instance!SomeAssumption`. Modules whose `Next` is pure (`FinanceReports`,
the catalogue of `CompanyScreens`, the matching of `SourceToPay`, the sources of `TdsDeductions`) enumerate inputs
and compare an operator with what it must satisfy.

Abstractions worth knowing:

- An outbox event is an identifier. What a destination checks before it accepts is the set `blocked`,
  which administrators change. One delivered event is one that got `publishedAt` and its receipt in
  the same transaction. Time is counted in polling intervals. `FOR UPDATE SKIP LOCKED` of the candidate
  query (`integrationOutboxWorker.ts:599`), a second protection under the lock of the tenant, is left out.
- `PlantHandoff`: payloads are constants of the event, since the rows are immutable. `Effective` asks
  whether any verdict is bad where the code keeps the last verdict per lot; the two agree because
  MesaOps decides a lot once (`HandoffAssumption`, enforced by the lot lock in `mesaops/quality`).
  The lots of an execution are its outputs. Creating and approving all mappings of an event is one
  step. The dispatches of a company are linked to one invoice line.
- `PlantOrder`: order commands carry the row version and run under the order lock; a stale one is
  refused and changes nothing, so only current ones are actions. The database trigger that repeats
  the quantity and slot checks is left out on purpose: the properties show that the service's own
  locks and checks are enough. Every lot is one unit of quantity.
- `VoucherLedger`: the lines of a voucher are their signed effect. `LockForPost` merges the three lock
  acquisitions of `postVoucher`: they come in one fixed order and nothing is written between them.
  Stock and asset postings of the same transaction can only refuse the post (`Fail`).
- `InventoryPosting`: money in paise and rates in fractions of a paisa, rounded where the code rounds;
  a plan has at most one issuing and one receiving line. `raced` records the items and warehouses of which
  two issues were in flight at once under different batches although the item keeps none (`Overlapping`):
  their locks differ and the balance they read is one, so nothing is promised of that stock any more. An
  average-valued item without stock has no value left unless one of its issues was of `RateScale` units or
  more: the rounding of the rate could then leave a paisa.
- `MemoryLedger` may start with a posted voucher (`PostedBefore`), as the development ledger does.
- `MrpNetting`: a pass is one step, since a run computes from one snapshot. What a pass hands to the
  next is the set of make orders, each with its bucket, level and quantity: the generated component
  demand is a function of them, and its rows name the bucket and level they come from, so two passes
  generate the same rows exactly when they explode the same orders. A level belongs to a bucket, as in the code: an
  item needed at two depths on different days has orders of two levels.
- `TdsDeductions`: every rate has its own terms (the two thresholds and whether only the excess is taxed), and a
  deduction is computed by those of the rate that covers its day; the percentages are left out. With rates of
  different terms in one year the taxed total depends on the order of submission: under yearly thresholds of 30
  and 50, payments of 40 and 20 are taxed on 20 in one order and on 30 in the other. `ExcessTaxedOnce` therefore
  promises a total only while the year's rates have equal terms; `AssessedInTurn` says what is so always: each
  final deduction is assessed on a stretch of the year's gross of its own, under the terms of its own rate.
- `FinanceReports`: a voucher is a day and up to three lines, each with an account, an amount in the company's
  currency, a plant and a cost centre, or none of the two. The lines of a voucher balance together, those of one
  plant need not, so with a plant or a cost centre asked for the statements are out, all by the same amount. As in the
  code the cash flow ignores plant and cost centre, and the general ledger opens with every day before `from` even when
  `asOf` replaces the range, which counts those days twice (`financeControlService.ts:758`-`760`, `781`-`796`);
  `LedgerClosesByRange` leaves that combination out. A financial year in the query, which narrows the
  vouchers everywhere alike, the day and cash books and bill ageing, which list lines or net them by bill, and the limit of
  20,000 vouchers are left out. Consolidation is one company's share, without other companies and eliminations.
- `BankReconciliation`: the code looks for a voucher line in the other statements only
  (`financeControlService.ts:345`), so one statement may match it with two of its lines; nothing is promised there.
- `CompanyScreens`: the content of a list is a counter of the changes behind it; one list is watched
  at a time because the cache keeps lists apart.
- A property with a name ending in `UnlessRaced` says what holds of checks that read other rows
  without a lock: the module records in `raced` that two of them overlapped, and promises nothing
  more then. `NamesFollow`, `SessionsFresh`, `ConsoleTells` and `NoSelfGrant` hold when requests do
  not fall between another's check and its write (`Overlap`) and answers arrive (`Lost`); their
  instances set these to `FALSE`. Every such check is a hazard in `PROJECT.json`.

## 3. Runs

Each run ends in under four minutes with two workers.

| Run | Question | Bounds, and why they are enough |
|---|---|---|
| `OutboxWorkers` | can two processes, with a crash, a stop, a time-out or a withdrawn approval at any moment, share, lose or hurry an event? | 2 processes, 2 events of one tenant, claim limit 1, delays 1, 2, 3 (the cap bites), 1 fault. Two of each is where sharing happens |
| `OutboxDelivery` | with polling, does every committed event arrive? in the production mode, does a drain take along what waits? | 1 process, 2 tenants. Polling: an event each, a batch of 1, so that one tenant can exhaust a poll, and 1 fault. Production: two events of one tenant and one of the other, with a limit of 1 per tenant and room for all (`tenantLimit`), or a total of 2 (`pollLimit`), so that more waits than a drain may take; no faults: a fault loses the drain itself |
| `PlantServices` | do the services of the plant keep what their modules say? | see below |
| `LedgerPosting` | do concurrent requests keep the journal sound while the period opens and closes? | 3 vouchers (an original, a reversal, one more), 2 clients, 1 period, 1 edit |
| `CompanyServices` | the same for the services of the company | see below |
| `Services` | the same for the further services | see below |
| `OutboxLostWakeup`, `OutboxNoisyTenant`, `HandoffQaRace`, `OrderDoubleSubmit`, `PartialReceipt`, `NegativeStock` | the findings of section 6 | smallest instance that shows them |

`DrainTakesWaitingEvents` promises less than delivery: it is what the production mode does keep,
and its premise (an event already committed when a drain is queued) is reached by the second insert. A drain
takes at most 10 events of a tenant and 25 in all (`integrationOutboxWorker.ts:457`, `563`) and nothing follows it
up, so the property excepts what is left out: an event passed over when its tenant's share has gone to older ones,
or when the poll has used up its total. Such an event, the eleventh of a tenant say, waits for the next emission or
start. The instances have the limits 1 and 2 for those 10 and 25, with more events than they take.

`PlantServices`, by subject:

- `pair` and `held`: two overlapping submissions of one logbook with the QA of a lot, and one
  completion of two lots of which one is held; two transactions in flight. `routing`: two companies,
  two dispatches of 2 against invoices of 3, three transactions in flight.
- `orders`: orders of 1 and 2 units, 3 plans, slots on two machines, two clients. `plant`: one order of
  2 taken through by one client, with sheets of one and two lots. `DispatchBacked` is checked with one
  client because with two the edit of a sheet that overlaps its submission (`logbook/service.ts:756`)
  changes what was submitted.
- `logbook`, `cleared`, `overlapped`: two pages on one record, with template changes, with emptied
  fields, and with requests between check and write; two edits. `fields`: values of up to 4 characters.
- `recipes`, `percent`: three revisions and four changes with overlapping requests; the page with one.
- `access`, `platform`, `desk`, `intake`: small casts with at most 2, 4, 9 and 5 changes, which is long
  enough for each property's mutant to be caught with steps to spare. `store`, `gate`: one code, one
  machine, one task; one gate, evidence with and without the bill, two dispatches.

`CompanyServices`: `stock` (two posted receipts at two rates, two plans in play, FIFO and average,
two days, warehouses and batches, of which the second is named by one manufacturing voucher; batch tracing only for the FIFO item), `reservations` (three, of one batch and one line), `runs` (one run, two
members, its inputs moving while it reads them), `netting` (chain, shared part and cycle, a make item without a BOM; lot sizes,
lead times, reorder levels; every ending is reached), `trade` (an order, a demand, three vouchers), `assets` (one asset,
three events), `bank` (two statements and one posted line), `reports` (two vouchers of two or three lines over four
accounts, two plants and one cost centre, lines of both plants or of none in one voucher; six ranges of dates,
with and without a plant and a cost centre), `access` (two members, three changes), `keys` (two copies of a request and another under
the same key, each variant), `local` (four commands, two in the queue), `screens` (every list), `tax` (four deductions on two payables under
two rates of the same terms or of different ones, thresholds they cross in every order; or three rates that overlap by days, two approvals in flight and at
most one deduction), `sources` (every base and payment of two vendors).
`Bounds` keeps a behaviour to one interesting story: one item in play, vouchers only after a demand
was released (the third created last), and no action after one that left the list behind.

`Services`: BOMs of three items; three accounts; one order with receipts of 1 to 3 against 2;
every matching of one or two lines; vendors with three deciders and six decisions; portal with two
invitations and sessions; three quotations, three proposals of 2 against 5, three shipments; filings with three attempts and keys; two forms, links and leads;
two quotations with two requests; questionnaires of three shapes with one edit.

Symmetry is used where no liveness is checked and the constants play equal parts.
`CHECK_DEADLOCK FALSE` stands where the instance really stops: all events delivered and no timer
(`OutboxDelivery`, `OutboxLostWakeup`), or all documents of a bounded instance finished (the services). With
polling the timer never stops, and in the ledger a period can always be opened or closed: `OutboxWorkers`
and `LedgerPosting` check deadlock.

## 4. Fairness

`FairSpec` of `IntegrationOutbox`: a request that has inserted commits or rolls back; the event loop
runs its queued microtasks and due timers; a poll makes progress; the platform restarts a process
that is down (Cloud Run, Docker restart policy); a stopping process exits (`forceExit` after its
time limit); time passes. Inserts, administrators and failures are under no fairness, so nothing
is delivered "because somebody unblocks it". Failures are bounded by `MaxFaults`, except the
time-outs of tenants in `NoisyOrgs`, whose events are then promised nothing. The other modules state
no liveness: what happens next in them is up to people.

## 5. Proofs

`IntegrationOutbox_proofs` proves, for every set of events, processes, tenants and every value of
the limits:

- `TypeCorrect`: `Spec => []TypeOK`. In particular a delay stays at most `RetryMax`.
- `ClaimsExclusive`: `Spec => []NoSharedClaim`.
- `BackoffHolds`: `Spec => BackoffRespected`.
- `OutboxImplements`: `Spec => ImplementsContract`, the refinement of `OutboxSpec` of `Contracts`.

`NoSharedClaim` is not inductive. The invariant that is, `ClaimInv`, says: a worker without an open
transaction claims nothing; what an open transaction holds is committed, unpublished, due and of the
tenant whose lock it has; no two open transactions have the same tenant; and what is published is
committed. Two claims are then disjoint because an event has one tenant. `QuietStep` disposes of every
step that neither opens a transaction nor publishes nor delays; `VisitClaim`, `DeliverClaim` and
`CommitClaim` are the steps that do. Back-off follows from "what is held is due" in any step. The
refinement uses the same invariant: the commit of a tenant transaction is the abstract delivery of
what it held (`BatchDelivered`), the commit or rollback of a request settles its event, and every
other step stutters (`StageStep`).

`VoucherLedger_proofs` proves, for every set of vouchers, clients, members, periods and amounts:

- `LedgerTypeCorrect`: `Spec => []TypeOK`.
- `NumbersGapless`: `Spec => []GaplessNumbers`.
- `ReversalsUnique`: `Spec => []ReversedOnce`.
- `PostsInOpenPeriod`: `Spec => PostedInOpenPeriod`.
- `LedgerImplements`: `Spec => ImplementsJournal`, the refinement of `JournalSpec` of `Contracts`.

The inductive invariant, `LedgerInv`, adds to the two state properties what a post relies on between
taking its locks and writing: its voucher was approved (`PostsApproved`), the period is still open and
the original of a reversal still posted (`LockedPosts`), no other post holds the same period or the
same original (`LocksExclusive`), and a reversal names a voucher of the journal (`Originals`).
Without `LockedPosts` and `LocksExclusive` two posts could each have checked the same original before
either wrote. For the refinement, a post appends one entry to the journal of its family, because the
numbers are gapless and the next number is the next position (`JournalAppended`); every other step
leaves what is posted alone (`JournalSame`), whichever stale read it started from.

`PlantHandoff_proofs` proves, for every number of companies, events, lots and transactions in flight:

- `HandoffTypeCorrect`: `Spec => []TypeOK`; inductive once it is known that what is being received was
  emitted (`IntakesEmitted`).
- `ReceiptsMirror`, `EvidenceOfAccepted`: `[]ReceiptMirrorsInbox` and `[]EvidenceIffAccepted`, by
  `InboxInv`: an acceptance in flight is of a row that is received, because `received` is left only
  by the transaction that holds the row.
- `FinalStates`: `FinalStatesStay`, from the same invariant.
- `ReviewedHasQa`: `[]ReviewedCompletionHasQa`, by `QaInv`: whatever an acceptance has read as
  `accepted` is covered by evidence that existed when it read, evidence only grows, so it is still
  covered when it writes. The same argument does not give `QaReachesDraft`, the finding: evidence
  that came after the read is missed.
- `OneInbox`: `[]PublishedInOneInbox`, by `RoutingInv`: who has a row, or an intake under way, is
  addressed by the event, and stays so because an approved route never changes; an event addresses
  one company.
- `DispatchesCapped`: `[]DispatchWithinInvoice`, by `CapInv`: of the dispatches being accepted, one per
  company has the lock of the invoice (`CapsApart`), and what it found billed and not yet dispatched is
  still so (`CapHolds`), since nothing else of its company is dispatched until it has written.

`PlantOrder_proofs` proves, for every number of orders, plans, slots, lots and clients:

- `SlotsBookedOnce`: `[]NoDoubleBooking`. `BookingInv` carries the check for a clash from the beginning
  of a request to its write: the slot found free stays free (`SlotFree`), because two bookings under way
  are of different slots by the machine locks (`SlotsApart`), and the plan that an update moves is still
  there, because a release locks it too (`PlanHeld`).
- `PlantOrderTyped`, `QuantitiesBounded`, `StatusFollowsPlans`: `[]TypeOK`, `[](NoOverPlanning /\
  NoOverDispatch)` and `[]StatusTellsPlanning`, by `OrderInv`: what a request in flight read of the
  order is so until it commits (`Fits`: the total planned before a new plan, the other plans beside one
  that changes, what was dispatched), because order commands in flight are about different orders
  (`OrdersApart`); and what it is to write is of the right type then (`Lasting`). None of the three is
  inductive without `Fits`, and types need `Lasting`: a logbook is submitted only for a plan that is there.
- `DispatchesBacked`: `[]DispatchBacked` under the hypothesis that there is one client. `BackedInv` adds
  that an edit in flight is of an open logbook (`EditsOpen`) and that what a dispatch found completed
  and released still is (`DispatchesCovered`). `EditsOpen` is where two clients break it: nothing
  holds the logbook between the check of an edit and its write, so a submission can come between
  (`logbook/service.ts:756`); it is the same missing lock that `OrderDoubleSubmit` shows.

`Sums` proves what these need of `SumFunctionOnSet`: integers sum to an integer (`SumInteger`), one more
element adds its value (`SumWith`, `SumOfOthers`), the sum does not depend on the order in which it picks
(`SumSame`, `SumOrdered`), sums of sums and differences (`SumPlus`, `SumMinus`, `SumTimes`), over
disjoint sets (`SumUnion`) and by class or in the other order (`SumByClass`, `SumSwap`). Induction over finite sets is replaced by the well-foundedness of the strict
subset order: what does not hold of all subsets fails first for a smallest one (`SmallestSubset`). That
is why `PlantOrder`, `PlantHandoff`, `StockReservations`, `CommercialManufacturing`, `FinanceReports` and `MrpNetting` sum with the community modules' function.

`MaterialServices` (`StockKept`, `ReservationsCovered`, `RunsStayConsistent`, `NettingKept`, `TradeKept`, `TaxKept`) and
`CompanyServices_proofs` (the rest) prove, for every value of the constants of the thirteen services of the company:

- `KeysReplayed`: `Keyed!Spec => [](WrittenOnce /\ OneAnswer /\ CopiesAnswered /\ OneAtATime)`, by
  `ReplayInv`: what is committed is exactly what the record says, before that at most one attempt has
  its record inserted, and where the key is locked, only the holder of the lock works and has looked
  since it got it. The last part is what `recheck` needs the second look for; `optimistic` and
  `plain` rest on the unique index alone.
- `StatementsReconciled`: `Bank!Spec => [](CompletedResolved /\ OneStatementUnlessRaced)`, by
  `BankInv`: a completion whose version is still current saw every line resolved (`CompletionsSaw`),
  a match in flight found its line free and, until two of them overlap, still has it to itself
  (`MatchesHold`, `MatchesApart`).
- `LocalLedgerSound`: `Local!Spec => [](OncePerKey /\ NumbersGapless /\ ReversedOnce /\ TwoMembers)`,
  by `LocalInv`: originals are as many as keys asked to create, each version counts the commands
  remembered (`Counted`), numbers are a bijection from the journal to `1 .. sequence` (`Numbered`), and
  a queued command is about a voucher there is (`QueueFits`).
- `AccessKept`: `Access!Spec => [](VisibleWhenPermitted /\ PagesTellVersions /\ AssignmentsBound /\
  NoSelfGrant)`, by `AccessInv`: a page is never of a later version than the role, only seeded roles
  deny (`DeniesSeeded`), the roles of assignments stay (`RolesThere`), and without overlap the one
  choice on the way still needs nobody else (`OneChoice`, `ChoiceStands`).
- `ReservationsCovered`: `Holds!Spec => []NoOverReservation`, by `HoldsInv`: what a creation found of its
  source and, until stock is issued, of its batch still holds when it commits (`CreationHolds`), since
  the advisory locks keep two creations off the same batch and the same source (`CreationsApart`) and
  everything else only takes from the totals. Without `CreationHolds` two creations could have measured
  the same remainder; an issue looks at no reservation, so after one the batches promise nothing.
- `RunsStayConsistent`: `Mrp!Spec => []RunsConsistent`, by `MrpInv`: the version of the policies only
  grows, so equal first and third reads mean that what was read in between was there together with
  them (`ReadsTell`); a step of a suggestion finds it in the stage it read, by the lock of its row
  (`StepsHold`), and only what is released has a resource (`SuppliesSingle`).
- `TradeKept`: `Trade!Spec => [](DemandWithinQuantity /\ CostedOnce)`, by `TradeInv`: what a posting has
  read under its locks still holds when it commits (`ReadingHolds`: its voucher is approved, its batch
  is not costed, what is completed of its demand, and no other posting has the same batch or demand),
  and the batch costs are of different batches (`RowsDistinct`), so a voucher enters one.
- `AssetsKept`: `Register!Spec => [](RegisterMatchesBooks /\ ResidualKept)`, by `AssetsInv`: of an asset
  one event is being computed or waits for its voucher (`OneUnderWay`), and it was computed from the asset
  as it still is (`EventFits`). A disposal takes back exactly what the accounts hold because of it.
- `ReportsAgreeAlways`: `Reports!Spec => [](StatementsAgree /\ LedgerClosesByRange /\
  TranslationNearlyBalances)`. Every figure is a sum over postings, the lines of some vouchers. The statements
  sort one and the same set of postings, those in scope that match the plant and the cost centre, by account, by type or by
  dimension, so all come to the balance of that set (`ClassesAddUp`); it is the lines of whole vouchers, and so
  nothing, when neither is asked for (`VouchersBalance`). The general ledger splits a set of days at `from`. Each
  translated type is rounded once, hence half a unit for each type.
- `NettingKept`: `Netting!Spec => [](PlanCoversDemand /\ Converges)`, by `NettingInv`: before pass `p` the
  last two passes agree about every item that is not `p` levels below another (`Settled`,
  `SettledOneLevelMore`), since what an item is planned to depends only on the orders that need it
  (`SameNeeds`); and an order's level is a depth of its item (`LevelBelow`). At the limit only a chain
  longer than the limit is left unsettled. A lot is never less than what is missing (`LotCoversNet`), so
  each bucket ends at its reorder level. In a plan that explodes into itself an order is of a deeper
  level than those that need it, so the shallowest order of a group is needed by none of the group
  (`NoCycleOfOrders`). The recursion over days and the largest level are shown to be well defined by
  the smallest counterexample (`LeastNumber`, `StepsExist`, `StepsAgree`).
- `StockKept`: `Stock!Spec => [](TypeOK /\ StockNeverNegative /\ StockMatchesBooks /\ LayersBackStock)`, by
  `StockInv`. A post values its issue before it commits. Unless two issues of an untracked item overlap,
  what it found of stock and layers is still there then (`StockRead`, `LayersRead`): its locks keep out
  every other issue that draws on the same rows (`Apart`), receipts only add rows, and an item whose stock
  is in play has moved, so its trace policy is fixed (`AllMoved`). Every post writes the value its accounts
  were drafted with (`PlanRead`), hence `BooksAgree`, which holds whatever overlaps. What is left of the
  layers is the stock because an issue takes exactly its quantity from the layers of its own trace
  (`TracesSound`). The sums are over sequences that grow (`StockSums` and the lemmas before it).
- `ScreensKept`: `Shown!Spec => [](TypeOK /\ BehindForAReason /\ OwnListsFresh /\ OthersListsKnown)`, by
  `ScreensInv`: unless something was missed, or an action has changed the list and is not answered yet, a
  fetch under way brings the server's version, and a cached copy that is behind is marked and not shown
  (`BehindSound`); what was missed last is an action that writes the list and does not refresh it
  (`MissedSound`). That those actions are the known ones is then a question about the catalogue of lists,
  keys and actions, answered by the lemmas `ListKeys`, `ActionAreas`, `RefreshingActions` and their like.
- `TaxKept`: `Tax!Spec => [](TypeOK /\ AssessedInTurn /\ ExcessTaxedOnce /\ BasisWithinPayable /\ OneMasterUnlessRaced)`, by
  `TaxInv`. The lock of vendor, section and year lets one transaction be open (`DeductionsInv`), so what it
  computed from the final deductions still holds when it commits (`DeductionHolds`). The stretch of a submission starts
  at the gross of the deductions that were final before it (`prior`), so the stretches lie end to end
  (`AssessedInTurn`), which is why `prior` must be read under the lock and again at submission. Under one set of
  terms what is taxed is what one more payment adds to the excess over the threshold (`BasisOfOne`), so along
  submissions in any order the additions telescope to the excess of the total; between rates of different terms they do
  not, and nothing is claimed. Approvals lock nothing: while no two were in flight, the one that was had found no overlap
  (`ApprovalsApart`). That a payable is accepted for one vendor only (`OwnedByOneVendor`) is a lemma about the
  two operators (`OneOwner`).
- `BankStaysSound`, `AccessStaysSound`, `ReplayStaysSound`, `PlanningStaysSound`, `TradeStaysSound`,
  `AssetsStaySound`, `ReportsStayInAgreement`, `NettingStaysSound`, `StockStaysSound`, `ScreensStaySound`,
  `TaxStaysSound`: what the run `CompanyServices` checks of each service (`Spec => []StockSound` and so on): a behaviour keeps its
  subject, and as long as the subject is `bank`, say, it is a behaviour of `Bank!Spec`.
- `CompanyTypesStay`: `Spec => []CompanyTypes`. `CompanyInv` puts the invariants of all subjects
  together, each with what it needs beside it for types alone (`RunsBeside`, `SalesTyped`, `LocalBeside`:
  what the supplies are for, the sales documents, the bounds of the command queue).

TLC checked each of these invariants (`ReplayInv`, `BankInv`, `LocalInv`, `AccessInv`, `HoldsInv`,
`MrpInv`, `TradeInv`, `AssetsInv`, `NettingInv`, `StockInv`, `ScreensInv`, `TaxInv`) on the instances of the run. The
attempt to prove that stock is never negative is what showed the last finding of section 6: with one batch in
the instance TLC had agreed, but the step of a second issue under another batch could not be proved. `DeniesSeeded`
was the part found missing: replacing the permissions of a role clears its denials, so a member who
holds a role that denies a sensitive permission could get it back that way; the services store denials
only in seeded system roles, which cannot be replaced. In `MrpNetting` the proof showed that "a finished
run plans no item below itself" held only of the instance: stock
may cover one of a cycle of planned items; what no finished run has is a group of orders that wait for each other.

`MC_PlantServices` carries the theorems of `PlantHandoff_proofs` and `PlantOrder_proofs` over to its
subjects in the same way: `InboxStaysSound`, `ReviewedStaysBacked`, `RoutingStaysSound`,
`BookingsStayApart`, `QuantitiesStayKept`, `StatusStaysTrue`, `DispatchStaysBacked` and
`FinalStatesAreKept` state the very properties the run checks.

Assumptions: `OutboxAssumption` (finite set of events, positive limits) and `DelayAssumption`, that
`RetryBase * 2^n` is a natural number: the provers know nothing of exponentiation; `LedgerAssumption`
for the ledger; `HandoffAssumption` and `PlantAssumption` (quantities are natural numbers, orders ask for something,
and there are finitely many plans and lots to sum over) are premises of their theorems and asserted by
`MC_PlantServices` for each of its instances. `CompanyAssumption` of `MC_CompanyServices` collects
`ReplayAssumption` (answers are told apart from errors), `BankAssumption` (voucher lines are told
apart from the marks of a line), `MemoryAssumption` (amounts are integers with their negatives, as a reversal needs),
`AccessAssumption` (the first roles and assignments are those of the seed: only seeded roles deny,
no active assignment twice),
`ReservationsAssumption` (finitely many reservations and batches, natural limits and quantities),
`MrpAssumption` (no run is `Nothing`), `TradeAssumption` (finitely many vouchers, natural values, outputs
and demands of at least one), `AssetsAssumption` (natural amounts, a useful life of at least one month),
`ReportsAssumption` (finitely many vouchers, lines, accounts, plants and cost centres, accounts each of one of the five types, natural amounts,
vouchers whose lines balance),
`NettingAssumption` (finitely many items, whole quantities, lots of at least one), `StockAssumption` (finitely
many plans, issues of at least one), `ReceiptsAssumption` (the receipts before are of the constants and worth
something), `TdsAssumption` (finitely many deductions, natural amounts, values and thresholds of each rate, no two masters of a
kind in force at first for one day) and `ScreensAssumption` (at least one version, and names told apart from the reasons a list is behind).
TLC evaluates all of them.

Only model-checked: liveness under fairness (`EveryEventDelivered`, `DrainTakesWaitingEvents`), which
is beyond the prover; of `MC_PlantServices` `PlantTypes`, which speaks of seventeen subjects of which two
modules are proved about, and `LogbooksKept`, `AccountsSound` and `DeskSound`; and the five properties of `MC_Services`.
Two of them are out of the prover's reach: the absence of cycles in `StructuresSound` speaks of a transitive
closure (induction over the length of a path), and `LogbooksKept` also says what the cleaning of typed text
returns (`SelectSeq`, induction over a sequence). The inductive invariants of the others are not written.

## 6. Findings

Each is a violation run whose counterexample is the scenario:

- **A drain runs before its event is committed** (`OutboxLostWakeup`, `db.ts:30`). The drain is queued
  when the insert returns, inside the open transaction; in the on-demand mode nothing else picks the
  event up until the next insert or process start. `docs/architecture/production.md:60` describes a drain after emit.
- **A noisy tenant starves the ones after it** (`OutboxNoisyTenant`, `integrationOutboxWorker.ts:563`).
  A rejected tenant transaction leaves `runPoll` before the offset moves; the comment at line 560
  promises bounded progress to every tenant.
- **QA accepted together with its completion never reaches the draft** (`HandoffQaRace`,
  `handoffService.ts:609`), against `mesaerp.handoff-tds.db.test.ts:256`.
- **Two submissions book raw material twice** (`OrderDoubleSubmit`, `logbook/service.ts:778`), against
  the comment at `logbook/service.ts:766`.
- **A match of a partial receipt needs nobody's approval** (`PartialReceipt`,
  `sourceToPayService.ts:452`), against the comment at `purchaseMatchControl.ts:14`.
- **Two issues under different batches leave negative stock** (`NegativeStock`, `inventoryPosting.ts:465`). A
  post locks item, warehouse and batch, while the balance of an item that is not batch tracked is that of all
  batches (`traceWhere`, line 360). `validateInventoryLine` lets such an item be posted with a batch number,
  as manufacturing vouchers carry one, so two posts find the same stock; against `openapi/metadata.ts:826` and `:859`.

Behaviour met while modelling that contradicts no statement of the repository and so has no run:
percentages that already total 100 on the page can never be saved as normalized
(`PlannerScreens.tsx:498`); the receive and add-machine pages always use the primary plant; the dispatch
page never sends evidence, so it cannot dispatch where a rule asks for some; the ledger's remembered
commands have no second look after a collision; QA books finished goods in kilograms whatever the unit.

## 7. Not modelled, and the plan

- Budgets, cost centres and intercompany pairs (`financeControlService.ts:580`-`756`): one row per
  command, or a sum.
- Dashboards, charts, demonstration data, the sign-in page, the template builder and the drawing of
  sheets: presentation of what the server says.
- OpenAPI metadata, routers, schemas and HTTP wiring: no state; the schemas' rules are guards where
  they decide an outcome. The path router is a stateless proxy. Seeds and scripts run by hand.
- Notes, activities and summaries of a lead; `createCustomer` of the plant; the first company of an
  organization (`createEntity`), which is there at the start.
- Row level security, password hashing and cookies: the database's and libraries'.
- Decimals beyond the rounding named above, tax rates and sheet layouts: arithmetic on which no modelled
  decision depends.

What would come next: proofs of the modules whose exclusion is a lock on what is checked, after the
pattern of `BookingInv` and `BankInv` (`StatutoryFilings`, `VendorMaster`, `LeadQuotes`), and `PlantOrder` composed
with the handoff, so that a submitted sheet is what the completion evidence says.
