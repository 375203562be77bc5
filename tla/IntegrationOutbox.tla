------------------------- MODULE IntegrationOutbox -------------------------
(***************************************************************************)
(* The transactional outbox of the MesaOrigins server: request handlers    *)
(* insert an IntegrationOutboxEvent in the transaction of their domain     *)
(* change (db.ts, lib/mesaOpsOutbox.ts), a coalesced microtask wakes the   *)
(* worker (lib/integrationOutboxNotify.ts) and the worker delivers the     *)
(* committed events tenant by tenant, one transaction per tenant           *)
(* (lib/integrationOutboxWorker.ts).  Several server processes share one   *)
(* PostgreSQL database; each has its own worker.                           *)
(*                                                                         *)
(* Data abstracted: an event is an identifier; what the destination needs  *)
(* to accept it (entitlement, active company, approved route, matching     *)
(* hashes) is the set "blocked" of events that would be refused now; time  *)
(* is counted in polling intervals.                                        *)
(***************************************************************************)
EXTENDS Integers, Sequences, FiniteSets, TLC

CONSTANTS Events,        \* identifiers of the outbox rows
          Procs,         \* server processes, one worker each
          OrgSeq,        \* organizations not suspended, in the order of their id
          OrgOf,         \* Events -> organization that owns the event
          Continuous,    \* TRUE: timer polling; FALSE: production, drain on emit
          BatchSize,     \* events one poll may claim
          OrgLimit,      \* events one tenant may claim in one poll (10 in the code)
          RetryBase,     \* first retry delay, in polling intervals
          RetryMax,      \* longest retry delay
          ExponentCap,   \* the exponent of the delay saturates here (20 in the code)
          NoisyOrgs,     \* tenants whose transaction may time out without limit
          MaxFaults      \* bound on crashes, other time-outs and new blocks

Orgs == {OrgSeq[i] : i \in 1..Len(OrgSeq)}

ASSUME OutboxAssumption ==
    /\ IsFiniteSet(Events)
    /\ OrgSeq \in Seq(Orgs) /\ OrgSeq # <<>>
    /\ OrgOf \in [Events -> Orgs]
    /\ Continuous \in BOOLEAN
    /\ BatchSize \in Nat \ {0}
    /\ OrgLimit \in Nat \ {0}
    /\ RetryBase \in Nat \ {0}
    /\ RetryMax \in Nat /\ RetryMax >= RetryBase
    /\ ExponentCap \in Nat
    /\ MaxFaults \in Nat

\* The provers know nothing of exponentiation: that a delay is a natural number
\* is an assumption, which the runs evaluate.
ASSUME DelayAssumption == \A n \in 0..ExponentCap : RetryBase * 2^n \in Nat

VARIABLES row,        \* row[e]: "absent", "open" (inserted, not committed), "committed", "rolledback"
          author,     \* author[e]: process whose request inserts e
          log,        \* inserted events in the order of occurredAt
          published,  \* events with publishedAt set, so with evidence at the destination
          attempts,   \* attempts[e], saturating at ExponentCap
          wait,       \* wait[e]: intervals until nextAttemptAt has passed
          blocked,    \* events the destination would refuse now
          mode,       \* mode[p]: "down", "up", "stopping"
          drain,      \* drain[p]: drainScheduled, the microtask is queued
          timer,      \* timer[p]: "off", "armed", "due", "waiting" (for its poll)
          phase,      \* phase[p]: "idle", "visiting", "tx"
          visited,    \* visited[p]: organizations this poll has visited
          remaining,  \* remaining[p]: events this poll may still claim
          offset,     \* offset[p]: organizationOffset
          batch,      \* batch[p]: the open transaction of the worker
          faults      \* faults so far

rowVars   == <<row, author, log>>
sentVars  == <<published, attempts, wait>>
procVars  == <<mode, drain, timer>>
pollVars  == <<phase, visited, remaining, offset, batch>>
vars      == <<rowVars, sentVars, blocked, procVars, pollVars, faults>>

EmptyBatch == [org |-> OrgSeq[1], queue |-> {}, ok |-> {}, failed |-> {}]

TypeOK ==
    /\ row \in [Events -> {"absent", "open", "committed", "rolledback"}]
    /\ author \in [Events -> Procs]
    /\ log \in Seq(Events)
    /\ published \subseteq Events
    /\ attempts \in [Events -> 0..ExponentCap]
    /\ wait \in [Events -> 0..RetryMax]
    /\ blocked \subseteq Events
    /\ mode \in [Procs -> {"down", "up", "stopping"}]
    /\ drain \in [Procs -> BOOLEAN]
    /\ timer \in [Procs -> {"off", "armed", "due", "waiting"}]
    /\ phase \in [Procs -> {"idle", "visiting", "tx"}]
    /\ visited \in [Procs -> 0..Len(OrgSeq)]
    /\ remaining \in [Procs -> Int]
    /\ offset \in [Procs -> 0..Len(OrgSeq)-1]
    /\ batch \in [Procs -> [org : Orgs, queue : SUBSET Events,
                          ok : SUBSET Events, failed : SUBSET Events]]
    /\ faults \in 0..MaxFaults

Init ==
    /\ row = [e \in Events |-> "absent"]
    /\ author \in [Events -> Procs]
    /\ log = <<>>
    /\ published = {}
    /\ attempts = [e \in Events |-> 0]
    /\ wait = [e \in Events |-> 0]
    /\ blocked \in SUBSET Events
    /\ mode = [p \in Procs |-> "down"]
    /\ drain = [p \in Procs |-> FALSE]
    /\ timer = [p \in Procs |-> "off"]
    /\ phase = [p \in Procs |-> "idle"]
    /\ visited = [p \in Procs |-> 0]
    /\ remaining = [p \in Procs |-> 0]
    /\ offset = [p \in Procs |-> 0]
    /\ batch = [p \in Procs |-> EmptyBatch]
    /\ faults = 0

-----------------------------------------------------------------------------
(* Emission: the domain transaction of a request handler.                  *)

\* The insert query returns inside the still open transaction and the Prisma
\* extension schedules a drain at once.
Insert(e) ==
    LET p == author[e] IN
    /\ row[e] = "absent"
    /\ mode[p] # "down"
    /\ row' = [row EXCEPT ![e] = "open"]
    /\ log' = Append(log, e)
    /\ drain' = [drain EXCEPT ![p] = TRUE]
    /\ UNCHANGED <<author, sentVars, blocked, mode, timer, pollVars, faults>>

\* The microtask queued by the insert runs before the process can send COMMIT.
CommitInsert(e) ==
    /\ row[e] = "open"
    /\ ~drain[author[e]]
    /\ row' = [row EXCEPT ![e] = "committed"]
    /\ UNCHANGED <<author, log, sentVars, blocked, procVars, pollVars, faults>>

RollbackInsert(e) ==
    /\ row[e] = "open"
    /\ ~drain[author[e]]
    /\ row' = [row EXCEPT ![e] = "rolledback"]
    /\ UNCHANGED <<author, log, sentVars, blocked, procVars, pollVars, faults>>

-----------------------------------------------------------------------------
(* One poll: runPoll visits the tenants from a rotating start.             *)

BeginPoll(p) ==
    /\ phase' = [phase EXCEPT ![p] = "visiting"]
    /\ visited' = [visited EXCEPT ![p] = 0]
    /\ remaining' = [remaining EXCEPT ![p] = BatchSize]
    /\ UNCHANGED <<offset, batch>>

\* pollOnce returns the active poll when there is one.
PollOnce(p) == IF phase[p] = "idle" THEN BeginPoll(p) ELSE UNCHANGED pollVars

\* Mutant of PollSettles: forgets the timer that waits for the poll.
PollSettlesSilently(p) ==
    /\ phase' = [phase EXCEPT ![p] = "idle"]
    /\ visited' = [visited EXCEPT ![p] = 0]
    /\ remaining' = [remaining EXCEPT ![p] = 0]
    /\ UNCHANGED timer

\* The settled poll clears activePoll; a timer waiting for it is re-armed
\* while the worker is running.
PollSettles(p) ==
    /\ phase' = [phase EXCEPT ![p] = "idle"]
    /\ visited' = [visited EXCEPT ![p] = 0]
    /\ remaining' = [remaining EXCEPT ![p] = 0]
    /\ timer' = [timer EXCEPT ![p] =
         IF @ # "waiting" THEN @ ELSE IF mode[p] = "up" THEN "armed" ELSE "off"]

DrainMicrotask(p) ==
    /\ drain[p]
    /\ drain' = [drain EXCEPT ![p] = FALSE]
    /\ PollOnce(p)
    /\ UNCHANGED <<rowVars, sentVars, blocked, mode, timer, faults>>

TimerFires(p) ==
    /\ timer[p] = "due"
    /\ timer' = [timer EXCEPT ![p] = "waiting"]
    /\ PollOnce(p)
    /\ UNCHANGED <<rowVars, sentVars, blocked, mode, drain, faults>>

\* The organization a worker visits after i others in its poll.
OrgAt(p, i) == OrgSeq[((offset[p] + i) % Len(OrgSeq)) + 1]

\* Mutant of OrgLockFree: no tenant lock.
OrgLockIgnored(p, o) == TRUE

\* pg_try_advisory_xact_lock on the organization, held to the end of the transaction.
OrgLockFree(p, o) == \A q \in Procs \ {p} : phase[q] = "tx" => batch[q].org # o

\* Mutants of Eligible: the delay, the commit, a second attempt do not count.
EligibleAtOnce(o, e)      == OrgOf[e] = o /\ row[e] = "committed" /\ e \notin published
EligibleUncommitted(o, e) == OrgOf[e] = o /\ row[e] # "absent" /\ e \notin published /\ wait[e] = 0
EligibleOnce(o, e)        == EligibleAtOnce(o, e) /\ attempts[e] = 0

\* An uncommitted row is invisible to the worker.
Eligible(o, e) ==
    /\ OrgOf[e] = o
    /\ row[e] = "committed"
    /\ e \notin published
    /\ wait[e] = 0

Before(f, e) == \E i, j \in 1..Len(log) : i < j /\ log[i] = f /\ log[j] = e

\* ORDER BY occurredAt LIMIT: the oldest eligible events of the organization.  Its
\* FOR UPDATE SKIP LOCKED, a second protection under the tenant's lock, is left out.
Candidates(o, limit) ==
    {e \in Events : /\ Eligible(o, e)
                    /\ Cardinality({f \in Events : Eligible(o, f) /\ Before(f, e)}) < limit}

Lesser(a, b) == IF a < b THEN a ELSE b

Claim(p, o) == IF OrgLockFree(p, o) THEN Candidates(o, Lesser(remaining[p], OrgLimit)) ELSE {}

\* processOrganization up to the claim: without the lock or without candidates
\* its transaction ends at once.
VisitOrganization(p) ==
    LET o == OrgAt(p, visited[p])
        claimed == Claim(p, o)
    IN
    /\ phase[p] = "visiting"
    /\ visited[p] < Len(OrgSeq)
    /\ remaining[p] > 0
    /\ visited' = [visited EXCEPT ![p] = @ + 1]
    /\ remaining' = [remaining EXCEPT ![p] = @ - Cardinality(claimed)]
    /\ IF claimed = {}
         THEN UNCHANGED <<phase, batch>>
         ELSE /\ phase' = [phase EXCEPT ![p] = "tx"]
              /\ batch' = [batch EXCEPT ![p] = [org |-> o, queue |-> claimed, ok |-> {}, failed |-> {}]]
    /\ UNCHANGED <<rowVars, sentVars, blocked, procVars, offset, faults>>

\* One event of the batch, oldest first, under its savepoint: delivered, or
\* rolled back to the savepoint and marked for a retry.
DeliverNext(p) ==
    /\ phase[p] = "tx"
    /\ \E e \in batch[p].queue :
         /\ \A f \in batch[p].queue : ~Before(f, e)
         /\ batch' = [batch EXCEPT ![p] =
              [org    |-> @.org,
               queue  |-> @.queue \ {e},
               ok     |-> IF e \in blocked THEN @.ok ELSE @.ok \cup {e},
               failed |-> IF e \in blocked THEN @.failed \cup {e} ELSE @.failed]]
    /\ UNCHANGED <<rowVars, sentVars, blocked, procVars, phase, visited, remaining, offset, faults>>

\* Mutant of RetryDelay: no cap.
RetryDelayUncapped(n) == RetryBase * 2^n

RetryDelay(n) == Lesser(RetryMax, RetryBase * 2^n)

CommitOrganization(p) ==
    LET b == batch[p] IN
    /\ phase[p] = "tx"
    /\ b.queue = {}
    /\ published' = published \cup b.ok
    /\ attempts' = [e \in Events |->
         IF e \in b.ok \cup b.failed THEN Lesser(attempts[e] + 1, ExponentCap) ELSE attempts[e]]
    /\ wait' = [e \in Events |-> IF e \in b.failed THEN RetryDelay(attempts[e]) ELSE wait[e]]
    /\ phase' = [phase EXCEPT ![p] = "visiting"]
    /\ batch' = [batch EXCEPT ![p] = EmptyBatch]
    /\ UNCHANGED <<rowVars, blocked, procVars, visited, remaining, offset, faults>>

\* The transaction exceeds its time-out: everything in it is rolled back and
\* runPoll rejects, so neither the other tenants nor the offset are reached.
TimeoutOrganization(p) ==
    /\ phase[p] = "tx"
    /\ \/ batch[p].org \in NoisyOrgs /\ UNCHANGED faults
       \/ faults < MaxFaults /\ faults' = faults + 1
    /\ batch' = [batch EXCEPT ![p] = EmptyBatch]
    /\ PollSettles(p)
    /\ UNCHANGED <<rowVars, sentVars, blocked, mode, drain, offset>>

FinishPoll(p) ==
    /\ phase[p] = "visiting"
    /\ visited[p] = Len(OrgSeq) \/ remaining[p] = 0
    /\ offset' = [offset EXCEPT ![p] = (@ + visited[p]) % Len(OrgSeq)]
    /\ PollSettles(p)
    /\ UNCHANGED <<rowVars, sentVars, blocked, mode, drain, batch, faults>>

-----------------------------------------------------------------------------
(* Processes, time and the destination.                                    *)

\* start(): a timer with delay 0, or one drain at boot in production.
StartProcess(p) ==
    /\ mode[p] = "down"
    /\ mode' = [mode EXCEPT ![p] = "up"]
    /\ IF Continuous
         THEN timer' = [timer EXCEPT ![p] = "due"] /\ UNCHANGED pollVars
         ELSE PollOnce(p) /\ UNCHANGED timer
    /\ UNCHANGED <<rowVars, sentVars, blocked, drain, faults>>

\* SIGTERM: the timer is cleared, requests in flight still run.
StopWorker(p) ==
    /\ mode[p] = "up"
    /\ faults < MaxFaults
    /\ faults' = faults + 1
    /\ mode' = [mode EXCEPT ![p] = "stopping"]
    /\ timer' = [timer EXCEPT ![p] = IF @ = "waiting" THEN @ ELSE "off"]
    /\ UNCHANGED <<rowVars, sentVars, blocked, drain, pollVars>>

\* The process ends; PostgreSQL rolls its open transactions back.
ProcessGone(p) ==
    /\ mode' = [mode EXCEPT ![p] = "down"]
    /\ drain' = [drain EXCEPT ![p] = FALSE]
    /\ timer' = [timer EXCEPT ![p] = "off"]
    /\ row' = [e \in Events |->
         IF row[e] = "open" /\ author[e] = p THEN "rolledback" ELSE row[e]]
    /\ phase' = [phase EXCEPT ![p] = "idle"]
    /\ batch' = [batch EXCEPT ![p] = EmptyBatch]
    /\ visited' = [visited EXCEPT ![p] = 0]
    /\ remaining' = [remaining EXCEPT ![p] = 0]
    /\ offset' = [offset EXCEPT ![p] = 0]
    /\ UNCHANGED <<author, log, sentVars, blocked>>

Exit(p) ==
    /\ mode[p] = "stopping"
    /\ phase[p] = "idle"
    /\ \A e \in Events : author[e] = p => row[e] # "open"
    /\ ProcessGone(p)
    /\ UNCHANGED faults

Crash(p) ==
    /\ mode[p] # "down"
    /\ faults < MaxFaults
    /\ faults' = faults + 1
    /\ ProcessGone(p)

\* One polling interval passes.  With timer polling a poll is shorter than the
\* interval, so no interval ends while a timer is due or a poll is active.
Tick ==
    /\ Continuous => \A p \in Procs : timer[p] # "due" /\ phase[p] = "idle"
    /\ \/ \E e \in Events : wait[e] > 0
       \/ \E p \in Procs : timer[p] = "armed"
    /\ wait' = [e \in Events |-> IF wait[e] > 0 THEN wait[e] - 1 ELSE 0]
    /\ timer' = [p \in Procs |-> IF timer[p] = "armed" THEN "due" ELSE timer[p]]
    /\ UNCHANGED <<rowVars, published, attempts, blocked, mode, drain, pollVars, faults>>

\* An administrator completes or withdraws what the destination needs.
UnblockDestination(e) ==
    /\ e \in blocked
    /\ blocked' = blocked \ {e}
    /\ UNCHANGED <<rowVars, sentVars, procVars, pollVars, faults>>

BlockDestination(e) ==
    /\ e \notin blocked
    /\ faults < MaxFaults
    /\ faults' = faults + 1
    /\ blocked' = blocked \cup {e}
    /\ UNCHANGED <<rowVars, sentVars, procVars, pollVars>>

Next ==
    \/ \E e \in Events : \/ Insert(e) \/ CommitInsert(e) \/ RollbackInsert(e)
                         \/ UnblockDestination(e) \/ BlockDestination(e)
    \/ \E p \in Procs : \/ DrainMicrotask(p) \/ TimerFires(p)
                        \/ VisitOrganization(p) \/ DeliverNext(p)
                        \/ CommitOrganization(p) \/ TimeoutOrganization(p) \/ FinishPoll(p)
                        \/ StartProcess(p) \/ StopWorker(p) \/ Exit(p) \/ Crash(p)
    \/ Tick

\* What the active poll of p does next when nothing fails.
PollStep(p) == VisitOrganization(p) \/ DeliverNext(p) \/ CommitOrganization(p) \/ FinishPoll(p)

\* Every handler that started finishes, the event loop runs its microtasks and
\* timers, the platform restarts a process, time passes.  Administrators and
\* failures are under no fairness.
Fairness ==
    /\ \A e \in Events : WF_vars(CommitInsert(e) \/ RollbackInsert(e))
    /\ \A p \in Procs :
         /\ WF_vars(DrainMicrotask(p))
         /\ WF_vars(TimerFires(p))
         /\ WF_vars(PollStep(p))
         /\ WF_vars(StartProcess(p))
         /\ WF_vars(Exit(p))
    /\ WF_vars(Tick)

Spec == Init /\ [][Next]_vars
FairSpec == Spec /\ Fairness

-----------------------------------------------------------------------------
(* Properties.                                                             *)

Claimed(p) == batch[p].queue \cup batch[p].ok \cup batch[p].failed

\* Two workers never hold the same event at once, and neither holds an event that
\* is already published or whose domain transaction is not committed: what a
\* worker delivers, it delivers once, whatever crashes and time-outs come before.
NoSharedClaim ==
    \A p \in Procs :
      /\ \A e \in Claimed(p) : row[e] = "committed" /\ e \notin published
      /\ \A q \in Procs \ {p} : Claimed(p) \cap Claimed(q) = {}

\* A refused event is attempted again only after its delay has passed, whichever
\* process makes the attempt.
BackoffRespected ==
    [][\A e \in Events : (e \in published' \ published \/ wait'[e] > wait[e]) => wait[e] = 0]_vars

\* What the event says to the outside, for the abstract contract.
Stage == [e \in Events |->
            IF e \in published THEN "delivered"
            ELSE IF row[e] = "committed" THEN "pending"
            ELSE IF row[e] = "rolledback" THEN "void" ELSE "none"]

\* The worker implements the outbox contract: an event becomes pending with the
\* commit of its domain change, is delivered once and stays delivered.
Contract == INSTANCE Contracts WITH stage <- Stage, Families <- {}, Entries <- {}, journal <- <<>>
ImplementsContract == Contract!OutboxSpec

\* Every committed event reaches its destination unless the destination keeps
\* refusing it: "one noisy tenant cannot consume the entire poll forever", refused
\* events before it do not starve it, nor do crashes and time-outs that end.  The
\* events of a tenant whose own transaction always times out are not promised.
EveryEventDelivered ==
    \A e \in {x \in Events : OrgOf[x] \notin NoisyOrgs} :
      (row[e] = "committed" /\ e \notin blocked) ~> (e \in published \/ e \in blocked)

\* The poll of p passes e over: it has claimed all that one poll may, or all that
\* one tenant may, and the tenant's share went to older events.
LeftOut(p, e) ==
    /\ phase[p] # "idle"
    /\ e \notin Claimed(p)
    /\ \/ remaining[p] = 0
       \/ /\ phase[p] = "tx"
          /\ batch[p].org = OrgOf[e]
          /\ Cardinality(Claimed(p)) >= OrgLimit
          /\ \A f \in Claimed(p) : Before(f, e)

\* e is committed and due when a drain is queued while the worker is idle.
WaitsForDrain(e) ==
    /\ row[e] = "committed" /\ e \notin published /\ wait[e] = 0
    /\ \E p \in Procs : drain[p] /\ phase[p] = "idle"

\* e was attempted (published, or refused and delayed), or a poll passes it over.
TakenOrLeftOut(e) ==
    \/ e \in published
    \/ wait[e] > 0
    \/ \E p \in Procs : LeftOut(p, e)

\* The on-demand drain takes along what is already waiting, up to its limits: what
\* is due when a drain is queued is attempted unless a poll has used up its total,
\* or its tenant's limit, without it.  What a poll leaves out then waits for the
\* next emission or boot: nothing follows a drain up.
DrainTakesWaitingEvents == \A e \in Events : WaitsForDrain(e) ~> TakenOrLeftOut(e)
-----------------------------------------------------------------------------
(* Instances: one tenant or two, numbered; the events are all of the first,  *)
(* or all but one of the second.                                             *)

OneOrg == <<1>>
TwoOrgs == <<1, 2>>
AllInOne == [e \in Events |-> 1]
LastApart == LET first == CHOOSE e \in Events : TRUE IN [e \in Events |-> IF e = first THEN 1 ELSE 2]

\* Processes and the events of one tenant are interchangeable.
WorkerSymmetry == Permutations(Procs) \cup Permutations(Events)
=============================================================================
