----------------------------- MODULE MC_Outbox -----------------------------
(***************************************************************************)
(* What the outbox worker promises in its two modes, on instances of       *)
(* IntegrationOutbox: "polling" drains on a timer; the others are the      *)
(* production mode, which drains at boot and when an event is emitted,     *)
(* with more events waiting than a tenant ("tenantLimit") or than the poll *)
(* ("pollLimit") may claim.  A behaviour is one of one subject.            *)
(***************************************************************************)
EXTENDS Integers

CONSTANTS e1, e2, e3,  \* outbox rows
          p1           \* the one server process

VARIABLES subject,     \* the instance of this behaviour
          row, author, log, published, attempts, wait, blocked, mode, drain,
          timer, phase, visited, remaining, offset, batch, faults

\* The first tenant has two events, the second has one.
BacklogOf == [e \in {e1, e2, e3} |-> IF e = e3 THEN 2 ELSE 1]

\* An event of each tenant; a poll may claim one, so that one tenant can exhaust it.
Polled == {e1, e3}
Polling ==
    INSTANCE IntegrationOutbox WITH
      Events <- Polled, Procs <- {p1}, OrgSeq <- <<1, 2>>,
      OrgOf <- [e \in Polled |-> BacklogOf[e]],
      Continuous <- TRUE, BatchSize <- 1, OrgLimit <- 1, RetryBase <- 1,
      RetryMax <- 2, ExponentCap <- 1, NoisyOrgs <- {}, MaxFaults <- 1

\* A poll takes one event of a tenant, and has room for all tenants, as in the code
\* while the tenants are few.  No faults: a fault would lose the drain itself.
TenantLimit ==
    INSTANCE IntegrationOutbox WITH
      Events <- {e1, e2, e3}, Procs <- {p1}, OrgSeq <- <<1, 2>>,
      OrgOf <- BacklogOf,
      Continuous <- FALSE, BatchSize <- 3, OrgLimit <- 1, RetryBase <- 1,
      RetryMax <- 2, ExponentCap <- 1, NoisyOrgs <- {}, MaxFaults <- 0

\* Two events of one tenant exhaust the poll.
PollLimit ==
    INSTANCE IntegrationOutbox WITH
      Events <- {e1, e2, e3}, Procs <- {p1}, OrgSeq <- <<1, 2>>,
      OrgOf <- BacklogOf,
      Continuous <- FALSE, BatchSize <- 2, OrgLimit <- 2, RetryBase <- 1,
      RetryMax <- 2, ExponentCap <- 1, NoisyOrgs <- {}, MaxFaults <- 0

\* With a backlog the destination refuses at most the event e1 at first.
Init ==
    \/ subject = "polling" /\ Polling!Init
    \/ subject = "tenantLimit" /\ TenantLimit!Init /\ blocked \subseteq {e1}
    \/ subject = "pollLimit" /\ PollLimit!Init /\ blocked \subseteq {e1}

Next ==
    /\ UNCHANGED subject
    /\ \/ subject = "polling" /\ Polling!Next
       \/ subject = "tenantLimit" /\ TenantLimit!Next
       \/ subject = "pollLimit" /\ PollLimit!Next

outboxVars == Polling!vars
vars == <<subject, outboxVars>>

\* The fairness of IntegrationOutbox, one condition for all instances: a behaviour
\* keeps its subject.
Fairness ==
    /\ \A e \in {e1, e2, e3} :
         WF_outboxVars(\/ subject = "polling" /\ e \in Polled /\ (Polling!CommitInsert(e) \/ Polling!RollbackInsert(e))
                       \/ subject = "tenantLimit" /\ (TenantLimit!CommitInsert(e) \/ TenantLimit!RollbackInsert(e))
                       \/ subject = "pollLimit" /\ (PollLimit!CommitInsert(e) \/ PollLimit!RollbackInsert(e)))
    /\ WF_outboxVars(\/ subject = "polling" /\ Polling!DrainMicrotask(p1)
                     \/ subject = "tenantLimit" /\ TenantLimit!DrainMicrotask(p1)
                     \/ subject = "pollLimit" /\ PollLimit!DrainMicrotask(p1))
    /\ WF_outboxVars(subject = "polling" /\ Polling!TimerFires(p1))
    /\ WF_outboxVars(\/ subject = "polling" /\ Polling!PollStep(p1)
                     \/ subject = "tenantLimit" /\ TenantLimit!PollStep(p1)
                     \/ subject = "pollLimit" /\ PollLimit!PollStep(p1))
    /\ WF_outboxVars(\/ subject = "polling" /\ Polling!StartProcess(p1)
                     \/ subject = "tenantLimit" /\ TenantLimit!StartProcess(p1)
                     \/ subject = "pollLimit" /\ PollLimit!StartProcess(p1))
    /\ WF_outboxVars(subject = "polling" /\ Polling!Exit(p1))
    /\ WF_outboxVars(\/ subject = "polling" /\ Polling!Tick
                     \/ subject = "tenantLimit" /\ TenantLimit!Tick
                     \/ subject = "pollLimit" /\ PollLimit!Tick)

Spec == Init /\ [][Next]_vars /\ Fairness

\* With timer polling every committed event of either tenant is delivered or is
\* refused by its destination, after a crash, a stop or a time-out as well.
EveryEventDelivered == subject = "polling" => Polling!EveryEventDelivered

\* In the production mode a drain queued while the worker is idle attempts what was
\* committed and due at that moment, in both tenants, except what exceeds the
\* tenant's limit or the poll's total.
DrainTakesWaitingEvents ==
    \A e \in {e1, e2, e3} :
      /\ (subject = "tenantLimit" /\ TenantLimit!WaitsForDrain(e))
           ~> (subject = "tenantLimit" /\ TenantLimit!TakenOrLeftOut(e))
      /\ (subject = "pollLimit" /\ PollLimit!WaitsForDrain(e))
           ~> (subject = "pollLimit" /\ PollLimit!TakenOrLeftOut(e))
=============================================================================
