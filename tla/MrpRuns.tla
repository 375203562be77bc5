------------------------------- MODULE MrpRuns -------------------------------
(***************************************************************************)
(* MRP runs of a company and the suggestions they make                     *)
(* (mesaerp/planningService.ts).  A run collects its inputs twice, table   *)
(* by table, with other transactions committing in between, and is kept    *)
(* only when both collections agree.  A suggestion is submitted, approved  *)
(* and released, and each step collects the inputs again.                  *)
(*                                                                         *)
(* The inputs are two tables read one after the other: planning policies   *)
(* with their row version, then the rest, represented by the approved      *)
(* forecasts and the active reservations.  How a run computes its          *)
(* suggestions from them is MrpNetting; here a run suggests one supply.    *)
(***************************************************************************)
EXTENDS Naturals, Sequences, FiniteSets

CONSTANTS Runs, Members, Forecasts, Reservations, MaxPolicy, Nothing

\* What a run is made from, and a run with its suggestion.
Collected == (0 .. MaxPolicy) \X ((SUBSET Forecasts) \X (SUBSET Reservations))
RunRecords == [inputs : Collected, stage : {"draft", "submitted", "approved", "released"}, maker : Members]
MrpAssumption == MaxPolicy \in Nat /\ Nothing \notin RunRecords

VARIABLES policy,       \* row version of the planning policies
          forecast,     \* forecast[f]: its stage and maker
          reserved,     \* active reservations
          seen,         \* history: every state the inputs have been in
          calculating,  \* the calculation that holds the company's MRP lock
          run,          \* run[r]: the inputs a run was made from, and its suggestion
          acting,       \* acting[m]: a suggestion step in flight
          supplies      \* resources that releases created

vars == <<policy, forecast, reserved, seen, calculating, run, acting, supplies>>

ApprovedForecasts == {f \in Forecasts : forecast[f].stage = "approved"}
Rest == <<ApprovedForecasts, reserved>>
Inputs == <<policy, Rest>>
Stages == <<"none", "draft", "submitted", "approved", "released">>

TypeOK ==
    /\ policy \in 0..MaxPolicy
    /\ \A f \in Forecasts : forecast[f].stage \in {"none", "draft", "submitted", "approved"}
    /\ reserved \subseteq Reservations
    /\ run \in [Runs -> RunRecords \cup {Nothing}]
    /\ \A s \in supplies : run[s.run].stage = "released" /\ s.for = run[s.run].inputs

Init ==
    /\ policy = 0 /\ reserved = {}
    /\ forecast = [f \in Forecasts |-> [stage |-> "none", maker |-> Nothing]]
    /\ seen = {Inputs}
    /\ calculating = Nothing
    /\ run = [r \in Runs |-> Nothing]
    /\ acting = [m \in Members |-> Nothing]
    /\ supplies = {}

-----------------------------------------------------------------------------
(* The inputs change while runs are calculated and acted on.               *)

Changes == /\ seen' = seen \cup {Inputs'}
           /\ UNCHANGED <<calculating, run, acting, supplies>>

UpdatePlanningPolicy ==
    /\ policy < MaxPolicy
    /\ policy' = policy + 1
    /\ UNCHANGED <<forecast, reserved>> /\ Changes

CreateForecast(m, f) ==
    /\ forecast[f].stage = "none"
    /\ forecast' = [forecast EXCEPT ![f] = [stage |-> "draft", maker |-> m]]
    /\ UNCHANGED <<policy, reserved>> /\ Changes
SubmitForecast(f) ==
    /\ forecast[f].stage = "draft"
    /\ forecast' = [forecast EXCEPT ![f].stage = "submitted"]
    /\ UNCHANGED <<policy, reserved>> /\ Changes
ApproveForecast(m, f) ==
    /\ forecast[f].stage = "submitted" /\ forecast[f].maker # m
    /\ forecast' = [forecast EXCEPT ![f].stage = "approved"]
    /\ UNCHANGED <<policy, reserved>> /\ Changes

\* StockReservations, seen from here.
Reserve(x) == /\ reserved' = reserved \cup {x}
              /\ UNCHANGED <<policy, forecast>> /\ Changes
Unreserve(x) == /\ reserved' = reserved \ {x}
                /\ UNCHANGED <<policy, forecast>> /\ Changes

-----------------------------------------------------------------------------
(* createMrpRun.                                                           *)

BeginRun(m, r) ==
    /\ calculating = Nothing /\ run[r] = Nothing
    /\ calculating' = [by |-> m, run |-> r, reads |-> <<>>]
    /\ UNCHANGED <<policy, forecast, reserved, seen, run, acting, supplies>>

\* Policies, the rest, then policies and the rest once more.
Collect ==
    /\ calculating # Nothing /\ Len(calculating.reads) < 4
    /\ calculating' = [calculating EXCEPT !.reads =
                         Append(@, IF Len(@) \in {0, 2} THEN policy ELSE Rest)]
    /\ UNCHANGED <<policy, forecast, reserved, seen, run, acting, supplies>>

\* Mutant of Confirmed: the inputs are collected once.
ConfirmedUnread(reads) == TRUE
Confirmed(reads) == SubSeq(reads, 1, 2) = SubSeq(reads, 3, 4)

FinishRun ==
    /\ calculating # Nothing /\ Len(calculating.reads) = 4
    /\ run' = IF Confirmed(calculating.reads)
              THEN [run EXCEPT ![calculating.run] =
                      [inputs |-> SubSeq(calculating.reads, 1, 2), stage |-> "draft",
                       maker |-> calculating.by]]
              ELSE run
    /\ calculating' = Nothing
    /\ UNCHANGED <<policy, forecast, reserved, seen, acting, supplies>>

-----------------------------------------------------------------------------
(* transitionMrpSuggestion: submit, approve and release.                   *)

Position(stage) == CHOOSE k \in DOMAIN Stages : Stages[k] = stage
Following(stage) == Stages[Position(stage) + 1]

\* Mutant of SuggestionLockFree: two members may act on one suggestion.
SuggestionLockIgnored(r) == TRUE
\* The row of the suggestion is locked until the step commits.
SuggestionLockFree(r) == \A m \in Members : acting[m] # Nothing => acting[m].run # r

\* Stage, maker and the policies are read here.
BeginStep(m, r) ==
    /\ acting[m] = Nothing
    /\ run[r] # Nothing /\ run[r].stage # "released"
    /\ run[r].stage = "submitted" => run[r].maker # m
    /\ SuggestionLockFree(r)
    /\ acting' = [acting EXCEPT ![m] = [run |-> r, from |-> run[r].stage, policy |-> policy]]
    /\ UNCHANGED <<policy, forecast, reserved, seen, calculating, run, supplies>>

Fresh(m) == <<acting[m].policy, Rest>> = run[acting[m].run].inputs
Resource(m) == [run |-> acting[m].run, by |-> m, for |-> run[acting[m].run].inputs]

\* A release also creates a draft demand, requisition or transfer proposal.
CommitStep(m) ==
    /\ acting[m] # Nothing /\ Fresh(m)
    /\ run' = [run EXCEPT ![acting[m].run].stage = Following(acting[m].from)]
    /\ supplies' = IF acting[m].from = "approved" THEN supplies \cup {Resource(m)} ELSE supplies
    /\ acting' = [acting EXCEPT ![m] = Nothing]
    /\ UNCHANGED <<policy, forecast, reserved, seen, calculating>>

\* mrp_run_stale, or any later failure.
AbortStep(m) ==
    /\ acting[m] # Nothing
    /\ acting' = [acting EXCEPT ![m] = Nothing]
    /\ UNCHANGED <<policy, forecast, reserved, seen, calculating, run, supplies>>

Next ==
    \/ UpdatePlanningPolicy \/ Collect \/ FinishRun
    \/ \E m \in Members, f \in Forecasts : CreateForecast(m, f) \/ ApproveForecast(m, f)
    \/ \E f \in Forecasts : SubmitForecast(f)
    \/ \E x \in Reservations : Reserve(x) \/ Unreserve(x)
    \/ \E m \in Members : \/ CommitStep(m) \/ AbortStep(m)
                          \/ \E r \in Runs : BeginRun(m, r) \/ BeginStep(m, r)

Spec == Init /\ [][Next]_vars

-----------------------------------------------------------------------------
\* The inputs of a run, although read table by table without a lock, are those of one
\* moment, and a suggestion creates one resource however many members press release.
RunsConsistent ==
    /\ \A r \in Runs : run[r] # Nothing => run[r].inputs \in seen
    /\ \A r \in Runs : Cardinality({s \in supplies : s.run = r}) <= 1
=============================================================================
