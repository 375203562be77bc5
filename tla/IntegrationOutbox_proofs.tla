---------------------- MODULE IntegrationOutbox_proofs ----------------------
(***************************************************************************)
(* Proofs about IntegrationOutbox, for every set of events, processes and  *)
(* tenants.                                                                *)
(***************************************************************************)
EXTENDS IntegrationOutbox, FiniteSetTheorems, TLAPS

USE OutboxAssumption, DelayAssumption

\* The organization visited is one of the tenants, and the first one exists.
LEMMA OrgAtTyped ==
    ASSUME TypeOK, NEW p \in Procs
    PROVE  OrgAt(p, visited[p]) \in Orgs /\ OrgSeq[1] \in Orgs
<1>1. Len(OrgSeq) \in Nat \ {0}
  BY DEF Orgs
<1>2. (offset[p] + visited[p]) % Len(OrgSeq) \in 0..Len(OrgSeq)-1
  <2>1. offset[p] + visited[p] \in Nat
    BY <1>1 DEF TypeOK
  <2> QED BY <1>1, <2>1
<1> QED BY <1>1, <1>2 DEF OrgAt, Orgs

\* The number of claimed events is a natural number.
LEMMA ClaimFinite ==
    ASSUME NEW p \in Procs, NEW o \in Orgs
    PROVE  Claim(p, o) \subseteq Events /\ Cardinality(Claim(p, o)) \in Nat
<1>1. Claim(p, o) \subseteq Events
  BY DEF Claim, Candidates
<1>2. IsFiniteSet(Claim(p, o))
  BY <1>1, FS_Subset
<1> QED BY <1>1, <1>2, FS_CardinalityType

Batches == [org : Orgs, queue : SUBSET Events, ok : SUBSET Events, failed : SUBSET Events]

PollVarsTyped ==
    /\ phase \in [Procs -> {"idle", "visiting", "tx"}]
    /\ visited \in [Procs -> 0..Len(OrgSeq)]
    /\ remaining \in [Procs -> Int]
    /\ offset \in [Procs -> 0..Len(OrgSeq)-1]
    /\ batch \in [Procs -> Batches]

\* Starting a poll, or leaving the active one alone, keeps the types.
LEMMA PollOnceTyped ==
    ASSUME TypeOK, NEW p \in Procs, PollOnce(p)
    PROVE  PollVarsTyped'
<1>1. Len(OrgSeq) \in Nat \ {0}
  OBVIOUS
<1>2. CASE phase[p] = "idle"
  <2>1. BeginPoll(p)
    BY <1>2 DEF PollOnce
  <2> QED BY <1>1, <2>1 DEF BeginPoll, TypeOK, PollVarsTyped, Batches
<1>3. CASE phase[p] # "idle"
  <2>1. UNCHANGED pollVars
    BY <1>3 DEF PollOnce
  <2> QED BY <2>1 DEF pollVars, TypeOK, PollVarsTyped, Batches
<1> QED BY <1>2, <1>3

\* So does settling one.
LEMMA PollSettlesTyped ==
    ASSUME TypeOK, NEW p \in Procs, PollSettles(p)
    PROVE  /\ phase' \in [Procs -> {"idle", "visiting", "tx"}]
           /\ visited' \in [Procs -> 0..Len(OrgSeq)]
           /\ remaining' \in [Procs -> Int]
           /\ timer' \in [Procs -> {"off", "armed", "due", "waiting"}]
<1>1. Len(OrgSeq) \in Nat \ {0}
  OBVIOUS
<1>2. phase' = [phase EXCEPT ![p] = "idle"] /\ phase' \in [Procs -> {"idle", "visiting", "tx"}]
  BY DEF PollSettles, TypeOK
<1>3. visited' \in [Procs -> 0..Len(OrgSeq)]
  BY <1>1 DEF PollSettles, TypeOK
<1>4. remaining' \in [Procs -> Int]
  BY DEF PollSettles, TypeOK
<1>5. timer' \in [Procs -> {"off", "armed", "due", "waiting"}]
  <2>1. PICK t \in {"off", "armed", "due", "waiting"} : timer' = [timer EXCEPT ![p] = t]
    BY DEF PollSettles, TypeOK
  <2> QED BY <2>1 DEF TypeOK
<1> QED BY <1>2, <1>3, <1>4, <1>5

\* The end of a process keeps the types; it leaves faults to its caller.
LEMMA GoneTyped ==
    ASSUME TypeOK, NEW p \in Procs, ProcessGone(p), faults' \in 0..MaxFaults
    PROVE  TypeOK'
<1>1. Len(OrgSeq) \in Nat \ {0} /\ EmptyBatch \in Batches
  BY DEF EmptyBatch, Batches, Orgs
<1>2. PollVarsTyped'
  BY <1>1 DEF ProcessGone, TypeOK, PollVarsTyped, Batches
<1> QED BY <1>2 DEF ProcessGone, TypeOK, PollVarsTyped, Batches, sentVars

LEMMA InitType == Init => TypeOK
<1> SUFFICES ASSUME Init PROVE TypeOK
  OBVIOUS
<1>1. OrgSeq[1] \in Orgs /\ Len(OrgSeq) \in Nat \ {0}
  BY DEF Orgs
<1>2. EmptyBatch \in [org : Orgs, queue : SUBSET Events, ok : SUBSET Events, failed : SUBSET Events]
  BY <1>1 DEF EmptyBatch
<1> QED BY <1>1, <1>2 DEF Init, TypeOK

LEMMA NextType == TypeOK /\ [Next]_vars => TypeOK'
<1> SUFFICES ASSUME TypeOK, [Next]_vars PROVE TypeOK'
  OBVIOUS
<1> USE DEF rowVars, sentVars, procVars, pollVars
<1>n. Len(OrgSeq) \in Nat \ {0} /\ OrgSeq[1] \in Orgs
  BY DEF Orgs
<1>b. EmptyBatch \in [org : Orgs, queue : SUBSET Events, ok : SUBSET Events, failed : SUBSET Events]
  BY <1>n DEF EmptyBatch
<1>1. ASSUME NEW e \in Events, Insert(e) PROVE TypeOK'
  BY <1>1 DEF Insert, TypeOK
<1>2. ASSUME NEW e \in Events, CommitInsert(e) PROVE TypeOK'
  BY <1>2 DEF CommitInsert, TypeOK
<1>3. ASSUME NEW e \in Events, RollbackInsert(e) PROVE TypeOK'
  BY <1>3 DEF RollbackInsert, TypeOK
<1>4. ASSUME NEW e \in Events, UnblockDestination(e) PROVE TypeOK'
  BY <1>4 DEF UnblockDestination, TypeOK
<1>5. ASSUME NEW e \in Events, BlockDestination(e) PROVE TypeOK'
  BY <1>5 DEF BlockDestination, TypeOK
<1>6. ASSUME NEW p \in Procs, DrainMicrotask(p) PROVE TypeOK'
  <2>1. PollVarsTyped'
    BY <1>6, PollOnceTyped DEF DrainMicrotask
  <2> QED BY <1>6, <2>1 DEF DrainMicrotask, TypeOK, PollVarsTyped, Batches
<1>7. ASSUME NEW p \in Procs, TimerFires(p) PROVE TypeOK'
  <2>1. PollVarsTyped'
    BY <1>7, PollOnceTyped DEF TimerFires
  <2> QED BY <1>7, <2>1 DEF TimerFires, TypeOK, PollVarsTyped, Batches
<1>8. ASSUME NEW p \in Procs, VisitOrganization(p) PROVE TypeOK'
  <2> DEFINE o == OrgAt(p, visited[p])
  <2>1. o \in Orgs /\ Claim(p, o) \subseteq Events /\ Cardinality(Claim(p, o)) \in Nat
    BY OrgAtTyped, ClaimFinite
  <2>2. visited'[p] \in 0..Len(OrgSeq) /\ visited' \in [Procs -> 0..Len(OrgSeq)]
    BY <1>8, <1>n DEF VisitOrganization, TypeOK
  <2>3. remaining' \in [Procs -> Int]
    BY <1>8, <2>1 DEF VisitOrganization, TypeOK
  <2>4. phase' \in [Procs -> {"idle", "visiting", "tx"}]
    BY <1>8 DEF VisitOrganization, TypeOK
  <2>5. batch' \in [Procs -> [org : Orgs, queue : SUBSET Events, ok : SUBSET Events, failed : SUBSET Events]]
    <3> HIDE DEF o
    <3>1. CASE Claim(p, o) = {}
      BY <1>8, <3>1 DEF VisitOrganization, TypeOK, o
    <3>2. CASE Claim(p, o) # {}
      <4>1. batch' = [batch EXCEPT ![p] = [org |-> o, queue |-> Claim(p, o), ok |-> {}, failed |-> {}]]
        BY <1>8, <3>2 DEF VisitOrganization, o
      <4> QED BY <4>1, <2>1 DEF TypeOK
    <3> QED BY <3>1, <3>2
  <2> QED BY <1>8, <2>2, <2>3, <2>4, <2>5 DEF VisitOrganization, TypeOK
<1>9. ASSUME NEW p \in Procs, DeliverNext(p) PROVE TypeOK'
  <2>1. PICK e \in batch[p].queue : batch' = [batch EXCEPT ![p] =
              [org    |-> @.org,
               queue  |-> @.queue \ {e},
               ok     |-> IF e \in blocked THEN @.ok ELSE @.ok \cup {e},
               failed |-> IF e \in blocked THEN @.failed \cup {e} ELSE @.failed]]
    BY <1>9 DEF DeliverNext
  <2>2. batch[p] \in Batches /\ e \in Events
    BY DEF TypeOK, Batches
  <2>3. [org    |-> batch[p].org,
         queue  |-> batch[p].queue \ {e},
         ok     |-> IF e \in blocked THEN batch[p].ok ELSE batch[p].ok \cup {e},
         failed |-> IF e \in blocked THEN batch[p].failed \cup {e} ELSE batch[p].failed] \in Batches
    BY <2>2 DEF Batches
  <2>4. batch' \in [Procs -> Batches]
    BY <2>1, <2>3 DEF TypeOK, Batches
  <2> QED BY <1>9, <2>4 DEF DeliverNext, TypeOK, Batches
<1>10. ASSUME NEW p \in Procs, CommitOrganization(p) PROVE TypeOK'
  <2> DEFINE b == batch[p]
  <2>1. b.ok \subseteq Events /\ b.failed \subseteq Events
    BY DEF TypeOK
  <2>2. published' \subseteq Events /\ phase' \in [Procs -> {"idle", "visiting", "tx"}]
    BY <1>10, <2>1 DEF CommitOrganization, TypeOK
  <2>3. attempts' \in [Events -> 0..ExponentCap]
    BY <1>10 DEF CommitOrganization, TypeOK, Lesser
  <2>4. wait' \in [Events -> 0..RetryMax]
    <3>1. \A n \in 0..ExponentCap : RetryDelay(n) \in 0..RetryMax
      BY DEF RetryDelay, Lesser
    <3> QED BY <1>10, <3>1 DEF CommitOrganization, TypeOK
  <2> QED BY <1>10, <1>b, <2>2, <2>3, <2>4 DEF CommitOrganization, TypeOK
<1>11. ASSUME NEW p \in Procs, TimeoutOrganization(p) PROVE TypeOK'
  <2>1. PollSettles(p)
    BY <1>11 DEF TimeoutOrganization
  <2>2. faults' \in 0..MaxFaults
    BY <1>11 DEF TimeoutOrganization, TypeOK
  <2>3. batch' \in [Procs -> Batches]
    <3>1. batch' = [batch EXCEPT ![p] = EmptyBatch]
      BY <1>11 DEF TimeoutOrganization
    <3> QED BY <3>1, <1>b DEF TypeOK, Batches
  <2> QED BY <1>11, <2>1, <2>2, <2>3, PollSettlesTyped DEF TimeoutOrganization, TypeOK, Batches
<1>12. ASSUME NEW p \in Procs, FinishPoll(p) PROVE TypeOK'
  <2>1. (offset[p] + visited[p]) % Len(OrgSeq) \in 0..Len(OrgSeq)-1
    <3>1. offset[p] + visited[p] \in Nat
      BY <1>n DEF TypeOK
    <3> QED BY <1>n, <3>1
  <2>2. PollSettles(p) /\ offset' \in [Procs -> 0..Len(OrgSeq)-1]
    BY <1>12, <2>1 DEF FinishPoll, TypeOK
  <2> QED BY <1>12, <2>2, PollSettlesTyped DEF FinishPoll, TypeOK
<1>13. ASSUME NEW p \in Procs, StartProcess(p) PROVE TypeOK'
  <2>1. CASE Continuous
    BY <1>13, <2>1 DEF StartProcess, TypeOK
  <2>2. CASE ~Continuous
    <3>1. PollVarsTyped'
      BY <1>13, <2>2, PollOnceTyped DEF StartProcess
    <3> QED BY <1>13, <2>2, <3>1 DEF StartProcess, TypeOK, PollVarsTyped, Batches
  <2> QED BY <2>1, <2>2
<1>14. ASSUME NEW p \in Procs, StopWorker(p) PROVE TypeOK'
  BY <1>14 DEF StopWorker, TypeOK
<1>15. ASSUME NEW p \in Procs, Exit(p) PROVE TypeOK'
  BY <1>15, GoneTyped DEF Exit, TypeOK
<1>16. ASSUME NEW p \in Procs, Crash(p) PROVE TypeOK'
  <2>1. faults' \in 0..MaxFaults
    BY <1>16 DEF Crash, TypeOK
  <2> QED BY <1>16, <2>1, GoneTyped DEF Crash, TypeOK
<1>17. CASE Tick
  BY <1>17 DEF Tick, TypeOK
<1>18. CASE UNCHANGED vars
  BY <1>18 DEF vars, TypeOK
<1> QED
  BY <1>1, <1>2, <1>3, <1>4, <1>5, <1>6, <1>7, <1>8, <1>9, <1>10, <1>11, <1>12, <1>13,
     <1>14, <1>15, <1>16, <1>17, <1>18 DEF Next

\* Every variable keeps its type, for every constant the assumptions allow.
THEOREM TypeCorrect == Spec => []TypeOK
<1> QED BY InitType, NextType, PTL DEF Spec

-----------------------------------------------------------------------------
(* The inductive invariant: an open transaction of a worker holds committed, *)
(* unpublished, due events of the tenant whose lock it has, and no two open  *)
(* transactions have the same tenant.                                        *)

NoClaimOutsideTx == \A p \in Procs : phase[p] # "tx" => Claimed(p) = {}

ClaimsAreDue ==
    \A p \in Procs : \A e \in Claimed(p) :
      /\ OrgOf[e] = batch[p].org
      /\ row[e] = "committed"
      /\ e \notin published
      /\ wait[e] = 0

OneTxPerOrg ==
    \A p, q \in Procs :
      (p # q /\ phase[p] = "tx" /\ phase[q] = "tx") => batch[p].org # batch[q].org

PublishedCommitted == \A e \in published : row[e] = "committed"

ClaimInv == NoClaimOutsideTx /\ ClaimsAreDue /\ OneTxPerOrg /\ PublishedCommitted

LEMMA InitClaim == Init => ClaimInv
  BY DEF Init, ClaimInv, NoClaimOutsideTx, ClaimsAreDue, OneTxPerOrg, PublishedCommitted,
         Claimed, EmptyBatch

\* A step that opens no transaction, publishes nothing, delays nothing and takes
\* no commit back keeps the invariant.
LEMMA QuietStep ==
    ASSUME TypeOK, ClaimInv,
           published' = published,
           \A e \in Events : row[e] = "committed" => row'[e] = "committed",
           \A e \in Events : wait[e] = 0 => wait'[e] = 0,
           \A p \in Procs :
             \/ batch'[p] = batch[p] /\ (phase[p] = "tx" <=> phase'[p] = "tx")
             \/ batch'[p] = EmptyBatch /\ phase'[p] # "tx"
    PROVE  ClaimInv'
<1>1. \A p \in Procs : Claimed(p)' = Claimed(p) \/ Claimed(p)' = {}
  BY DEF Claimed, EmptyBatch
<1>2. \A p \in Procs : Claimed(p) \subseteq Events
  BY DEF Claimed, TypeOK
<1>3. NoClaimOutsideTx'
  BY DEF ClaimInv, NoClaimOutsideTx, Claimed, EmptyBatch
<1>4. ClaimsAreDue'
  <2> SUFFICES ASSUME NEW p \in Procs, NEW e \in Claimed(p)'
               PROVE  (OrgOf[e] = batch[p].org /\ row[e] = "committed" /\ e \notin published /\ wait[e] = 0)'
    BY DEF ClaimsAreDue
  <2>1. batch'[p] = batch[p] /\ e \in Claimed(p)
    BY DEF Claimed, EmptyBatch
  <2> QED BY <2>1, <1>2 DEF ClaimInv, ClaimsAreDue
<1>5. OneTxPerOrg'
  BY DEF ClaimInv, OneTxPerOrg
<1>6. PublishedCommitted'
  BY DEF ClaimInv, PublishedCommitted, TypeOK
<1> QED BY <1>3, <1>4, <1>5, <1>6 DEF ClaimInv

\* Opening a transaction: the lock was free and every claimed event is eligible.
LEMMA VisitClaim ==
    ASSUME TypeOK, ClaimInv, NEW p \in Procs, VisitOrganization(p)
    PROVE  ClaimInv'
<1> DEFINE o == OrgAt(p, visited[p])
           claimed == Claim(p, o)
<1>1. CASE claimed = {}
  <2>1. UNCHANGED <<phase, batch>>
    BY <1>1 DEF VisitOrganization
  <2> QED BY <2>1, QuietStep DEF VisitOrganization, rowVars, sentVars
<1>2. CASE claimed # {}
  <2> HIDE DEF o
  <2>1. /\ phase' = [phase EXCEPT ![p] = "tx"]
        /\ batch' = [batch EXCEPT ![p] = [org |-> o, queue |-> Claim(p, o), ok |-> {}, failed |-> {}]]
        /\ UNCHANGED <<row, published, wait>>
    BY <1>2 DEF VisitOrganization, rowVars, sentVars, o
  <2>2. OrgLockFree(p, o) /\ \A e \in Claim(p, o) : e \in Events /\ Eligible(o, e)
    BY <1>2 DEF Claim, Candidates
  <2>3. Claimed(p)' = Claim(p, o) /\ batch'[p].org = o /\ phase'[p] = "tx"
    BY <2>1 DEF Claimed, TypeOK
  <2>4. \A q \in Procs \ {p} : batch'[q] = batch[q] /\ phase'[q] = phase[q] /\ Claimed(q)' = Claimed(q)
    BY <2>1 DEF Claimed, TypeOK
  <2>5. NoClaimOutsideTx'
    BY <2>3, <2>4 DEF ClaimInv, NoClaimOutsideTx
  <2>6. ClaimsAreDue'
    <3> SUFFICES ASSUME NEW q \in Procs, NEW e \in Claimed(q)'
                 PROVE  (OrgOf[e] = batch[q].org /\ row[e] = "committed" /\ e \notin published /\ wait[e] = 0)'
      BY DEF ClaimsAreDue
    <3>1. CASE q = p
      BY <3>1, <2>1, <2>2, <2>3 DEF Eligible
    <3>2. CASE q # p
      BY <3>2, <2>1, <2>4 DEF ClaimInv, ClaimsAreDue
    <3> QED BY <3>1, <3>2
  <2>7. OneTxPerOrg'
    BY <2>2, <2>3, <2>4 DEF ClaimInv, OneTxPerOrg, OrgLockFree
  <2>8. PublishedCommitted'
    BY <2>1 DEF ClaimInv, PublishedCommitted
  <2> QED BY <2>5, <2>6, <2>7, <2>8 DEF ClaimInv
<1> QED BY <1>1, <1>2

\* Delivering one event moves it between the parts of the claim.
LEMMA DeliverClaim ==
    ASSUME TypeOK, ClaimInv, NEW p \in Procs, DeliverNext(p)
    PROVE  ClaimInv'
<1>1. PICK e \in batch[p].queue : batch' = [batch EXCEPT ![p] =
              [org    |-> @.org,
               queue  |-> @.queue \ {e},
               ok     |-> IF e \in blocked THEN @.ok ELSE @.ok \cup {e},
               failed |-> IF e \in blocked THEN @.failed \cup {e} ELSE @.failed]]
  BY DEF DeliverNext
<1>2. UNCHANGED <<row, published, wait, phase>>
  BY DEF DeliverNext, rowVars, sentVars
<1>3. \A q \in Procs : batch'[q].org = batch[q].org /\ Claimed(q)' \subseteq Claimed(q)
  <2> TAKE q \in Procs
  <2>1. CASE q = p
    <3>1. batch'[p].org = batch[p].org
      BY <1>1 DEF TypeOK
    <3>2. /\ batch'[p].queue \subseteq batch[p].queue
          /\ batch'[p].ok \subseteq batch[p].ok \cup {e}
          /\ batch'[p].failed \subseteq batch[p].failed \cup {e}
      BY <1>1 DEF TypeOK
    <3> QED BY <2>1, <3>1, <3>2 DEF Claimed
  <2>2. CASE q # p
    BY <1>1, <2>2 DEF TypeOK, Claimed
  <2> QED BY <2>1, <2>2
<1>4. NoClaimOutsideTx' /\ OneTxPerOrg' /\ PublishedCommitted'
  BY <1>2, <1>3 DEF ClaimInv, NoClaimOutsideTx, OneTxPerOrg, PublishedCommitted
<1>5. ClaimsAreDue'
  BY <1>2, <1>3 DEF ClaimInv, ClaimsAreDue
<1> QED BY <1>4, <1>5 DEF ClaimInv

\* Two workers hold disjoint claims: their tenants differ.
LEMMA ClaimsDisjoint ==
    ASSUME ClaimInv, NEW p \in Procs, NEW q \in Procs, p # q
    PROVE  Claimed(p) \cap Claimed(q) = {}
  BY DEF ClaimInv, NoClaimOutsideTx, ClaimsAreDue, OneTxPerOrg

\* Committing publishes and delays events of this claim only.
LEMMA CommitClaim ==
    ASSUME TypeOK, ClaimInv, NEW p \in Procs, CommitOrganization(p)
    PROVE  ClaimInv'
<1>1. /\ published' = published \cup batch[p].ok
      /\ \A e \in Events : e \notin batch[p].failed => wait'[e] = wait[e]
      /\ batch' = [batch EXCEPT ![p] = EmptyBatch]
      /\ phase' = [phase EXCEPT ![p] = "visiting"]
      /\ row' = row
  BY DEF CommitOrganization, rowVars
<1>2. Claimed(p)' = {} /\ phase'[p] # "tx"
  BY <1>1 DEF Claimed, EmptyBatch, TypeOK
<1>3. \A q \in Procs \ {p} : batch'[q] = batch[q] /\ phase'[q] = phase[q] /\ Claimed(q)' = Claimed(q)
  BY <1>1 DEF Claimed, TypeOK
<1>4. batch[p].ok \subseteq Claimed(p) /\ batch[p].failed \subseteq Claimed(p)
  BY DEF Claimed
<1>5. NoClaimOutsideTx' /\ OneTxPerOrg'
  BY <1>2, <1>3 DEF ClaimInv, NoClaimOutsideTx, OneTxPerOrg
<1>6. ClaimsAreDue'
  <2> SUFFICES ASSUME NEW q \in Procs, NEW e \in Claimed(q)'
               PROVE  (OrgOf[e] = batch[q].org /\ row[e] = "committed" /\ e \notin published /\ wait[e] = 0)'
    BY DEF ClaimsAreDue
  <2>1. q # p
    BY <1>2
  <2>2. e \in Claimed(q) /\ e \in Events
    BY <1>3, <2>1 DEF Claimed, TypeOK
  <2>3. e \notin Claimed(p)
    BY <2>1, <2>2, ClaimsDisjoint
  <2> QED BY <1>1, <1>3, <1>4, <2>1, <2>2, <2>3 DEF ClaimInv, ClaimsAreDue
<1>7. PublishedCommitted'
  BY <1>1, <1>4 DEF ClaimInv, PublishedCommitted, ClaimsAreDue
<1> QED BY <1>5, <1>6, <1>7 DEF ClaimInv

LEMMA NextClaim == TypeOK /\ ClaimInv /\ [Next]_vars => ClaimInv'
<1> SUFFICES ASSUME TypeOK, ClaimInv, [Next]_vars PROVE ClaimInv'
  OBVIOUS
<1> USE DEF rowVars, sentVars, procVars, pollVars
<1>1. ASSUME NEW e \in Events, Insert(e) \/ CommitInsert(e) \/ RollbackInsert(e) PROVE ClaimInv'
  BY <1>1, QuietStep DEF Insert, CommitInsert, RollbackInsert, TypeOK
<1>2. ASSUME NEW e \in Events, UnblockDestination(e) \/ BlockDestination(e) PROVE ClaimInv'
  BY <1>2, QuietStep DEF UnblockDestination, BlockDestination
<1>3. ASSUME NEW p \in Procs, PollOnce(p), UNCHANGED <<row, published, wait>> PROVE ClaimInv'
  BY <1>3, QuietStep DEF PollOnce, BeginPoll, TypeOK
<1>4. ASSUME NEW p \in Procs, DrainMicrotask(p) \/ TimerFires(p) PROVE ClaimInv'
  BY <1>3, <1>4 DEF DrainMicrotask, TimerFires
<1>5. ASSUME NEW p \in Procs, VisitOrganization(p) PROVE ClaimInv'
  BY <1>5, VisitClaim
<1>6. ASSUME NEW p \in Procs, DeliverNext(p) PROVE ClaimInv'
  BY <1>6, DeliverClaim
<1>7. ASSUME NEW p \in Procs, CommitOrganization(p) PROVE ClaimInv'
  BY <1>7, CommitClaim
<1>8. ASSUME NEW p \in Procs, TimeoutOrganization(p) PROVE ClaimInv'
  BY <1>8, QuietStep DEF TimeoutOrganization, PollSettles, TypeOK
<1>9. ASSUME NEW p \in Procs, FinishPoll(p) PROVE ClaimInv'
  BY <1>9, QuietStep DEF FinishPoll, PollSettles, TypeOK
<1>10. ASSUME NEW p \in Procs, StartProcess(p) PROVE ClaimInv'
  <2>1. CASE UNCHANGED pollVars
    BY <1>10, <2>1, QuietStep DEF StartProcess
  <2>2. CASE PollOnce(p)
    BY <1>3, <1>10, <2>2 DEF StartProcess
  <2> QED BY <1>10, <2>1, <2>2 DEF StartProcess
<1>11. ASSUME NEW p \in Procs, StopWorker(p) PROVE ClaimInv'
  BY <1>11, QuietStep DEF StopWorker
<1>12. ASSUME NEW p \in Procs, Exit(p) \/ Crash(p) PROVE ClaimInv'
  <2>1. ProcessGone(p)
    BY <1>12 DEF Exit, Crash
  <2>2. published' = published /\ wait' = wait
    BY <2>1 DEF ProcessGone, sentVars
  <2>3. \A e \in Events : row[e] = "committed" => row'[e] = "committed"
    BY <2>1 DEF ProcessGone
  <2>4. \A q \in Procs :
          \/ batch'[q] = batch[q] /\ (phase[q] = "tx" <=> phase'[q] = "tx")
          \/ batch'[q] = EmptyBatch /\ phase'[q] # "tx"
    BY <2>1 DEF ProcessGone, TypeOK
  <2> QED BY <2>2, <2>3, <2>4, QuietStep
<1>13. CASE Tick
  BY <1>13, QuietStep DEF Tick, TypeOK
<1>14. CASE UNCHANGED vars
  BY <1>14, QuietStep DEF vars
<1> QED
  BY <1>1, <1>2, <1>4, <1>5, <1>6, <1>7, <1>8, <1>9, <1>10, <1>11, <1>12, <1>13, <1>14 DEF Next

LEMMA Inductive == Spec => [](TypeOK /\ ClaimInv)
<1>1. Init => TypeOK /\ ClaimInv
  BY InitType, InitClaim
<1>2. (TypeOK /\ ClaimInv) /\ [Next]_vars => (TypeOK /\ ClaimInv)'
  BY NextType, NextClaim
<1> QED BY <1>1, <1>2, PTL DEF Spec

\* No event is ever claimed by two workers, claimed again once published, or
\* claimed before its domain transaction committed.
THEOREM ClaimsExclusive == Spec => []NoSharedClaim
<1>1. TypeOK /\ ClaimInv => NoSharedClaim
  BY ClaimsDisjoint DEF NoSharedClaim, ClaimInv, ClaimsAreDue
<1> QED BY <1>1, Inductive, PTL

\* A step that publishes or delays an event finds its delay over.
LEMMA StepRespectsBackoff ==
    ASSUME TypeOK, ClaimInv, [Next]_vars, NEW e \in Events,
           e \in published' \ published \/ wait'[e] > wait[e]
    PROVE  wait[e] = 0
<1> USE DEF rowVars, sentVars, procVars, pollVars
<1>1. wait[e] \in Nat
  BY DEF TypeOK
<1>2. ~(published' = published /\ wait' = wait)
  BY <1>1
<1>3. ASSUME NEW p \in Procs, CommitOrganization(p) PROVE wait[e] = 0
  <2>1. e \in batch[p].ok \cup batch[p].failed
    BY <1>1, <1>3 DEF CommitOrganization
  <2> QED BY <2>1 DEF ClaimInv, ClaimsAreDue, Claimed
<1>4. ~Tick
  BY <1>1 DEF Tick, TypeOK
<1>5. \A f \in Events : ~(Insert(f) \/ CommitInsert(f) \/ RollbackInsert(f)
                            \/ UnblockDestination(f) \/ BlockDestination(f))
  BY <1>2 DEF Insert, CommitInsert, RollbackInsert, UnblockDestination, BlockDestination
<1>6. \A p \in Procs : ~(DrainMicrotask(p) \/ TimerFires(p) \/ VisitOrganization(p)
                            \/ DeliverNext(p) \/ TimeoutOrganization(p) \/ FinishPoll(p))
  BY <1>2 DEF DrainMicrotask, TimerFires, VisitOrganization, DeliverNext, TimeoutOrganization, FinishPoll
<1>7. \A p \in Procs : ~(StartProcess(p) \/ StopWorker(p) \/ Exit(p) \/ Crash(p))
  BY <1>2 DEF StartProcess, StopWorker, Exit, Crash, ProcessGone
<1>8. ~UNCHANGED vars
  BY <1>2 DEF vars
<1> QED BY <1>3, <1>4, <1>5, <1>6, <1>7, <1>8 DEF Next

\* Whichever process attempts an event, it does so after the delay.
THEOREM BackoffHolds == Spec => BackoffRespected
<1>1. TypeOK /\ ClaimInv /\ [Next]_vars =>
        [\A e \in Events : (e \in published' \ published \/ wait'[e] > wait[e]) => wait[e] = 0]_vars
  BY StepRespectsBackoff
<1> QED BY <1>1, Inductive, PTL DEF Spec, BackoffRespected

-----------------------------------------------------------------------------
(* The refinement of the outbox of Contracts: a step changes the stage       *)
(* of an event only by a commit, a rollback or the commit of a delivery.     *)

\* Rows that end in an open transaction of the domain become void together.
LEMMA RolledBack ==
    ASSUME TypeOK, ClaimInv, NEW S \in SUBSET Events,
           \A e \in S : row[e] = "open",
           row' = [e \in Events |-> IF e \in S THEN "rolledback" ELSE row[e]],
           published' = published
    PROVE  Contract!Abandon(S)
<1>1. \A e \in S : e \notin published
  BY DEF ClaimInv, PublishedCommitted
<1>2. \A e \in S : Stage[e] = "none"
  BY <1>1 DEF Stage
<1>3. Stage' = [e \in Events |-> IF e \in S THEN "void" ELSE Stage[e]]
  BY <1>1 DEF Stage
<1> QED BY <1>2, <1>3 DEF Contract!Abandon

\* The commit of a worker's transaction delivers what it holds as delivered.
LEMMA BatchDelivered ==
    ASSUME TypeOK, ClaimInv, NEW p \in Procs, CommitOrganization(p)
    PROVE  Contract!Deliver(batch[p].ok)
<1>1. published' = published \cup batch[p].ok /\ row' = row
  BY DEF CommitOrganization, rowVars
<1>2. \A e \in batch[p].ok : e \in Events /\ row[e] = "committed" /\ e \notin published
  BY DEF ClaimInv, ClaimsAreDue, Claimed, TypeOK
<1>3. \A e \in batch[p].ok : Stage[e] = "pending"
  BY <1>2 DEF Stage
<1>4. Stage' = [e \in Events |-> IF e \in batch[p].ok THEN "delivered" ELSE Stage[e]]
  BY <1>1, <1>2 DEF Stage
<1> QED BY <1>3, <1>4 DEF Contract!Deliver

LEMMA StageStep == TypeOK /\ ClaimInv /\ [Next]_vars => [Contract!OutboxNext]_Stage
<1> SUFFICES ASSUME TypeOK, ClaimInv, [Next]_vars PROVE [Contract!OutboxNext]_Stage
  OBVIOUS
<1> USE DEF rowVars, sentVars, procVars, pollVars
<1>s. ASSUME UNCHANGED <<row, published>> PROVE [Contract!OutboxNext]_Stage
  BY <1>s DEF Stage
<1>a. ASSUME NEW S \in SUBSET Events, Contract!Abandon(S) PROVE [Contract!OutboxNext]_Stage
  BY <1>a DEF Contract!OutboxNext
<1>1. ASSUME NEW e \in Events, Insert(e) PROVE [Contract!OutboxNext]_Stage
  <2>1. Stage' = Stage
    BY <1>1 DEF Insert, Stage, TypeOK
  <2> QED BY <2>1
<1>2. ASSUME NEW e \in Events, CommitInsert(e) PROVE [Contract!OutboxNext]_Stage
  <2>1. e \notin published /\ Stage[e] = "none"
    BY <1>2 DEF CommitInsert, ClaimInv, PublishedCommitted, Stage
  <2>2. Stage' = [Stage EXCEPT ![e] = "pending"]
    BY <1>2, <2>1 DEF CommitInsert, Stage, TypeOK
  <2> QED BY <2>1, <2>2 DEF Contract!OutboxNext, Contract!Announce
<1>3. ASSUME NEW e \in Events, RollbackInsert(e) PROVE [Contract!OutboxNext]_Stage
  <2>1. row' = [f \in Events |-> IF f \in {e} THEN "rolledback" ELSE row[f]]
    BY <1>3 DEF RollbackInsert, TypeOK
  <2> QED BY <1>3, <2>1, <1>a, RolledBack DEF RollbackInsert
<1>4. ASSUME NEW p \in Procs, CommitOrganization(p) PROVE [Contract!OutboxNext]_Stage
  <2>1. batch[p].ok \in SUBSET Events
    BY DEF TypeOK
  <2> QED BY <1>4, <2>1, BatchDelivered DEF Contract!OutboxNext
<1>5. ASSUME NEW p \in Procs, Exit(p) \/ Crash(p) PROVE [Contract!OutboxNext]_Stage
  <2> DEFINE S == {e \in Events : row[e] = "open" /\ author[e] = p}
  <2>1. ProcessGone(p)
    BY <1>5 DEF Exit, Crash
  <2>2. row' = [e \in Events |-> IF e \in S THEN "rolledback" ELSE row[e]] /\ published' = published
    BY <2>1 DEF ProcessGone
  <2>3. Contract!Abandon(S)
    BY <2>2, RolledBack
  <2> QED BY <2>3, <1>a
<1>6. ASSUME NEW e \in Events, UnblockDestination(e) \/ BlockDestination(e) PROVE [Contract!OutboxNext]_Stage
  BY <1>6, <1>s DEF UnblockDestination, BlockDestination
<1>7. ASSUME NEW p \in Procs,
             \/ DrainMicrotask(p) \/ TimerFires(p) \/ VisitOrganization(p) \/ DeliverNext(p)
             \/ TimeoutOrganization(p) \/ FinishPoll(p) \/ StartProcess(p) \/ StopWorker(p)
      PROVE  [Contract!OutboxNext]_Stage
  BY <1>7, <1>s DEF DrainMicrotask, TimerFires, VisitOrganization, DeliverNext,
                    TimeoutOrganization, FinishPoll, StartProcess, StopWorker
<1>8. CASE Tick
  BY <1>8, <1>s DEF Tick
<1>9. CASE UNCHANGED vars
  BY <1>9, <1>s DEF vars
<1> QED BY <1>1, <1>2, <1>3, <1>4, <1>5, <1>6, <1>7, <1>8, <1>9 DEF Next

\* The worker implements the contract of the outbox.
THEOREM OutboxImplements == Spec => ImplementsContract
<1>1. Init => Contract!OutboxInit
  BY DEF Init, Stage, Contract!OutboxInit
<1> QED BY <1>1, StageStep, Inductive, PTL DEF Spec, ImplementsContract, Contract!OutboxSpec
=============================================================================
