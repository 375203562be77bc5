------------------------- MODULE PlantHandoff_proofs -------------------------
(***************************************************************************)
(* Proofs about PlantHandoff, for every set of companies, events, lots and *)
(* members and any number of transactions in flight.                       *)
(***************************************************************************)
EXTENDS PlantHandoff, Sums, TLAPS

LEMMA InitType == HandoffAssumption /\ Init => TypeOK
  BY DEF HandoffAssumption, Init, TypeOK, Slot, NoRoute, Idle, Acceptances, Dispositions

LEMMA SlotParts == \A s \in Slot : s[1] \in Companies /\ s[2] \in Events
  BY DEF Slot

LEMMA EffectiveTyped == \A s, ev : Effective(s, ev) \in Dispositions
  BY DEF Effective, Dispositions

\* The record an acceptance keeps of its reads.
LEMMA AcceptanceTyped ==
    ASSUME HandoffAssumption, TypeOK, NEW s \in Slot, BeginAccept(s)
    PROVE  accepting' \in [Slot -> Acceptances]
<1> DEFINE own == IF Kind[s[2]] = "execution" THEN Effective(s, qaEvidence) ELSE "pending"
           refresh == IF Kind[s[2]] = "qa" THEN DraftsToRefresh(s) ELSE {}
<1>1. own \in Dispositions
  BY EffectiveTyped DEF Dispositions
<1>2. refresh \in SUBSET [slot : Slot, to : Dispositions]
  <2>1. DraftsToRefresh(s) \in SUBSET [slot : Slot, to : Dispositions]
    <3>1. RecentExecutions(s[1]) \subseteq Slot
      BY DEF RecentExecutions
    <3> QED BY <3>1, EffectiveTyped DEF DraftsToRefresh
  <2> QED BY <2>1
<1>3. AcceptanceFails(s) \in BOOLEAN
  BY DEF AcceptanceFails
<1> HIDE DEF own, refresh
<1>4. [busy |-> TRUE, fails |-> AcceptanceFails(s), own |-> own, refresh |-> refresh] \in Acceptances
  BY <1>1, <1>2, <1>3 DEF Acceptances
<1>5. accepting' = [accepting EXCEPT ![s] =
         [busy |-> TRUE, fails |-> AcceptanceFails(s), own |-> own, refresh |-> refresh]]
  BY DEF BeginAccept, own, refresh
<1> QED BY <1>4, <1>5 DEF TypeOK

\* A busy acceptance has the fields of one.
LEMMA BusyTyped ==
    ASSUME TypeOK, NEW s \in Slot, accepting[s].busy
    PROVE  accepting[s] \in [busy : {TRUE}, fails : BOOLEAN, own : Dispositions,
                             refresh : SUBSET [slot : Slot, to : Dispositions]]
<1>1. accepting[s] \in Acceptances
  BY DEF TypeOK
<1>2. accepting[s] # Idle
  BY DEF Idle
<1> QED BY <1>1, <1>2 DEF Acceptances

LEMMA CommitAcceptTyped ==
    ASSUME TypeOK, NEW s \in Slot, CommitAccept(s)
    PROVE  TypeOK'
<1> DEFINE a == accepting[s]
<1>1. a.own \in Dispositions /\ a.refresh \in SUBSET [slot : Slot, to : Dispositions]
  BY BusyTyped DEF CommitAccept
<1>2. disposition' \in [Slot -> Dispositions]
  <2> SUFFICES ASSUME NEW t \in Slot PROVE disposition'[t] \in Dispositions
    BY DEF CommitAccept
  <2>1. CASE t = s /\ Kind[s[2]] = "execution"
    BY <1>1, <2>1 DEF CommitAccept
  <2>2. CASE ~(t = s /\ Kind[s[2]] = "execution") /\ \E r \in a.refresh : r.slot = t
    <3>1. (CHOOSE r \in a.refresh : r.slot = t) \in a.refresh
      BY <2>2
    <3>2. (CHOOSE r \in a.refresh : r.slot = t).to \in Dispositions
      BY <1>1, <3>1
    <3> QED BY <2>2, <3>2 DEF CommitAccept
  <2>3. CASE ~(t = s /\ Kind[s[2]] = "execution") /\ ~\E r \in a.refresh : r.slot = t
    BY <2>3 DEF CommitAccept, TypeOK
  <2> QED BY <2>1, <2>2, <2>3
<1>3. accepting' \in [Slot -> Acceptances]
  BY DEF CommitAccept, TypeOK, Acceptances
<1>4. /\ inbox' \in [Slot -> {"none", "received", "conflict", "retry", "accepted", "rejected"}]
      /\ receipt' \in [Slot -> {"none", "received", "conflict", "retry", "processed", "rejected"}]
      /\ voucher' \in [Slot -> {"none", "draft", "submitted"}]
      /\ qaEvidence' \subseteq Slot /\ dispatched' \subseteq Slot
  BY DEF CommitAccept, TypeOK
<1> QED BY <1>2, <1>3, <1>4 DEF CommitAccept, TypeOK

\* What is being taken in was committed.
IntakesEmitted ==
    \A v \in {"worker", "human"}, s \in Slot : intake[v][s] # "none" => s[2] \in emitted

LEMMA InitIntakes == Init => IntakesEmitted
  BY DEF Init, IntakesEmitted

LEMMA NextIntakes == TypeOK /\ IntakesEmitted /\ [Next]_vars => IntakesEmitted'
<1> SUFFICES ASSUME TypeOK, IntakesEmitted, [Next]_vars PROVE IntakesEmitted'
  OBVIOUS
<1>1. emitted \subseteq emitted'
  BY DEF Next, Emit, CompleteMapping, ApproveEventRoute, CreateEventRoute, BeginIntake, CommitIntake,
         AbandonIntake, DeliverReceived, BeginAccept, CommitAccept, FailAccept, AbortAccept,
         TransitionException, SubmitVoucher, vars
<1>2. ASSUME NEW s \in Slot, NEW v \in {"worker", "human"},
             BeginIntake(v, s) \/ CommitIntake(v, s) \/ AbandonIntake(v, s)
      PROVE  IntakesEmitted'
  <2>1. \A w \in {"worker", "human"}, t \in Slot :
           intake'[w][t] # "none" => intake[w][t] # "none" \/ (t = s /\ s[2] \in emitted)
    BY <1>2 DEF BeginIntake, CommitIntake, AbandonIntake, TypeOK
  <2> QED BY <1>1, <2>1 DEF IntakesEmitted
<1>3. ASSUME UNCHANGED intake PROVE IntakesEmitted'
  BY <1>1, <1>3 DEF IntakesEmitted
<1>4. \/ UNCHANGED intake
      \/ \E s \in Slot, v \in {"worker", "human"} :
           BeginIntake(v, s) \/ CommitIntake(v, s) \/ AbandonIntake(v, s)
  BY DEF Next, Emit, CompleteMapping, ApproveEventRoute, CreateEventRoute, DeliverReceived,
         BeginAccept, CommitAccept, FailAccept, AbortAccept, TransitionException, SubmitVoucher, vars
<1> QED BY <1>2, <1>3, <1>4

LEMMA NextType == HandoffAssumption /\ TypeOK /\ IntakesEmitted /\ [Next]_vars => TypeOK'
<1> SUFFICES ASSUME HandoffAssumption, TypeOK, IntakesEmitted, [Next]_vars PROVE TypeOK'
  OBVIOUS
<1> USE DEF rowVars, evidenceVars
<1>1. ASSUME NEW e \in Events, Emit(e) \/ CompleteMapping(e) PROVE TypeOK'
  BY <1>1 DEF Emit, CompleteMapping, TypeOK
<1>2. ASSUME NEW e \in Events, NEW m \in Members, NEW c \in Companies, CreateEventRoute(c, e, m) PROVE TypeOK'
  BY <1>2 DEF CreateEventRoute, TypeOK
<1>3. ASSUME NEW e \in Events, NEW m \in Members, ApproveEventRoute(e, m) PROVE TypeOK'
  <2>1. [route[e] EXCEPT !.status = "approved"] \in
          [status : {"draft", "approved"}, company : Companies, maker : Members]
    BY <1>3 DEF ApproveEventRoute, TypeOK, NoRoute
  <2>2. route' = [route EXCEPT ![e] = [route[e] EXCEPT !.status = "approved"]]
    BY <1>3 DEF ApproveEventRoute
  <2> QED BY <1>3, <2>1, <2>2 DEF ApproveEventRoute, TypeOK
<1>4. ASSUME NEW s \in Slot, NEW v \in {"worker", "human"},
             BeginIntake(v, s) \/ AbandonIntake(v, s)
      PROVE  TypeOK'
  <2>1. \E i \in {"none", "clean", "conflict"} : intake' = [intake EXCEPT ![v][s] = i]
    BY <1>4 DEF BeginIntake, AbandonIntake
  <2>2. intake' \in [{"worker", "human"} -> [Slot -> {"none", "clean", "conflict"}]]
    BY <2>1 DEF TypeOK
  <2> QED BY <1>4, <2>2 DEF BeginIntake, AbandonIntake, TypeOK
<1>5. ASSUME NEW s \in Slot, NEW v \in {"worker", "human"}, CommitIntake(v, s) PROVE TypeOK'
  <2>1. intake' \in [{"worker", "human"} -> [Slot -> {"none", "clean", "conflict"}]]
    BY <1>5 DEF CommitIntake, TypeOK
  <2>2. published' \subseteq emitted'
    BY <1>5 DEF CommitIntake, IntakesEmitted, TypeOK
  <2> QED BY <1>5, <2>1, <2>2 DEF CommitIntake, TypeOK
<1>6. ASSUME NEW s \in Slot, DeliverReceived(s) PROVE TypeOK'
  BY <1>6 DEF DeliverReceived, TypeOK
<1>7. ASSUME NEW s \in Slot, BeginAccept(s) PROVE TypeOK'
  <2>1. accepting' \in [Slot -> Acceptances]
    BY <1>7, AcceptanceTyped
  <2> QED BY <1>7, <2>1 DEF BeginAccept, TypeOK
<1>8. ASSUME NEW s \in Slot, CommitAccept(s) PROVE TypeOK'
  BY <1>8, CommitAcceptTyped
<1>9. ASSUME NEW s \in Slot, FailAccept(s) \/ AbortAccept(s) PROVE TypeOK'
  BY <1>9 DEF FailAccept, AbortAccept, TypeOK, Acceptances
<1>10. ASSUME NEW s \in Slot, NEW target \in {"rejected", "received"}, TransitionException(s, target)
       PROVE  TypeOK'
  BY <1>10 DEF TransitionException, TypeOK
<1>11. ASSUME NEW s \in Slot, SubmitVoucher(s) PROVE TypeOK'
  BY <1>11 DEF SubmitVoucher, TypeOK
<1>12. CASE UNCHANGED vars
  BY <1>12 DEF vars, TypeOK
<1> QED
  BY <1>1, <1>2, <1>3, <1>4, <1>5, <1>6, <1>7, <1>8, <1>9, <1>10, <1>11, <1>12 DEF Next

LEMMA TypeInductive ==
    ASSUME HandoffAssumption
    PROVE  Spec => [](TypeOK /\ IntakesEmitted)
<1>1. Init => TypeOK /\ IntakesEmitted
  BY InitType, InitIntakes
<1>2. (TypeOK /\ IntakesEmitted) /\ [Next]_vars => (TypeOK /\ IntakesEmitted)'
  BY NextType, NextIntakes
<1> QED BY <1>1, <1>2, PTL DEF Spec

\* Every variable of the inbox keeps its type (handoffService.ts, integrationOutboxWorker.ts):
\* a refresh writes dispositions only, and only what was emitted is published.
THEOREM HandoffTypeCorrect == HandoffAssumption => (Spec => []TypeOK)
<1> SUFFICES ASSUME HandoffAssumption PROVE Spec => []TypeOK
  OBVIOUS
<1> QED BY TypeInductive, PTL

-----------------------------------------------------------------------------
(* Inbox, receipt and evidence.                                            *)

\* An acceptance holds the row of an event that is received.
BusyReceived == \A s \in Slot : accepting[s].busy => inbox[s] = "received"

InboxInv == BusyReceived /\ ReceiptMirrorsInbox /\ EvidenceIffAccepted

LEMMA InitInbox == Init => InboxInv
  BY DEF Init, InboxInv, BusyReceived, ReceiptMirrorsInbox, EvidenceIffAccepted, Idle

\* A step that leaves rows and acceptances alone and, of the evidence, at most submits a
\* draft or refreshes one.
LEMMA InboxKept ==
    ASSUME InboxInv, UNCHANGED <<inbox, receipt, qaEvidence, dispatched>>,
           \A s \in Slot : accepting'[s].busy => accepting[s].busy \/ inbox[s] = "received",
           \A s \in Slot : voucher'[s] = "none" <=> voucher[s] = "none"
    PROVE  InboxInv'
  BY DEF InboxInv, BusyReceived, ReceiptMirrorsInbox, EvidenceIffAccepted

LEMMA NextInbox == HandoffAssumption /\ TypeOK /\ InboxInv /\ [Next]_vars => InboxInv'
<1> SUFFICES ASSUME HandoffAssumption, TypeOK, InboxInv, [Next]_vars PROVE InboxInv'
  OBVIOUS
<1> USE DEF rowVars, evidenceVars
<1>1. ASSUME UNCHANGED <<inbox, receipt, accepting, evidenceVars>> PROVE InboxInv'
  BY <1>1, InboxKept
<1>2. ASSUME NEW s \in Slot, NEW v \in {"worker", "human"}, CommitIntake(v, s) PROVE InboxInv'
  <2>1. /\ inbox[s] = "none" /\ inbox'[s] \in {"conflict", "received"} /\ receipt'[s] = inbox'[s]
        /\ \A t \in Slot \ {s} : inbox'[t] = inbox[t] /\ receipt'[t] = receipt[t]
        /\ UNCHANGED <<accepting, evidenceVars>>
    BY <1>2 DEF CommitIntake, TypeOK
  <2> QED BY <2>1 DEF InboxInv, BusyReceived, ReceiptMirrorsInbox, EvidenceIffAccepted
<1>3. ASSUME NEW s \in Slot, BeginAccept(s) PROVE InboxInv'
  <2>1. inbox[s] = "received" /\ \A t \in Slot \ {s} : accepting'[t] = accepting[t]
    BY <1>3 DEF BeginAccept, TypeOK
  <2> QED BY <1>3, <2>1, InboxKept DEF BeginAccept
<1>4. ASSUME NEW s \in Slot, CommitAccept(s) PROVE InboxInv'
  <2>1. /\ inbox'[s] = "accepted" /\ receipt'[s] = "processed" /\ ~accepting'[s].busy
        /\ \A t \in Slot \ {s} : /\ inbox'[t] = inbox[t] /\ receipt'[t] = receipt[t]
                                 /\ accepting'[t] = accepting[t]
    BY <1>4 DEF CommitAccept, TypeOK, Idle
  <2>2. Kind[s[2]] \in {"execution", "qa", "dispatch"}
    BY SlotParts DEF HandoffAssumption
  <2>3. voucher'[s] # "none" \/ s \in qaEvidence' \/ s \in dispatched'
    BY <1>4, <2>2 DEF CommitAccept, TypeOK
  <2>4. \A t \in Slot \ {s} : /\ voucher'[t] = voucher[t]
                              /\ t \in qaEvidence' <=> t \in qaEvidence
                              /\ t \in dispatched' <=> t \in dispatched
    BY <1>4 DEF CommitAccept, TypeOK
  <2> QED BY <2>1, <2>3, <2>4 DEF InboxInv, BusyReceived, ReceiptMirrorsInbox, EvidenceIffAccepted
<1>5. ASSUME NEW s \in Slot, FailAccept(s) PROVE InboxInv'
  <2>1. /\ inbox[s] = "received" /\ inbox'[s] = "retry" /\ receipt'[s] = "retry" /\ ~accepting'[s].busy
        /\ \A t \in Slot \ {s} : /\ inbox'[t] = inbox[t] /\ receipt'[t] = receipt[t]
                                 /\ accepting'[t] = accepting[t]
        /\ UNCHANGED evidenceVars
    BY <1>5 DEF FailAccept, TypeOK, Idle, InboxInv, BusyReceived
  <2> QED BY <2>1 DEF InboxInv, BusyReceived, ReceiptMirrorsInbox, EvidenceIffAccepted
<1>6. ASSUME NEW s \in Slot, AbortAccept(s) PROVE InboxInv'
  <2>1. \A t \in Slot : accepting'[t].busy => accepting[t].busy
    BY <1>6 DEF AbortAccept, TypeOK, Idle
  <2> QED BY <1>6, <2>1, InboxKept DEF AbortAccept
<1>7. ASSUME NEW s \in Slot, NEW target \in {"rejected", "received"}, TransitionException(s, target)
      PROVE  InboxInv'
  <2>1. /\ inbox[s] \in {"received", "retry", "conflict"} /\ inbox'[s] = target /\ receipt'[s] = target
        /\ ~accepting[s].busy
        /\ \A t \in Slot \ {s} : inbox'[t] = inbox[t] /\ receipt'[t] = receipt[t]
        /\ UNCHANGED <<accepting, evidenceVars>>
    BY <1>7 DEF TransitionException, TypeOK
  <2> QED BY <2>1 DEF InboxInv, BusyReceived, ReceiptMirrorsInbox, EvidenceIffAccepted
<1>8. ASSUME NEW s \in Slot, SubmitVoucher(s) PROVE InboxInv'
  <2>1. \A t \in Slot : voucher'[t] = "none" <=> voucher[t] = "none"
    BY <1>8 DEF SubmitVoucher, TypeOK
  <2> QED BY <1>8, <2>1, InboxKept DEF SubmitVoucher
<1>9. ASSUME \/ \E e \in Events : Emit(e) \/ CompleteMapping(e)
             \/ \E e \in Events, m \in Members :
                  ApproveEventRoute(e, m) \/ \E c \in Companies : CreateEventRoute(c, e, m)
             \/ \E s \in Slot : \/ \E v \in {"worker", "human"} : BeginIntake(v, s) \/ AbandonIntake(v, s)
                                \/ DeliverReceived(s)
             \/ UNCHANGED vars
      PROVE  InboxInv'
  BY <1>9, <1>1 DEF Emit, CompleteMapping, ApproveEventRoute, CreateEventRoute, BeginIntake, AbandonIntake,
                    DeliverReceived, vars
<1> QED BY <1>2, <1>3, <1>4, <1>5, <1>6, <1>7, <1>8, <1>9 DEF Next

LEMMA InboxInductive ==
    ASSUME HandoffAssumption
    PROVE  Spec => [](TypeOK /\ InboxInv)
<1>1. Init => InboxInv
  BY InitInbox
<1>2. TypeOK /\ InboxInv /\ [Next]_vars => InboxInv'
  BY NextInbox
<1> QED BY <1>1, <1>2, TypeInductive, PTL DEF Spec

\* The receipt tells the source the state of the inbox row (deliverMesaOpsEvent, accept,
\* transitionException), whatever fails in between.
THEOREM ReceiptsMirror == HandoffAssumption => (Spec => []ReceiptMirrorsInbox)
<1> SUFFICES ASSUME HandoffAssumption PROVE Spec => []ReceiptMirrorsInbox
  OBVIOUS
<1>1. InboxInv => ReceiptMirrorsInbox
  BY DEF InboxInv
<1> QED BY <1>1, InboxInductive, PTL

\* ERP evidence exists exactly for accepted events: the savepoint takes back what a failed
\* acceptance had created.
THEOREM EvidenceOfAccepted == HandoffAssumption => (Spec => []EvidenceIffAccepted)
<1> SUFFICES ASSUME HandoffAssumption PROVE Spec => []EvidenceIffAccepted
  OBVIOUS
<1>1. InboxInv => EvidenceIffAccepted
  BY DEF InboxInv
<1> QED BY <1>1, InboxInductive, PTL

\* An accepted or rejected row stays what it is: acceptances hold their row from the check
\* to the write.
LEMMA StepStaysFinal == TypeOK /\ InboxInv /\ [Next]_vars => [StaysFinal]_vars
<1> SUFFICES ASSUME TypeOK, InboxInv, [Next]_vars PROVE StaysFinal
  OBVIOUS
<1>1. ASSUME UNCHANGED inbox PROVE StaysFinal
  BY <1>1 DEF StaysFinal
<1>2. ASSUME NEW s \in Slot, inbox[s] \notin {"accepted", "rejected"},
             \A t \in Slot \ {s} : inbox'[t] = inbox[t]
      PROVE  StaysFinal
  BY <1>2 DEF StaysFinal
<1>3. ASSUME NEW s \in Slot, CommitAccept(s) \/ FailAccept(s) PROVE StaysFinal
  BY <1>2, <1>3 DEF CommitAccept, FailAccept, TypeOK, InboxInv, BusyReceived
<1>4. ASSUME NEW s \in Slot, NEW target \in {"rejected", "received"}, TransitionException(s, target)
      PROVE  StaysFinal
  BY <1>2, <1>4 DEF TransitionException, TypeOK
<1>5. ASSUME NEW s \in Slot, NEW v \in {"worker", "human"}, CommitIntake(v, s) PROVE StaysFinal
  BY <1>2, <1>5 DEF CommitIntake, TypeOK
<1> QED BY <1>1, <1>3, <1>4, <1>5
        DEF Next, Emit, CompleteMapping, ApproveEventRoute, CreateEventRoute, BeginIntake, AbandonIntake,
            DeliverReceived, BeginAccept, AbortAccept, SubmitVoucher, vars, rowVars

\* An accepted or rejected row stays what it is, in every behaviour: FinalStatesStay.
THEOREM FinalStates == HandoffAssumption => (Spec => FinalStatesStay)
<1> SUFFICES ASSUME HandoffAssumption PROVE Spec => FinalStatesStay
  OBVIOUS
<1>1. TypeOK /\ InboxInv /\ [Next]_vars => [StaysFinal]_vars
  BY StepStaysFinal
<1> QED BY <1>1, InboxInductive, PTL DEF Spec, FinalStatesStay
-----------------------------------------------------------------------------
(* Reviewed completions have QA.                                           *)

\* Every lot of the completion was accepted by a piece of the evidence.
Covered(s, ev) ==
    \A lot \in Lots[s[2]] : \E q \in ev :
      q[1] = s[1] /\ lot \in Lots[q[2]] /\ Verdict[q[2]] = "accepted"

\* What an acceptance has read still holds when it writes, since evidence only grows.
AcceptanceCovered(s) ==
    LET a == accepting[s] IN
    /\ a.own = "accepted" => Covered(s, qaEvidence)
    /\ \A r \in a.refresh :
         /\ Kind[s[2]] = "qa"
         /\ r.to = "accepted" => Covered(r.slot, qaEvidence \cup {s})

QaInv ==
    /\ \A s \in Slot : disposition[s] = "accepted" => Covered(s, qaEvidence)
    /\ \A s \in Slot : accepting[s].busy => AcceptanceCovered(s)
    /\ ReviewedCompletionHasQa

\* effectiveQaDisposition says accepted only of lots that were all inspected, by
\* accepting verdicts only.
LEMMA EffectiveCovers ==
    ASSUME HandoffAssumption, NEW s \in Slot, NEW ev \in SUBSET Slot, Effective(s, ev) = "accepted"
    PROVE  Covered(s, ev)
<1> DEFINE relevant == {q \in ev : /\ q[1] = s[1]
                                   /\ Order[q[2]] = Order[s[2]]
                                   /\ Lots[s[2]] # {} => Lots[q[2]] \subseteq Lots[s[2]]}
           inspected == UNION {Lots[q[2]] : q \in relevant}
           verdicts == {Verdict[q[2]] : q \in relevant}
<1>1. /\ Lots[s[2]] \subseteq inspected
      /\ "rejected" \notin verdicts /\ "hold" \notin verdicts
  BY DEF Effective
<1>2. \A q \in relevant : q \in ev /\ q[1] = s[1] /\ Verdict[q[2]] \in {"accepted", "hold", "rejected"}
  BY SlotParts DEF HandoffAssumption
<1>3. ASSUME NEW lot \in Lots[s[2]]
      PROVE  \E q \in relevant : lot \in Lots[q[2]] /\ Verdict[q[2]] \in verdicts
  BY <1>1, <1>3
<1> HIDE DEF relevant, verdicts
<1> QED BY <1>1, <1>2, <1>3 DEF Covered

LEMMA CoveredGrows ==
    ASSUME NEW s, NEW ev, NEW more, ev \subseteq more, Covered(s, ev)
    PROVE  Covered(s, more)
  BY DEF Covered

LEMMA InitQa == Init => QaInv
  BY DEF Init, QaInv, ReviewedCompletionHasQa, Idle

\* Steps that change neither evidence nor vouchers.
LEMMA QaKept ==
    ASSUME QaInv, UNCHANGED <<disposition, voucher, qaEvidence>>,
           \A s \in Slot : accepting'[s].busy => accepting[s].busy /\ accepting'[s] = accepting[s]
    PROVE  QaInv'
<1>2. ASSUME NEW s \in Slot, accepting'[s].busy
      PROVE  AcceptanceCovered(s)'
  <2>1. accepting'[s] = accepting[s] /\ AcceptanceCovered(s)
    BY <1>2 DEF QaInv
  <2>2. accepting'[s].own = "accepted" => Covered(s, qaEvidence')
    BY <2>1 DEF AcceptanceCovered
  <2>3. ASSUME NEW r \in accepting'[s].refresh
        PROVE  Kind[s[2]] = "qa" /\ (r.to = "accepted" => Covered(r.slot, qaEvidence' \cup {s}))
    BY <2>1, <2>3 DEF AcceptanceCovered
  <2> QED BY <2>2, <2>3 DEF AcceptanceCovered, Covered
<1> QED BY <1>2 DEF QaInv, ReviewedCompletionHasQa, Covered

\* An acceptance begins with what its reads amount to.
LEMMA BeginCovers ==
    ASSUME HandoffAssumption, TypeOK, QaInv, NEW s \in Slot, BeginAccept(s)
    PROVE  QaInv'
<1> USE DEF evidenceVars, rowVars
<1>1. /\ accepting'[s].own = IF Kind[s[2]] = "execution" THEN Effective(s, qaEvidence) ELSE "pending"
      /\ accepting'[s].refresh = IF Kind[s[2]] = "qa" THEN DraftsToRefresh(s) ELSE {}
      /\ \A t \in Slot \ {s} : accepting'[t] = accepting[t]
      /\ UNCHANGED <<disposition, voucher, qaEvidence>>
  BY DEF BeginAccept, TypeOK
<1>2. accepting'[s].own = "accepted" => Covered(s, qaEvidence)
  BY <1>1, EffectiveCovers DEF TypeOK
<1>3. \A r \in DraftsToRefresh(s) : r.to = "accepted" => Covered(r.slot, qaEvidence \cup {s})
  <2> SUFFICES ASSUME NEW x \in Slot, Effective(x, qaEvidence \cup {s}) = "accepted"
               PROVE  Covered(x, qaEvidence \cup {s})
    <3>1. RecentExecutions(s[1]) \subseteq Slot
      BY DEF RecentExecutions
    <3>2. \A r \in DraftsToRefresh(s) : \E x \in Slot : /\ r.slot = x
                                                      /\ r.to = Effective(x, qaEvidence \cup {s})
      BY <3>1 DEF DraftsToRefresh
    <3> QED BY <3>2
  <2>1. qaEvidence \cup {s} \in SUBSET Slot
    BY DEF TypeOK
  <2> QED BY <2>1, EffectiveCovers
<1>4. AcceptanceCovered(s)'
  <2>1. accepting'[s].own = "accepted" => Covered(s, qaEvidence')
    BY <1>1, <1>2
  <2>2. ASSUME NEW r \in accepting'[s].refresh
        PROVE  Kind[s[2]] = "qa" /\ (r.to = "accepted" => Covered(r.slot, qaEvidence' \cup {s}))
    BY <1>1, <1>3, <2>2
  <2> QED BY <2>1, <2>2 DEF AcceptanceCovered, Covered
<1>5. \A t \in Slot \ {s} : accepting'[t].busy => AcceptanceCovered(t)'
  BY <1>1 DEF QaInv, AcceptanceCovered, Covered
<1> QED BY <1>1, <1>4, <1>5 DEF QaInv, ReviewedCompletionHasQa, Covered

\* An acceptance writes what it read, and its own evidence with a refresh.
LEMMA CommitCovers ==
    ASSUME HandoffAssumption, TypeOK, QaInv, NEW s \in Slot, CommitAccept(s)
    PROVE  QaInv'
<1> DEFINE a == accepting[s]
<1>1. /\ a.busy /\ AcceptanceCovered(s)
      /\ \A t \in Slot : accepting'[t].busy => t # s /\ accepting'[t] = accepting[t]
      /\ qaEvidence \subseteq qaEvidence' /\ (Kind[s[2]] = "qa" => qaEvidence \cup {s} \subseteq qaEvidence')
  BY DEF CommitAccept, TypeOK, QaInv, Idle
<1>2. \A t \in Slot : Covered(t, qaEvidence) => Covered(t, qaEvidence')
  BY <1>1, CoveredGrows
<1>3. ASSUME NEW t \in Slot, disposition'[t] = "accepted" PROVE Covered(t, qaEvidence')
  <2>1. CASE t = s /\ Kind[s[2]] = "execution"
    BY <1>1, <1>2, <1>3, <2>1 DEF CommitAccept, AcceptanceCovered
  <2>2. CASE ~(t = s /\ Kind[s[2]] = "execution") /\ \E r \in a.refresh : r.slot = t
    <3>1. PICK r \in a.refresh : r.slot = t /\ r.to = "accepted"
      BY <1>3, <2>2 DEF CommitAccept
    <3>2. Kind[s[2]] = "qa" /\ Covered(t, qaEvidence \cup {s})
      BY <1>1, <3>1 DEF AcceptanceCovered
    <3> QED BY <1>1, <3>2, CoveredGrows
  <2>3. CASE ~(t = s /\ Kind[s[2]] = "execution") /\ ~\E r \in a.refresh : r.slot = t
    BY <1>2, <1>3, <2>3 DEF CommitAccept, QaInv
  <2> QED BY <2>1, <2>2, <2>3
<1>4. ASSUME NEW t \in Slot, accepting'[t].busy PROVE AcceptanceCovered(t)'
  <2>1. accepting[t].busy /\ accepting'[t] = accepting[t] /\ AcceptanceCovered(t)
    BY <1>1, <1>4 DEF QaInv
  <2>2. accepting'[t].own = "accepted" => Covered(t, qaEvidence')
    BY <1>2, <2>1 DEF AcceptanceCovered
  <2>3. ASSUME NEW r \in accepting'[t].refresh, r.to = "accepted"
        PROVE  Covered(r.slot, qaEvidence' \cup {t})
    <3>1. Covered(r.slot, qaEvidence \cup {t})
      BY <2>1, <2>3 DEF AcceptanceCovered
    <3>2. qaEvidence \cup {t} \subseteq qaEvidence' \cup {t}
      BY <1>1
    <3> QED BY <3>1, <3>2, CoveredGrows
  <2>4. \A r \in accepting'[t].refresh : Kind[t[2]] = "qa"
    BY <2>1 DEF AcceptanceCovered
  <2> QED BY <2>2, <2>3, <2>4 DEF AcceptanceCovered, Covered
<1>5. ReviewedCompletionHasQa'
  <2>1. \A t \in Slot : voucher'[t] = "submitted" => voucher[t] = "submitted"
    BY DEF CommitAccept, TypeOK
  <2>2. \A t \in Slot : voucher'[t] = "submitted" => Covered(t, qaEvidence')
    BY <1>2, <2>1 DEF QaInv, ReviewedCompletionHasQa, Covered
  <2> QED BY <2>2 DEF ReviewedCompletionHasQa, Covered
<1>6. \A t \in Slot : disposition'[t] = "accepted" => Covered(t, qaEvidence)'
  BY <1>3 DEF Covered
<1> QED BY <1>4, <1>5, <1>6 DEF QaInv

LEMMA NextQa == HandoffAssumption /\ TypeOK /\ QaInv /\ [Next]_vars => QaInv'
<1> SUFFICES ASSUME HandoffAssumption, TypeOK, QaInv, [Next]_vars PROVE QaInv'
  OBVIOUS
<1> USE DEF rowVars, evidenceVars
<1>1. ASSUME UNCHANGED <<disposition, voucher, qaEvidence, accepting>> PROVE QaInv'
  BY <1>1, QaKept
<1>2. ASSUME NEW s \in Slot, BeginAccept(s) \/ CommitAccept(s) PROVE QaInv'
  BY <1>2, BeginCovers, CommitCovers
<1>3. ASSUME NEW s \in Slot, FailAccept(s) \/ AbortAccept(s) PROVE QaInv'
  <2>1. \A t \in Slot : accepting'[t].busy => accepting[t].busy /\ accepting'[t] = accepting[t]
    BY <1>3 DEF FailAccept, AbortAccept, TypeOK, Idle
  <2> QED BY <1>3, <2>1, QaKept DEF FailAccept, AbortAccept
<1>4. ASSUME NEW s \in Slot, SubmitVoucher(s) PROVE QaInv'
  <2>1. /\ UNCHANGED <<disposition, qaEvidence, accepting>>
        /\ disposition[s] = "accepted"
        /\ \A t \in Slot \ {s} : voucher'[t] = voucher[t]
    BY <1>4 DEF SubmitVoucher, TypeOK
  <2>2. \A t \in Slot : voucher'[t] = "submitted" => Covered(t, qaEvidence)
    BY <2>1 DEF QaInv, ReviewedCompletionHasQa, Covered
  <2>3. ReviewedCompletionHasQa'
    BY <2>1, <2>2 DEF ReviewedCompletionHasQa, Covered
  <2>4. \A t \in Slot : accepting'[t].busy => AcceptanceCovered(t)'
    BY <2>1 DEF QaInv, AcceptanceCovered, Covered
  <2> QED BY <2>1, <2>3, <2>4 DEF QaInv, Covered
<1>5. ASSUME \/ \E e \in Events : Emit(e) \/ CompleteMapping(e)
             \/ \E e \in Events, m \in Members :
                  ApproveEventRoute(e, m) \/ \E c \in Companies : CreateEventRoute(c, e, m)
             \/ \E s \in Slot :
                  \/ \E v \in {"worker", "human"} : BeginIntake(v, s) \/ CommitIntake(v, s) \/ AbandonIntake(v, s)
                  \/ DeliverReceived(s)
                  \/ \E target \in {"rejected", "received"} : TransitionException(s, target)
             \/ UNCHANGED vars
      PROVE  QaInv'
  BY <1>5, <1>1 DEF Emit, CompleteMapping, ApproveEventRoute, CreateEventRoute, BeginIntake, CommitIntake,
                    AbandonIntake, DeliverReceived, TransitionException, vars
<1> QED BY <1>2, <1>3, <1>4, <1>5 DEF Next

\* A completion leaves draft only when each of its lots has accepted QA evidence, in whatever
\* order completions and decisions are accepted (effectiveQaDisposition, refreshDraftQa).
THEOREM ReviewedHasQa == HandoffAssumption => (Spec => []ReviewedCompletionHasQa)
<1> SUFFICES ASSUME HandoffAssumption PROVE Spec => []ReviewedCompletionHasQa
  OBVIOUS
<1>1. Init => QaInv
  BY InitQa
<1>2. TypeOK /\ QaInv /\ [Next]_vars => QaInv'
  BY NextQa
<1>3. QaInv => ReviewedCompletionHasQa
  BY DEF QaInv
<1> QED BY <1>1, <1>2, <1>3, TypeInductive, PTL DEF Spec

-----------------------------------------------------------------------------
(* One inbox per event.                                                    *)

\* Whoever receives an event was addressed by it when the receipt began, and still is.
RoutingInv ==
    /\ \A s \in Slot : inbox[s] # "none" => Addressed(s)
    /\ \A v \in {"worker", "human"}, s \in Slot : intake[v][s] # "none" => Addressed(s)
    /\ \A e \in published : \E s \in Slot : s[2] = e /\ inbox[s] # "none"

LEMMA InitRouting == Init => RoutingInv
  BY DEF Init, RoutingInv

\* An event addresses one company.
LEMMA AddressedOnce ==
    ASSUME HandoffAssumption, NEW s \in Slot, NEW t \in Slot, s[2] = t[2], Addressed(s), Addressed(t)
    PROVE  s = t
<1>1. s[1] = t[1]
  BY SlotParts DEF Addressed, HandoffAssumption
<1> QED BY <1>1 DEF Slot

\* An approved route stays what it is.
LEMMA AddressedStays ==
    ASSUME TypeOK, NEW s \in Slot, Addressed(s), [Next]_vars
    PROVE  Addressed(s)'
<1>1. s[2] \in Events
  BY SlotParts
<1>2. route[s[2]].status = "approved" => route'[s[2]] = route[s[2]]
  <2>1. ASSUME NEW e \in Events, NEW m \in Members, NEW c \in Companies, CreateEventRoute(c, e, m),
               route[s[2]].status = "approved"
        PROVE  route'[s[2]] = route[s[2]]
    BY <1>1, <2>1 DEF CreateEventRoute, TypeOK
  <2>2. ASSUME NEW e \in Events, NEW m \in Members, ApproveEventRoute(e, m),
               route[s[2]].status = "approved"
        PROVE  route'[s[2]] = route[s[2]]
    BY <1>1, <2>2 DEF ApproveEventRoute, TypeOK
  <2> QED BY <2>1, <2>2 DEF Next, Emit, CompleteMapping, BeginIntake, CommitIntake, AbandonIntake,
               DeliverReceived, BeginAccept, CommitAccept, FailAccept, AbortAccept, TransitionException,
               SubmitVoucher, vars
<1> QED BY <1>2 DEF Addressed

\* Steps that begin no intake, publish nothing and remove no row.
LEMMA RoutingKept ==
    ASSUME TypeOK, RoutingInv, [Next]_vars, published' = published,
           \A s \in Slot : inbox'[s] # "none" <=> inbox[s] # "none",
           \A v \in {"worker", "human"}, s \in Slot : intake'[v][s] # "none" => intake[v][s] # "none"
    PROVE  RoutingInv'
<1>1. \A s \in Slot : inbox'[s] # "none" => Addressed(s)'
  BY AddressedStays DEF RoutingInv
<1>2. \A v \in {"worker", "human"}, s \in Slot : intake'[v][s] # "none" => Addressed(s)'
  BY AddressedStays DEF RoutingInv
<1>3. \A e \in published' : \E s \in Slot : s[2] = e /\ inbox'[s] # "none"
  BY DEF RoutingInv
<1> QED BY <1>1, <1>2, <1>3 DEF RoutingInv

LEMMA NextRouting == TypeOK /\ InboxInv /\ RoutingInv /\ [Next]_vars => RoutingInv'
<1> SUFFICES ASSUME TypeOK, InboxInv, RoutingInv, [Next]_vars PROVE RoutingInv'
  OBVIOUS
<1> USE DEF rowVars
<1>1. ASSUME UNCHANGED <<published, inbox, intake>> PROVE RoutingInv'
  BY <1>1, RoutingKept
<1>2. ASSUME NEW s \in Slot, NEW v \in {"worker", "human"}, BeginIntake(v, s) PROVE RoutingInv'
  <2>1. /\ Addressed(s) /\ UNCHANGED <<published, inbox>>
        /\ \A w \in {"worker", "human"}, t \in Slot :
             intake'[w][t] # "none" => t = s \/ intake[w][t] # "none"
    BY <1>2 DEF BeginIntake, TypeOK
  <2>2. \A w \in {"worker", "human"}, t \in Slot : intake'[w][t] # "none" => Addressed(t)
    BY <2>1 DEF RoutingInv
  <2>3. \A w \in {"worker", "human"}, t \in Slot : intake'[w][t] # "none" => Addressed(t)'
    BY <2>2, AddressedStays
  <2>4. \A t \in Slot : inbox'[t] # "none" => Addressed(t)'
    BY <2>1, AddressedStays DEF RoutingInv
  <2> QED BY <2>1, <2>3, <2>4 DEF RoutingInv
<1>3. ASSUME NEW s \in Slot, NEW v \in {"worker", "human"}, CommitIntake(v, s) PROVE RoutingInv'
  <2>1. /\ intake[v][s] # "none" /\ inbox'[s] # "none"
        /\ \A t \in Slot \ {s} : inbox'[t] = inbox[t]
        /\ published' \subseteq published \cup {s[2]}
        /\ \A w \in {"worker", "human"}, t \in Slot : intake'[w][t] # "none" => intake[w][t] # "none"
    BY <1>3 DEF CommitIntake, TypeOK
  <2>2. \A t \in Slot : inbox'[t] # "none" => Addressed(t)
    BY <2>1 DEF RoutingInv
  <2>3. \A t \in Slot : inbox'[t] # "none" => Addressed(t)'
    BY <2>2, AddressedStays
  <2>4. \A w \in {"worker", "human"}, t \in Slot : intake'[w][t] # "none" => Addressed(t)'
    BY <2>1, AddressedStays DEF RoutingInv
  <2>5. \A e \in published' : \E t \in Slot : t[2] = e /\ inbox'[t] # "none"
    BY <2>1 DEF RoutingInv
  <2> QED BY <2>3, <2>4, <2>5 DEF RoutingInv
<1>4. ASSUME NEW s \in Slot, NEW v \in {"worker", "human"}, AbandonIntake(v, s) PROVE RoutingInv'
  <2>1. /\ UNCHANGED <<published, inbox>>
        /\ \A w \in {"worker", "human"}, t \in Slot : intake'[w][t] # "none" => intake[w][t] # "none"
    BY <1>4 DEF AbandonIntake, TypeOK
  <2> QED BY <2>1, RoutingKept
<1>5. ASSUME NEW s \in Slot, DeliverReceived(s) PROVE RoutingInv'
  <2>1. inbox[s] # "none" /\ published' = published \cup {s[2]} /\ UNCHANGED <<inbox, intake>>
    BY <1>5 DEF DeliverReceived
  <2>2. \A t \in Slot : inbox'[t] # "none" => Addressed(t)'
    BY <2>1, AddressedStays DEF RoutingInv
  <2>3. \A w \in {"worker", "human"}, t \in Slot : intake'[w][t] # "none" => Addressed(t)'
    BY <2>1, AddressedStays DEF RoutingInv
  <2> QED BY <2>1, <2>2, <2>3 DEF RoutingInv
<1>6. ASSUME NEW s \in Slot, inbox[s] # "none", inbox'[s] # "none", UNCHANGED <<published, intake>>,
             \A t \in Slot \ {s} : inbox'[t] = inbox[t]
      PROVE  RoutingInv'
  BY <1>6, RoutingKept
<1>7. ASSUME NEW s \in Slot, CommitAccept(s) \/ FailAccept(s) PROVE RoutingInv'
  <2>1. inbox[s] = "received"
    BY <1>7 DEF CommitAccept, FailAccept, InboxInv, BusyReceived
  <2> QED BY <1>6, <1>7, <2>1 DEF CommitAccept, FailAccept, TypeOK
<1>8. ASSUME NEW s \in Slot, NEW target \in {"rejected", "received"}, TransitionException(s, target)
      PROVE  RoutingInv'
  BY <1>6, <1>8 DEF TransitionException, TypeOK
<1> QED BY <1>1, <1>2, <1>3, <1>4, <1>5, <1>7, <1>8
        DEF Next, Emit, CompleteMapping, ApproveEventRoute, CreateEventRoute, BeginAccept, AbortAccept,
            SubmitVoucher, vars

\* The strengthened invariant says that an event has at most one row, in the right inbox.
LEMMA RoutingUnique == HandoffAssumption /\ RoutingInv => PublishedInOneInbox
<1> SUFFICES ASSUME HandoffAssumption, RoutingInv, NEW e \in Events
             PROVE  LET present == {s \in Slot : s[2] = e /\ inbox[s] # "none"} IN
                    /\ Cardinality(present) <= 1
                    /\ e \in published => present # {}
                    /\ \A s \in present : \/ Home[e] = s[1]
                                          \/ route[e].status = "approved" /\ route[e].company = s[1]
  BY DEF PublishedInOneInbox
<1> DEFINE present == {s \in Slot : s[2] = e /\ inbox[s] # "none"}
<1>1. \A s \in present : s \in Slot /\ s[2] = e /\ Addressed(s)
  BY DEF RoutingInv
<1>2. \A s, t \in present : s = t
  BY <1>1, AddressedOnce
<1>3. Cardinality(present) <= 1
  <2>1. CASE present = {}
    BY <2>1, FS_EmptySet
  <2>2. CASE present # {}
    <3>1. PICK s : s \in present
      BY <2>2
    <3> HIDE DEF present
    <3>2. present = {s}
      BY <1>2, <3>1
    <3>3. Cardinality({s}) = 1
      BY FS_Singleton
    <3> QED BY <3>2, <3>3
  <2> QED BY <2>1, <2>2
<1>4. e \in published => present # {}
  BY DEF RoutingInv
<1>5. \A s \in present : Home[e] = s[1] \/ (route[e].status = "approved" /\ route[e].company = s[1])
  BY <1>1 DEF Addressed
<1> QED BY <1>3, <1>4, <1>5

\* A published event is in exactly one inbox, that of the company it names or was routed to by
\* maker and checker, whoever received it first (deliverMesaOpsEvent, receive, approveRoute).
THEOREM OneInbox == HandoffAssumption => (Spec => []PublishedInOneInbox)
<1> SUFFICES ASSUME HandoffAssumption PROVE Spec => []PublishedInOneInbox
  OBVIOUS
<1>1. Init => RoutingInv
  BY InitRouting
<1>2. TypeOK /\ InboxInv /\ RoutingInv /\ [Next]_vars => RoutingInv'
  BY NextRouting
<1>3. RoutingInv => PublishedInOneInbox
  BY RoutingUnique
<1> QED BY <1>1, <1>2, <1>3, InboxInductive, PTL DEF Spec

-----------------------------------------------------------------------------
(* The cap of dispatches: what is accepted of a company stays within the   *)
(* quantity of its invoice, because one acceptance at a time reads the sum *)
(* and writes under the lock of the invoice.                               *)

\* What the dispatches D of company c amount to.
CapAmount(D, c) == SumFunction([s \in {t \in D : t[1] = c} |-> Quantity[s[2]]])

\* The amount, before and after a step, as a function of the dispatches alone.
LEMMA CapAmountIs ==
    ASSUME NEW c
    PROVE  DispatchedQuantity(c) = CapAmount(dispatched, c) /\ DispatchedQuantity(c)' = CapAmount(dispatched', c)
  BY DEF DispatchedQuantity, CapAmount

\* Another dispatch adds its quantity to those of its company, and to no others.
LEMMA CapAmountGrows ==
    ASSUME HandoffAssumption, NEW D \in SUBSET Slot, IsFiniteSet(D), NEW s \in Slot, s \notin D, NEW c
    PROVE  /\ CapAmount(D, c) \in Nat
           /\ s[1] # c => CapAmount(D \cup {s}, c) = CapAmount(D, c)
           /\ s[1] = c => CapAmount(D \cup {s}, c) = CapAmount(D, c) + Quantity[s[2]]
<1> DEFINE Of == {t \in D : t[1] = c}
           f == [t \in Of |-> Quantity[t[2]]]
           With == {t \in D \cup {s} : t[1] = c}
           g == [t \in With |-> Quantity[t[2]]]
<1>1. \A t \in Slot : Quantity[t[2]] \in Nat
  BY SlotParts DEF HandoffAssumption
<1>2. IsFiniteSet(Of) /\ f \in [Of -> Nat]
  BY <1>1, FS_Subset
<1>3. CapAmount(D, c) = SumFunction(f) /\ CapAmount(D \cup {s}, c) = SumFunction(g)
  BY DEF CapAmount
<1>4. CapAmount(D, c) \in Nat
  <2> HIDE DEF Of, f, With, g
  <2> QED BY <1>2, <1>3, SumOfNaturals
<1>5. ASSUME s[1] # c PROVE g = f
  BY <1>5
<1>6. ASSUME s[1] = c PROVE CapAmount(D \cup {s}, c) = CapAmount(D, c) + Quantity[s[2]]
  <2>1. With = Of \cup {s} /\ s \notin Of
    BY <1>6
  <2>2. IsFiniteSet(With) /\ g \in [With -> Int] /\ s \in With
    <3>1. g \in [With -> Int] /\ s \in With
      BY <1>1, <1>6
    <3> HIDE DEF Of, f, With, g
    <3> QED BY <1>2, <2>1, <3>1, FS_AddElement
  <2>3. [t \in With \ {s} |-> g[t]] = f
    BY <2>1
  <2>4. g[s] = Quantity[s[2]] /\ Quantity[s[2]] \in Nat
    BY <1>1, <2>2
  <2> HIDE DEF Of, f, With, g
  <2>5. SumFunction(g) = g[s] + SumFunction([t \in With \ {s} |-> g[t]])
    BY <2>2, SumOfOthers
  <2> QED BY <1>3, <1>4, <2>3, <2>4, <2>5
<1> QED BY <1>3, <1>4, <1>5, <1>6

\* A dispatch being accepted.
Capped(s) == accepting[s].busy /\ Kind[s[2]] = "dispatch"

\* One dispatch of a company is being accepted at a time.
CapsApart == \A s, t \in Slot : Capped(s) /\ Capped(t) /\ s[1] = t[1] => s = t

\* It found room below the cap, which is still there.
CapHolds ==
    \A s \in Slot : Capped(s) /\ ~accepting[s].fails =>
      CapAmount(dispatched, s[1]) + Quantity[s[2]] <= InvoiceQuantity[s[1]]

CapInv ==
    /\ IsFiniteSet(dispatched)
    /\ \A c \in Companies : CapAmount(dispatched, c) <= InvoiceQuantity[c]
    /\ CapsApart /\ CapHolds

\* What has been dispatched for a company is a natural number.
LEMMA CapTyped ==
    ASSUME HandoffAssumption, TypeOK, CapInv, NEW c
    PROVE  DispatchedQuantity(c) \in Nat
<1> DEFINE Of == {t \in dispatched : t[1] = c}
           f == [t \in Of |-> Quantity[t[2]]]
<1>1. IsFiniteSet(Of) /\ f \in [Of -> Nat]
  BY SlotParts, FS_Subset DEF CapInv, TypeOK, HandoffAssumption
<1>2. DispatchedQuantity(c) = SumFunction(f)
  BY DEF DispatchedQuantity
<1> HIDE DEF Of, f
<1> QED BY <1>1, <1>2, SumOfNaturals

\* CapInv holds before anything was dispatched.
LEMMA InitCap == HandoffAssumption /\ Init => CapInv
<1> SUFFICES ASSUME HandoffAssumption, Init PROVE CapInv
  OBVIOUS
<1>1. dispatched = {} /\ \A s \in Slot : ~Capped(s)
  BY DEF Init, Idle, Capped
<1>2. \A c \in Companies : CapAmount({}, c) = 0 /\ InvoiceQuantity[c] \in Nat
  <2> SUFFICES ASSUME NEW c \in Companies PROVE CapAmount({}, c) = 0
    BY DEF HandoffAssumption
  <2>1. {t \in {} : t[1] = c} = {}
    OBVIOUS
  <2> QED BY <2>1, SumEmpty DEF CapAmount, SumFunction
<1> QED BY <1>1, <1>2, FS_EmptySet DEF CapInv, CapsApart, CapHolds

\* A step that leaves the dispatches alone and begins the acceptance of none.
LEMMA CapKept ==
    ASSUME CapInv, UNCHANGED dispatched,
           \A s \in Slot : accepting'[s].busy => accepting'[s] = accepting[s] \/ Kind[s[2]] # "dispatch"
    PROVE  CapInv'
  BY DEF CapInv, CapsApart, CapHolds, Capped

\* An acceptance that takes the lock of the invoice reads what was dispatched before it.
LEMMA BeginCapped ==
    ASSUME HandoffAssumption, TypeOK, CapInv, NEW s \in Slot, BeginAccept(s)
    PROVE  CapInv'
<1>1. /\ dispatched' = dispatched /\ accepting'[s].busy /\ accepting'[s].fails = AcceptanceFails(s)
      /\ \A t \in Slot \ {s} : accepting'[t] = accepting[t]
  BY DEF BeginAccept, evidenceVars, TypeOK
<1>2. CASE Kind[s[2]] # "dispatch"
  BY <1>1, <1>2, CapKept
<1>3. CASE Kind[s[2]] = "dispatch"
  <2>1. CapsApart'
    BY <1>1, <1>3 DEF BeginAccept, DispatchCapLockFree, CapInv, CapsApart, Capped
  <2>2. ~AcceptanceFails(s) => CapAmount(dispatched, s[1]) + Quantity[s[2]] <= InvoiceQuantity[s[1]]
    <3>1. /\ CapAmount(dispatched, s[1]) \in Nat /\ Quantity[s[2]] \in Nat /\ InvoiceQuantity[s[1]] \in Nat
      <4>1. DispatchedQuantity(s[1]) \in Nat
        BY CapTyped
      <4> QED BY <4>1, CapAmountIs, SlotParts DEF HandoffAssumption
    <3> QED BY <1>3, <3>1, CapAmountIs DEF AcceptanceFails
  <2>3. CapHolds'
    BY <1>1, <2>2 DEF CapInv, CapHolds, Capped
  <2> QED BY <1>1, <2>1, <2>3 DEF CapInv
<1> QED BY <1>2, <1>3

\* The committed dispatch keeps within the invoice: nothing was dispatched since the amount was read.
LEMMA CommitCapped ==
    ASSUME HandoffAssumption, TypeOK, InboxInv, CapInv, NEW s \in Slot, CommitAccept(s)
    PROVE  CapInv'
<1>1. ~accepting'[s].busy /\ \A t \in Slot \ {s} : accepting'[t] = accepting[t]
  BY DEF CommitAccept, TypeOK, Idle
<1>2. CASE Kind[s[2]] # "dispatch"
  BY <1>1, <1>2, CapKept DEF CommitAccept
<1>3. CASE Kind[s[2]] = "dispatch"
  <2>1. dispatched' = dispatched \cup {s} /\ Capped(s) /\ ~accepting[s].fails
    BY <1>3 DEF CommitAccept, Capped
  <2>2. s \notin dispatched
    BY <2>1 DEF InboxInv, BusyReceived, EvidenceIffAccepted, Capped
  <2>3. IsFiniteSet(dispatched) /\ dispatched \in SUBSET Slot
    BY DEF CapInv, TypeOK
  <2>4. IsFiniteSet(dispatched')
    BY <2>1, <2>3, FS_AddElement
  <2>5. ASSUME NEW c \in Companies PROVE CapAmount(dispatched', c) <= InvoiceQuantity[c]
    <3>1. CASE s[1] = c
      BY <2>1, <2>2, <2>3, <3>1, CapAmountGrows DEF CapInv, CapHolds
    <3>2. CASE s[1] # c
      BY <2>1, <2>2, <2>3, <3>2, CapAmountGrows DEF CapInv
    <3> QED BY <3>1, <3>2
  <2>6. CapsApart'
    BY <1>1 DEF CapInv, CapsApart, Capped
  <2>7. CapHolds'
    <3> SUFFICES ASSUME NEW t \in Slot, Capped(t)', ~accepting'[t].fails
                 PROVE  CapAmount(dispatched', t[1]) + Quantity[t[2]] <= InvoiceQuantity[t[1]]
      BY DEF CapHolds
    <3>1. t # s /\ Capped(t) /\ ~accepting[t].fails
      BY <1>1 DEF Capped
    <3>2. s[1] # t[1]
      BY <2>1, <3>1 DEF CapInv, CapsApart
    <3>3. CapAmount(dispatched', t[1]) = CapAmount(dispatched, t[1])
      BY <2>1, <2>2, <2>3, <3>2, CapAmountGrows
    <3> QED BY <3>1, <3>3 DEF CapInv, CapHolds
  <2> QED BY <2>4, <2>5, <2>6, <2>7 DEF CapInv
<1> QED BY <1>2, <1>3

\* CapInv is inductive.
LEMMA NextCap == HandoffAssumption /\ TypeOK /\ InboxInv /\ CapInv /\ [Next]_vars => CapInv'
<1> SUFFICES ASSUME HandoffAssumption, TypeOK, InboxInv, CapInv, [Next]_vars PROVE CapInv'
  OBVIOUS
<1> USE DEF rowVars, evidenceVars
<1>1. ASSUME NEW s \in Slot, FailAccept(s) \/ AbortAccept(s) PROVE CapInv'
  <2>1. \A t \in Slot : accepting'[t].busy => accepting'[t] = accepting[t]
    BY <1>1 DEF FailAccept, AbortAccept, TypeOK, Idle
  <2> QED BY <1>1, <2>1, CapKept DEF FailAccept, AbortAccept
<1>2. ASSUME UNCHANGED <<dispatched, accepting>> PROVE CapInv'
  BY <1>2, CapKept
<1> QED BY <1>1, <1>2, BeginCapped, CommitCapped
        DEF Next, Emit, CompleteMapping, ApproveEventRoute, CreateEventRoute, BeginIntake, CommitIntake,
            AbandonIntake, DeliverReceived, TransitionException, SubmitVoucher, vars

\* The dispatches that a company has accepted never exceed the quantity of the invoice line they
\* are linked to, however their acceptances overlap (acceptDispatch: the advisory lock of the
\* invoice is taken before the sum is read and held to the commit).
THEOREM DispatchesCapped == HandoffAssumption => (Spec => []DispatchWithinInvoice)
<1> SUFFICES ASSUME HandoffAssumption PROVE Spec => []DispatchWithinInvoice
  OBVIOUS
<1>1. Init => CapInv
  BY InitCap
<1>2. TypeOK /\ InboxInv /\ CapInv /\ [Next]_vars => CapInv'
  BY NextCap
<1>3. CapInv => DispatchWithinInvoice
  BY CapAmountIs DEF CapInv, DispatchWithinInvoice
<1> QED BY <1>1, <1>2, <1>3, InboxInductive, PTL DEF Spec
=============================================================================
