------------------------ MODULE VoucherLedger_proofs ------------------------
(***************************************************************************)
(* Proofs about VoucherLedger, for every set of vouchers, clients, members,*)
(* periods, families and amounts.                                          *)
(***************************************************************************)
EXTENDS VoucherLedger, Sequences, TLAPS

USE LedgerAssumption

\* Swapping debit and credit of an effect gives an effect.
LEMMA EffectsSwap == Effects # {} /\ \A e \in Effects : -e \in Effects
  BY DEF Effects

LEMMA InitType == Init => TypeOK
<1> SUFFICES ASSUME Init PROVE TypeOK
  OBVIOUS
<1>1. (CHOOSE a \in Effects : TRUE) \in Effects
  BY EffectsSwap
<1> QED BY <1>1 DEF Init, TypeOK, Lifecycle, Requests

\* A request in flight, with the fields of a lifecycle request.
LEMMA RequestTyped ==
    ASSUME TypeOK, NEW c \in Clients, request[c].op \in {"update", "submit", "approve", "post"}
    PROVE  /\ request[c] \in [op : {"update", "submit", "approve", "post"}, voucher : Vouchers,
                              version : Nat, locked : BOOLEAN]
           /\ request[c].voucher \in Vouchers /\ request[c].version \in Nat
  BY DEF TypeOK, Requests, Idle

LEMMA DoneTyped ==
    ASSUME TypeOK, NEW c \in Clients, Done(c)
    PROVE  request' \in [Clients -> Requests]
  BY DEF TypeOK, Requests, Done

LEMMA InsertTyped ==
    ASSUME TypeOK, NEW v \in Vouchers, NEW f \in Families, NEW a \in Effects,
           NEW q \in Periods, NEW m \in Members, NEW o \in Vouchers \cup {None},
           InsertDraft(v, f, a, q, m, o)
    PROVE  TypeOK'
  BY DEF TypeOK, InsertDraft, Lifecycle

LEMMA NextType == TypeOK /\ [Next]_vars => TypeOK'
<1> SUFFICES ASSUME TypeOK, [Next]_vars PROVE TypeOK'
  OBVIOUS
<1> USE DEF contentVars
<1>1. ASSUME NEW v \in Vouchers, NEW q \in Periods, NEW m \in Members,
             NEW f \in Families, NEW a \in Effects, CreateVoucher(v, f, a, q, m)
      PROVE  TypeOK'
  BY <1>1, InsertTyped DEF CreateVoucher
<1>2. ASSUME NEW v \in Vouchers, NEW q \in Periods, NEW m \in Members,
             NEW o \in Vouchers, CreateVoucherReversal(v, o, q, m)
      PROVE  TypeOK'
  <2>1. family[o] \in Families /\ -amount[o] \in Effects
    BY EffectsSwap DEF TypeOK
  <2> QED BY <1>2, <2>1, InsertTyped DEF CreateVoucherReversal
<1>3. ASSUME NEW c \in Clients, NEW v \in Vouchers,
             NEW op \in {"update", "submit", "approve", "post"}, Begin(c, op, v)
      PROVE  TypeOK'
  <2>1. [op |-> op, voucher |-> v, version |-> version[v], locked |-> FALSE] \in Requests
    BY DEF TypeOK, Requests
  <2> QED BY <1>3, <2>1 DEF Begin, TypeOK
<1>4. ASSUME NEW c \in Clients, NEW a \in Effects, NEW q \in Periods, UpdateVoucher(c, a, q)
      PROVE  TypeOK'
  <2>1. request[c].voucher \in Vouchers
    BY <1>4, RequestTyped DEF UpdateVoucher, Swaps
  <2>2. request' \in [Clients -> Requests]
    BY <1>4, DoneTyped DEF UpdateVoucher
  <2> QED BY <1>4, <2>1, <2>2 DEF UpdateVoucher, TypeOK
<1>5. ASSUME NEW c \in Clients, SubmitVoucher(c) PROVE TypeOK'
  <2>1. request[c].voucher \in Vouchers
    BY <1>5, RequestTyped DEF SubmitVoucher, Swaps
  <2>2. request' \in [Clients -> Requests]
    BY <1>5, DoneTyped DEF SubmitVoucher
  <2> QED BY <1>5, <2>1, <2>2 DEF SubmitVoucher, TypeOK, Lifecycle
<1>6. ASSUME NEW c \in Clients, NEW m \in Members, ApproveVoucher(c, m) PROVE TypeOK'
  <2>1. request[c].voucher \in Vouchers
    BY <1>6, RequestTyped DEF ApproveVoucher, Swaps
  <2>2. request' \in [Clients -> Requests]
    BY <1>6, DoneTyped DEF ApproveVoucher
  <2> QED BY <1>6, <2>1, <2>2 DEF ApproveVoucher, TypeOK, Lifecycle
<1>7. ASSUME NEW c \in Clients, LockForPost(c) PROVE TypeOK'
  <2>1. request[c] \in [op : {"update", "submit", "approve", "post"}, voucher : Vouchers,
                         version : Nat, locked : BOOLEAN]
    BY <1>7, RequestTyped DEF LockForPost
  <2>2. [request[c] EXCEPT !.locked = TRUE] \in Requests
    BY <2>1 DEF Requests
  <2>3. request' = [request EXCEPT ![c] = [request[c] EXCEPT !.locked = TRUE]]
    BY <1>7 DEF LockForPost
  <2> QED BY <1>7, <2>2, <2>3 DEF LockForPost, TypeOK
<1>8. ASSUME NEW c \in Clients, PostVoucher(c) PROVE TypeOK'
  <2>1. request[c].voucher \in Vouchers
    BY <1>8, RequestTyped DEF PostVoucher, Swaps
  <2>2. request' \in [Clients -> Requests]
    BY <1>8, DoneTyped DEF PostVoucher
  <2>3. status' \in [Vouchers -> Lifecycle] /\ version' \in [Vouchers -> Nat]
    BY <1>8 DEF PostVoucher, TypeOK, Lifecycle
  <2>4. number' \in [Vouchers -> Nat] /\ nextValue' \in [Families -> Nat \ {0}]
    BY <1>8, <2>1 DEF PostVoucher, TypeOK
  <2> QED BY <1>8, <2>2, <2>3, <2>4 DEF PostVoucher, TypeOK
<1>9. ASSUME NEW c \in Clients, Fail(c) PROVE TypeOK'
  BY <1>9, DoneTyped DEF Fail, TypeOK
<1>10. ASSUME NEW q \in Periods, NEW target \in {"open", "soft_closed", "locked"},
              TransitionPeriod(q, target)
       PROVE  TypeOK'
  BY <1>10 DEF TransitionPeriod, TypeOK
<1>11. CASE UNCHANGED vars
  BY <1>11 DEF vars, TypeOK
<1> QED
  BY <1>1, <1>2, <1>3, <1>4, <1>5, <1>6, <1>7, <1>8, <1>9, <1>10, <1>11 DEF Next

\* Every variable of the ledger keeps its type (prismaRepository.ts and the period
\* transitions): a reversal carries an amount a maker could have entered.
THEOREM LedgerTypeCorrect == Spec => []TypeOK
<1> QED BY InitType, NextType, PTL DEF Spec

-----------------------------------------------------------------------------
(* The inductive invariant.                                                *)

\* A voucher that a post request was begun on is past its edits.
PostsApproved ==
    \A c \in Clients : request[c].op = "post" =>
      status[request[c].voucher] \in {"approved", "posted", "reversed"}

\* While a post holds its locks the period is open and the original posted.
LockedPosts ==
    \A c \in Posting :
      LET v == request[c].voucher IN
      /\ periodStatus[period[v]] = "open"
      /\ reversalOf[v] # None => status[reversalOf[v]] = "posted"

\* Two posts that hold locks differ in what they lock.
LocksExclusive ==
    \A c, d \in Posting : c # d =>
      LET v == request[c].voucher  w == request[d].voucher IN
      /\ period[v] # period[w]
      /\ reversalOf[v] # None => reversalOf[v] # reversalOf[w]

\* Only what is in the journal has a reversal, and only a created voucher is one.
Originals ==
    \A v \in Vouchers :
      /\ status[v] = "absent" => reversalOf[v] = None
      /\ reversalOf[v] # None => reversalOf[v] \in InJournal

LedgerInv ==
    /\ PostsApproved /\ LockedPosts /\ LocksExclusive
    /\ Originals /\ GaplessNumbers /\ ReversedOnce

LEMMA InitLedger == Init => LedgerInv
<1> SUFFICES ASSUME Init PROVE LedgerInv
  OBVIOUS
<1>1. Posting = {} /\ InJournal = {}
  BY DEF Init, Posting, InJournal, Idle
<1>2. PostsApproved /\ LockedPosts /\ LocksExclusive
  BY <1>1 DEF Init, PostsApproved, LockedPosts, LocksExclusive, Idle
<1>3. Originals /\ ReversedOnce
  BY <1>1 DEF Init, Originals, ReversedOnce
<1>4. GaplessNumbers
  BY <1>1 DEF Init, GaplessNumbers
<1> QED BY <1>2, <1>3, <1>4 DEF LedgerInv

\* A step that moves vouchers only before their posting leaves the journal alone.
LEMMA JournalUntouched ==
    ASSUME TypeOK, LedgerInv,
           UNCHANGED <<number, nextValue, family, reversalOf>>,
           \A v \in Vouchers :
             \/ status'[v] = status[v]
             \/ status[v] \in {"draft", "submitted"} /\ status'[v] \in {"submitted", "approved"}
    PROVE  Originals' /\ GaplessNumbers' /\ ReversedOnce'
<1>1. InJournal' = InJournal
  BY DEF InJournal
<1>2. Originals'
  BY <1>1 DEF LedgerInv, Originals
<1>3. GaplessNumbers'
  BY <1>1 DEF LedgerInv, GaplessNumbers
<1>4. ReversedOnce'
  BY <1>1 DEF LedgerInv, ReversedOnce
<1> QED BY <1>2, <1>3, <1>4

\* Nor does it disturb a post in flight, when it gives nobody a lock.
LEMMA LocksUntouched ==
    ASSUME TypeOK, LedgerInv,
           UNCHANGED <<periodStatus, reversalOf>>,
           \A v \in Vouchers : status[v] \in {"approved", "posted", "reversed"} =>
             status'[v] = status[v] /\ period'[v] = period[v],
           \A c \in Posting' : c \in Posting /\ request'[c] = request[c]
    PROVE  LockedPosts' /\ LocksExclusive'
<1>1. \A c \in Posting : /\ request[c].voucher \in Vouchers
                         /\ status[request[c].voucher] \in {"approved", "posted", "reversed"}
  BY RequestTyped DEF Posting, LedgerInv, PostsApproved
<1>2. \A v \in Vouchers : reversalOf[v] # None => reversalOf[v] \in Vouchers
  BY DEF TypeOK
<1>3. LockedPosts'
  BY <1>1, <1>2 DEF LedgerInv, LockedPosts
<1>4. LocksExclusive'
  BY <1>1 DEF LedgerInv, LocksExclusive
<1> QED BY <1>3, <1>4

\* A new draft is no entry of the journal and nobody's post.
LEMMA InsertLedger ==
    ASSUME TypeOK, LedgerInv, NEW v \in Vouchers, NEW f \in Families, NEW a \in Effects,
           NEW q \in Periods, NEW m \in Members, NEW o \in Vouchers \cup {None},
           o # None => /\ o \in InJournal
                       /\ \A r \in Vouchers : status[r] # "absent" => reversalOf[r] # o,
           InsertDraft(v, f, a, q, m, o)
    PROVE  LedgerInv'
<1> USE DEF InsertDraft
<1>1. /\ \A w \in Vouchers \ {v} : /\ status'[w] = status[w] /\ family'[w] = family[w]
                                   /\ period'[w] = period[w] /\ reversalOf'[w] = reversalOf[w]
      /\ status[v] = "absent" /\ status'[v] = "draft" /\ reversalOf'[v] = o
      /\ UNCHANGED <<number, nextValue, periodStatus, request>>
  BY DEF TypeOK
<1>2. InJournal' = InJournal /\ v \notin InJournal
  BY <1>1 DEF InJournal
<1>3. Posting' = Posting
  BY <1>1 DEF Posting
<1>4. \A c \in Clients : request[c].op = "post" => request[c].voucher \in Vouchers \ {v}
  BY <1>1, RequestTyped DEF LedgerInv, PostsApproved
<1>5. PostsApproved'
  BY <1>1, <1>4 DEF LedgerInv, PostsApproved
<1>6. \A w \in Vouchers : reversalOf[w] # None => reversalOf[w] \in InJournal
  BY DEF LedgerInv, Originals
<1>7. LockedPosts'
  <2> SUFFICES ASSUME NEW c \in Posting
               PROVE  LET w == request[c].voucher IN
                      /\ periodStatus[period'[w]] = "open"
                      /\ reversalOf'[w] # None => status'[reversalOf'[w]] = "posted"
    BY <1>1, <1>3 DEF LockedPosts
  <2> DEFINE w == request[c].voucher
  <2>1. w \in Vouchers \ {v}
    BY <1>4 DEF Posting
  <2>2. periodStatus[period[w]] = "open" /\ (reversalOf[w] # None => status[reversalOf[w]] = "posted")
    BY DEF LedgerInv, LockedPosts
  <2>3. reversalOf[w] # None => reversalOf[w] \in Vouchers \ {v}
    BY <1>2, <1>6, <2>1 DEF InJournal
  <2> QED BY <1>1, <2>1, <2>2, <2>3
<1>8. LocksExclusive'
  <2> SUFFICES ASSUME NEW c \in Posting, NEW d \in Posting, c # d
               PROVE  LET w == request[c].voucher  x == request[d].voucher IN
                      /\ period'[w] # period'[x]
                      /\ reversalOf'[w] # None => reversalOf'[w] # reversalOf'[x]
    BY <1>1, <1>3 DEF LocksExclusive
  <2>1. request[c].voucher \in Vouchers \ {v} /\ request[d].voucher \in Vouchers \ {v}
    BY <1>4 DEF Posting
  <2> QED BY <1>1, <2>1 DEF LedgerInv, LocksExclusive
<1>9. Originals'
  BY <1>1, <1>2 DEF LedgerInv, Originals
<1>10. GaplessNumbers'
  <2>1. \A w \in InJournal : w \in Vouchers /\ family'[w] = family[w]
    BY <1>1, <1>2 DEF InJournal
  <2> QED BY <1>1, <1>2, <2>1 DEF LedgerInv, GaplessNumbers
<1>11. ReversedOnce'
  <2>1. \A w \in InJournal : w \in Vouchers /\ reversalOf'[w] = reversalOf[w]
    BY <1>1, <1>2 DEF InJournal
  <2>2. \A w \in Vouchers : status'[w] = "reversed" <=> \E r \in InJournal : reversalOf'[r] = w
    <3>1. \A w \in Vouchers : status'[w] = "reversed" <=> status[w] = "reversed"
      BY <1>1
    <3> QED BY <2>1, <3>1 DEF LedgerInv, ReversedOnce
  <2>3. \A r, s \in {x \in Vouchers : status'[x] # "absent"} :
          (reversalOf'[r] # None /\ reversalOf'[r] = reversalOf'[s]) => r = s
    BY <1>1 DEF LedgerInv, ReversedOnce
  <2> QED BY <1>2, <2>2, <2>3 DEF ReversedOnce
<1> QED BY <1>5, <1>7, <1>8, <1>9, <1>10, <1>11 DEF LedgerInv

\* Taking the locks: they were free, the period open, the original posted.
LEMMA LockLedger ==
    ASSUME TypeOK, LedgerInv, NEW c \in Clients, LockForPost(c)
    PROVE  LedgerInv'
<1> DEFINE v == request[c].voucher
<1> USE DEF LockForPost, contentVars
<1>1. /\ request'[c].op = "post" /\ request'[c].voucher = v
      /\ \A d \in Clients \ {c} : request'[d] = request[d]
      /\ UNCHANGED <<status, period, reversalOf, periodStatus>>
  <2>1. request[c] \in [op : {"update", "submit", "approve", "post"}, voucher : Vouchers,
                         version : Nat, locked : BOOLEAN]
    BY RequestTyped
  <2> QED BY <2>1 DEF TypeOK
<1>2. Posting' \subseteq Posting \cup {c} /\ c \notin Posting
  BY <1>1 DEF Posting
<1>3. PostsApproved'
  BY <1>1 DEF LedgerInv, PostsApproved
<1>4. LockedPosts'
  <2> SUFFICES ASSUME NEW d \in Posting'
               PROVE  LET w == request'[d].voucher IN
                      /\ periodStatus[period[w]] = "open"
                      /\ reversalOf[w] # None => status[reversalOf[w]] = "posted"
    BY <1>1 DEF LockedPosts
  <2>1. CASE d = c
    BY <1>1, <2>1
  <2>2. CASE d # c
    <3>1. d \in Posting /\ d \in Clients /\ request'[d] = request[d]
      BY <1>1, <1>2, <2>2 DEF Posting
    <3> QED BY <3>1 DEF LedgerInv, LockedPosts
  <2> QED BY <2>1, <2>2
<1>5. \A d \in Posting : LET w == request[d].voucher IN
          period[w] # period[v] /\ (reversalOf[v] # None => reversalOf[w] # reversalOf[v])
  BY DEF PeriodLockFree, RowLockFree
<1>6. LocksExclusive'
  <2> SUFFICES ASSUME NEW d \in Posting', NEW e \in Posting', d # e
               PROVE  LET w == request'[d].voucher  x == request'[e].voucher IN
                      /\ period[w] # period[x]
                      /\ reversalOf[w] # None => reversalOf[w] # reversalOf[x]
    BY <1>1 DEF LocksExclusive
  <2>1. d \in Clients /\ e \in Clients
    BY DEF Posting
  <2>2. CASE d = c
    <3>1. e \in Posting /\ request'[e] = request[e]
      BY <1>1, <1>2, <2>1, <2>2
    <3> QED BY <1>1, <1>5, <2>2, <3>1
  <2>3. CASE e = c
    <3>1. d \in Posting /\ request'[d] = request[d]
      BY <1>1, <1>2, <2>1, <2>3
    <3> QED BY <1>1, <1>5, <2>3, <3>1
  <2>4. CASE d # c /\ e # c
    <3>1. d \in Posting /\ request'[d] = request[d] /\ e \in Posting /\ request'[e] = request[e]
      BY <1>1, <1>2, <2>1, <2>4
    <3> QED BY <3>1 DEF LedgerInv, LocksExclusive
  <2> QED BY <2>2, <2>3, <2>4
<1>7. Originals' /\ GaplessNumbers' /\ ReversedOnce'
  BY JournalUntouched
<1> QED BY <1>3, <1>4, <1>6, <1>7 DEF LedgerInv

\* The effect of a post: its voucher joins the journal with the next number, and the
\* original of a reversal, posted until now, reads reversed.
LEMMA PostEffect ==
    ASSUME TypeOK, LedgerInv, NEW c \in Clients, PostVoucher(c)
    PROVE  LET v == request[c].voucher  o == reversalOf[v] IN
           /\ v \in Vouchers /\ c \in Posting
           /\ status[v] = "approved" /\ status'[v] = "posted" /\ periodStatus[period[v]] = "open"
           /\ o # None => o \in Vouchers \ {v} /\ status[o] = "posted" /\ status'[o] = "reversed"
           /\ \A x \in Vouchers \ {v, o} : status'[x] = status[x]
           /\ InJournal' = InJournal \cup {v}
           /\ v \notin InJournal
<1> DEFINE v == request[c].voucher
           o == reversalOf[v]
<1> USE DEF PostVoucher, Swaps
<1>1. v \in Vouchers /\ c \in Posting /\ status[v] = "approved"
  BY RequestTyped DEF Posting, Required
<1>2. /\ periodStatus[period[v]] = "open"
      /\ o # None => status[o] = "posted"
  BY <1>1 DEF LedgerInv, LockedPosts
<1>3. o # None => o \in Vouchers \ {v}
  BY <1>1, <1>2 DEF TypeOK
<1>4. status'[v] = "posted"
  BY <1>1
<1>5. o # None => status'[o] = "reversed"
  BY <1>3
<1>6. \A x \in Vouchers \ {v, o} : status'[x] = status[x]
  OBVIOUS
<1>7. v \notin InJournal
  BY <1>1 DEF InJournal
<1>8. InJournal' = InJournal \cup {v}
  BY <1>1, <1>2, <1>3, <1>4, <1>5, <1>6 DEF InJournal
<1> QED BY <1>1, <1>2, <1>3, <1>4, <1>5, <1>6, <1>7, <1>8

LEMMA PostLedger ==
    ASSUME TypeOK, LedgerInv, NEW c \in Clients, PostVoucher(c)
    PROVE  LedgerInv'
<1> DEFINE v == request[c].voucher
           o == reversalOf[v]
           f == family[v]
<1>e. /\ v \in Vouchers /\ c \in Posting
      /\ status[v] = "approved" /\ status'[v] = "posted"
      /\ o # None => o \in Vouchers \ {v} /\ status[o] = "posted" /\ status'[o] = "reversed"
      /\ \A x \in Vouchers \ {v, o} : status'[x] = status[x]
      /\ InJournal' = InJournal \cup {v}
      /\ v \notin InJournal
  BY PostEffect
<1>1. /\ UNCHANGED <<family, period, reversalOf, periodStatus>>
      /\ request'[c] = Idle /\ \A d \in Clients \ {c} : request'[d] = request[d]
      /\ f \in Families /\ nextValue[f] \in Nat \ {0}
      /\ number'[v] = nextValue[f] /\ \A x \in Vouchers \ {v} : number'[x] = number[x]
      /\ nextValue'[f] = nextValue[f] + 1 /\ \A g \in Families \ {f} : nextValue'[g] = nextValue[g]
  BY <1>e DEF PostVoucher, Done, contentVars, TypeOK
<1>2. \A d \in Posting' : d \in Posting /\ d \in Clients \ {c} /\ request'[d] = request[d]
  BY <1>1 DEF Posting, Idle
<1>3. PostsApproved'
  <2> SUFFICES ASSUME NEW d \in Clients, request'[d].op = "post"
               PROVE  status'[request'[d].voucher] \in {"approved", "posted", "reversed"}
    BY DEF PostsApproved
  <2>1. d # c /\ request'[d] = request[d]
    BY <1>1 DEF Idle
  <2>2. request[d].voucher \in Vouchers /\ status[request[d].voucher] \in {"approved", "posted", "reversed"}
    BY <2>1, RequestTyped DEF LedgerInv, PostsApproved
  <2> QED BY <1>e, <2>1, <2>2
<1>4. LockedPosts'
  <2> SUFFICES ASSUME NEW d \in Posting'
               PROVE  LET w == request[d].voucher IN
                      /\ periodStatus[period[w]] = "open"
                      /\ reversalOf[w] # None => status'[reversalOf[w]] = "posted"
    BY <1>1, <1>2 DEF LockedPosts
  <2> DEFINE w == request[d].voucher
  <2>1. periodStatus[period[w]] = "open" /\ (reversalOf[w] # None => status[reversalOf[w]] = "posted")
    BY <1>2 DEF LedgerInv, LockedPosts
  <2>2. o # None => reversalOf[w] # o
    BY <1>2, <1>e DEF LedgerInv, LocksExclusive
  <2>3. reversalOf[w] # None => reversalOf[w] \in Vouchers
    <3>1. w \in Vouchers
      BY <1>2, RequestTyped DEF Posting
    <3> QED BY <3>1 DEF TypeOK
  <2> QED BY <1>e, <2>1, <2>2, <2>3
<1>5. LocksExclusive'
  BY <1>1, <1>2 DEF LedgerInv, LocksExclusive
<1>6. Originals'
  BY <1>e, <1>1 DEF LedgerInv, Originals
<1>7. GaplessNumbers'
  <2>0. /\ \A x \in InJournal : x \in Vouchers \ {v} /\ number'[x] = number[x] /\ family[x] \in Families
        /\ \A x \in Vouchers : number[x] \in Nat
        /\ \A g \in Families : nextValue[g] \in Nat
    BY <1>e, <1>1 DEF InJournal, TypeOK
  <2>1. \A x \in Vouchers : x \in InJournal' <=> number'[x] # 0
    BY <1>e, <1>1, <2>0 DEF LedgerInv, GaplessNumbers
  <2>2. \A x \in InJournal' : number'[x] < nextValue'[family[x]]
    BY <1>e, <1>1, <2>0 DEF LedgerInv, GaplessNumbers
  <2>3. \A x, y \in InJournal' : (x # y /\ family[x] = family[y]) => number'[x] # number'[y]
    BY <1>e, <1>1, <2>0 DEF LedgerInv, GaplessNumbers
  <2>4. \A g \in Families : \A n \in 1..nextValue'[g] - 1 :
           \E x \in InJournal' : family[x] = g /\ number'[x] = n
    <3> SUFFICES ASSUME NEW g \in Families, NEW n \in 1..nextValue'[g] - 1
                 PROVE  \E x \in InJournal' : family[x] = g /\ number'[x] = n
      OBVIOUS
    <3>1. CASE g = f /\ n = nextValue[f]
      BY <1>e, <1>1, <3>1
    <3>2. CASE ~(g = f /\ n = nextValue[f])
      <4>1. n \in 1..nextValue[g] - 1
        BY <1>1, <2>0, <3>2
      <4>2. PICK x \in InJournal : family[x] = g /\ number[x] = n
        BY <4>1 DEF LedgerInv, GaplessNumbers
      <4> QED BY <1>e, <2>0, <4>2
    <3> QED BY <3>1, <3>2
  <2> QED BY <1>1, <2>1, <2>2, <2>3, <2>4 DEF GaplessNumbers
<1>8. ReversedOnce'
  <2>1. \A r \in InJournal : reversalOf[r] # v
    BY <1>e DEF LedgerInv, Originals, InJournal
  <2>2. \A x \in Vouchers : status'[x] = "reversed" <=> \E r \in InJournal' : reversalOf[r] = x
    <3> SUFFICES ASSUME NEW x \in Vouchers
                 PROVE  status'[x] = "reversed" <=> \E r \in InJournal' : reversalOf[r] = x
      OBVIOUS
    <3>1. CASE x = v
      BY <1>e, <2>1, <3>1 DEF LedgerInv, Originals
    <3>2. CASE x = o
      BY <1>e, <3>2
    <3>3. CASE x # v /\ x # o
      BY <1>e, <3>3 DEF LedgerInv, ReversedOnce
    <3> QED BY <3>1, <3>2, <3>3
  <2>3. \A x \in Vouchers : status'[x] # "absent" => status[x] # "absent"
    BY <1>e
  <2> QED BY <1>1, <2>2, <2>3 DEF LedgerInv, ReversedOnce
<1> QED BY <1>3, <1>4, <1>5, <1>6, <1>7, <1>8 DEF LedgerInv

LEMMA NextLedger == TypeOK /\ LedgerInv /\ [Next]_vars => LedgerInv'
<1> SUFFICES ASSUME TypeOK, LedgerInv, [Next]_vars PROVE LedgerInv'
  OBVIOUS
<1> USE DEF contentVars
<1>q. ASSUME PostsApproved', UNCHANGED <<number, nextValue, family, reversalOf, periodStatus>>,
             \A v \in Vouchers :
               \/ status'[v] = status[v]
               \/ status[v] \in {"draft", "submitted"} /\ status'[v] \in {"submitted", "approved"},
             \A v \in Vouchers : status[v] \in {"approved", "posted", "reversed"} => period'[v] = period[v],
             \A c \in Posting' : c \in Posting /\ request'[c] = request[c]
      PROVE  LedgerInv'
  <2>1. LockedPosts' /\ LocksExclusive'
    BY <1>q, LocksUntouched
  <2>2. Originals' /\ GaplessNumbers' /\ ReversedOnce'
    BY <1>q, JournalUntouched
  <2> QED BY <1>q, <2>1, <2>2 DEF LedgerInv
<1>1. ASSUME NEW v \in Vouchers, NEW q \in Periods, NEW m \in Members,
             NEW f \in Families, NEW a \in Effects, CreateVoucher(v, f, a, q, m)
      PROVE  LedgerInv'
  BY <1>1, InsertLedger DEF CreateVoucher
<1>2. ASSUME NEW v \in Vouchers, NEW q \in Periods, NEW m \in Members,
             NEW o \in Vouchers, CreateVoucherReversal(v, o, q, m)
      PROVE  LedgerInv'
  <2>1. family[o] \in Families /\ -amount[o] \in Effects /\ o \in InJournal
    BY <1>2, EffectsSwap DEF TypeOK, CreateVoucherReversal, InJournal
  <2> QED BY <1>2, <2>1, InsertLedger DEF CreateVoucherReversal
<1>3. ASSUME NEW c \in Clients, NEW v \in Vouchers,
             NEW op \in {"update", "submit", "approve", "post"}, Begin(c, op, v)
      PROVE  LedgerInv'
  <2>1. /\ request'[c] = [op |-> op, voucher |-> v, version |-> version[v], locked |-> FALSE]
        /\ \A d \in Clients \ {c} : request'[d] = request[d]
    BY <1>3 DEF Begin, TypeOK
  <2>2. PostsApproved'
    BY <1>3, <2>1 DEF Begin, Required, LedgerInv, PostsApproved
  <2>3. \A d \in Posting' : d \in Posting /\ request'[d] = request[d]
    BY <2>1 DEF Posting
  <2> QED BY <1>3, <2>2, <2>3, <1>q DEF Begin
<1>d. ASSUME NEW c \in Clients, Done(c),
             \A v \in Vouchers :
               \/ status'[v] = status[v]
               \/ status[v] \in {"draft", "submitted"} /\ status'[v] \in {"submitted", "approved"}
      PROVE  /\ PostsApproved'
             /\ \A d \in Posting' : d \in Posting /\ request'[d] = request[d]
  <2>1. request'[c] = Idle /\ \A d \in Clients \ {c} : request'[d] = request[d]
    BY <1>d DEF Done, TypeOK
  <2>2. \A d \in Clients : request[d].op = "post" => request[d].voucher \in Vouchers
    BY RequestTyped
  <2>3. PostsApproved'
    BY <1>d, <2>1, <2>2 DEF LedgerInv, PostsApproved, Idle
  <2> QED BY <2>1, <2>3 DEF Posting, Idle
<1>4. ASSUME NEW c \in Clients, NEW a \in Effects, NEW q \in Periods, UpdateVoucher(c, a, q)
      PROVE  LedgerInv'
  <2>1. /\ request[c].voucher \in Vouchers /\ status[request[c].voucher] = "draft"
        /\ \A v \in Vouchers \ {request[c].voucher} : period'[v] = period[v]
    BY <1>4, RequestTyped DEF UpdateVoucher, Swaps, Required, TypeOK
  <2> QED BY <1>4, <2>1, <1>d, <1>q DEF UpdateVoucher
<1>5. ASSUME NEW c \in Clients, SubmitVoucher(c) PROVE LedgerInv'
  <2>1. \A v \in Vouchers : \/ status'[v] = status[v]
                            \/ status[v] \in {"draft", "submitted"} /\ status'[v] \in {"submitted", "approved"}
    BY <1>5, RequestTyped DEF SubmitVoucher, Swaps, Required, TypeOK
  <2> QED BY <1>5, <2>1, <1>d, <1>q DEF SubmitVoucher
<1>6. ASSUME NEW c \in Clients, NEW m \in Members, ApproveVoucher(c, m) PROVE LedgerInv'
  <2>1. \A v \in Vouchers : \/ status'[v] = status[v]
                            \/ status[v] \in {"draft", "submitted"} /\ status'[v] \in {"submitted", "approved"}
    BY <1>6, RequestTyped DEF ApproveVoucher, Swaps, Required, TypeOK
  <2> QED BY <1>6, <2>1, <1>d, <1>q DEF ApproveVoucher
<1>7. ASSUME NEW c \in Clients, LockForPost(c) PROVE LedgerInv'
  BY <1>7, LockLedger
<1>8. ASSUME NEW c \in Clients, PostVoucher(c) PROVE LedgerInv'
  BY <1>8, PostLedger
<1>9. ASSUME NEW c \in Clients, Fail(c) PROVE LedgerInv'
  BY <1>9, <1>d, <1>q DEF Fail
<1>10. ASSUME NEW q \in Periods, NEW target \in {"open", "soft_closed", "locked"},
              TransitionPeriod(q, target)
       PROVE  LedgerInv'
  <2>1. /\ \A p \in Periods \ {q} : periodStatus'[p] = periodStatus[p]
        /\ \A c \in Posting : period[request[c].voucher] # q
        /\ UNCHANGED <<status, contentVars, number, nextValue, request>>
    BY <1>10 DEF TransitionPeriod, PeriodLockFree, TypeOK
  <2>2. Posting' = Posting
    BY <2>1 DEF Posting
  <2>3. \A c \in Posting : period[request[c].voucher] \in Periods \ {q}
    BY <2>1, RequestTyped DEF Posting, TypeOK
  <2>4. LockedPosts'
    BY <2>1, <2>2, <2>3 DEF LedgerInv, LockedPosts
  <2>5. LocksExclusive' /\ PostsApproved'
    BY <2>1, <2>2 DEF LedgerInv, LocksExclusive, PostsApproved
  <2>6. Originals' /\ GaplessNumbers' /\ ReversedOnce'
    BY <2>1, JournalUntouched
  <2> QED BY <2>4, <2>5, <2>6 DEF LedgerInv
<1>11. CASE UNCHANGED vars
  <2>1. PostsApproved' /\ \A d \in Posting' : d \in Posting /\ request'[d] = request[d]
    BY <1>11 DEF vars, LedgerInv, PostsApproved, Posting
  <2> QED BY <1>11, <2>1, <1>q DEF vars
<1> QED
  BY <1>1, <1>2, <1>3, <1>4, <1>5, <1>6, <1>7, <1>8, <1>9, <1>10, <1>11 DEF Next

LEMMA LedgerInductive == Spec => [](TypeOK /\ LedgerInv)
<1>1. Init => TypeOK /\ LedgerInv
  BY InitType, InitLedger
<1>2. (TypeOK /\ LedgerInv) /\ [Next]_vars => (TypeOK /\ LedgerInv)'
  BY NextType, NextLedger
<1> QED BY <1>1, <1>2, PTL DEF Spec

\* Voucher numbers run without gap or duplicate, whichever posts failed in between
\* (postVoucher: the number and the status are one commit).
THEOREM NumbersGapless == Spec => []GaplessNumbers
<1>1. LedgerInv => GaplessNumbers
  BY DEF LedgerInv
<1> QED BY <1>1, LedgerInductive, PTL

\* A voucher is reversed by one posted reversal, and reads reversed exactly then.
THEOREM ReversalsUnique == Spec => []ReversedOnce
<1>1. LedgerInv => ReversedOnce
  BY DEF LedgerInv
<1> QED BY <1>1, LedgerInductive, PTL

\* No post reaches a closed period, even when the close arrives while it is in flight.
LEMMA StepPostsOpen ==
    ASSUME TypeOK, LedgerInv, [Next]_vars, NEW v \in Vouchers,
           v \notin InJournal, status'[v] = "posted"
    PROVE  periodStatus[period[v]] = "open"
<1> USE DEF contentVars
<1>1. status[v] # "posted"
  BY DEF InJournal
<1>2. ASSUME NEW c \in Clients, PostVoucher(c) PROVE periodStatus[period[v]] = "open"
  BY <1>1, <1>2, PostEffect
<1>3. \A w \in Vouchers, q \in Periods, m \in Members :
         /\ \A f \in Families, a \in Effects : ~CreateVoucher(w, f, a, q, m)
         /\ \A o \in Vouchers : ~CreateVoucherReversal(w, o, q, m)
  BY <1>1 DEF CreateVoucher, CreateVoucherReversal, InsertDraft, TypeOK
<1>4. \A c \in Clients : ~SubmitVoucher(c) /\ \A m \in Members : ~ApproveVoucher(c, m)
  BY <1>1 DEF SubmitVoucher, ApproveVoucher, TypeOK
<1>5. \A c \in Clients :
         /\ ~LockForPost(c) /\ ~Fail(c)
         /\ \A a \in Effects, q \in Periods : ~UpdateVoucher(c, a, q)
         /\ \A w \in Vouchers, op \in {"update", "submit", "approve", "post"} : ~Begin(c, op, w)
  BY <1>1 DEF LockForPost, Fail, UpdateVoucher, Begin
<1>6. \A q \in Periods, target \in {"open", "soft_closed", "locked"} : ~TransitionPeriod(q, target)
  BY <1>1 DEF TransitionPeriod
<1>7. ~UNCHANGED vars
  BY <1>1 DEF vars
<1> QED BY <1>2, <1>3, <1>4, <1>5, <1>6, <1>7 DEF Next

\* The period lock holds a post and a close apart.
THEOREM PostsInOpenPeriod == Spec => PostedInOpenPeriod
<1>1. TypeOK /\ LedgerInv /\ [Next]_vars =>
        [\A v \in Vouchers :
           (v \notin InJournal /\ status'[v] = "posted") => periodStatus[period[v]] = "open"]_vars
  BY StepPostsOpen
<1> QED BY <1>1, LedgerInductive, PTL DEF Spec, PostedInOpenPeriod
-----------------------------------------------------------------------------
(* The refinement of the journal of Contracts: a post appends the entry of   *)
(* its voucher to the journal of its family, and no other step changes one.  *)

\* What the steps other than a post leave alone.
LEMMA JournalSame ==
    ASSUME UNCHANGED <<number, nextValue>>, InJournal' = InJournal,
           \A v \in InJournal : /\ family'[v] = family[v] /\ amount'[v] = amount[v]
                                /\ period'[v] = period[v]
    PROVE  Journal' = Journal
<1>1. \A v \in InJournal : Entry(v)' = Entry(v)
  BY DEF Entry
<1>2. \A f \in Families, n \in Nat : Numbered(f, n)' = Numbered(f, n) /\ Numbered(f, n) \subseteq InJournal
  BY DEF Numbered
<1>3. \A f \in Families, n \in Nat : {Entry(v) : v \in Numbered(f, n)}' = {Entry(v) : v \in Numbered(f, n)}
  BY <1>1, <1>2
<1>4. Journal' = [f \in Families |-> [n \in 1..nextValue[f] - 1 |-> {Entry(v) : v \in Numbered(f, n)}']]
  BY DEF Journal
<1> QED BY <1>3, <1>4 DEF Journal

\* A function on 1..j is a sequence of length j.
LEMMA SequenceTyped ==
    ASSUME NEW T, NEW j \in Nat, NEW s, s \in [1..j -> T]
    PROVE  s \in Seq(T) /\ Len(s) = j
  OBVIOUS

\* And a sequence is a function on 1..Len.
LEMMA SequenceDomain ==
    ASSUME NEW T, NEW s \in Seq(T)
    PROVE  s = [n \in 1..Len(s) |-> s[n]]
<1>1. s \in [1..Len(s) -> T]
  OBVIOUS
<1> QED BY <1>1

\* The entries that bear a number are entries.
LEMMA JournalTyped ==
    ASSUME TypeOK, NEW f \in Families
    PROVE  /\ Journal[f] \in Seq(SUBSET [voucher : Vouchers, amount : Effects, period : Periods])
           /\ Len(Journal[f]) = nextValue[f] - 1
<1> DEFINE k == nextValue[f]
           S(n) == {Entry(v) : v \in Numbered(f, n)}
<1>1. k \in Nat \ {0}
  BY DEF TypeOK
<1>2. \A n \in Nat : S(n) \in SUBSET [voucher : Vouchers, amount : Effects, period : Periods]
  BY DEF Entry, Numbered, InJournal, TypeOK
<1>3. Journal[f] = [n \in 1..k - 1 |-> S(n)]
  BY DEF Journal
<1> DEFINE T == SUBSET [voucher : Vouchers, amount : Effects, period : Periods]
           J == Journal[f]
<1>4. J \in [1..k - 1 -> T] /\ k - 1 \in Nat
  <2> HIDE DEF S, k, T
  <2>1. \A n \in Nat : S(n) \in T
    BY <1>2 DEF T
  <2> QED BY <1>1, <1>3, <2>1
<1> HIDE DEF T, J
<1>5. J \in Seq(T) /\ Len(J) = k - 1
  BY <1>4, SequenceTyped
<1> QED BY <1>5 DEF T, J

\* A voucher that joins the journal with the next number is appended to it.
LEMMA JournalAppended ==
    ASSUME TypeOK, LedgerInv, NEW v \in Vouchers, NEW f \in Families, NEW k \in Nat \ {0},
           f = family[v], k = nextValue[f],
           v \notin InJournal, InJournal' = InJournal \cup {v},
           UNCHANGED <<family, amount, period>>,
           number'[v] = k, \A x \in Vouchers \ {v} : number'[x] = number[x],
           nextValue'[f] = k + 1, \A g \in Families \ {f} : nextValue'[g] = nextValue[g]
    PROVE  Journal' = [Journal EXCEPT ![f] = Append(@, {Entry(v)})]
<1>2. \A x : Entry(x)' = Entry(x)
  BY DEF Entry
<1>3. \A x \in InJournal : x \in Vouchers \ {v} /\ number'[x] = number[x] /\ number[x] < nextValue[family[x]]
  BY DEF LedgerInv, GaplessNumbers, InJournal
<1>4. \A g \in Families, n \in Nat : ~(g = f /\ n = k) => Numbered(g, n)' = Numbered(g, n)
  BY <1>3 DEF Numbered
<1>5. Numbered(f, k)' = {v}
  <2>1. \A x \in InJournal : ~(family[x] = f /\ number'[x] = k)
    <3>1. \A x \in InJournal : number[x] \in Nat
      BY <1>3 DEF TypeOK
    <3> QED BY <1>3, <3>1
  <2> QED BY <2>1 DEF Numbered
<1> DEFINE S(g, n) == {Entry(x) : x \in Numbered(g, n)}
<1>s. \A g \in Families, n \in Nat : ~(g = f /\ n = k) => S(g, n)' = S(g, n)
  BY <1>2, <1>4
<1>t. S(f, k)' = {Entry(v)}
  BY <1>2, <1>5
<1>j. /\ Journal = [g \in Families |-> [n \in 1..nextValue[g] - 1 |-> S(g, n)]]
      /\ Journal' = [g \in Families |-> [n \in 1..nextValue'[g] - 1 |-> S(g, n)']]
  BY DEF Journal
<1> HIDE DEF S
<1>6. \A g \in Families \ {f} : Journal'[g] = Journal[g]
  BY <1>s, <1>j
<1>7. Journal'[f] = Append(Journal[f], {Entry(v)})
  <2> DEFINE J == Journal[f]
             JJ == Journal'[f]
             e == {Entry(v)}
             E == SUBSET [voucher : Vouchers, amount : Effects, period : Periods]
  <2>1. JJ = [n \in 1..k |-> S(f, n)'] /\ J = [n \in 1..k - 1 |-> S(f, n)]
    <3>1. nextValue'[f] - 1 = k
      OBVIOUS
    <3> QED BY <1>j, <3>1
  <2>2. \A n \in 1..k - 1 : JJ[n] = J[n]
    BY <1>s, <2>1
  <2>3. JJ[k] = e
    BY <1>t, <2>1
  <2>4. J \in Seq(E) /\ Len(J) = k - 1
    BY JournalTyped
  <2>5. e \in E
    BY DEF Entry, TypeOK
  <2> HIDE DEF J, JJ, e, E
  <2>6. /\ Append(J, e) \in Seq(E) /\ Len(Append(J, e)) = k
        /\ \A n \in 1..k - 1 : Append(J, e)[n] = J[n]
        /\ Append(J, e)[k] = e
    BY <2>4, <2>5
  <2>7. JJ = [n \in 1..k |-> JJ[n]]
    BY <2>1
  <2>8. Append(J, e) = [n \in 1..k |-> Append(J, e)[n]]
    <3> DEFINE A == Append(J, e)
    <3>1. A \in Seq(E) /\ Len(A) = k
      BY <2>6
    <3> HIDE DEF A
    <3>2. A = [n \in 1..k |-> A[n]]
      BY <3>1, SequenceDomain
    <3> QED BY <3>2 DEF A
  <2>9. \A n \in 1..k : JJ[n] = Append(J, e)[n]
    BY <2>2, <2>3, <2>6
  <2> QED BY <2>7, <2>8, <2>9 DEF J, JJ, e
<1> QED BY <1>j, <1>6, <1>7

LEMMA PostRecords ==
    ASSUME TypeOK, LedgerInv, NEW c \in Clients, PostVoucher(c)
    PROVE  Contract!JournalNext
<1> DEFINE v == request[c].voucher
           f == family[v]
           k == nextValue[f]
<1>1. v \in Vouchers /\ InJournal' = InJournal \cup {v} /\ v \notin InJournal
  BY PostEffect
<1>2. /\ UNCHANGED <<family, amount, period>>
      /\ f \in Families /\ k \in Nat \ {0}
      /\ number'[v] = k /\ \A x \in Vouchers \ {v} : number'[x] = number[x]
      /\ nextValue'[f] = k + 1 /\ \A g \in Families \ {f} : nextValue'[g] = nextValue[g]
  BY <1>1 DEF PostVoucher, contentVars, TypeOK
<1>3. Journal' = [Journal EXCEPT ![f] = Append(@, {Entry(v)})]
  BY <1>1, <1>2, JournalAppended
<1>4. {Entry(v)} \in {{e} : e \in [voucher : Vouchers, amount : Effects, period : Periods]}
  BY <1>1 DEF Entry, TypeOK
<1> QED BY <1>2, <1>3, <1>4 DEF Contract!JournalNext, Contract!Record

LEMMA JournalStep == TypeOK /\ LedgerInv /\ [Next]_vars => [Contract!JournalNext]_Journal
<1> SUFFICES ASSUME TypeOK, LedgerInv, [Next]_vars PROVE [Contract!JournalNext]_Journal
  OBVIOUS
<1> USE DEF contentVars
<1>1. ASSUME NEW v \in Vouchers, NEW f \in Families, NEW a \in Effects, NEW q \in Periods,
             NEW m \in Members, NEW o \in Vouchers \cup {None}, InsertDraft(v, f, a, q, m, o)
      PROVE  Journal' = Journal
  <2>1. InJournal' = InJournal /\ v \notin InJournal /\ UNCHANGED <<number, nextValue>>
    BY <1>1 DEF InsertDraft, InJournal, TypeOK
  <2>2. \A w \in InJournal : w \in Vouchers \ {v}
    BY <2>1 DEF InJournal
  <2>3. \A w \in Vouchers \ {v} : family'[w] = family[w] /\ amount'[w] = amount[w] /\ period'[w] = period[w]
    BY <1>1 DEF InsertDraft, TypeOK
  <2> QED BY <2>1, <2>2, <2>3, JournalSame
<1>2. ASSUME NEW v \in Vouchers, NEW q \in Periods, NEW m \in Members,
             NEW f \in Families, NEW a \in Effects, CreateVoucher(v, f, a, q, m)
      PROVE  [Contract!JournalNext]_Journal
  BY <1>1, <1>2 DEF CreateVoucher
<1>3. ASSUME NEW v \in Vouchers, NEW q \in Periods, NEW m \in Members,
             NEW o \in Vouchers, CreateVoucherReversal(v, o, q, m)
      PROVE  [Contract!JournalNext]_Journal
  <2>1. family[o] \in Families /\ -amount[o] \in Effects
    BY EffectsSwap DEF TypeOK
  <2> QED BY <1>1, <1>3, <2>1 DEF CreateVoucherReversal
<1>4. ASSUME NEW c \in Clients, NEW a \in Effects, NEW q \in Periods, UpdateVoucher(c, a, q)
      PROVE  [Contract!JournalNext]_Journal
  <2> DEFINE v == request[c].voucher
  <2>1. v \in Vouchers /\ v \notin InJournal
    BY <1>4, RequestTyped DEF UpdateVoucher, Swaps, Required, InJournal
  <2>2. InJournal' = InJournal /\ UNCHANGED <<number, nextValue, family>>
    BY <1>4 DEF UpdateVoucher, InJournal
  <2>3. \A w \in Vouchers \ {v} : amount'[w] = amount[w] /\ period'[w] = period[w]
    BY <1>4 DEF UpdateVoucher, TypeOK
  <2>4. \A w \in InJournal : w \in Vouchers \ {v}
    BY <2>1 DEF InJournal
  <2> QED BY <2>2, <2>3, <2>4, JournalSame
<1>5. ASSUME NEW c \in Clients, SubmitVoucher(c) \/ \E m \in Members : ApproveVoucher(c, m)
      PROVE  [Contract!JournalNext]_Journal
  <2>1. InJournal' = InJournal
    BY <1>5, RequestTyped DEF SubmitVoucher, ApproveVoucher, Swaps, Required, InJournal, TypeOK
  <2> QED BY <1>5, <2>1, JournalSame DEF SubmitVoucher, ApproveVoucher
<1>6. ASSUME NEW c \in Clients, PostVoucher(c) PROVE [Contract!JournalNext]_Journal
  BY <1>6, PostRecords
<1>s. ASSUME UNCHANGED <<status, contentVars, number, nextValue>> PROVE [Contract!JournalNext]_Journal
  <2>1. InJournal' = InJournal
    BY <1>s DEF InJournal
  <2> QED BY <1>s, <2>1, JournalSame
<1>7. ASSUME NEW c \in Clients,
             \/ \E v \in Vouchers, op \in {"update", "submit", "approve", "post"} : Begin(c, op, v)
             \/ LockForPost(c) \/ Fail(c)
      PROVE  [Contract!JournalNext]_Journal
  BY <1>7, <1>s DEF Begin, LockForPost, Fail
<1>8. ASSUME NEW q \in Periods, NEW target \in {"open", "soft_closed", "locked"},
             TransitionPeriod(q, target)
      PROVE  [Contract!JournalNext]_Journal
  BY <1>8, <1>s DEF TransitionPeriod
<1>9. CASE UNCHANGED vars
  BY <1>9, <1>s DEF vars
<1> QED BY <1>2, <1>3, <1>4, <1>5, <1>6, <1>7, <1>8, <1>9 DEF Next

\* The books are an append-only journal per family (postVoucher with the swap on the
\* row version): no request, however stale, alters, renumbers or removes an entry.
THEOREM LedgerImplements == Spec => ImplementsJournal
<1>1. Init => Contract!JournalInit
  BY DEF Init, Journal, Contract!JournalInit
<1> QED BY <1>1, JournalStep, LedgerInductive, PTL DEF Spec, ImplementsJournal, Contract!JournalSpec
=============================================================================
