---------------------------- MODULE VoucherLedger ----------------------------
(***************************************************************************)
(* The legal ledger of a MesaERP company and financial year: vouchers go   *)
(* draft -> submitted -> approved -> posted -> reversed                    *)
(* (mesaerp/prismaRepository.ts), accounting periods open and close        *)
(* (mesaerp/financeControlService.ts, transitionPeriod), posting gives a   *)
(* voucher the next number of its family.                                  *)
(*                                                                         *)
(* A request reads the voucher first and compares its row version when it  *)
(* writes.  Requests of several clients overlap; posting and period        *)
(* transitions take the lock of the period row.  The balanced lines of a   *)
(* voucher are their signed effect on the books; swapping debit and credit *)
(* changes the sign.  Stock and asset postings made in the transaction of  *)
(* a post can only refuse it here.                                         *)
(***************************************************************************)
EXTENDS Integers, FiniteSets, FiniteSetsExt, TLC

CONSTANTS Vouchers, Clients, Members, Periods,
          Families,      \* voucher types, each with a number series
          Amounts,       \* what a maker may enter on either side of the books
          MaxEdits,      \* bound: edits of drafts in all
          None           \* no voucher

ASSUME LedgerAssumption ==
    /\ None \notin Vouchers
    /\ Amounts \subseteq Nat \ {0} /\ Amounts # {}
    /\ MaxEdits \in Nat

VARIABLES status,      \* status[v]; "absent" before the insert
          version,     \* version[v]: rowVersion
          family,      \* family[v]: voucherType
          amount,      \* amount[v]: effect of the lines
          period,      \* period[v]: accounting period of the business date
          maker,       \* maker[v]: createdBy
          number,      \* number[v]: position in the series, 0 for a draft number
          reversalOf,  \* reversalOf[v]: voucher that v reverses, or None
          nextValue,   \* nextValue[f]: ErpNumberSeries
          periodStatus,\* periodStatus[q]
          request      \* request[c]: request in flight

contentVars == <<family, amount, period, maker, reversalOf>>
vars == <<status, version, contentVars, number, nextValue, periodStatus, request>>

\* The signed effects of lines of an amount.
Effects == Amounts \cup {-a : a \in Amounts}

Idle == [op |-> "idle"]
Lifecycle == {"absent", "draft", "submitted", "approved", "posted", "reversed"}
InJournal == {v \in Vouchers : status[v] \in {"posted", "reversed"}}

Requests ==
    {Idle} \cup
    [op : {"update", "submit", "approve", "post"}, voucher : Vouchers, version : Nat, locked : BOOLEAN]

TypeOK ==
    /\ status \in [Vouchers -> Lifecycle]
    /\ version \in [Vouchers -> Nat]
    /\ family \in [Vouchers -> Families]
    /\ amount \in [Vouchers -> Effects]
    /\ period \in [Vouchers -> Periods]
    /\ maker \in [Vouchers -> Members]
    /\ number \in [Vouchers -> Nat]
    /\ reversalOf \in [Vouchers -> Vouchers \cup {None}]
    /\ nextValue \in [Families -> Nat \ {0}]
    /\ periodStatus \in [Periods -> {"open", "soft_closed", "locked"}]
    /\ request \in [Clients -> Requests]

Init ==
    /\ status = [v \in Vouchers |-> "absent"]
    /\ version = [v \in Vouchers |-> 0]
    /\ family \in {[v \in Vouchers |-> f] : f \in Families}
    /\ amount = [v \in Vouchers |-> CHOOSE a \in Effects : TRUE]
    /\ period \in {[v \in Vouchers |-> q] : q \in Periods}
    /\ maker \in {[v \in Vouchers |-> m] : m \in Members}
    /\ number = [v \in Vouchers |-> 0]
    /\ reversalOf = [v \in Vouchers |-> None]
    /\ nextValue = [f \in Families |-> 1]
    /\ periodStatus = [q \in Periods |-> "open"]
    /\ request = [c \in Clients |-> Idle]

-----------------------------------------------------------------------------
(* Locks held by posts in flight.                                          *)

Posting == {c \in Clients : request[c].op = "post" /\ request[c].locked}

\* Mutant of PeriodLockFree: posts and period transitions do not exclude each other.
PeriodLockIgnored(q) == TRUE

PeriodLockFree(q) == \A c \in Posting : period[request[c].voucher] # q
SeriesLockFree(f) == \A c \in Posting : family[request[c].voucher] # f
RowLockFree(v) == \A c \in Posting : reversalOf[request[c].voucher] # v

Done(c) == request' = [request EXCEPT ![c] = Idle]

-----------------------------------------------------------------------------
(* Drafts.                                                                 *)

\* Inserts a voucher with the given content; idempotent replays insert nothing.
InsertDraft(v, f, a, q, m, original) ==
    /\ status[v] = "absent"
    /\ periodStatus[q] = "open"
    /\ status' = [status EXCEPT ![v] = "draft"]
    /\ family' = [family EXCEPT ![v] = f]
    /\ amount' = [amount EXCEPT ![v] = a]
    /\ period' = [period EXCEPT ![v] = q]
    /\ maker' = [maker EXCEPT ![v] = m]
    /\ reversalOf' = [reversalOf EXCEPT ![v] = original]
    /\ UNCHANGED <<version, number, nextValue, periodStatus, request>>

CreateVoucher(v, f, a, q, m) == InsertDraft(v, f, a, q, m, None)

\* Mutants of CreateVoucherReversal: both sides of a line swapped into one; a second
\* reversal is not refused.
CreateVoucherReversalHalf(v, original, q, m) ==
    /\ status[original] = "posted"
    /\ InsertDraft(v, family[original], 0, q, m, original)
CreateVoucherReversalAgain(v, original, q, m) ==
    /\ RowLockFree(original) /\ status[original] = "posted"
    /\ InsertDraft(v, family[original], -amount[original], q, m, original)

\* Under the row lock of the original: posted, and never reversed before.
CreateVoucherReversal(v, original, q, m) ==
    /\ RowLockFree(original)
    /\ status[original] = "posted"
    /\ \A r \in Vouchers : status[r] # "absent" => reversalOf[r] # original
    /\ InsertDraft(v, family[original], -amount[original], q, m, original)

-----------------------------------------------------------------------------
(* Lifecycle requests: read, then compare-and-swap on status and version.  *)

Required(op) == CASE op = "update"  -> "draft"
                  [] op = "submit"  -> "draft"
                  [] op = "approve" -> "submitted"
                  [] op = "post"    -> "approved"

\* Every step of the lifecycle and every edit raises the row version by one.
Steps(state) == CASE state \in {"absent", "draft"} -> 0 [] state = "submitted" -> 1
                  [] state = "approved" -> 2 [] state = "posted" -> 3 [] state = "reversed" -> 4
Edits == MapThenSumSet(LAMBDA v : version[v] - Steps(status[v]), Vouchers)

Begin(c, op, v) ==
    /\ request[c] = Idle
    /\ status[v] = Required(op)
    /\ request' = [request EXCEPT ![c] =
                     [op |-> op, voucher |-> v, version |-> version[v], locked |-> FALSE]]
    /\ UNCHANGED <<status, version, contentVars, number, nextValue, periodStatus>>

\* Mutant of Swaps: UPDATE by id alone.
SwapsBlindly(c, op) == request[c].op = op

\* UPDATE ... WHERE rowVersion = expected AND status = required; no row: rollback.
Swaps(c, op) ==
    /\ request[c].op = op
    /\ LET v == request[c].voucher IN
         status[v] = Required(op) /\ version[v] = request[c].version

UpdateVoucher(c, a, q) ==
    LET v == request[c].voucher IN
    /\ Swaps(c, "update")
    /\ Edits < MaxEdits
    /\ periodStatus[q] = "open"
    /\ amount' = [amount EXCEPT ![v] = a]
    /\ period' = [period EXCEPT ![v] = q]
    /\ version' = [version EXCEPT ![v] = @ + 1]
    /\ Done(c)
    /\ UNCHANGED <<status, family, maker, reversalOf, number, nextValue, periodStatus>>

SubmitVoucher(c) ==
    LET v == request[c].voucher IN
    /\ Swaps(c, "submit")
    /\ status' = [status EXCEPT ![v] = "submitted"]
    /\ version' = [version EXCEPT ![v] = @ + 1]
    /\ Done(c)
    /\ UNCHANGED <<contentVars, number, nextValue, periodStatus>>

ApproveVoucher(c, m) ==
    LET v == request[c].voucher IN
    /\ Swaps(c, "approve")
    /\ maker[v] # m
    /\ status' = [status EXCEPT ![v] = "approved"]
    /\ version' = [version EXCEPT ![v] = @ + 1]
    /\ Done(c)
    /\ UNCHANGED <<contentVars, number, nextValue, periodStatus>>

\* Locks the period row and rereads its status, locks the original of a reversal
\* and rereads it, locks the row of the number series.
LockForPost(c) ==
    LET v == request[c].voucher IN
    /\ request[c].op = "post" /\ ~request[c].locked
    /\ PeriodLockFree(period[v])
    /\ periodStatus[period[v]] = "open"
    /\ reversalOf[v] # None => RowLockFree(reversalOf[v]) /\ status[reversalOf[v]] = "posted"
    /\ SeriesLockFree(family[v])
    /\ request' = [request EXCEPT ![c].locked = TRUE]
    /\ UNCHANGED <<status, version, contentVars, number, nextValue, periodStatus>>

\* The number allocated since then is committed with the status, and a reversal
\* marks its original.
PostVoucher(c) ==
    LET v == request[c].voucher  o == reversalOf[v]  f == family[v] IN
    /\ Swaps(c, "post")
    /\ request[c].locked
    /\ number' = [number EXCEPT ![v] = nextValue[f]]
    /\ nextValue' = [nextValue EXCEPT ![f] = @ + 1]
    /\ status' = [x \in Vouchers |-> IF x = v THEN "posted" ELSE IF x = o THEN "reversed" ELSE status[x]]
    /\ version' = [x \in Vouchers |-> IF x \in {v, o} THEN version[x] + 1 ELSE version[x]]
    /\ Done(c)
    /\ UNCHANGED <<contentVars, periodStatus>>

\* Mutant of Fail: the number is allocated in a transaction of its own.
FailKeepsNumber(c) ==
    /\ request[c] # Idle
    /\ nextValue' = IF request[c].op = "post" /\ request[c].locked
                       THEN [nextValue EXCEPT ![family[request[c].voucher]] = @ + 1] ELSE nextValue
    /\ Done(c)
    /\ UNCHANGED <<status, version, contentVars, number, periodStatus>>

\* A lost swap, a refused stock or asset posting, a crash: everything rolls back,
\* the number with it.
Fail(c) ==
    /\ request[c] # Idle
    /\ Done(c)
    /\ UNCHANGED <<status, version, contentVars, number, nextValue, periodStatus>>

-----------------------------------------------------------------------------
(* Periods.                                                                *)

PeriodMove == {<<"open", "soft_closed">>, <<"soft_closed", "locked">>,
               <<"soft_closed", "open">>, <<"locked", "open">>}

TransitionPeriod(q, target) ==
    /\ PeriodLockFree(q)
    /\ <<periodStatus[q], target>> \in PeriodMove
    /\ periodStatus' = [periodStatus EXCEPT ![q] = target]
    /\ UNCHANGED <<status, version, contentVars, number, nextValue, request>>

Next ==
    \/ \E v \in Vouchers, q \in Periods, m \in Members :
         \/ \E f \in Families, a \in Effects : CreateVoucher(v, f, a, q, m)
         \/ \E o \in Vouchers : CreateVoucherReversal(v, o, q, m)
    \/ \E c \in Clients :
         \/ \E v \in Vouchers, op \in {"update", "submit", "approve", "post"} : Begin(c, op, v)
         \/ \E a \in Effects, q \in Periods : UpdateVoucher(c, a, q)
         \/ \E m \in Members : ApproveVoucher(c, m)
         \/ SubmitVoucher(c) \/ LockForPost(c) \/ PostVoucher(c) \/ Fail(c)
    \/ \E q \in Periods, target \in {"open", "soft_closed", "locked"} : TransitionPeriod(q, target)

Spec == Init /\ [][Next]_vars

-----------------------------------------------------------------------------
(* Properties.                                                             *)

\* Nothing is posted into a period that has been closed, even when the close
\* arrives while the post is in flight.
PostedInOpenPeriod ==
    [][\A v \in Vouchers :
         (v \notin InJournal /\ status'[v] = "posted") => periodStatus[period[v]] = "open"]_vars

\* Voucher numbers of a family run from 1 without gap or duplicate, whichever
\* posts failed in between, and only posted vouchers have one.
GaplessNumbers ==
    /\ \A v \in Vouchers : v \in InJournal <=> number[v] # 0
    /\ \A v \in InJournal : number[v] < nextValue[family[v]]
    /\ \A v, w \in InJournal : (v # w /\ family[v] = family[w]) => number[v] # number[w]
    /\ \A f \in Families : \A n \in 1..nextValue[f] - 1 :
         \E v \in InJournal : family[v] = f /\ number[v] = n

\* A voucher reads reversed exactly when a reversal of it was posted, and it never
\* has more than one.
ReversedOnce ==
    /\ \A v \in Vouchers : status[v] = "reversed" <=>
         \E r \in InJournal : reversalOf[r] = v
    /\ \A r, s \in {x \in Vouchers : status[x] # "absent"} :
         (reversalOf[r] # None /\ reversalOf[r] = reversalOf[s]) => r = s

\* The books are an append-only journal per family: entries are never altered,
\* renumbered or taken out.  A journal entry is the set of what bears its number.
Entry(v) == [voucher |-> v, amount |-> amount[v], period |-> period[v]]
Numbered(f, n) == {v \in InJournal : family[v] = f /\ number[v] = n}
Journal == [f \in Families |-> [n \in 1..nextValue[f] - 1 |-> {Entry(v) : v \in Numbered(f, n)}]]
Contract == INSTANCE Contracts
              WITH journal <- Journal,
                   Entries <- {{e} : e \in [voucher : Vouchers, amount : Effects, period : Periods]},
                   Events <- {}, stage <- <<>>
ImplementsJournal == Contract!JournalSpec

-----------------------------------------------------------------------------
\* What TLC may exchange.
LedgerSymmetry == Permutations(Clients) \cup Permutations(Vouchers) \cup Permutations(Members)
                    \cup Permutations(Periods)
=============================================================================
