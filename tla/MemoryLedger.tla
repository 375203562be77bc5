----------------------------- MODULE MemoryLedger -----------------------------
(***************************************************************************)
(* The process-local ledger (InMemoryMesaErpRepository) that router tests  *)
(* and development run on in place of the database.  Every write waits for *)
(* the one before it (writeTail) and is remembered under its scope and     *)
(* key; a write is synchronous, so between two of them nothing happens.    *)
(* Balanced lines are their amount; a reversal has the opposite one.       *)
(***************************************************************************)
EXTENDS Integers, Sequences, FiniteSets

CONSTANTS Vouchers, Members, Keys, Amounts,
          Nothing, MaxCommands, MaxQueue

VARIABLES voucher,     \* by voucher: its record, or not created
          sequence,    \* the last number given to a posted voucher
          remembered,  \* by scope and key: what was asked, and what was answered
          queue,       \* writes that wait for the one before them
          commands     \* how many were sent

vars == <<voucher, sequence, remembered, queue, commands>>

Lifecycle == {"draft", "submitted", "approved", "posted", "reversed"}

VoucherRows == [status : Lifecycle, version : Nat, amount : Int, by : Members,
                approved : Members \cup {Nothing}, number : Nat, reverses : Vouchers \cup {Nothing}]

MemoryAssumption ==
    /\ Amounts \subseteq Int /\ \A x \in Amounts : -x \in Amounts
    /\ MaxCommands \in Nat /\ MaxQueue \in Nat \ {0}
    /\ Nothing \notin Vouchers \cup Members \cup VoucherRows

TypeOK ==
    /\ \A v \in Vouchers : voucher[v] # Nothing =>
         /\ voucher[v].status \in Lifecycle /\ voucher[v].version \in Nat
         /\ voucher[v].amount \in Amounts /\ voucher[v].by \in Members
         /\ voucher[v].number \in 0 .. sequence
    /\ Len(queue) <= MaxQueue /\ commands \in 0 .. MaxCommands

Draft(x, by, reverses) ==
    [status |-> "draft", version |-> 0, amount |-> x, by |-> by, approved |-> Nothing,
     number |-> 0, reverses |-> reverses]

Remember(op, v, key, asks, by, changed) ==
    [op |-> op, voucher |-> v, key |-> key, asks |-> asks, by |-> by, changed |-> changed]

\* An empty ledger, or one in which one voucher has been taken to its posting.
PostedBefore(v, x, key, maker, checker) ==
    /\ voucher = [w \in Vouchers |->
                    IF w # v THEN Nothing
                    ELSE [Draft(x, maker, Nothing) EXCEPT !.status = "posted", !.version = 3,
                                                          !.approved = checker, !.number = 1]]
    /\ sequence = 1
    /\ remembered = {Remember("create", Nothing, key, x, maker, TRUE), Remember("submit", v, key, 0, maker, TRUE),
                     Remember("approve", v, key, 1, checker, TRUE), Remember("post", v, key, 2, checker, TRUE)}

Init ==
    /\ queue = <<>> /\ commands = 0
    /\ \/ voucher = [v \in Vouchers |-> Nothing] /\ sequence = 0 /\ remembered = {}
       \/ \E v \in Vouchers, x \in Amounts, key \in Keys, maker, checker \in Members :
            maker # checker /\ PostedBefore(v, x, key, maker, checker)

-----------------------------------------------------------------------------
(* Requests: the service turns one into a command, whose scope is the      *)
(* operation and the voucher, and whose hash is what it asks (not who).    *)

Command(op, v, key, asks, by) == [op |-> op, voucher |-> v, key |-> key, asks |-> asks, by |-> by]

Sends(command) ==
    /\ commands < MaxCommands /\ Len(queue) < MaxQueue
    /\ queue' = Append(queue, command) /\ commands' = commands + 1
    /\ UNCHANGED <<voucher, sequence, remembered>>

\* The version a client asks with is one it was shown.
Send ==
    \E key \in Keys, by \in Members :
        \/ \E x \in Amounts : Sends(Command("create", Nothing, key, x, by))
        \/ \E v \in {w \in Vouchers : voucher[w] # Nothing} :
             \/ \E op \in {"submit", "approve", "post", "reverse"} :
                  Sends(Command(op, v, key, voucher[v].version, by))
             \/ \E x \in Amounts : Sends(Command("update", v, key, <<voucher[v].version, x>>, by))

-----------------------------------------------------------------------------
(* The head of the queue is carried out.                                   *)

Head_ == queue[1]
SameScope(m, c) == m.op = c.op /\ m.voucher = c.voucher /\ m.key = c.key

\* idempotent: a command under a known key is answered from memory, or is a conflict.
Known(c) == {m \in remembered : SameScope(m, c)}
Replay ==
    /\ queue # <<>> /\ Known(Head_) # {}
    /\ queue' = Tail(queue)
    /\ UNCHANGED <<voucher, sequence, remembered, commands>>

\* A rule of the operation refuses it: nothing is remembered.
Current(c, statuses) ==
    /\ voucher[c.voucher].status \in statuses
    /\ voucher[c.voucher].version = (IF c.op = "update" THEN c.asks[1] ELSE c.asks)
Reversals(v) == {r \in Vouchers : voucher[r] # Nothing /\ voucher[r].reverses = v}
Free == {v \in Vouchers : voucher[v] = Nothing}
Original(v) == voucher[v].reverses

MayPost(c) ==
    /\ Current(c, {"approved"})
    /\ Original(c.voucher) # Nothing => voucher[Original(c.voucher)].status = "posted"

Allowed(c) ==
    CASE c.op = "create"  -> TRUE
      [] c.op = "update"  -> Current(c, {"draft"})
      [] c.op = "submit"  -> Current(c, {"draft"})
      [] c.op = "approve" -> Current(c, {"submitted"}) /\ voucher[c.voucher].by # c.by
      [] c.op = "post"    -> voucher[c.voucher].status = "posted" \/ MayPost(c)
      [] c.op = "reverse" -> Current(c, {"posted"}) /\ Reversals(c.voucher) = {}

Refuse ==
    /\ queue # <<>> /\ Known(Head_) = {} /\ ~Allowed(Head_)
    /\ queue' = Tail(queue)
    /\ UNCHANGED <<voucher, sequence, remembered, commands>>

\* A post of what is posted already answers with its journal and changes nothing.
Changes(c) == ~(c.op = "post" /\ voucher[c.voucher].status = "posted")

Moved(v, status) == [voucher[v] EXCEPT !.status = status, !.version = @ + 1]

Effect(c) ==
    CASE c.op = "create" ->
           \E v \in Free : voucher' = [voucher EXCEPT ![v] = Draft(c.asks, c.by, Nothing)]
      [] c.op = "update" ->
           voucher' = [voucher EXCEPT ![c.voucher].amount = c.asks[2], ![c.voucher].version = @ + 1]
      [] c.op = "submit" -> voucher' = [voucher EXCEPT ![c.voucher] = Moved(c.voucher, "submitted")]
      [] c.op = "approve" ->
           voucher' = [voucher EXCEPT ![c.voucher] = [Moved(c.voucher, "approved") EXCEPT !.approved = c.by]]
      [] c.op = "post" ->
           voucher' = [v \in Vouchers |->
                         IF v = c.voucher THEN [Moved(v, "posted") EXCEPT !.number = sequence + 1]
                         ELSE IF v = Original(c.voucher) THEN Moved(v, "reversed") ELSE voucher[v]]
      [] c.op = "reverse" ->
           \E r \in Free : voucher' = [voucher EXCEPT ![r] = Draft(-voucher[c.voucher].amount, c.by, c.voucher)]

CarryOut ==
    /\ queue # <<>> /\ Known(Head_) = {} /\ Allowed(Head_)
    /\ \/ Changes(Head_) /\ Effect(Head_)
       \/ ~Changes(Head_) /\ voucher' = voucher
    /\ sequence' = IF Head_.op = "post" /\ Changes(Head_) THEN sequence + 1 ELSE sequence
    /\ remembered' = remembered \cup
         {Remember(Head_.op, Head_.voucher, Head_.key, Head_.asks, Head_.by, Changes(Head_))}
    /\ queue' = Tail(queue) /\ UNCHANGED commands

Next == Send \/ Replay \/ Refuse \/ CarryOut

Spec == Init /\ [][Next]_vars

-----------------------------------------------------------------------------
(* Properties.                                                             *)

Created == {v \in Vouchers : voucher[v] # Nothing}
InJournal == {v \in Created : voucher[v].status \in {"posted", "reversed"}}

\* Under one key one voucher is created, and a voucher moves once for each key that moved it.
OncePerKey ==
    /\ Cardinality({v \in Created : voucher[v].reverses = Nothing})
         = Cardinality({<<m.op, m.key>> : m \in {n \in remembered : n.op = "create"}})
    /\ \A v \in Created :
         voucher[v].version =
            Cardinality({m \in remembered : m.voucher = v /\ m.op # "reverse" /\ m.changed})
            + (IF voucher[v].status = "reversed" THEN 1 ELSE 0)

\* Posted vouchers are numbered without a gap, each once, as in the database.
NumbersGapless ==
    /\ {voucher[v].number : v \in InJournal} = 1 .. sequence
    /\ Cardinality(InJournal) = sequence

\* A voucher is reversed exactly when its one reversal is in the journal.
ReversedOnce ==
    \A v \in Created :
        /\ voucher[v].status = "reversed" <=> Reversals(v) \cap InJournal # {}
        /\ Cardinality(Reversals(v)) <= 1

\* Nobody approves what the same member made.
TwoMembers == \A v \in Created : voucher[v].approved # Nothing => voucher[v].approved # voucher[v].by
===============================================================================
