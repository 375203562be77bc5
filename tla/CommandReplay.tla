----------------------------- MODULE CommandReplay -----------------------------
(***************************************************************************)
(* Writes under an Idempotency-Key.  A client that got no answer sends its *)
(* request again under the same key; the server must do the write once and *)
(* give every copy of the request the same answer.  All services do it in  *)
(* one transaction with the write, in five ways:                           *)
(*   optimistic  look the key up, write, remember it, and look once more   *)
(*               if remembering collides (commercial, source to pay, India *)
(*               compliance, vendor access);                               *)
(*   plain       the same without the last look (the ledger);              *)
(*   recheck     look, lock the key, look again, write, remember (finance, *)
(*               valued inventory, MRP planning);                          *)
(*   locked      lock, look, write, remember (TDS, handoffs);              *)
(*   strict      the same without a look after a collision (plant,         *)
(*               supplier portal).                                         *)
(* The record of a key is unique, so an insert waits for another one that  *)
(* has not committed, and fails if it does.                                *)
(***************************************************************************)
EXTENDS Integers, FiniteSets

CONSTANTS Attempts,     \* requests that reach the server under one key
          PayloadOf,    \* what each asks for
          Nothing

VARIABLES protocol,   \* the way of the service that is called
          pc,         \* by attempt: how far its transaction is
          lock,       \* the attempt that holds the lock of the key
          inserted,   \* the attempt whose record of the key is inserted, not committed
          record,     \* the committed record: the payload, and whose answer it holds
          committed,  \* attempts whose write is committed
          answer      \* by attempt: whose answer it got, or the error

vars == <<protocol, pc, lock, inserted, record, committed, answer>>

Protocols == {"optimistic", "plain", "recheck", "locked", "strict"}
Steps == {"idle", "look", "lock", "again", "write", "remember", "commit", "failed", "over"}
Errors == {"idempotency_conflict", "refused", "unique"}

\* Answers are told apart: by whose they are, as errors, and from none.
Records == [payload : {PayloadOf[a] : a \in Attempts}, of : Attempts]
ReplayAssumption ==
    /\ Attempts \cap Errors = {}
    /\ Nothing \notin Attempts \cup Errors \cup Records

TypeOK ==
    /\ protocol \in Protocols
    /\ pc \in [Attempts -> Steps]
    /\ lock \in Attempts \cup {Nothing} /\ inserted \in Attempts \cup {Nothing}
    /\ record \in Records \cup {Nothing}
    /\ committed \subseteq Attempts
    /\ answer \in [Attempts -> Attempts \cup Errors \cup {Nothing}]

Init ==
    /\ protocol \in Protocols
    /\ pc = [a \in Attempts |-> "idle"] /\ answer = [a \in Attempts |-> Nothing]
    /\ lock = Nothing /\ inserted = Nothing /\ record = Nothing /\ committed = {}

Goes(a, step) == pc' = [pc EXCEPT ![a] = step]
Released(a) == IF lock = a THEN Nothing ELSE lock

\* A transaction that ends without commit takes its write and its record with it.
RollsBack(a) ==
    /\ lock' = Released(a)
    /\ inserted' = IF inserted = a THEN Nothing ELSE inserted
    /\ UNCHANGED <<protocol, record, committed>>

Answers(a, what) == Goes(a, "over") /\ answer' = [answer EXCEPT ![a] = what]

-----------------------------------------------------------------------------

Arrives(a) ==
    /\ pc[a] = "idle"
    /\ Goes(a, IF protocol \in {"locked", "strict"} THEN "lock" ELSE "look")
    /\ UNCHANGED <<protocol, lock, inserted, record, committed, answer>>

\* pg_advisory_xact_lock on the key.
Locks(a) ==
    /\ pc[a] = "lock" /\ lock = Nothing
    /\ lock' = a /\ Goes(a, "again")
    /\ UNCHANGED <<protocol, inserted, record, committed, answer>>

\* replay: the answer of the record, or a conflict if it is of another request.
Found(a) ==
    /\ record # Nothing
    /\ Answers(a, IF record.payload = PayloadOf[a] THEN record.of ELSE "idempotency_conflict")
    /\ RollsBack(a)
NotFound(a, next) ==
    /\ record = Nothing /\ Goes(a, next)
    /\ UNCHANGED <<protocol, lock, inserted, record, committed, answer>>

Looks(a) ==
    \/ pc[a] = "look"  /\ (Found(a) \/ NotFound(a, IF protocol = "recheck" THEN "lock" ELSE "write"))
    \/ pc[a] = "again" /\ (Found(a) \/ NotFound(a, "write"))

\* execute: refused by the service's own rules, or written.
Refuses(a) == pc[a] = "write" /\ Answers(a, "refused") /\ RollsBack(a)

\* Mutant: the write is made on a connection of its own.
WritesApart(a) == committed \cup {a}

\* The write is part of the transaction.
Written(a) == committed
Executes(a) ==
    /\ pc[a] = "write" /\ Goes(a, "remember")
    /\ committed' = Written(a)
    /\ UNCHANGED <<protocol, lock, inserted, record, answer>>

\* remember: the insert waits for another attempt's, and fails if there is a record.
Remembers(a) ==
    /\ pc[a] = "remember" /\ inserted = Nothing /\ record = Nothing
    /\ inserted' = a /\ Goes(a, "commit")
    /\ UNCHANGED <<protocol, lock, record, committed, answer>>
Collides(a) ==
    /\ pc[a] = "remember" /\ record # Nothing
    /\ IF protocol \in {"strict", "plain"} THEN Answers(a, "unique") ELSE Goes(a, "failed") /\ answer' = answer
    /\ RollsBack(a)

\* After a unique violation: a transaction of its own looks the key up once more.
LooksAgain(a) ==
    /\ pc[a] = "failed"
    /\ \/ Found(a)
       \/ record = Nothing /\ Answers(a, "unique") /\ RollsBack(a)

Commits(a) ==
    /\ pc[a] = "commit"
    /\ committed' = committed \cup {a}
    /\ record' = [payload |-> PayloadOf[a], of |-> a]
    /\ inserted' = Nothing /\ lock' = Released(a)
    /\ Answers(a, a)
    /\ UNCHANGED protocol

\* The server, or its connection, goes down: nothing of the transaction stays.
Crashes(a) ==
    /\ pc[a] \notin {"idle", "over"}
    /\ Goes(a, "over") /\ RollsBack(a) /\ UNCHANGED answer

Next ==
    \E a \in Attempts :
        \/ Arrives(a) \/ Locks(a) \/ Looks(a) \/ Refuses(a) \/ Executes(a) \/ Remembers(a)
        \/ Collides(a) \/ LooksAgain(a) \/ Commits(a) \/ Crashes(a)

Spec == Init /\ [][Next]_vars

-----------------------------------------------------------------------------
(* Properties.                                                             *)

\* Under one key there is one write, whatever overlaps, crashes or is sent again.
WrittenOnce == Cardinality(committed) <= 1

\* All who get an answer get that of the one write, and only requests that ask the same.
OneAnswer ==
    \A a \in Attempts : answer[a] \in Attempts =>
        /\ committed = {answer[a]}
        /\ PayloadOf[a] = PayloadOf[answer[a]]

\* A copy of a request is never answered with a collision, but by the ledger.
CopiesAnswered == protocol # "plain" => \A a \in Attempts : answer[a] # "unique"

\* The lock of the key keeps the writes apart.
OneAtATime ==
    protocol \notin {"optimistic", "plain"} =>
        Cardinality({a \in Attempts : pc[a] \in {"again", "write", "remember", "commit"}}) <= 1
===============================================================================
