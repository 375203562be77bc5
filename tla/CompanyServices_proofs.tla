----------------------- MODULE CompanyServices_proofs -----------------------
(***************************************************************************)
(* Proofs about the services that keep a company's books, for every value  *)
(* of their constants: the replay of requests under a key (CommandReplay), *)
(* bank statements (BankReconciliation), the process-local ledger          *)
(* (MemoryLedger), the access to a company (CompanyAccess), assets         *)
(* (FixedAssets), reports (FinanceReports) and the lists the browser keeps *)
(* (CompanyScreens).  Each service has an inductive invariant and theorems *)
(* of its own specification; at the end they and those of MaterialServices *)
(* give what the run of MC_CompanyServices checks.                         *)
(***************************************************************************)
EXTENDS MC_CompanyServices, TLAPS

\* The operators on finite sets that come with an instance are those of this module.
LEMMA KeyedCardinality == ASSUME NEW S PROVE Keyed!Cardinality(S) = Cardinality(S)
  BY Zenon DEF Keyed!Cardinality, Cardinality, Keyed!IsFiniteSet, IsFiniteSet
LEMMA LocalCardinality == ASSUME NEW S PROVE Local!Cardinality(S) = Cardinality(S)
  BY Zenon DEF Local!Cardinality, Cardinality, Local!IsFiniteSet, IsFiniteSet

-----------------------------------------------------------------------------
(* CommandReplay.                                                          *)

Locking == protocol \notin {"optimistic", "plain"}
Holding == {"again", "write", "remember", "commit"}

\* What stands is the one write and its record; before it at most one attempt has its record
\* inserted, and where there is a lock, only its holder works and finds no record after its look.
ReplayInv ==
    /\ Keyed!TypeOK
    /\ record = Nothing => committed = {}
    /\ record # Nothing => committed = {record.of} /\ record.payload = PayloadOf[record.of]
    /\ \A a \in Attempts : pc[a] = "commit" <=> inserted = a
    /\ inserted # Nothing => record = Nothing
    /\ Locking => \A a \in Attempts : pc[a] \in Holding <=> lock = a
    /\ Locking => \A a \in Attempts : pc[a] \in {"write", "remember"} => record = Nothing
    /\ ~Locking => \A a \in Attempts : pc[a] \notin {"lock", "again"}
    /\ protocol \in {"locked", "strict"} => \A a \in Attempts : pc[a] # "look"
    /\ \A a \in Attempts : pc[a] = "failed" => record # Nothing
    /\ \A a \in Attempts : answer[a] \in Attempts =>
         record # Nothing /\ answer[a] = record.of /\ PayloadOf[a] = record.payload
    /\ protocol # "plain" => \A a \in Attempts : answer[a] # "unique"

\* ReplayInv holds before anything was asked.
LEMMA InitReplay == Keyed!ReplayAssumption /\ Keyed!Init => ReplayInv
  BY DEF Keyed!ReplayAssumption, Keyed!Init, ReplayInv, Keyed!TypeOK, Keyed!Protocols, Keyed!Steps,
         Keyed!Errors, Holding, Locking

\* A transaction that rolls back leaves no trace of its request.
LEMMA ReplayRollsBack ==
    ASSUME Keyed!ReplayAssumption, ReplayInv, NEW a \in Attempts, NEW w \in Attempts \cup Keyed!Errors,
           Keyed!Answers(a, w), Keyed!RollsBack(a),
           w \in Attempts => record # Nothing /\ w = record.of /\ PayloadOf[a] = record.payload,
           w = "unique" => protocol = "plain"
    PROVE  ReplayInv'
  BY DEF Keyed!ReplayAssumption, ReplayInv, Keyed!TypeOK, Keyed!Steps, Keyed!Errors, Holding, Locking,
         Keyed!Answers, Keyed!Goes, Keyed!RollsBack, Keyed!Released

\* ReplayInv is inductive.
LEMMA NextReplay == Keyed!ReplayAssumption /\ ReplayInv /\ [Keyed!Next]_keyedVars => ReplayInv'
<1> SUFFICES ASSUME Keyed!ReplayAssumption, ReplayInv, [Keyed!Next]_keyedVars PROVE ReplayInv'
  OBVIOUS
<1> USE DEF Keyed!ReplayAssumption
<1>1. ASSUME NEW a \in Attempts, Keyed!Arrives(a) PROVE ReplayInv'
  BY <1>1 DEF Keyed!Arrives, ReplayInv, Keyed!TypeOK, Keyed!Steps, Holding, Locking, Keyed!Goes
<1>2. ASSUME NEW a \in Attempts, Keyed!Locks(a) PROVE ReplayInv'
  BY <1>2 DEF Keyed!Locks, ReplayInv, Keyed!TypeOK, Keyed!Steps, Holding, Locking, Keyed!Goes
<1>3. ASSUME NEW a \in Attempts, Keyed!Found(a) PROVE ReplayInv'
  <2>1. record \in Keyed!Records
    BY <1>3 DEF Keyed!Found, ReplayInv, Keyed!TypeOK
  <2> QED BY <1>3, <2>1, ReplayRollsBack DEF Keyed!Found, Keyed!Records, Keyed!Errors
<1>4. ASSUME NEW a \in Attempts, Keyed!Looks(a) PROVE ReplayInv'
  <2>1. ASSUME NEW next \in {"lock", "write"}, Keyed!NotFound(a, next), pc[a] \in {"look", "again"},
               next = "lock" => Locking,
               pc[a] = "look" /\ Locking => next = "lock",
               pc[a] = "again" => next = "write"
        PROVE  ReplayInv'
    BY <2>1 DEF Keyed!NotFound, ReplayInv, Keyed!TypeOK, Keyed!Steps, Holding, Locking, Keyed!Goes
  <2>2. pc[a] = "look" => protocol \in {"optimistic", "plain", "recheck"}
    BY DEF ReplayInv, Keyed!TypeOK, Keyed!Protocols
  <2> QED BY <1>3, <1>4, <2>1, <2>2 DEF Keyed!Looks, Locking
<1>5. ASSUME NEW a \in Attempts, Keyed!Refuses(a) PROVE ReplayInv'
  BY <1>5, ReplayRollsBack DEF Keyed!Refuses, Keyed!Errors
<1>6. ASSUME NEW a \in Attempts, Keyed!Executes(a) PROVE ReplayInv'
  BY <1>6 DEF Keyed!Executes, Keyed!Written, ReplayInv, Keyed!TypeOK, Keyed!Steps, Holding, Locking, Keyed!Goes
<1>7. ASSUME NEW a \in Attempts, Keyed!Remembers(a) PROVE ReplayInv'
  BY <1>7 DEF Keyed!Remembers, ReplayInv, Keyed!TypeOK, Keyed!Steps, Holding, Locking, Keyed!Goes
<1>8. ASSUME NEW a \in Attempts, Keyed!Collides(a) PROVE ReplayInv'
  <2>1. CASE protocol = "plain"
    BY <1>8, <2>1, ReplayRollsBack DEF Keyed!Collides, Keyed!Errors
  <2>2. CASE protocol # "plain"
    BY <1>8, <2>2 DEF Keyed!Collides, ReplayInv, Keyed!TypeOK, Keyed!Steps, Holding, Locking,
                      Keyed!Goes, Keyed!RollsBack, Keyed!Released
  <2> QED BY <2>1, <2>2
<1>9. ASSUME NEW a \in Attempts, Keyed!LooksAgain(a) PROVE ReplayInv'
  BY <1>3, <1>9 DEF Keyed!LooksAgain, ReplayInv
<1>10. ASSUME NEW a \in Attempts, Keyed!Commits(a) PROVE ReplayInv'
  <2>1. record = Nothing /\ committed = {} /\ inserted = a
    BY <1>10 DEF Keyed!Commits, ReplayInv
  <2>2. record' \in Keyed!Records /\ record'.of = a /\ record'.payload = PayloadOf[a]
    BY <1>10 DEF Keyed!Commits, Keyed!Records
  <2> QED BY <1>10, <2>1, <2>2 DEF Keyed!Commits, ReplayInv, Keyed!TypeOK, Keyed!Steps, Keyed!Errors, Holding,
                   Locking, Keyed!Answers, Keyed!Goes, Keyed!Released
<1>11. ASSUME NEW a \in Attempts, Keyed!Crashes(a) PROVE ReplayInv'
  BY <1>11 DEF Keyed!Crashes, ReplayInv, Keyed!TypeOK, Keyed!Steps, Holding, Locking,
               Keyed!Goes, Keyed!RollsBack, Keyed!Released
<1>12. CASE UNCHANGED keyedVars
  BY <1>12 DEF keyedVars, ReplayInv, Keyed!TypeOK, Holding, Locking
<1> QED BY <1>1, <1>2, <1>4, <1>5, <1>6, <1>7, <1>8, <1>9, <1>10, <1>11, <1>12 DEF Keyed!Next

\* Under one Idempotency-Key there is one write, whatever overlaps, crashes or is sent again;
\* all who get an answer get that of this write, only requests that ask the same, and a copy
\* is told of a collision by the ledger alone; where the key is locked, one attempt works at a
\* time (the five ways of the services to remember a command).
THEOREM KeysReplayed ==
    Keyed!Spec => [](Keyed!WrittenOnce /\ Keyed!OneAnswer /\ Keyed!CopiesAnswered /\ Keyed!OneAtATime)
<1>1. Keyed!Init => ReplayInv
  BY InitReplay, CompanyAssumption
<1>2. ReplayInv /\ [Keyed!Next]_(Keyed!vars) => ReplayInv'
  BY NextReplay, CompanyAssumption DEF Keyed!vars, keyedVars
<1>3. ReplayInv => Keyed!WrittenOnce
  <2> SUFFICES ASSUME ReplayInv PROVE Keyed!WrittenOnce
    OBVIOUS
  <2>1. \A a, b \in committed : a = b
    BY DEF ReplayInv
  <2>2. Cardinality(committed) <= 1
    BY <2>1, AtMostOne
  <2> QED BY <2>2, KeyedCardinality DEF Keyed!WrittenOnce
<1>4. ReplayInv => Keyed!OneAnswer
  BY CompanyAssumption DEF ReplayInv, Keyed!OneAnswer, Keyed!TypeOK, Keyed!Records, Keyed!ReplayAssumption
<1>5. ReplayInv => Keyed!CopiesAnswered
  BY DEF ReplayInv, Keyed!CopiesAnswered
<1>6. ReplayInv => Keyed!OneAtATime
  <2> SUFFICES ASSUME ReplayInv PROVE Keyed!OneAtATime
    OBVIOUS
  <2> DEFINE holders == {a \in Attempts : pc[a] \in {"again", "write", "remember", "commit"}}
  <2>1. Locking => \A a, b \in holders : a = b
    BY DEF ReplayInv, Holding
  <2>2. Locking => Cardinality(holders) <= 1
    <3> HIDE DEF holders
    <3>1. ASSUME Locking PROVE Cardinality(holders) <= 1
      BY <2>1, <3>1, AtMostOne
    <3> QED BY <3>1
  <2>3. Keyed!Cardinality(holders) = Cardinality(holders)
    BY KeyedCardinality
  <2> QED BY <2>2, <2>3 DEF Keyed!OneAtATime, Locking
<1> QED BY <1>1, <1>2, <1>3, <1>4, <1>5, <1>6, PTL DEF Keyed!Spec
-----------------------------------------------------------------------------
(* BankReconciliation.                                                     *)

BankTyped ==
    /\ statement \in [Statements -> Bank!Statement \cup {Nothing}]
    /\ matching \in [Members -> [statement : Statements, line : Lines, with : VoucherLines] \cup {Nothing}]
    /\ completing \in [Members -> [statement : Statements, version : Nat] \cup {Nothing}]
    /\ raced \in BOOLEAN

\* A match in flight holds its statement, in progress; a completion in flight whose statement
\* has not moved saw what it needs; without a race no other statement has what is being matched.
MatchesHold == \A m \in Members : matching[m] # Nothing =>
    /\ matching[m].statement \in Bank!Imported
    /\ statement[matching[m].statement].status = "in_progress"
    /\ statement[matching[m].statement].version < MaxVersion
    /\ ~raced => ~Bank!UsedElsewhere(matching[m].with, matching[m].statement)
MatchesApart == \A m, n \in Members :
    (/\ matching[m] # Nothing /\ matching[n] # Nothing
     /\ matching[m].statement = matching[n].statement \/ ~raced) => m = n
CompletionsSaw == \A m \in Members : completing[m] # Nothing =>
    /\ completing[m].statement \in Bank!Imported
    /\ completing[m].version <= statement[completing[m].statement].version
    /\ Bank!Unmoved(m) => Bank!Unresolved(completing[m].statement) = {}
BankInv ==
    /\ BankTyped /\ MatchesHold /\ MatchesApart /\ CompletionsSaw
    /\ Bank!CompletedResolved
    /\ Bank!OneStatementUnlessRaced

\* BankInv holds before any statement was imported.
LEMMA InitBank == Bank!Init => BankInv
  BY DEF Bank!Init, BankInv, MatchesHold, MatchesApart, CompletionsSaw, BankTyped, Bank!Imported, Bank!CompletedResolved, Bank!OneStatementUnlessRaced

\* A line gets a mark, or a voucher line that no other statement has, and the version moves.
LEMMA BankRematched ==
    ASSUME Bank!BankAssumption, BankInv, NEW s \in Bank!Imported, NEW l \in Lines,
           NEW to \in VoucherLines \cup {"unmatched", "ignored"},
           statement[s].status = "in_progress", statement[s].version < MaxVersion,
           statement' = Bank!Rematched(s, l, to)
    PROVE  /\ statement' \in [Statements -> Bank!Statement \cup {Nothing}]
           /\ Bank!Imported' = Bank!Imported
           /\ \A o \in Bank!Imported : statement'[o].status = statement[o].status
           /\ \A o \in Bank!Imported \ {s} : statement'[o] = statement[o]
           /\ statement'[s].version = statement[s].version + 1
           /\ statement'[s].match = [statement[s].match EXCEPT ![l] = to]
<1>1. statement[s] \in Bank!Statement /\ s \in Statements
  BY DEF BankInv, BankTyped, Bank!Imported
<1> DEFINE new == [statement[s] EXCEPT !.match[l] = to, !.version = @ + 1]
<1>2. /\ new \in Bank!Statement /\ new.status = statement[s].status
      /\ new.version = statement[s].version + 1 /\ new.match = [statement[s].match EXCEPT ![l] = to]
  <2> DEFINE old == statement[s]
  <2>1. old = [status |-> old.status, maker |-> old.maker, version |-> old.version, match |-> old.match]
    BY <1>1 DEF Bank!Statement
  <2> HIDE DEF old
  <2>2. new = [old EXCEPT !.match = [old.match EXCEPT ![l] = to], !.version = old.version + 1]
    BY <2>1 DEF old
  <2>3. /\ old \in Bank!Statement /\ old.version + 1 \in 0 .. MaxVersion
        /\ [old.match EXCEPT ![l] = to] \in [Lines -> VoucherLines \cup {"unmatched", "ignored"}]
    BY <1>1 DEF Bank!Statement, Bank!BankAssumption, old
  <2> HIDE DEF new
  <2> QED BY <2>2, <2>3 DEF Bank!Statement, old
<1>3. statement' = [statement EXCEPT ![s] = new]
  BY <1>1 DEF Bank!Rematched, BankInv, BankTyped, Bank!Statement
<1> HIDE DEF new
<1> QED BY <1>1, <1>2, <1>3 DEF BankInv, BankTyped, Bank!Imported, Bank!BankAssumption

\* Such a step, while no match in flight is about the statement, keeps the invariant.
LEMMA RematchKeeps ==
    ASSUME Bank!BankAssumption, BankInv, NEW s \in Bank!Imported, NEW l \in Lines,
           NEW to \in VoucherLines \cup {"unmatched", "ignored"},
           statement[s].status = "in_progress", statement[s].version < MaxVersion,
           statement' = Bank!Rematched(s, l, to), UNCHANGED <<completing, raced>>,
           matching' \in [Members -> [statement : Statements, line : Lines, with : VoucherLines] \cup {Nothing}],
           \A n \in Members : matching'[n] # Nothing => matching'[n] = matching[n] /\ matching[n].statement # s,
           to \in VoucherLines =>
             /\ ~raced => ~Bank!UsedElsewhere(to, s)
             /\ \A n \in Members : matching'[n] # Nothing => raced
    PROVE  BankInv'
<1>1. /\ statement' \in [Statements -> Bank!Statement \cup {Nothing}]
      /\ Bank!Imported' = Bank!Imported
      /\ \A o \in Bank!Imported : statement'[o].status = statement[o].status
      /\ \A o \in Bank!Imported \ {s} : statement'[o] = statement[o]
      /\ statement'[s].version = statement[s].version + 1
      /\ statement'[s].match = [statement[s].match EXCEPT ![l] = to]
  BY BankRematched
<1>2. statement[s] \in Bank!Statement /\ statement[s].version \in Nat /\ s \in Statements
  BY DEF BankInv, BankTyped, Bank!Imported, Bank!Statement, Bank!BankAssumption
<1>3. BankTyped'
  BY <1>1 DEF BankInv, BankTyped
<1>4. \A k \in Lines : statement'[s].match[k] = IF k = l THEN to ELSE statement[s].match[k]
  BY <1>1, <1>2 DEF Bank!Statement
<1>5. ASSUME NEW n \in Members, matching'[n] # Nothing
      PROVE  /\ matching'[n].statement \in Bank!Imported'
             /\ statement'[matching'[n].statement].status = "in_progress"
             /\ statement'[matching'[n].statement].version < MaxVersion
             /\ ~raced' => ~Bank!UsedElsewhere(matching[n].with, matching[n].statement)'
  <2>1. /\ matching'[n] = matching[n] /\ matching[n] # Nothing /\ matching[n].statement \in Bank!Imported \ {s}
        /\ statement[matching[n].statement].status = "in_progress"
        /\ statement[matching[n].statement].version < MaxVersion
        /\ ~raced => ~Bank!UsedElsewhere(matching[n].with, matching[n].statement)
        /\ matching[n].with \in VoucherLines
    BY <1>5 DEF BankInv, MatchesHold, BankTyped
  <2>2. ASSUME ~raced, NEW o \in Bank!Imported \ {matching[n].statement}, NEW k \in Lines
        PROVE  statement'[o].match[k] # matching[n].with
    <3>1. statement[o].match[k] # matching[n].with
      BY <2>1, <2>2 DEF Bank!UsedElsewhere
    <3>2. to \notin VoucherLines
      BY <1>5, <2>2
    <3>3. CASE o = s
      BY <1>4, <2>1, <3>1, <3>2, <3>3
    <3>4. CASE o # s
      BY <1>1, <2>2, <3>1, <3>4
    <3> QED BY <3>3, <3>4
  <2>3. /\ matching'[n].statement \in Bank!Imported'
        /\ statement'[matching'[n].statement] = statement[matching[n].statement]
    BY <1>1, <2>1
  <2>4. ~raced' => ~Bank!UsedElsewhere(matching[n].with, matching[n].statement)'
    <3>1. ASSUME ~raced, NEW o \in Bank!Imported' \ {matching'[n].statement}, NEW k \in Lines
          PROVE  statement'[o].match[k] # matching'[n].with
      BY <1>1, <2>1, <2>2, <3>1
    <3> QED BY <3>1 DEF Bank!UsedElsewhere
  <2> QED BY <2>1, <2>3, <2>4
<1>6. \A m, n \in Members :
         (/\ matching'[m] # Nothing /\ matching'[n] # Nothing
          /\ matching'[m].statement = matching'[n].statement \/ ~raced') => m = n
  BY DEF BankInv, MatchesApart
<1>7. ASSUME NEW n \in Members, completing'[n] # Nothing
      PROVE  /\ completing'[n].statement \in Bank!Imported'
             /\ completing'[n].version <= statement'[completing'[n].statement].version
             /\ Bank!Unmoved(n)' => Bank!Unresolved(completing[n].statement)' = {}
  <2>1. /\ completing'[n] = completing[n] /\ completing[n].statement \in Bank!Imported
        /\ completing[n].version <= statement[completing[n].statement].version
        /\ Bank!Unmoved(n) => Bank!Unresolved(completing[n].statement) = {}
        /\ completing[n].version \in Nat
    BY <1>7 DEF BankInv, CompletionsSaw, BankTyped
  <2>2. CASE completing[n].statement = s
    BY <1>1, <1>2, <2>1, <2>2 DEF Bank!Unmoved
  <2>3. CASE completing[n].statement # s
    BY <1>1, <2>1, <2>3 DEF Bank!Unmoved, Bank!Unresolved
  <2> QED BY <2>2, <2>3
<1>8. Bank!CompletedResolved'
  <2> SUFFICES ASSUME NEW o \in Bank!Imported, statement'[o].status = "completed"
               PROVE  Bank!Unresolved(o)' = {}
    BY <1>1 DEF Bank!CompletedResolved
  <2>1. o # s /\ statement'[o] = statement[o]
    BY <1>1
  <2> QED BY <2>1 DEF BankInv, Bank!CompletedResolved, Bank!Unresolved
<1>9. Bank!OneStatementUnlessRaced'
  <2> SUFFICES ASSUME ~raced, NEW o \in Bank!Imported, NEW p \in Bank!Imported, NEW j \in Lines, NEW k \in Lines,
                      statement'[o].match[j] \in VoucherLines, statement'[o].match[j] = statement'[p].match[k]
               PROVE  o = p
    BY <1>1 DEF Bank!OneStatementUnlessRaced
  <2>1. CASE o = s /\ j = l /\ p # s
    <3>1. statement'[o].match[j] = to /\ statement'[p].match[k] = statement[p].match[k]
      BY <1>1, <1>4, <2>1
    <3>2. to \in VoucherLines /\ statement[p].match[k] = to
      BY <3>1
    <3> QED BY <2>1, <3>2 DEF Bank!UsedElsewhere
  <2>2. CASE p = s /\ k = l /\ o # s
    <3>1. statement'[p].match[k] = to /\ statement'[o].match[j] = statement[o].match[j]
      BY <1>1, <1>4, <2>2
    <3>2. to \in VoucherLines /\ statement[o].match[j] = to
      BY <3>1
    <3> QED BY <2>2, <3>2 DEF Bank!UsedElsewhere
  <2>3. CASE ~(o = s /\ j = l) /\ ~(p = s /\ k = l)
    <3>0. \A q \in Bank!Imported, i \in Lines :
            ~(q = s /\ i = l) => statement'[q].match[i] = statement[q].match[i]
      <4> SUFFICES ASSUME NEW q \in Bank!Imported, NEW i \in Lines, ~(q = s /\ i = l)
                   PROVE  statement'[q].match[i] = statement[q].match[i]
        OBVIOUS
      <4>1. CASE q = s
        BY <1>4, <4>1
      <4>2. CASE q # s
        BY <1>1, <4>2
      <4> QED BY <4>1, <4>2
    <3>1. statement'[o].match[j] = statement[o].match[j] /\ statement'[p].match[k] = statement[p].match[k]
      BY <2>3, <3>0
    <3>2. statement[o].match[j] \in VoucherLines /\ statement[o].match[j] = statement[p].match[k]
      BY <3>1
    <3>3. Bank!OneStatementUnlessRaced
      BY DEF BankInv
    <3> QED BY <3>2, <3>3 DEF Bank!OneStatementUnlessRaced
  <2>4. l \in Lines
    OBVIOUS
  <2>5. CASE o = s /\ j = l /\ p = s
    BY <2>5
  <2>6. CASE p = s /\ k = l /\ o = s
    BY <2>6
  <2> QED BY <2>1, <2>2, <2>3, <2>5, <2>6
<1>10. \A n \in Members : completing'[n] = completing[n]
  OBVIOUS
<1>11. MatchesHold'
  BY <1>5 DEF MatchesHold
<1>12. MatchesApart'
  BY <1>6 DEF MatchesApart
<1>13. CompletionsSaw'
  BY <1>7 DEF CompletionsSaw
<1> QED BY <1>3, <1>8, <1>9, <1>11, <1>12, <1>13 DEF BankInv

\* BankInv is inductive.
LEMMA NextBank == Bank!BankAssumption /\ BankInv /\ [Bank!Next]_bankVars => BankInv'
<1> SUFFICES ASSUME Bank!BankAssumption, BankInv, [Bank!Next]_bankVars PROVE BankInv'
  OBVIOUS
<1>1. ASSUME NEW m \in Members, NEW s \in Statements, Bank!ImportBankStatement(m, s) PROVE BankInv'
  <2> DEFINE new == [status |-> "in_progress", maker |-> m, version |-> 0,
                     match |-> [l \in Lines |-> "unmatched"]]
  <2>1. new \in Bank!Statement /\ new # Nothing
    BY DEF Bank!Statement, Bank!BankAssumption
  <2>2. /\ statement[s] = Nothing /\ statement' = [statement EXCEPT ![s] = new]
        /\ UNCHANGED <<matching, completing, raced>>
    BY <1>1 DEF Bank!ImportBankStatement
  <2>3. new.status = "in_progress" /\ \A l \in Lines : new.match[l] \notin VoucherLines
    BY DEF Bank!BankAssumption
  <2> HIDE DEF new
  <2>4. Bank!Imported' = Bank!Imported \cup {s} /\ s \notin Bank!Imported
    BY <2>1, <2>2 DEF Bank!Imported, BankInv, BankTyped
  <2>5. \A o \in Bank!Imported : statement'[o] = statement[o]
    BY <2>2, <2>4 DEF Bank!Imported, BankInv, BankTyped
  <2>6. statement'[s] = new
    BY <2>2 DEF BankInv, BankTyped
  <2>7. BankTyped'
    BY <2>1, <2>2 DEF BankInv, BankTyped
  <2> QED BY <2>2, <2>3, <2>4, <2>5, <2>6, <2>7
          DEF BankInv, MatchesHold, MatchesApart, CompletionsSaw, BankTyped, Bank!UsedElsewhere, Bank!Unmoved, Bank!Unresolved,
              Bank!CompletedResolved, Bank!OneStatementUnlessRaced
<1>2. ASSUME NEW m \in Members, NEW s \in Statements, NEW l \in Lines, NEW v \in VoucherLines,
             Bank!BeginMatch(m, s, l, v)
      PROVE  BankInv'
  <2> DEFINE new == [statement |-> s, line |-> l, with |-> v]
  <2>1. /\ UNCHANGED <<statement, completing>> /\ matching[m] = Nothing
        /\ matching' = [matching EXCEPT ![m] = new]
        /\ s \in Bank!Imported /\ statement[s].status = "in_progress" /\ statement[s].version < MaxVersion
        /\ \A n \in Members : matching[n] # Nothing => matching[n].statement # s
        /\ ~Bank!UsedElsewhere(v, s)
        /\ raced' = (raced \/ \E n \in Members : matching[n] # Nothing)
    BY <1>2 DEF Bank!BeginMatch, Bank!Editable, Bank!StatementLockFree
  <2>2. new.statement = s /\ new.with = v /\ new \in [statement : Statements, line : Lines, with : VoucherLines]
    OBVIOUS
  <2> HIDE DEF new
  <2>3. /\ matching'[m] = new /\ \A n \in Members \ {m} : matching'[n] = matching[n]
        /\ raced' \in BOOLEAN /\ (~raced' => ~raced /\ \A n \in Members : matching[n] = Nothing)
    BY <2>1 DEF BankInv, BankTyped
  <2>4. BankTyped'
    BY <2>1, <2>2, <2>3 DEF BankInv, BankTyped
  <2>5. /\ Bank!Imported' = Bank!Imported
        /\ \A w, o : Bank!UsedElsewhere(w, o)' <=> Bank!UsedElsewhere(w, o)
        /\ Bank!CompletedResolved'
        /\ \A n \in Members : Bank!Unmoved(n)' <=> Bank!Unmoved(n)
        /\ \A o \in Statements : Bank!Unresolved(o)' = Bank!Unresolved(o)
    BY <2>1 DEF BankInv, MatchesHold, MatchesApart, CompletionsSaw, Bank!Imported, Bank!UsedElsewhere, Bank!Unmoved, Bank!Unresolved, Bank!CompletedResolved
  <2>6. Bank!OneStatementUnlessRaced'
    BY <2>1, <2>3, <2>5 DEF BankInv, Bank!OneStatementUnlessRaced
  <2>7. completing' = completing /\ statement' = statement
    BY <2>1
  <2>8. \A o \in Bank!Imported : o \in Statements
    BY DEF Bank!Imported
  <2> QED BY <2>1, <2>2, <2>3, <2>4, <2>5, <2>6, <2>7, <2>8 DEF BankInv, MatchesHold, MatchesApart, CompletionsSaw
<1>3. ASSUME NEW m \in Members, Bank!CommitMatch(m) PROVE BankInv'
  <2> DEFINE s == matching[m].statement
             l == matching[m].line
             v == matching[m].with
  <2>1. /\ s \in Bank!Imported /\ l \in Lines /\ v \in VoucherLines
        /\ statement[s].status = "in_progress" /\ statement[s].version < MaxVersion
        /\ ~raced => ~Bank!UsedElsewhere(v, s)
    BY <1>3 DEF Bank!CommitMatch, BankInv, MatchesHold, BankTyped
  <2>2. /\ statement' = Bank!Rematched(s, l, v) /\ UNCHANGED <<completing, raced>>
        /\ matching'[m] = Nothing /\ \A n \in Members \ {m} : matching'[n] = matching[n]
        /\ \A n \in Members \ {m} : matching[n] # Nothing => matching[n].statement # s /\ raced
    BY <1>3 DEF Bank!CommitMatch, BankInv, MatchesHold, MatchesApart, CompletionsSaw, BankTyped
  <2>3. matching' \in [Members -> [statement : Statements, line : Lines, with : VoucherLines] \cup {Nothing}]
    BY <1>3 DEF Bank!CommitMatch, BankInv, MatchesHold, BankTyped
  <2> HIDE DEF s, l, v
  <2>4. /\ \A n \in Members : matching'[n] # Nothing => matching'[n] = matching[n] /\ matching[n].statement # s
        /\ \A n \in Members : matching'[n] # Nothing => raced
        /\ v \notin {"unmatched", "ignored"}
    BY <2>1, <2>2 DEF Bank!BankAssumption
  <2> QED BY <2>1, <2>2, <2>3, <2>4, RematchKeeps DEF BankInv, MatchesHold, MatchesApart, CompletionsSaw, BankTyped
<1>4. ASSUME NEW s \in Statements, NEW l \in Lines, NEW to \in {"unmatched", "ignored"},
             Bank!UpdateBankLine(s, l, to)
      PROVE  BankInv'
  <2>1. /\ s \in Bank!Imported /\ statement[s].status = "in_progress" /\ statement[s].version < MaxVersion
        /\ statement' = Bank!Rematched(s, l, to) /\ UNCHANGED <<matching, completing, raced>>
        /\ \A n \in Members : matching[n] # Nothing => matching[n].statement # s
    BY <1>4 DEF Bank!UpdateBankLine, Bank!Editable, Bank!StatementLockFree
  <2> QED BY <2>1, RematchKeeps DEF BankInv, MatchesHold, MatchesApart, CompletionsSaw, BankTyped, Bank!BankAssumption
<1>5. ASSUME NEW m \in Members, NEW s \in Statements, Bank!BeginComplete(m, s) PROVE BankInv'
  BY <1>5 DEF Bank!BeginComplete, BankInv, MatchesHold, MatchesApart, CompletionsSaw, BankTyped, Bank!Imported, Bank!Statement,
              Bank!UsedElsewhere, Bank!Unmoved, Bank!Unresolved, Bank!BankAssumption,
              Bank!CompletedResolved, Bank!OneStatementUnlessRaced
<1>6. ASSUME NEW m \in Members, Bank!CommitComplete(m) PROVE BankInv'
  <2> DEFINE s == completing[m].statement
  <2>1. /\ completing[m] # Nothing /\ s \in Bank!Imported
        /\ \A n \in Members : matching[n] # Nothing => matching[n].statement # s
        /\ UNCHANGED <<matching, raced>>
        /\ completing'[m] = Nothing /\ \A n \in Members \ {m} : completing'[n] = completing[n]
        /\ completing' \in [Members -> [statement : Statements, version : Nat] \cup {Nothing}]
    BY <1>6 DEF Bank!CommitComplete, Bank!StatementLockFree, BankInv, BankTyped, CompletionsSaw
  <2>2. \/ statement' = statement
        \/ statement' = [statement EXCEPT ![s].status = "completed"] /\ Bank!Unmoved(m)
    BY <1>6 DEF Bank!CommitComplete
  <2> HIDE DEF s
  <2>3. CASE statement' = statement
    BY <2>1, <2>3 DEF BankInv, MatchesHold, MatchesApart, CompletionsSaw, BankTyped, Bank!Imported, Bank!UsedElsewhere,
                      Bank!Unmoved, Bank!Unresolved, Bank!CompletedResolved, Bank!OneStatementUnlessRaced
  <2>4. CASE statement' = [statement EXCEPT ![s].status = "completed"] /\ Bank!Unmoved(m)
    <3>1. /\ statement' \in [Statements -> Bank!Statement \cup {Nothing}] /\ Bank!Imported' = Bank!Imported
          /\ \A o \in Bank!Imported : statement'[o].match = statement[o].match
          /\ \A o \in Bank!Imported : statement'[o].version = statement[o].version
          /\ \A o \in Bank!Imported \ {s} : statement'[o] = statement[o]
      BY <2>1, <2>4 DEF BankInv, BankTyped, Bank!Imported, Bank!Statement, Bank!BankAssumption
    <3>2. Bank!Unresolved(s) = {}
      BY <2>1, <2>4 DEF BankInv, CompletionsSaw, s
    <3>3. \A o \in Bank!Imported : Bank!Unresolved(o)' = Bank!Unresolved(o)
      BY <3>1 DEF Bank!Unresolved
    <3>4. BankTyped' /\ MatchesApart' /\ Bank!OneStatementUnlessRaced'
      BY <2>1, <3>1 DEF BankInv, BankTyped, MatchesApart, Bank!OneStatementUnlessRaced
    <3>5. MatchesHold'
      BY <2>1, <3>1 DEF BankInv, MatchesHold, Bank!UsedElsewhere
    <3>6. CompletionsSaw'
      BY <2>1, <3>1, <3>3 DEF BankInv, CompletionsSaw, Bank!Unmoved
    <3>7. Bank!CompletedResolved'
      BY <3>1, <3>2, <3>3 DEF BankInv, Bank!CompletedResolved
    <3> QED BY <3>4, <3>5, <3>6, <3>7 DEF BankInv
  <2> QED BY <2>2, <2>3, <2>4
<1>7. CASE UNCHANGED bankVars
  BY <1>7 DEF bankVars, BankInv, MatchesHold, MatchesApart, CompletionsSaw, BankTyped, Bank!Imported, Bank!UsedElsewhere, Bank!Unmoved, Bank!Unresolved,
              Bank!CompletedResolved, Bank!OneStatementUnlessRaced
<1> QED BY <1>1, <1>2, <1>3, <1>4, <1>5, <1>6, <1>7 DEF Bank!Next

\* For any statements, lines and members: a completed statement has no unmatched line,
\* whatever lines are unmatched while its completion is under way, and until two matches overlap
\* no voucher line is reconciled by two statements (bankLineAction, completeBankStatement).
THEOREM StatementsReconciled ==
    Bank!Spec => [](Bank!CompletedResolved /\ Bank!OneStatementUnlessRaced)
<1>1. BankInv /\ [Bank!Next]_(Bank!vars) => BankInv'
  BY NextBank, CompanyAssumption DEF Bank!vars, bankVars
<1>2. BankInv => Bank!CompletedResolved /\ Bank!OneStatementUnlessRaced
  BY DEF BankInv
<1> QED BY InitBank, <1>1, <1>2, PTL DEF Bank!Spec

-----------------------------------------------------------------------------
(* MemoryLedger.                                                           *)

Created == {v \in Vouchers : voucher[v] # Nothing}
Journal == {v \in Created : voucher[v].status \in {"posted", "reversed"}}
Originals == {v \in Created : voucher[v].reverses = Nothing}
AskedKeys == {<<m.op, m.key>> : m \in {n \in remembered : n.op = "create"}}
Moves(v) == {m \in remembered : m.voucher = v /\ m.op # "reverse" /\ m.changed}

LocalTyped ==
    /\ voucher \in [Vouchers -> Local!VoucherRows \cup {Nothing}] /\ sequence \in Nat
    /\ IsFiniteSet(Created) /\ IsFiniteSet(remembered) /\ IsFiniteSet(AskedKeys)
    /\ \A m \in remembered : /\ m.op = "create" => m.voucher = Nothing
                             /\ m.voucher # Nothing => m.voucher \in Created
    /\ \A v \in Created : voucher[v].reverses # Nothing => voucher[v].reverses \in Created \ {v}

\* What is asked of the ledger, on the definitions above.
Counted ==
    /\ Cardinality(Originals) = Cardinality(AskedKeys)
    /\ \A v \in Created : voucher[v].version =
         Cardinality(Moves(v)) + (IF voucher[v].status = "reversed" THEN 1 ELSE 0)
Numbered ==
    /\ {voucher[v].number : v \in Journal} = 1 .. sequence
    /\ Cardinality(Journal) = sequence
ReversalsHold ==
    /\ \A v \in Created : voucher[v].status = "reversed" <=> \E r \in Journal : voucher[r].reverses = v
    /\ \A r, q \in Created : voucher[r].reverses # Nothing /\ voucher[r].reverses = voucher[q].reverses => r = q
Approvers == \A v \in Created : voucher[v].approved # Nothing => voucher[v].approved # voucher[v].by

LedgerInv == LocalTyped /\ Counted /\ Numbered /\ ReversalsHold /\ Approvers

\* A queued command is about a voucher there is.
Commands == [op : {"create", "update", "submit", "approve", "post", "reverse"}, voucher : Vouchers \cup {Nothing},
             key : CommandKeys, asks : Int \cup (Nat \X Int), by : Members]
Fits(c) ==
    /\ c.op = "create" => c.voucher = Nothing /\ c.asks \in Int
    /\ c.op # "create" => c.voucher \in Created
    /\ c.op = "update" => c.asks[2] \in Int
QueueFits == queue \in Seq(Commands) /\ \A i \in 1 .. Len(queue) : Fits(queue[i])

LocalInv == LedgerInv /\ QueueFits

\* What LedgerInv gives is what the properties say.
LEMMA LedgerSound ==
    Local!MemoryAssumption /\ LedgerInv =>
      /\ Local!OncePerKey /\ Local!NumbersGapless /\ Local!ReversedOnce /\ Local!TwoMembers
<1> SUFFICES ASSUME Local!MemoryAssumption, LedgerInv
             PROVE  Local!OncePerKey /\ Local!NumbersGapless /\ Local!ReversedOnce /\ Local!TwoMembers
  OBVIOUS
<1>1. Local!Created = Created /\ Local!InJournal = Journal
  BY DEF Local!Created, Created, Local!InJournal, Journal
<1>2. Local!OncePerKey
  BY <1>1, LocalCardinality DEF LedgerInv, Counted, Originals, AskedKeys, Moves, Local!OncePerKey
<1>3. Local!NumbersGapless
  BY <1>1, LocalCardinality DEF LedgerInv, Numbered, Local!NumbersGapless
<1>4. Local!ReversedOnce
  <2> SUFFICES ASSUME NEW v \in Created
               PROVE  /\ voucher[v].status = "reversed" <=> Local!Reversals(v) \cap Journal # {}
                      /\ Local!Cardinality(Local!Reversals(v)) <= 1
    BY <1>1 DEF Local!ReversedOnce
  <2>1. Local!Reversals(v) = {r \in Created : voucher[r].reverses = v} /\ v # Nothing
    BY DEF Local!Reversals, Created, Local!MemoryAssumption
  <2>2. \A x, y \in Local!Reversals(v) : x = y
    BY <2>1 DEF LedgerInv, ReversalsHold
  <2>3. Local!Cardinality(Local!Reversals(v)) <= 1
    BY <2>2, AtMostOne, LocalCardinality
  <2> QED BY <2>1, <2>3 DEF LedgerInv, ReversalsHold, Journal
<1>5. Local!TwoMembers
  BY <1>1 DEF LedgerInv, Approvers, Local!TwoMembers
<1> QED BY <1>2, <1>3, <1>4, <1>5

\* A row that moves on, and one that gets its number.
LEMMA RowMoved ==
    ASSUME NEW old \in Local!VoucherRows, NEW status \in Local!Lifecycle, NEW n \in Nat,
           NEW new, new = [old EXCEPT !.status = status, !.version = n]
    PROVE  /\ new \in Local!VoucherRows /\ new.status = status /\ new.version = n /\ new.amount = old.amount
           /\ new.by = old.by /\ new.approved = old.approved /\ new.number = old.number /\ new.reverses = old.reverses
<1>1. new \in Local!VoucherRows
  BY DEF Local!VoucherRows
<1> QED BY <1>1 DEF Local!VoucherRows
\* A row with another number.
LEMMA RowNumbered ==
    ASSUME NEW old \in Local!VoucherRows, NEW n \in Nat, NEW new, new = [old EXCEPT !.number = n]
    PROVE  /\ new \in Local!VoucherRows /\ new.status = old.status /\ new.version = old.version /\ new.amount = old.amount
           /\ new.by = old.by /\ new.approved = old.approved /\ new.number = n /\ new.reverses = old.reverses
<1>1. new \in Local!VoucherRows
  BY DEF Local!VoucherRows
<1> QED BY <1>1 DEF Local!VoucherRows

\* A voucher moved on.
LEMMA VoucherMoved ==
    ASSUME NEW v, voucher[v] \in Local!VoucherRows, NEW status \in Local!Lifecycle
    PROVE  /\ Local!Moved(v, status) \in Local!VoucherRows /\ Local!Moved(v, status).status = status
           /\ Local!Moved(v, status).version = voucher[v].version + 1
           /\ Local!Moved(v, status).by = voucher[v].by /\ Local!Moved(v, status).approved = voucher[v].approved
           /\ Local!Moved(v, status).number = voucher[v].number
           /\ Local!Moved(v, status).reverses = voucher[v].reverses
<1> DEFINE old == voucher[v]
           n == old.version + 1
           new == Local!Moved(v, status)
<1>1. old \in Local!VoucherRows /\ n \in Nat
  BY DEF Local!VoucherRows
<1>2. new = [old EXCEPT !.status = status, !.version = n]
  BY DEF Local!Moved
<1> HIDE DEF old, n, new
<1>3. /\ new \in Local!VoucherRows /\ new.status = status /\ new.version = n
      /\ new.by = old.by /\ new.approved = old.approved /\ new.number = old.number /\ new.reverses = old.reverses
  <2>1. new \in Local!VoucherRows
    BY <1>1, <1>2, RowMoved
  <2> QED BY <1>1, <1>2, <2>1 DEF Local!VoucherRows
<1> QED BY <1>3 DEF old, n, new

\* What the books gain when a command that moves a voucher is remembered.
LEMMA MoveCounted ==
    ASSUME LedgerInv, NEW rem, NEW v \in Created, remembered' = remembered \cup {rem}, rem \notin remembered,
           rem.op \notin {"create", "reverse"}, rem.voucher = v, rem.changed
    PROVE  /\ IsFiniteSet(remembered') /\ AskedKeys' = AskedKeys
           /\ Cardinality(Moves(v)') = Cardinality(Moves(v)) + 1 /\ Cardinality(Moves(v)) \in Nat
           /\ \A w \in Vouchers \ {v} : Moves(w)' = Moves(w)
<1>1. IsFiniteSet(remembered')
  BY FS_AddElement DEF LedgerInv, LocalTyped
<1>2. AskedKeys' = AskedKeys
  <2>1. {n \in remembered' : n.op = "create"} = {n \in remembered : n.op = "create"}
    OBVIOUS
  <2> QED BY <2>1 DEF AskedKeys
<1>3. Moves(v)' = Moves(v) \cup {rem} /\ rem \notin Moves(v) /\ Moves(v) \subseteq remembered
  BY DEF Moves
<1>4. IsFiniteSet(Moves(v)) /\ Cardinality(Moves(v)) \in Nat
  BY <1>3, FS_Subset, FS_CardinalityType DEF LedgerInv, LocalTyped
<1>5. Cardinality(Moves(v) \cup {rem}) = Cardinality(Moves(v)) + 1
  BY <1>3, <1>4, FS_AddElement
<1>6. \A w \in Vouchers \ {v} : Moves(w)' = Moves(w)
  BY DEF Moves
<1> QED BY <1>1, <1>2, <1>3, <1>4, <1>5, <1>6

\* update, submit and approve: a voucher outside the journal moves and stays outside.
LEMMA VoucherMoves ==
    ASSUME Local!MemoryAssumption, LedgerInv, NEW v \in Created, NEW row \in Local!VoucherRows, NEW rem,
           voucher' = [voucher EXCEPT ![v] = row], UNCHANGED sequence,
           row.version = voucher[v].version + 1, row.reverses = voucher[v].reverses,
           row.approved # Nothing => row.approved # row.by,
           voucher[v].status \notin {"posted", "reversed"}, row.status \notin {"posted", "reversed"},
           remembered' = remembered \cup {rem}, rem \notin remembered,
           rem.op \notin {"create", "reverse"}, rem.voucher = v, rem.changed
    PROVE  LedgerInv' /\ Created' = Created
<1>1. /\ v \in Vouchers /\ row # Nothing /\ voucher'[v] = row /\ voucher[v] # Nothing
      /\ \A w \in Vouchers \ {v} : voucher'[w] = voucher[w]
  BY DEF LedgerInv, LocalTyped, Created, Local!MemoryAssumption
<1>2. Created' = Created
  BY <1>1 DEF Created
<1>3. Journal' = Journal /\ v \notin Journal
  BY <1>1, <1>2 DEF Journal, Created
<1>4. Originals' = Originals
  BY <1>1, <1>2 DEF Originals, Created
<1>5. /\ IsFiniteSet(remembered') /\ AskedKeys' = AskedKeys
      /\ Cardinality(Moves(v)') = Cardinality(Moves(v)) + 1 /\ Cardinality(Moves(v)) \in Nat
      /\ \A w \in Vouchers \ {v} : Moves(w)' = Moves(w)
  BY MoveCounted
<1>6. LocalTyped'
  <2>1. voucher' \in [Vouchers -> Local!VoucherRows \cup {Nothing}] /\ sequence' \in Nat
    BY <1>1 DEF LedgerInv, LocalTyped
  <2>2. \A m \in remembered' : /\ m.op = "create" => m.voucher = Nothing
                               /\ m.voucher # Nothing => m.voucher \in Created
    BY DEF LedgerInv, LocalTyped
  <2>3. \A w \in Created : voucher'[w].reverses = voucher[w].reverses
    BY <1>1 DEF Created
  <2> QED BY <1>2, <1>5, <2>1, <2>2, <2>3 DEF LedgerInv, LocalTyped
<1>7. Counted'
  <2>1. ASSUME NEW w \in Created
        PROVE  voucher'[w].version =
                 Cardinality(Moves(w)') + (IF voucher'[w].status = "reversed" THEN 1 ELSE 0)
    <3>1. CASE w = v
      BY <1>1, <1>5, <3>1 DEF LedgerInv, Counted
    <3>2. CASE w # v
      BY <1>1, <1>5, <2>1, <3>2 DEF LedgerInv, Counted, Created
    <3> QED BY <3>1, <3>2
  <2> QED BY <1>2, <1>4, <1>5, <2>1 DEF LedgerInv, Counted
<1>8. Numbered'
  <2>1. {voucher'[w].number : w \in Journal} = {voucher[w].number : w \in Journal}
    BY <1>1, <1>3 DEF Journal, Created
  <2> QED BY <1>3, <2>1 DEF LedgerInv, Numbered
<1>9. ReversalsHold'
  <2>1. \A w \in Created : /\ voucher'[w].reverses = voucher[w].reverses
                           /\ voucher'[w].status = "reversed" <=> voucher[w].status = "reversed"
    BY <1>1 DEF Created
  <2>2. Journal \subseteq Created
    BY DEF Journal
  <2> QED BY <1>2, <1>3, <2>1, <2>2 DEF LedgerInv, ReversalsHold
<1>10. Approvers'
  BY <1>1, <1>2 DEF LedgerInv, Approvers, Created
<1> QED BY <1>2, <1>6, <1>7, <1>8, <1>9, <1>10 DEF LedgerInv

\* create and reverse: a draft is added.
LEMMA DraftAdded ==
    ASSUME Local!MemoryAssumption, LedgerInv, NEW v \in Vouchers \ Created, NEW row \in Local!VoucherRows, NEW rem,
           voucher' = [voucher EXCEPT ![v] = row], UNCHANGED sequence,
           row.version = 0, row.status = "draft", row.approved = Nothing,
           remembered' = remembered \cup {rem}, rem \notin remembered,
           \/ /\ row.reverses = Nothing /\ rem.op = "create" /\ rem.voucher = Nothing
              /\ \A m \in remembered : ~(m.op = "create" /\ m.key = rem.key)
           \/ /\ row.reverses \in Created /\ rem.op = "reverse" /\ rem.voucher \in Created
              /\ \A w \in Created : voucher[w].reverses # row.reverses
    PROVE  LedgerInv' /\ Created' = Created \cup {v}
<1>1. /\ row # Nothing /\ voucher'[v] = row /\ voucher[v] = Nothing /\ v # Nothing
      /\ \A w \in Vouchers \ {v} : voucher'[w] = voucher[w]
  BY DEF LedgerInv, LocalTyped, Created, Local!MemoryAssumption
<1>2. Created' = Created \cup {v} /\ v \notin Created /\ \A w \in Created : voucher'[w] = voucher[w]
  BY <1>1 DEF Created
<1>3. Journal' = Journal
  BY <1>1, <1>2 DEF Journal
<1>4. IsFiniteSet(remembered') /\ IsFiniteSet(Created')
  BY <1>2, FS_AddElement DEF LedgerInv, LocalTyped
<1>5. \A w \in Vouchers : Moves(w)' = Moves(w)
  BY DEF Moves, Local!MemoryAssumption
<1>6. Moves(v) = {} /\ Cardinality({}) = 0
  BY <1>1, <1>2, FS_EmptySet DEF Moves, LedgerInv, LocalTyped
<1>7. /\ Originals \subseteq Created /\ IsFiniteSet(Originals) /\ IsFiniteSet(AskedKeys)
      /\ Cardinality(Originals) = Cardinality(AskedKeys)
  BY FS_Subset DEF Originals, LedgerInv, LocalTyped, Counted
<1>8. IsFiniteSet(AskedKeys') /\ Cardinality(Originals') = Cardinality(AskedKeys')
  <2>1. CASE row.reverses = Nothing /\ rem.op = "create" /\ \A m \in remembered : ~(m.op = "create" /\ m.key = rem.key)
    <3>1. Originals' = Originals \cup {v} /\ v \notin Originals
      BY <1>1, <1>2, <2>1 DEF Originals
    <3>2. {n \in remembered' : n.op = "create"} = {n \in remembered : n.op = "create"} \cup {rem}
      BY <2>1
    <3>3. AskedKeys' = AskedKeys \cup {<<rem.op, rem.key>>} /\ <<rem.op, rem.key>> \notin AskedKeys
      BY <2>1, <3>2 DEF AskedKeys
    <3>4. /\ Cardinality(Originals \cup {v}) = Cardinality(Originals) + 1
          /\ Cardinality(AskedKeys \cup {<<rem.op, rem.key>>}) = Cardinality(AskedKeys) + 1
          /\ IsFiniteSet(AskedKeys \cup {<<rem.op, rem.key>>})
      BY <1>7, <3>1, <3>3, FS_AddElement
    <3> QED BY <1>7, <3>1, <3>3, <3>4
  <2>2. CASE row.reverses \in Created /\ rem.op = "reverse"
    <3>1. Originals' = Originals
      BY <1>1, <1>2, <2>2 DEF Originals, Created, Local!MemoryAssumption
    <3>2. {n \in remembered' : n.op = "create"} = {n \in remembered : n.op = "create"}
      BY <2>2
    <3> QED BY <1>7, <3>1, <3>2 DEF AskedKeys
  <2> QED BY <2>1, <2>2
<1>9. LocalTyped'
  <2>1. voucher' \in [Vouchers -> Local!VoucherRows \cup {Nothing}] /\ sequence' \in Nat
    BY <1>1 DEF LedgerInv, LocalTyped
  <2>2. \A m \in remembered' : /\ m.op = "create" => m.voucher = Nothing
                               /\ m.voucher # Nothing => m.voucher \in Created'
    BY <1>2 DEF LedgerInv, LocalTyped
  <2>3. \A w \in Created' : voucher'[w].reverses # Nothing => voucher'[w].reverses \in Created' \ {w}
    BY <1>1, <1>2 DEF LedgerInv, LocalTyped
  <2> QED BY <1>4, <1>8, <2>1, <2>2, <2>3 DEF LocalTyped
<1>10. Counted'
  <2>1. \A w \in Created' : voucher'[w].version =
                 Cardinality(Moves(w)') + (IF voucher'[w].status = "reversed" THEN 1 ELSE 0)
    <3>1. voucher'[v].version = Cardinality(Moves(v)') + (IF voucher'[v].status = "reversed" THEN 1 ELSE 0)
      <4>1. Moves(v)' = {}
        BY <1>5, <1>6
      <4>2. Cardinality(Moves(v)') = 0
        BY <1>6, <4>1
      <4>3. voucher'[v].version = 0 /\ voucher'[v].status # "reversed"
        BY <1>1
      <4> QED BY <4>2, <4>3
    <3>2. \A w \in Created : w \in Vouchers /\ Moves(w)' = Moves(w)
      BY <1>5 DEF Created
    <3> QED BY <1>2, <3>1, <3>2 DEF LedgerInv, Counted
  <2> QED BY <1>8, <2>1 DEF Counted
<1>11. Numbered'
  <2>1. {voucher'[w].number : w \in Journal} = {voucher[w].number : w \in Journal}
    BY <1>2 DEF Journal
  <2> QED BY <1>3, <2>1 DEF LedgerInv, Numbered
<1>12. ReversalsHold'
  <2>1. Journal \subseteq Created
    BY DEF Journal
  <2>2. \A r \in Journal : voucher[r].reverses # v
    BY <1>1, <1>2, <2>1 DEF LedgerInv, LocalTyped
  <2>3. \A w \in Created' : voucher'[w].status = "reversed" <=> \E r \in Journal' : voucher'[r].reverses = w
    BY <1>1, <1>2, <1>3, <2>1, <2>2 DEF LedgerInv, ReversalsHold
  <2>4. \A r, q \in Created' :
          voucher'[r].reverses # Nothing /\ voucher'[r].reverses = voucher'[q].reverses => r = q
    BY <1>1, <1>2 DEF LedgerInv, ReversalsHold
  <2> QED BY <2>3, <2>4 DEF ReversalsHold
<1>13. Approvers'
  BY <1>1, <1>2 DEF LedgerInv, Approvers
<1> QED BY <1>2, <1>9, <1>10, <1>11, <1>12, <1>13 DEF LedgerInv

\* The numbers of the journal depend on its vouchers alone.
LEMMA SameNumbers ==
    ASSUME \A w \in Journal : voucher'[w].number = voucher[w].number
    PROVE  {voucher'[w].number : w \in Journal} = {voucher[w].number : w \in Journal}
  OBVIOUS

\* post: the voucher gets the next number, and what it reverses is reversed.
LEMMA VoucherPosts ==
    ASSUME Local!MemoryAssumption, LedgerInv, NEW v \in Created, NEW rem,
           voucher[v].status = "approved",
           voucher[v].reverses # Nothing => voucher[voucher[v].reverses].status = "posted",
           voucher' = [w \in Vouchers |->
                         IF w = v THEN [Local!Moved(w, "posted") EXCEPT !.number = sequence + 1]
                         ELSE IF w = voucher[v].reverses THEN Local!Moved(w, "reversed") ELSE voucher[w]],
           sequence' = sequence + 1,
           remembered' = remembered \cup {rem}, rem \notin remembered,
           rem.op = "post", rem.voucher = v, rem.changed
    PROVE  LedgerInv' /\ Created' = Created
<1> DEFINE o == voucher[v].reverses
<1>1. /\ v \in Vouchers /\ voucher[v] \in Local!VoucherRows
      /\ o # Nothing => o \in Created \ {v} /\ o \in Vouchers /\ voucher[o] \in Local!VoucherRows
      /\ voucher'[v] = [Local!Moved(v, "posted") EXCEPT !.number = sequence + 1]
      /\ o # Nothing => voucher'[o] = Local!Moved(o, "reversed")
      /\ \A w \in Vouchers \ {v, o} : voucher'[w] = voucher[w]
      /\ o = Nothing \/ voucher[o].status = "posted"
  BY DEF LedgerInv, LocalTyped, Created
<1>2. /\ voucher'[v] \in Local!VoucherRows /\ voucher'[v].status = "posted" /\ voucher'[v].number = sequence + 1
      /\ voucher'[v].version = voucher[v].version + 1 /\ voucher'[v].reverses = o
      /\ voucher'[v].approved = voucher[v].approved /\ voucher'[v].by = voucher[v].by
  <2> DEFINE moved == Local!Moved(v, "posted")
             posted == voucher'[v]
             next == sequence + 1
  <2>1. /\ moved \in Local!VoucherRows /\ moved.status = "posted" /\ moved.version = voucher[v].version + 1
        /\ moved.by = voucher[v].by /\ moved.approved = voucher[v].approved /\ moved.reverses = voucher[v].reverses
    BY <1>1, VoucherMoved DEF Local!Lifecycle
  <2>2. next \in Nat /\ posted = [moved EXCEPT !.number = next]
    BY <1>1 DEF LedgerInv, LocalTyped
  <2> HIDE DEF moved, posted, next
  <2>3. /\ posted \in Local!VoucherRows /\ posted.status = moved.status /\ posted.version = moved.version
        /\ posted.by = moved.by /\ posted.approved = moved.approved /\ posted.number = next
        /\ posted.reverses = moved.reverses
    BY <2>1, <2>2, RowNumbered
  <2> QED BY <2>1, <2>3 DEF posted, next
<1>3. o # Nothing =>
        /\ voucher'[o] \in Local!VoucherRows /\ voucher'[o].status = "reversed" /\ voucher'[o].number = voucher[o].number
        /\ voucher'[o].version = voucher[o].version + 1 /\ voucher'[o].reverses = voucher[o].reverses
        /\ voucher'[o].approved = voucher[o].approved /\ voucher'[o].by = voucher[o].by
  BY <1>1, VoucherMoved DEF Local!Lifecycle
<1> HIDE DEF o
<1>a. Nothing \notin Local!VoucherRows /\ Nothing \notin Vouchers
  BY DEF Local!MemoryAssumption
<1>b. voucher' \in [Vouchers -> Local!VoucherRows \cup {Nothing}]
  <2>1. \A w \in Vouchers : voucher'[w] \in Local!VoucherRows \cup {Nothing}
    <3> SUFFICES ASSUME NEW w \in Vouchers PROVE voucher'[w] \in Local!VoucherRows \cup {Nothing}
      OBVIOUS
    <3>1. CASE w = v
      BY <1>2, <3>1
    <3>2. CASE w = o
      BY <1>3, <1>a, <3>2
    <3>3. CASE w \notin {v, o}
      BY <1>1, <3>3 DEF LedgerInv, LocalTyped
    <3> QED BY <3>1, <3>2, <3>3
  <2>2. DOMAIN voucher' = Vouchers /\ voucher' = [w \in Vouchers |-> voucher'[w]]
    OBVIOUS
  <2> QED BY <2>1, <2>2
<1>4. Created' = Created /\ \A w \in Created : w \in Vouchers
  <2>1. ASSUME NEW w \in Vouchers PROVE voucher'[w] # Nothing <=> voucher[w] # Nothing
    <3>1. CASE w = v
      BY <1>1, <1>2, <1>a, <3>1
    <3>2. CASE w = o
      BY <1>1, <1>3, <1>a, <3>2
    <3>3. CASE w \notin {v, o}
      BY <1>1, <3>3
    <3> QED BY <3>1, <3>2, <3>3
  <2> QED BY <2>1 DEF Created
<1>5. /\ \A w \in Created : voucher'[w].reverses = voucher[w].reverses
      /\ \A w \in Created : voucher'[w].approved = voucher[w].approved /\ voucher'[w].by = voucher[w].by
      /\ \A w \in Created : w # v => voucher'[w].number = voucher[w].number
      /\ \A w \in Created : (voucher'[w].status = "reversed") <=> (w = o \/ voucher[w].status = "reversed")
      /\ o = Nothing => \A w \in Created : w # o
  <2>1. o = Nothing => \A w \in Created : w # o
    BY <1>4 DEF Local!MemoryAssumption
  <2>2. ASSUME NEW w \in Created
        PROVE  /\ voucher'[w].reverses = voucher[w].reverses
               /\ voucher'[w].approved = voucher[w].approved /\ voucher'[w].by = voucher[w].by
               /\ w # v => voucher'[w].number = voucher[w].number
               /\ (voucher'[w].status = "reversed") <=> (w = o \/ voucher[w].status = "reversed")
    <3>1. CASE w = v
      BY <1>1, <1>2, <2>1, <3>1 DEF o
    <3>2. CASE w = o
      BY <1>1, <1>3, <2>1, <3>2
    <3>3. CASE w \notin {v, o}
      BY <1>1, <1>4, <3>3
    <3> QED BY <3>1, <3>2, <3>3
  <2> QED BY <2>1, <2>2
<1>6. Journal' = Journal \cup {v} /\ v \notin Journal /\ (o # Nothing => o \in Journal) /\ Journal \subseteq Created
  <2>1. \A w \in Created \ {v} : voucher'[w].status \in {"posted", "reversed"} <=> voucher[w].status \in {"posted", "reversed"}
    <3> SUFFICES ASSUME NEW w \in Created \ {v}
                 PROVE  voucher'[w].status \in {"posted", "reversed"} <=> voucher[w].status \in {"posted", "reversed"}
      OBVIOUS
    <3>1. CASE w = o
      BY <1>1, <1>3, <1>5, <3>1
    <3>2. CASE w # o
      BY <1>1, <1>4, <3>2
    <3> QED BY <3>1, <3>2
  <2>2. v \notin Journal /\ Journal \subseteq Created /\ (o # Nothing => o \in Journal)
    BY <1>1 DEF Journal
  <2>3. Journal' = {w \in Created : voucher'[w].status \in {"posted", "reversed"}}
    BY <1>4 DEF Journal
  <2>4. Journal' = Journal \cup {v}
    BY <1>2, <2>1, <2>3 DEF Journal
  <2> QED BY <2>2, <2>4
<1>7. Originals' = Originals
  BY <1>4, <1>5 DEF Originals
<1>8. /\ IsFiniteSet(remembered') /\ AskedKeys' = AskedKeys
      /\ Cardinality(Moves(v)') = Cardinality(Moves(v)) + 1 /\ Cardinality(Moves(v)) \in Nat
      /\ \A w \in Vouchers \ {v} : Moves(w)' = Moves(w)
  BY MoveCounted
<1>9. LocalTyped'
  <2>1. voucher' \in [Vouchers -> Local!VoucherRows \cup {Nothing}] /\ sequence' \in Nat
    BY <1>b DEF LedgerInv, LocalTyped
  <2>2. \A m \in remembered' : /\ m.op = "create" => m.voucher = Nothing
                               /\ m.voucher # Nothing => m.voucher \in Created
    BY DEF LedgerInv, LocalTyped
  <2>3. \A w \in Created : voucher'[w].reverses # Nothing => voucher'[w].reverses \in Created \ {w}
    <3>1. \A w \in Created : voucher[w].reverses # Nothing => voucher[w].reverses \in Created \ {w}
      BY DEF LedgerInv, LocalTyped
    <3> QED BY <1>5, <3>1
  <2> QED BY <1>4, <1>8, <2>1, <2>2, <2>3 DEF LedgerInv, LocalTyped
<1>10. Counted'
  <2>1. ASSUME NEW w \in Created
        PROVE  voucher'[w].version =
                 Cardinality(Moves(w)') + (IF voucher'[w].status = "reversed" THEN 1 ELSE 0)
    <3>0. voucher[w].version = Cardinality(Moves(w)) + (IF voucher[w].status = "reversed" THEN 1 ELSE 0)
      BY DEF LedgerInv, Counted
    <3>1. CASE w = v
      BY <1>2, <1>8, <3>0, <3>1
    <3>2. CASE w = o
      <4>1. /\ voucher'[w].version = voucher[w].version + 1 /\ voucher'[w].status = "reversed"
            /\ voucher[w].status = "posted" /\ w \in Vouchers \ {v} /\ voucher[w].version \in Nat
        BY <1>1, <1>3, <1>5, <3>2 DEF Local!VoucherRows
      <4>2. Moves(w)' = Moves(w) /\ voucher[w].version = Cardinality(Moves(w)) + 0
        BY <1>8, <3>0, <4>1
      <4>3. Cardinality(Moves(w)') = Cardinality(Moves(w)) /\ Cardinality(Moves(w)) = voucher[w].version
        <5>1. IsFiniteSet(Moves(w))
          BY FS_Subset DEF Moves, LedgerInv, LocalTyped
        <5>2. Cardinality(Moves(w)) \in Nat
          BY <5>1, FS_CardinalityType
        <5> QED BY <4>2, <5>2
      <4> QED BY <4>1, <4>3
    <3>3. CASE w \notin {v, o}
      <4>1. voucher'[w] = voucher[w] /\ Moves(w)' = Moves(w)
        BY <1>1, <1>4, <1>8, <3>3
      <4> QED BY <3>0, <4>1
    <3> QED BY <3>1, <3>2, <3>3
  <2> QED BY <1>4, <1>7, <1>8, <2>1 DEF LedgerInv, Counted
<1>11. Numbered'
  <2>1. /\ {voucher[w].number : w \in Journal} = 1 .. sequence /\ Cardinality(Journal) = sequence
        /\ sequence \in Nat /\ IsFiniteSet(Journal)
    BY <1>6, FS_Subset DEF LedgerInv, Numbered, LocalTyped
  <2>2. {voucher'[w].number : w \in Journal \cup {v}} = {voucher[w].number : w \in Journal} \cup {sequence + 1}
    <3>1. \A w \in Journal : voucher'[w].number = voucher[w].number
      BY <1>5, <1>6
    <3>2. voucher'[v].number = sequence + 1
      BY <1>2
    <3>3. {voucher'[w].number : w \in Journal \cup {v}} = {voucher'[w].number : w \in Journal} \cup {voucher'[v].number}
      BY Zenon
    <3>4. {voucher'[w].number : w \in Journal} = {voucher[w].number : w \in Journal}
      BY Zenon, <3>1, SameNumbers
    <3> QED BY <3>2, <3>3, <3>4
  <2>3. (1 .. sequence) \cup {sequence + 1} = 1 .. (sequence + 1)
    BY <2>1
  <2>4. Cardinality(Journal \cup {v}) = sequence + 1
    BY <1>6, <2>1, FS_AddElement
  <2> QED BY <1>6, <2>1, <2>2, <2>3, <2>4 DEF Numbered
<1>12. ReversalsHold'
  <2>1. ASSUME NEW w \in Created
        PROVE  voucher'[w].status = "reversed" <=> \E r \in Journal' : voucher'[r].reverses = w
    <3>1. (\E r \in Journal' : voucher'[r].reverses = w) <=> w = o \/ \E r \in Journal : voucher[r].reverses = w
      <4>1. \A r \in Journal : voucher'[r].reverses = voucher[r].reverses
        BY <1>5, <1>6
      <4>2. (\E r \in Journal' : voucher'[r].reverses = w) <=> voucher'[v].reverses = w \/ \E r \in Journal : voucher'[r].reverses = w
        BY Zenon, <1>6
      <4>3. voucher'[v].reverses = o
        BY <1>2
      <4> QED BY <4>1, <4>2, <4>3
    <3>2. voucher[w].status = "reversed" <=> \E r \in Journal : voucher[r].reverses = w
      BY DEF LedgerInv, ReversalsHold
    <3> QED BY <1>5, <3>1, <3>2
  <2>2. \A r, q \in Created :
          voucher'[r].reverses # Nothing /\ voucher'[r].reverses = voucher'[q].reverses => r = q
    <3>1. \A r, q \in Created :
            voucher[r].reverses # Nothing /\ voucher[r].reverses = voucher[q].reverses => r = q
      BY DEF LedgerInv, ReversalsHold
    <3> QED BY <1>5, <3>1
  <2> QED BY <1>4, <2>1, <2>2 DEF ReversalsHold
<1>13. Approvers'
  BY <1>4, <1>5 DEF LedgerInv, Approvers
<1> QED BY <1>4, <1>9, <1>10, <1>11, <1>12, <1>13 DEF LedgerInv

\* post of what is posted already: only the answer is remembered.
LEMMA PostAnswered ==
    ASSUME LedgerInv, NEW rem, UNCHANGED <<voucher, sequence>>, remembered' = remembered \cup {rem},
           rem.op = "post", rem.voucher \in Created, ~rem.changed
    PROVE  LedgerInv' /\ Created' = Created
<1>1. /\ Created' = Created /\ Journal' = Journal /\ Originals' = Originals
  BY DEF Created, Journal, Originals
<1>2. AskedKeys' = AskedKeys
  <2>1. {n \in remembered' : n.op = "create"} = {n \in remembered : n.op = "create"}
    OBVIOUS
  <2> QED BY <2>1 DEF AskedKeys
<1>3. \A v \in Vouchers : Moves(v)' = Moves(v)
  BY DEF Moves
<1>4. LocalTyped'
  BY <1>1, <1>2, FS_AddElement DEF LedgerInv, LocalTyped
<1>5. Counted'
  BY <1>1, <1>2, <1>3 DEF LedgerInv, Counted, Created
<1> QED BY <1>1, <1>4, <1>5 DEF LedgerInv, Numbered, ReversalsHold, Approvers

\* The head of the queue is a command that fits, and fits the rest after it.
LEMMA HeadServed ==
    ASSUME QueueFits, queue # <<>>, queue' = Tail(queue), Created \subseteq Created'
    PROVE  QueueFits' /\ queue[1] \in Commands /\ Fits(queue[1])
<1>1. Len(queue) \in Nat /\ Len(queue) >= 1 /\ queue[1] \in Commands /\ Fits(queue[1])
  BY DEF QueueFits
<1>2. /\ Tail(queue) \in Seq(Commands) /\ Len(Tail(queue)) = Len(queue) - 1
      /\ \A i \in 1 .. Len(queue) - 1 : Tail(queue)[i] = queue[i + 1]
  BY DEF QueueFits
<1>3. \A i \in 1 .. Len(queue) - 1 : Fits(queue[i + 1])
  BY <1>1 DEF QueueFits
<1>4. \A i \in 1 .. Len(queue') : Fits(queue[i + 1]) /\ queue'[i] = queue[i + 1]
  BY <1>1, <1>2, <1>3
<1>5. \A i \in 1 .. Len(queue') : Fits(queue[i])'
  BY <1>4 DEF Fits
<1> QED BY <1>1, <1>2, <1>5 DEF QueueFits

\* One more command that fits.
LEMMA SentFits ==
    ASSUME QueueFits, NEW c \in Commands, Fits(c), queue' = Append(queue, c), UNCHANGED voucher
    PROVE  QueueFits'
<1>1. Len(queue) \in Nat /\ queue' \in Seq(Commands) /\ Len(queue') = Len(queue) + 1
      /\ queue'[Len(queue) + 1] = c /\ \A i \in 1 .. Len(queue) : queue'[i] = queue[i]
  BY DEF QueueFits
<1>2. \A i \in 1 .. Len(queue') : Fits(queue'[i])
  BY <1>1 DEF QueueFits
<1>3. Created' = Created
  BY DEF Created
<1>4. \A i \in 1 .. Len(queue') : Fits(queue[i])'
  BY <1>2, <1>3 DEF Fits
<1> QED BY <1>1, <1>4 DEF QueueFits

\* A command that is carried out changes the books, or answers a post that was done.
LEMMA CommandCarriedOut ==
    ASSUME Local!MemoryAssumption, LedgerInv, NEW c \in Commands, Fits(c), c = queue[1],
           Local!Known(c) = {}, Local!CarryOut
    PROVE  LedgerInv' /\ Created \subseteq Created'
<1> DEFINE rem == Local!Remember(c.op, c.voucher, c.key, c.asks, c.by, Local!Changes(c))
<1>1. /\ Local!Allowed(c)
      /\ \/ Local!Changes(c) /\ Local!Effect(c)
         \/ ~Local!Changes(c) /\ voucher' = voucher
      /\ sequence' = IF c.op = "post" /\ Local!Changes(c) THEN sequence + 1 ELSE sequence
      /\ remembered' = remembered \cup {rem}
  BY DEF Local!CarryOut, Local!Head_
<1>2. rem.op = c.op /\ rem.voucher = c.voucher /\ rem.key = c.key /\ rem.changed = Local!Changes(c)
  BY DEF Local!Remember
<1>3. \A m \in remembered : ~(m.op = c.op /\ m.voucher = c.voucher /\ m.key = c.key)
  BY DEF Local!Known, Local!SameScope
<1>4. rem \notin remembered
  BY <1>2, <1>3
<1> HIDE DEF rem
<1>5. /\ c.op # "create" => c.voucher \in Created /\ c.voucher \in Vouchers /\ voucher[c.voucher] \in Local!VoucherRows
      /\ c.by \in Members
  BY DEF Fits, Created, LedgerInv, LocalTyped, Commands
<1>6. c.op # "post" => Local!Changes(c)
  BY DEF Local!Changes
<1>7. CASE c.op = "create"
  <2>1. PICK v \in Local!Free : voucher' = [voucher EXCEPT ![v] = Local!Draft(c.asks, c.by, Nothing)]
    BY <1>1, <1>6, <1>7 DEF Local!Effect
  <2> DEFINE row == Local!Draft(c.asks, c.by, Nothing)
  <2>2. /\ row \in Local!VoucherRows /\ row.version = 0 /\ row.status = "draft"
        /\ row.approved = Nothing /\ row.reverses = Nothing
    BY <1>5, <1>7 DEF Local!Draft, Local!VoucherRows, Local!Lifecycle, Fits
  <2> HIDE DEF row
  <2>3. v \in Vouchers \ Created
    BY DEF Local!Free, Created
  <2>4. c.voucher = Nothing /\ \A m \in remembered : m.op = "create" => m.voucher = Nothing
    BY <1>7 DEF Fits, LedgerInv, LocalTyped
  <2>5. voucher' = [voucher EXCEPT ![v] = row] /\ UNCHANGED sequence
    BY <1>1, <1>7, <2>1 DEF row
  <2>6. /\ rem.op = "create" /\ rem.voucher = Nothing
        /\ \A m \in remembered : ~(m.op = "create" /\ m.key = rem.key)
    BY <1>2, <1>3, <1>7, <2>4
  <2>7. LedgerInv' /\ Created' = Created \cup {v}
    BY <1>1, <1>4, <2>2, <2>3, <2>5, <2>6, DraftAdded
  <2> QED BY <2>7
<1>8. CASE c.op = "reverse"
  <2>1. PICK v \in Local!Free : voucher' = [voucher EXCEPT ![v] = Local!Draft(-voucher[c.voucher].amount, c.by, c.voucher)]
    BY <1>1, <1>6, <1>8 DEF Local!Effect
  <2> DEFINE row == Local!Draft(-voucher[c.voucher].amount, c.by, c.voucher)
  <2>2. /\ row \in Local!VoucherRows /\ row.version = 0 /\ row.status = "draft"
        /\ row.approved = Nothing /\ row.reverses = c.voucher
    BY <1>5, <1>8 DEF Local!Draft, Local!VoucherRows, Local!Lifecycle
  <2> HIDE DEF row
  <2>3. v \in Vouchers \ Created
    BY DEF Local!Free, Created
  <2>4. \A w \in Created : voucher[w].reverses # c.voucher
    BY <1>1, <1>8 DEF Local!Allowed, Local!Reversals, Created
  <2>5. voucher' = [voucher EXCEPT ![v] = row] /\ UNCHANGED sequence
    BY <1>1, <1>8, <2>1 DEF row
  <2>6. LedgerInv' /\ Created' = Created \cup {v}
    BY <1>1, <1>2, <1>4, <1>5, <1>8, <2>2, <2>3, <2>4, <2>5, DraftAdded
  <2> QED BY <2>6
<1>9. CASE c.op = "update"
  <2> DEFINE old == voucher[c.voucher]
             row == [old EXCEPT !.amount = c.asks[2], !.version = @ + 1]
  <2>1. old.status = "draft"
    BY <1>1, <1>9 DEF Local!Allowed, Local!Current
  <2>2. voucher' = [voucher EXCEPT ![c.voucher] = row] /\ UNCHANGED sequence
    BY <1>1, <1>5, <1>6, <1>9 DEF Local!Effect, LedgerInv, LocalTyped, Local!VoucherRows
  <2>3. /\ row \in Local!VoucherRows /\ row.version = old.version + 1 /\ row.status = "draft" /\ row.by = old.by
        /\ row.approved = old.approved /\ row.reverses = old.reverses
    <3> DEFINE n == old.version + 1
               x == c.asks[2]
    <3>1. n \in Nat /\ x \in Int /\ old \in Local!VoucherRows
      BY <1>5, <1>9 DEF Local!VoucherRows, Fits
    <3>2. row = [old EXCEPT !.amount = x, !.version = n]
      OBVIOUS
    <3> HIDE DEF n, x, old, row
    <3>3. row \in Local!VoucherRows
      BY <3>1, <3>2 DEF Local!VoucherRows
    <3> QED BY <2>1, <3>1, <3>2, <3>3 DEF Local!VoucherRows, n
  <2>4. old.approved # Nothing => old.approved # old.by
    BY <1>5, <1>9 DEF LedgerInv, Approvers
  <2> HIDE DEF row
  <2>5. LedgerInv' /\ Created' = Created
    BY <1>1, <1>2, <1>4, <1>5, <1>6, <1>9, <2>1, <2>2, <2>3, <2>4, VoucherMoves
  <2> QED BY <2>5
<1>10. CASE c.op = "submit"
  <2> DEFINE old == voucher[c.voucher]
             row == Local!Moved(c.voucher, "submitted")
  <2>1. old.status = "draft"
    BY <1>1, <1>10 DEF Local!Allowed, Local!Current
  <2>2. voucher' = [voucher EXCEPT ![c.voucher] = row] /\ UNCHANGED sequence
    BY <1>1, <1>6, <1>10 DEF Local!Effect
  <2>3. /\ row \in Local!VoucherRows /\ row.version = old.version + 1 /\ row.status = "submitted" /\ row.by = old.by
        /\ row.approved = old.approved /\ row.reverses = old.reverses
    BY <1>5, <1>10, VoucherMoved DEF Local!Lifecycle
  <2>4. old.approved # Nothing => old.approved # old.by
    BY <1>5, <1>10 DEF LedgerInv, Approvers
  <2> HIDE DEF row
  <2>5. LedgerInv' /\ Created' = Created
    BY <1>1, <1>2, <1>4, <1>5, <1>6, <1>10, <2>1, <2>2, <2>3, <2>4, VoucherMoves
  <2> QED BY <2>5
<1>11. CASE c.op = "approve"
  <2> DEFINE old == voucher[c.voucher]
             moved == Local!Moved(c.voucher, "approved")
             row == [moved EXCEPT !.approved = c.by]
  <2>1. old.status = "submitted" /\ old.by # c.by
    BY <1>1, <1>11 DEF Local!Allowed, Local!Current
  <2>2. voucher' = [voucher EXCEPT ![c.voucher] = row] /\ UNCHANGED sequence
    BY <1>1, <1>6, <1>11 DEF Local!Effect
  <2>3. /\ moved \in Local!VoucherRows /\ moved.version = old.version + 1 /\ moved.status = "approved"
        /\ moved.by = old.by /\ moved.reverses = old.reverses
    BY <1>5, <1>11, VoucherMoved DEF Local!Lifecycle
  <2>4. /\ row \in Local!VoucherRows /\ row.version = moved.version /\ row.status = moved.status /\ row.by = moved.by
        /\ row.approved = c.by /\ row.reverses = moved.reverses
    <3> HIDE DEF moved
    <3>1. row \in Local!VoucherRows
      BY <1>5, <2>3 DEF Local!VoucherRows
    <3> QED BY <2>3, <3>1 DEF Local!VoucherRows
  <2> HIDE DEF row, moved
  <2>5. /\ row.version = old.version + 1 /\ row.reverses = old.reverses /\ row.approved # row.by
        /\ row.status \notin {"posted", "reversed"} /\ old.status \notin {"posted", "reversed"}
    BY <2>1, <2>3, <2>4
  <2>6. LedgerInv' /\ Created' = Created
    BY <1>1, <1>2, <1>4, <1>5, <1>6, <1>11, <2>2, <2>4, <2>5, VoucherMoves
  <2> QED BY <2>6
<1>12. CASE c.op = "post" /\ Local!Changes(c)
  <2>1. voucher[c.voucher].status = "approved"
    BY <1>1, <1>12 DEF Local!Changes, Local!Allowed, Local!MayPost, Local!Current
  <2>2. voucher[c.voucher].reverses # Nothing => voucher[voucher[c.voucher].reverses].status = "posted"
    BY <1>1, <1>12 DEF Local!Changes, Local!Allowed, Local!MayPost, Local!Original
  <2>3. voucher' = [w \in Vouchers |->
                      IF w = c.voucher THEN [Local!Moved(w, "posted") EXCEPT !.number = sequence + 1]
                      ELSE IF w = voucher[c.voucher].reverses THEN Local!Moved(w, "reversed") ELSE voucher[w]]
    BY <1>1, <1>12 DEF Local!Effect, Local!Original
  <2>4. sequence' = sequence + 1
    BY <1>1, <1>12
  <2>5. LedgerInv' /\ Created' = Created
    BY <1>1, <1>2, <1>4, <1>5, <1>12, <2>1, <2>2, <2>3, <2>4, VoucherPosts
  <2> QED BY <2>5
<1>13. CASE c.op = "post" /\ ~Local!Changes(c)
  <2>1. LedgerInv' /\ Created' = Created
    BY <1>1, <1>2, <1>5, <1>13, PostAnswered
  <2> QED BY <2>1
<1> QED BY <1>7, <1>8, <1>9, <1>10, <1>11, <1>12, <1>13 DEF Commands

\* The ledger starts empty, or with one voucher taken to its posting.
LEMMA InitLocal == Local!MemoryAssumption /\ Local!Init => LocalInv
<1> SUFFICES ASSUME Local!MemoryAssumption, Local!Init PROVE LocalInv
  OBVIOUS
<1>1. QueueFits
  BY DEF Local!Init, QueueFits
<1>2. CASE voucher = [v \in Vouchers |-> Nothing] /\ sequence = 0 /\ remembered = {}
  <2>1. Created = {} /\ Journal = {} /\ Originals = {} /\ AskedKeys = {}
    BY <1>2 DEF Created, Journal, Originals, AskedKeys
  <2>2. LocalTyped
    BY <1>2, <2>1, FS_EmptySet DEF LocalTyped
  <2>3. Numbered
    BY <1>2, <2>1, FS_EmptySet DEF Numbered
  <2> QED BY <1>1, <2>1, <2>2, <2>3 DEF LocalInv, LedgerInv, Counted, ReversalsHold, Approvers
<1>3. CASE \E v \in Vouchers, x \in Amounts, key \in CommandKeys, maker, checker \in Members :
             maker # checker /\ Local!PostedBefore(v, x, key, maker, checker)
  <2>1. PICK v \in Vouchers, x \in Amounts, key \in CommandKeys, maker \in Members, checker \in Members :
          maker # checker /\ Local!PostedBefore(v, x, key, maker, checker)
    BY <1>3
  <2> DEFINE row == [Local!Draft(x, maker, Nothing) EXCEPT !.status = "posted", !.version = 3,
                                                           !.approved = checker, !.number = 1]
             r1 == Local!Remember("create", Nothing, key, x, maker, TRUE)
             r2 == Local!Remember("submit", v, key, 0, maker, TRUE)
             r3 == Local!Remember("approve", v, key, 1, checker, TRUE)
             r4 == Local!Remember("post", v, key, 2, checker, TRUE)
  <2>2. /\ voucher = [w \in Vouchers |-> IF w # v THEN Nothing ELSE row]
        /\ sequence = 1 /\ remembered = {r1, r2, r3, r4}
    BY <2>1 DEF Local!PostedBefore
  <2>3. /\ row \in Local!VoucherRows /\ row.status = "posted" /\ row.version = 3 /\ row.approved = checker
        /\ row.by = maker /\ row.number = 1 /\ row.reverses = Nothing
    <3> DEFINE draft == Local!Draft(x, maker, Nothing)
    <3>1. draft \in Local!VoucherRows /\ draft.by = maker /\ draft.reverses = Nothing
      BY DEF Local!MemoryAssumption, Local!Draft, Local!VoucherRows, Local!Lifecycle
    <3> HIDE DEF draft
    <3>2. row \in Local!VoucherRows
      BY <3>1 DEF Local!VoucherRows, Local!Lifecycle, draft
    <3> QED BY <3>1, <3>2 DEF Local!VoucherRows, draft
  <2>4. /\ r1.op = "create" /\ r1.voucher = Nothing /\ r1.key = key
        /\ r2.op = "submit" /\ r2.voucher = v /\ r2.changed
        /\ r3.op = "approve" /\ r3.voucher = v /\ r3.changed
        /\ r4.op = "post" /\ r4.voucher = v /\ r4.changed
    BY DEF Local!Remember
  <2>5. v # Nothing /\ row # Nothing
    BY <2>3 DEF Local!MemoryAssumption
  <2> HIDE DEF row, r1, r2, r3, r4
  <2>6. Created = {v} /\ voucher[v] = row
    BY <2>2, <2>5 DEF Created
  <2>7. Journal = {v} /\ Originals = {v}
    BY <2>3, <2>6 DEF Journal, Originals
  <2>8. {n \in remembered : n.op = "create"} = {r1}
    BY <2>2, <2>4
  <2>9. AskedKeys = {<<r1.op, r1.key>>}
    BY <2>8 DEF AskedKeys
  <2>10. Moves(v) = ({r2} \cup {r3}) \cup {r4}
    BY <2>2, <2>4, <2>5 DEF Moves
  <2>11. Cardinality(Moves(v)) = 3
    <3>1. IsFiniteSet({r2}) /\ Cardinality({r2}) = 1 /\ r3 \notin {r2}
      BY <2>4, FS_Singleton
    <3>2. IsFiniteSet({r2} \cup {r3}) /\ Cardinality({r2} \cup {r3}) = 2 /\ r4 \notin {r2} \cup {r3}
      <4>1. r4 \notin {r2} \cup {r3}
        BY <2>4
      <4>2. IsFiniteSet({r2} \cup {r3}) /\ Cardinality({r2} \cup {r3}) = 1 + 1
        BY <3>1, FS_AddElement
      <4> QED BY <4>1, <4>2
    <3>3. Cardinality(({r2} \cup {r3}) \cup {r4}) = 3
      <4> DEFINE both == {r2} \cup {r3}
      <4>1. IsFiniteSet(both) /\ Cardinality(both) = 2 /\ r4 \notin both
        BY <3>2
      <4> HIDE DEF both
      <4>2. Cardinality(both \cup {r4}) = 2 + 1
        BY <4>1, FS_AddElement
      <4>3. Cardinality(both \cup {r4}) = 3
        BY <4>2
      <4> QED BY <4>3 DEF both
    <3> QED BY <2>10, <3>3
  <2>12. IsFiniteSet(remembered)
    <3>1. remembered = {r1} \cup {r2} \cup {r3} \cup {r4}
      BY <2>2
    <3>2. IsFiniteSet({r1} \cup {r2})
      BY FS_Singleton, FS_AddElement
    <3>3. IsFiniteSet({r1} \cup {r2} \cup {r3})
      BY <3>2, FS_AddElement
    <3>4. IsFiniteSet({r1} \cup {r2} \cup {r3} \cup {r4})
      BY <3>3, FS_AddElement
    <3> QED BY <3>1, <3>4
  <2>13. LocalTyped
    <3>1. voucher \in [Vouchers -> Local!VoucherRows \cup {Nothing}]
      BY <2>2, <2>3
    <3>2. \A m \in remembered : /\ m.op = "create" => m.voucher = Nothing
                                /\ m.voucher # Nothing => m.voucher \in Created
      BY <2>2, <2>4, <2>6
    <3> QED BY <2>2, <2>3, <2>6, <2>9, <2>12, <3>1, <3>2, FS_Singleton DEF LocalTyped
  <2>14. Counted
    <3>1. Cardinality(Originals) = 1 /\ Cardinality(AskedKeys) = 1
      BY <2>7, <2>9, FS_Singleton
    <3>2. \A w \in Created : voucher[w].version = Cardinality(Moves(w)) + 0 /\ voucher[w].status # "reversed"
      BY <2>3, <2>6, <2>11
    <3> QED BY <3>1, <3>2 DEF Counted
  <2>15. Numbered
    <3>1. {voucher[w].number : w \in Journal} = {1} /\ 1 .. sequence = {1}
      BY <2>2, <2>3, <2>6, <2>7
    <3> QED BY <2>2, <2>7, <3>1, FS_Singleton DEF Numbered
  <2>16. ReversalsHold /\ Approvers
    BY <2>1, <2>3, <2>5, <2>6, <2>7 DEF ReversalsHold, Approvers
  <2> QED BY <1>1, <2>13, <2>14, <2>15, <2>16 DEF LocalInv, LedgerInv
<1> QED BY <1>2, <1>3 DEF Local!Init

\* LocalInv is inductive.
LEMMA NextLocal == Local!MemoryAssumption /\ LocalInv /\ [Local!Next]_localVars => LocalInv'
<1> SUFFICES ASSUME Local!MemoryAssumption, LocalInv, [Local!Next]_localVars PROVE LocalInv'
  OBVIOUS
<1>a. LedgerInv /\ QueueFits
  BY DEF LocalInv
<1>b. ASSUME UNCHANGED <<voucher, sequence, remembered>> PROVE LedgerInv' /\ Created' = Created
  BY <1>a, <1>b DEF LedgerInv, LocalTyped, Counted, Numbered, ReversalsHold, Approvers,
                    Created, Journal, Originals, AskedKeys, Moves
<1>1. CASE Local!Send
  <2>1. \E c \in Commands : Fits(c) /\ Local!Sends(c)
    <3>0. /\ Amounts \subseteq Int
          /\ \A v \in Created : v \in Vouchers /\ voucher[v].version \in Nat
      BY <1>a DEF Local!MemoryAssumption, LedgerInv, LocalTyped, Created, Local!VoucherRows
    <3>1. PICK key \in CommandKeys, by \in Members :
            \/ \E x \in Amounts : Local!Sends(Local!Command("create", Nothing, key, x, by))
            \/ \E v \in Created :
                 \/ \E op \in {"submit", "approve", "post", "reverse"} :
                      Local!Sends(Local!Command(op, v, key, voucher[v].version, by))
                 \/ \E x \in Amounts : Local!Sends(Local!Command("update", v, key, <<voucher[v].version, x>>, by))
      BY <1>1 DEF Local!Send, Created
    <3>2. ASSUME NEW x \in Amounts, Local!Sends(Local!Command("create", Nothing, key, x, by))
          PROVE  \E c \in Commands : Fits(c) /\ Local!Sends(c)
      <4>1. Local!Command("create", Nothing, key, x, by) \in Commands /\ Fits(Local!Command("create", Nothing, key, x, by))
        BY <3>0 DEF Local!Command, Commands, Fits
      <4> QED BY <3>2, <4>1
    <3>3. ASSUME NEW v \in Created, NEW op \in {"submit", "approve", "post", "reverse"},
                 Local!Sends(Local!Command(op, v, key, voucher[v].version, by))
          PROVE  \E c \in Commands : Fits(c) /\ Local!Sends(c)
      <4>1. /\ Local!Command(op, v, key, voucher[v].version, by) \in Commands
            /\ Fits(Local!Command(op, v, key, voucher[v].version, by))
        BY <3>0 DEF Local!Command, Commands, Fits
      <4> QED BY <3>3, <4>1
    <3>4. ASSUME NEW v \in Created, NEW x \in Amounts,
                 Local!Sends(Local!Command("update", v, key, <<voucher[v].version, x>>, by))
          PROVE  \E c \in Commands : Fits(c) /\ Local!Sends(c)
      <4>1. /\ Local!Command("update", v, key, <<voucher[v].version, x>>, by) \in Commands
            /\ Fits(Local!Command("update", v, key, <<voucher[v].version, x>>, by))
        BY <3>0 DEF Local!Command, Commands, Fits
      <4> QED BY <3>4, <4>1
    <3> QED BY <3>1, <3>2, <3>3, <3>4
  <2>2. PICK c \in Commands : Fits(c) /\ queue' = Append(queue, c) /\ UNCHANGED <<voucher, sequence, remembered>>
    BY <2>1 DEF Local!Sends
  <2> QED BY <1>a, <1>b, <2>2, SentFits DEF LocalInv
<1>2. CASE Local!Replay \/ Local!Refuse
  <2>1. queue # <<>> /\ queue' = Tail(queue) /\ UNCHANGED <<voucher, sequence, remembered>>
    BY <1>2 DEF Local!Replay, Local!Refuse
  <2> QED BY <1>a, <1>b, <2>1, HeadServed DEF LocalInv
<1>3. CASE Local!CarryOut
  <2>1. queue # <<>> /\ queue' = Tail(queue) /\ Local!Known(queue[1]) = {}
    BY <1>3 DEF Local!CarryOut, Local!Head_
  <2>2. queue[1] \in Commands /\ Fits(queue[1])
    BY <1>a, <2>1 DEF QueueFits
  <2>3. LedgerInv' /\ Created \subseteq Created'
    BY <1>3, <1>a, <2>1, <2>2, CommandCarriedOut
  <2> QED BY <1>a, <2>1, <2>3, HeadServed DEF LocalInv
<1>4. CASE UNCHANGED localVars
  BY <1>4, <1>a, <1>b DEF localVars, LocalInv, QueueFits, Fits
<1> QED BY <1>1, <1>2, <1>3, <1>4 DEF Local!Next

\* For any vouchers, members, keys and queue: one voucher is created for each key and one
\* version added for each key that moved it, posted vouchers are numbered without a gap, a voucher is
\* reversed exactly when its one reversal is in the journal, and nobody approves their own
\* (repository.ts: InMemoryMesaErpRepository).
THEOREM LocalLedgerSound ==
    Local!Spec => [](Local!OncePerKey /\ Local!NumbersGapless /\ Local!ReversedOnce /\ Local!TwoMembers)
<1>1. Local!Init => LocalInv
  BY InitLocal, CompanyAssumption
<1>2. LocalInv /\ [Local!Next]_(Local!vars) => LocalInv'
  BY NextLocal, CompanyAssumption DEF Local!vars, localVars
<1>3. LocalInv => Local!OncePerKey /\ Local!NumbersGapless /\ Local!ReversedOnce /\ Local!TwoMembers
  BY LedgerSound, CompanyAssumption DEF LocalInv
<1> QED BY <1>1, <1>2, <1>3, PTL DEF Local!Spec

-----------------------------------------------------------------------------
(* CompanyAccess.                                                          *)

\* A page is of a role or an assignment there is, tells the role's version, and has
\* permissions chosen only for a role that may be changed.
PagesHold == \A m \in People : desk[m] # Nothing =>
    /\ desk[m].of \in Roles =>
         /\ role[desk[m].of] # Nothing /\ desk[m].version <= role[desk[m].of].version
         /\ desk[m].version = role[desk[m].of].version => desk[m].seen = role[desk[m].of].allow
    /\ desk[m].of \in Assignments => assignment[desk[m].of] # Nothing
    /\ desk[m].chosen # Nothing => desk[m].of \in Roles /\ ~role[desk[m].of].system
DeniesSeeded == \A r \in Roles : role[r] # Nothing /\ ~role[r].system => role[r].deny = {}
RolesThere == \A a \in Assignments : assignment[a] # Nothing => role[assignment[a].role] # Nothing

\* Requests that do not overlap: one choice at a time, still not one its maker needs another for.
Chosen(m) == desk[m] # Nothing /\ desk[m].chosen # Nothing
OneChoice == \A m, n \in People : Chosen(m) /\ Chosen(n) => m = n
ChoiceStands == \A m \in People :
    Chosen(m) /\ role[desk[m].of].version = desk[m].version
      => ~Access!NeedsAnother(m, desk[m].of, desk[m].chosen)

AccessInv ==
    /\ Access!TypeOK /\ PagesHold /\ DeniesSeeded /\ RolesThere /\ Access!AssignmentsBound
    /\ ~Overlap => OneChoice /\ ChoiceStands /\ ~selfmade

\* A delegation or a role that permits something also shows the company.
LEMMA PermittedVisible == Access!AccessAssumption => Access!VisibleWhenPermitted
<1> SUFFICES ASSUME Access!AccessAssumption, NEW m \in People, NEW c \in company, NEW k \in Permissions,
                    Access!Permitted(m, c, k)
             PROVE  Access!Visible(m, c)
  BY DEF Access!VisibleWhenPermitted, Access!Entities
<1>1. CASE k \in Access!Held(m, c)
  BY <1>1 DEF Access!Visible
<1>2. CASE \E d \in Access!Delegators(m, c) : d.keys \cap {k, Wildcard} # {} /\ k \in Access!Held(d.from, c)
  <2>1. PICK d \in Access!Delegators(m, c) : d.keys \cap {k, Wildcard} # {} /\ k \in Access!Held(d.from, c)
    BY <1>2
  <2>2. Access!Held(d.from, c) # {} /\ k # Wildcard
    BY <2>1 DEF Access!AccessAssumption
  <2>3. CASE Wildcard \in d.keys
    BY <2>2, <2>3 DEF Access!Visible
  <2>4. CASE k \in d.keys
    BY <2>1, <2>2, <2>4 DEF Access!Visible
  <2> QED BY <2>1, <2>3, <2>4
<1> QED BY <1>1, <1>2 DEF Access!Permitted

\* AccessInv holds before anyone was invited.
LEMMA InitAccess == Access!AccessAssumption /\ Access!Init => AccessInv
<1> SUFFICES ASSUME Access!AccessAssumption, Access!Init PROVE AccessInv
  OBVIOUS
<1>1. Access!TypeOK
  <2>1. role \in [Roles -> Access!RoleRows \cup {Nothing}]
        /\ assignment \in [Assignments -> Access!AssignmentRows \cup {Nothing}]
    BY DEF Access!Init, Access!AccessAssumption
  <2>2. desk \in [People -> Access!Pages \cup {Nothing}]
    BY DEF Access!Init
  <2>3. changes \in 0 .. MaxChanges
    BY DEF Access!Init, Access!AccessAssumption
  <2> QED BY <2>1, <2>2, <2>3 DEF Access!Init, Access!TypeOK
<1>2. PagesHold /\ OneChoice /\ ChoiceStands
  BY DEF Access!Init, PagesHold, OneChoice, ChoiceStands, Chosen
<1> QED BY <1>1, <1>2 DEF Access!Init, Access!AccessAssumption, AccessInv, DeniesSeeded, RolesThere, Access!AssignmentsBound

\* Roles are added, pages closed, and nobody with a choice comes to use a role.
LEMMA AccessGrows ==
    ASSUME Access!AccessAssumption, AccessInv, Access!TypeOK', UNCHANGED selfmade,
           \A r \in Roles : role[r] # Nothing => role'[r] = role[r],
           \A r \in Roles : role[r] = Nothing /\ role'[r] # Nothing => role'[r].deny = {},
           \A m \in People : desk'[m] # Nothing => desk'[m] = desk[m],
           \A a \in Assignments : assignment[a] # Nothing =>
              assignment'[a] # Nothing /\ assignment'[a].role = assignment[a].role,
           \A a \in Assignments : assignment[a] = Nothing /\ assignment'[a] # Nothing =>
              role'[assignment'[a].role] # Nothing,
           Access!AssignmentsBound',
           ~Overlap => \A m \in People, r \in Roles : Chosen(m)' /\ Access!Uses(m, r)' => Access!Uses(m, r)
    PROVE  AccessInv'
<1>1. /\ \A m \in People : desk[m] # Nothing => desk[m].of \in Roles \cup Assignments
      /\ \A a \in Assignments : assignment[a] # Nothing => assignment[a].role \in Roles
  BY DEF AccessInv, Access!TypeOK, Access!Pages, Access!AssignmentRows
<1>2. PagesHold'
  <2> SUFFICES ASSUME NEW m \in People, desk'[m] # Nothing
               PROVE  /\ desk'[m].of \in Roles =>
                           /\ role'[desk'[m].of] # Nothing /\ desk'[m].version <= role'[desk'[m].of].version
                           /\ desk'[m].version = role'[desk'[m].of].version => desk'[m].seen = role'[desk'[m].of].allow
                      /\ desk'[m].of \in Assignments => assignment'[desk'[m].of] # Nothing
                      /\ desk'[m].chosen # Nothing => desk'[m].of \in Roles /\ ~role'[desk'[m].of].system
    BY DEF PagesHold
  <2>1. desk'[m] = desk[m] /\ desk[m] # Nothing
    OBVIOUS
  <2>2. /\ desk[m].of \in Roles =>
             /\ role[desk[m].of] # Nothing /\ desk[m].version <= role[desk[m].of].version
             /\ desk[m].version = role[desk[m].of].version => desk[m].seen = role[desk[m].of].allow
        /\ desk[m].of \in Assignments => assignment[desk[m].of] # Nothing
        /\ desk[m].chosen # Nothing => desk[m].of \in Roles /\ ~role[desk[m].of].system
    BY <2>1 DEF AccessInv, PagesHold
  <2> QED BY <2>1, <2>2
<1>3. DeniesSeeded'
  BY DEF AccessInv, DeniesSeeded
<1>4. RolesThere'
  BY <1>1 DEF AccessInv, RolesThere
<1>5. ASSUME ~Overlap PROVE OneChoice' /\ ChoiceStands' /\ ~selfmade'
  <2>1. OneChoice'
    BY <1>5 DEF AccessInv, OneChoice, Chosen
  <2>2. ChoiceStands'
    <3> SUFFICES ASSUME NEW m \in People, Chosen(m)', role'[desk'[m].of].version = desk'[m].version
                 PROVE  ~Access!NeedsAnother(m, desk[m].of, desk[m].chosen)'
      BY DEF ChoiceStands
    <3>1. desk'[m] = desk[m] /\ Chosen(m) /\ desk[m].of \in Roles /\ role[desk[m].of] # Nothing
      BY DEF AccessInv, PagesHold, Chosen
    <3>2. role'[desk[m].of] = role[desk[m].of]
      BY <3>1
    <3>3. ~Access!NeedsAnother(m, desk[m].of, desk[m].chosen)
      BY <1>5, <3>1, <3>2 DEF AccessInv, ChoiceStands
    <3> QED BY <1>5, <3>1, <3>2, <3>3 DEF Access!NeedsAnother
  <2> QED BY <1>5, <2>1, <2>2 DEF AccessInv
<1> QED BY <1>2, <1>3, <1>4, <1>5 DEF AccessInv

\* What a replaced row keeps.
LEMMA RoleReplaced ==
    ASSUME NEW old \in Access!RoleRows, NEW g \in SUBSET Permissions, NEW n \in Nat
    PROVE  [old EXCEPT !.allow = g, !.deny = {}, !.version = n] \in Access!RoleRows
  BY DEF Access!RoleRows

\* A revoked assignment.
LEMMA AssignmentRevoked ==
    ASSUME NEW old \in Access!AssignmentRows, NEW n \in Nat
    PROVE  LET new == [old EXCEPT !.status = "revoked", !.version = n]
           IN  /\ new \in Access!AssignmentRows /\ new.role = old.role
               /\ new.status = "revoked" /\ new.member = old.member
<1>1. [old EXCEPT !.status = "revoked", !.version = n] \in Access!AssignmentRows
  BY DEF Access!AssignmentRows
<1> QED BY <1>1 DEF Access!AssignmentRows

\* A write of checked permissions gives its maker nothing sensitive, while requests do not overlap.
LEMMA PermissionsWritten ==
    ASSUME Access!AccessAssumption, AccessInv, NEW m \in People, Access!WritePermissions(m)
    PROVE  AccessInv'
<1>1. PICK r \in Roles :
        /\ desk[m] # Nothing /\ desk[m].of = r /\ desk[m].chosen # Nothing
        /\ desk' = [desk EXCEPT ![m] = Nothing]
        /\ role' = IF role[r].version = desk[m].version
                   THEN [role EXCEPT ![r].allow = desk[m].chosen, ![r].deny = {}, ![r].version = @ + 1]
                   ELSE role
        /\ UNCHANGED <<company, assignment, delegated>>
        /\ selfmade' = (selfmade \/ \E c \in Access!Scopes : (Access!Held(m, c)' \ Access!Held(m, c)) \cap Sensitive # {})
        /\ changes' = changes + 1 /\ changes < MaxChanges
  BY DEF Access!WritePermissions, Access!Count
<1>2. /\ Access!TypeOK /\ PagesHold /\ RolesThere /\ DeniesSeeded /\ Access!AssignmentsBound
      /\ role[r] # Nothing /\ role[r] \in Access!RoleRows /\ ~role[r].system /\ role[r].deny = {}
      /\ desk[m] \in Access!Pages /\ desk[m].chosen \subseteq Permissions
  BY <1>1 DEF AccessInv, Access!TypeOK, PagesHold, DeniesSeeded, Access!Pages, Access!AccessAssumption
<1>3. desk'[m] = Nothing /\ \A n \in People \ {m} : desk'[n] = desk[n]
  BY <1>1, <1>2 DEF Access!TypeOK
<1>4. CASE role[r].version # desk[m].version
  <2>1. UNCHANGED <<company, role, assignment, delegated>>
    BY <1>1, <1>4
  <2>2. \A c : Access!Held(m, c)' = Access!Held(m, c)
    BY <2>1 DEF Access!Held, Access!Allowed, Access!Denied, Access!Counting
  <2>3. UNCHANGED selfmade
    BY <1>1, <1>2, <2>2 DEF Access!TypeOK
  <2>4. Access!AssignmentsBound'
    BY <1>2, <2>1 DEF Access!AssignmentsBound, Access!Bound
  <2>5. Access!TypeOK'
    <3>1. changes' \in 0 .. MaxChanges
      BY <1>1, <1>2 DEF Access!TypeOK, Access!AccessAssumption
    <3>2. desk' \in [People -> Access!Pages \cup {Nothing}]
      BY <1>1, <1>2 DEF Access!TypeOK
    <3> QED BY <1>2, <2>1, <2>3, <3>1, <3>2 DEF Access!TypeOK
  <2> QED BY <1>3, <2>1, <2>3, <2>4, <2>5, AccessGrows DEF Access!Uses
<1>5. CASE role[r].version = desk[m].version
  <2> DEFINE new == [role[r] EXCEPT !.allow = desk[m].chosen, !.deny = {}, !.version = @ + 1]
  <2>1. /\ new \in Access!RoleRows /\ new.company = role[r].company /\ new.allow = desk[m].chosen
        /\ new.deny = {} /\ new.version = role[r].version + 1 /\ new.system = role[r].system /\ new # Nothing
    <3>1. role[r].version + 1 \in Nat /\ desk[m].chosen \in SUBSET Permissions
      BY <1>2 DEF Access!RoleRows
    <3>2. Nothing \notin Access!RoleRows
      BY DEF Access!AccessAssumption
    <3>3. role[r] \in Access!RoleRows
      BY <1>2
    <3>4. /\ new \in Access!RoleRows /\ new.company = role[r].company /\ new.allow = desk[m].chosen
          /\ new.deny = {} /\ new.version = role[r].version + 1 /\ new.system = role[r].system
      <4> DEFINE old == role[r]
                 g == desk[m].chosen
                 n == old.version + 1
      <4>1. old \in Access!RoleRows /\ g \in SUBSET Permissions /\ n \in Nat
        BY <3>1, <3>3
      <4>2. new = [old EXCEPT !.allow = g, !.deny = {}, !.version = n]
        OBVIOUS
      <4> HIDE DEF old, g, n, new
      <4>3. /\ new \in Access!RoleRows /\ new.company = old.company /\ new.allow = g
            /\ new.deny = {} /\ new.version = n /\ new.system = old.system
        <5>1. new \in Access!RoleRows
          BY <4>1, <4>2, RoleReplaced
        <5>2. new.company = old.company /\ new.allow = g
          BY <4>1, <4>2 DEF Access!RoleRows
        <5>3. new.deny = {} /\ new.version = n
          BY <4>1, <4>2 DEF Access!RoleRows
        <5>4. new.system = old.system
          BY <4>1, <4>2 DEF Access!RoleRows
        <5> QED BY <5>1, <5>2, <5>3, <5>4
      <4> QED BY <4>3 DEF old, g, n
    <3> QED BY <3>2, <3>4
  <2>2. role' = [role EXCEPT ![r] = new]
    BY <1>1, <1>2, <1>5 DEF Access!TypeOK, Access!RoleRows
  <2> HIDE DEF new
  <2>3. role'[r] = new /\ \A q \in Roles \ {r} : role'[q] = role[q]
    BY <1>2, <2>2 DEF Access!TypeOK
  <2>4. /\ \A q \in Roles : role'[q].company = role[q].company
        /\ \A q \in Roles : role[q] # Nothing => role'[q] # Nothing /\ role'[q].system = role[q].system
        /\ \A q \in Roles : role'[q].deny = role[q].deny
    BY <1>2, <2>1, <2>3
  <2>5. \A a \in Assignments : assignment[a] # Nothing => assignment[a].role \in Roles
    BY <1>2 DEF Access!TypeOK, Access!AssignmentRows
  <2>6. Access!TypeOK'
    <3>1. role' \in [Roles -> Access!RoleRows \cup {Nothing}]
      BY <1>2, <2>1, <2>2 DEF Access!TypeOK
    <3>2. selfmade' \in BOOLEAN
      BY <1>1, <1>2 DEF Access!TypeOK
    <3> QED BY <1>1, <1>2, <3>1, <3>2 DEF Access!TypeOK, Access!AccessAssumption
  <2>7. Access!AssignmentsBound'
    BY <1>1, <1>2, <2>4, <2>5 DEF Access!AssignmentsBound, Access!Bound
  <2>8. DeniesSeeded' /\ RolesThere'
    BY <1>1, <1>2, <2>1, <2>3, <2>4, <2>5 DEF DeniesSeeded, RolesThere
  <2>9. PagesHold'
    <3> SUFFICES ASSUME NEW n \in People, desk'[n] # Nothing
                 PROVE  /\ desk'[n].of \in Roles =>
                             /\ role'[desk'[n].of] # Nothing /\ desk'[n].version <= role'[desk'[n].of].version
                             /\ desk'[n].version = role'[desk'[n].of].version => desk'[n].seen = role'[desk'[n].of].allow
                        /\ desk'[n].of \in Assignments => assignment[desk'[n].of] # Nothing
                        /\ desk'[n].chosen # Nothing => desk'[n].of \in Roles /\ ~role'[desk'[n].of].system
      BY <1>1 DEF PagesHold
    <3>1. /\ desk'[n] = desk[n] /\ desk[n] \in Access!Pages /\ desk[n].version \in Nat /\ role[r].version \in Nat
      BY <1>2, <1>3 DEF Access!TypeOK, Access!Pages, Access!RoleRows
    <3>2. CASE desk[n].of = r
      BY <1>2, <2>1, <2>3, <3>1, <3>2 DEF PagesHold
    <3>3. CASE desk[n].of # r
      BY <1>2, <2>3, <3>1, <3>3 DEF PagesHold
    <3> QED BY <3>2, <3>3
  <2>10. ASSUME ~Overlap PROVE OneChoice' /\ ChoiceStands' /\ ~selfmade'
    <3>1. \A n \in People : ~Chosen(n)'
      BY <1>1, <1>3, <2>10 DEF AccessInv, OneChoice, Chosen
    <3>2. ~Access!NeedsAnother(m, r, desk[m].chosen)
      BY <1>1, <1>5, <2>10 DEF AccessInv, ChoiceStands, Chosen
    <3>3. ASSUME NEW c \in Access!Scopes, NEW k \in Sensitive, k \in Access!Held(m, c)'
          PROVE  k \in Access!Held(m, c)
      <4>1. Access!Counting(m, c)' = Access!Counting(m, c)
        <5>1. \A a \in Assignments : assignment[a] # Nothing =>
                role'[assignment[a].role].company = role[assignment[a].role].company
          BY <2>4, <2>5
        <5>2. assignment' = assignment
          BY <1>1
        <5> QED BY <5>1, <5>2 DEF Access!Counting
      <4>2. \A a \in Access!Counting(m, c) : a \in Assignments /\ assignment[a] # Nothing /\ assignment[a].role \in Roles
        BY <2>5 DEF Access!Counting
      <4>3. k \notin Access!Denied(m, c)
        <5>1. assignment' = assignment
          BY <1>1
        <5>2. \A a \in Access!Counting(m, c) : role'[assignment[a].role].deny = role[assignment[a].role].deny
          BY <2>4, <4>2
        <5>3. Access!Denied(m, c)' = UNION {role'[assignment[a].role].deny : a \in Access!Counting(m, c)}
          BY <4>1, <5>1 DEF Access!Denied
        <5>4. {role'[assignment[a].role].deny : a \in Access!Counting(m, c)}
                = {role[assignment[a].role].deny : a \in Access!Counting(m, c)}
          BY <5>2
        <5>5. Access!Denied(m, c)' = Access!Denied(m, c)
          BY <5>3, <5>4 DEF Access!Denied
        <5> QED BY <3>3, <5>5 DEF Access!Held
      <4>4. PICK a \in Access!Counting(m, c) : k \in role'[assignment[a].role].allow
        BY <1>1, <3>3, <4>1 DEF Access!Held, Access!Allowed
      <4>5. k \in role[assignment[a].role].allow
        <5>1. CASE assignment[a].role = r
          BY <2>1, <2>3, <3>2, <4>4, <5>1 DEF Access!NeedsAnother, Access!Uses, Access!Counting
        <5>2. CASE assignment[a].role # r
          BY <2>3, <4>2, <4>4, <5>2
        <5> QED BY <5>1, <5>2
      <4> QED BY <4>3, <4>4, <4>5 DEF Access!Held, Access!Allowed
    <3>4. ~selfmade'
      BY <1>1, <2>10, <3>3 DEF AccessInv
    <3> QED BY <3>1, <3>4 DEF OneChoice, ChoiceStands
  <2> QED BY <2>6, <2>7, <2>8, <2>9, <2>10 DEF AccessInv
<1> QED BY <1>4, <1>5

\* AccessInv is inductive.
LEMMA NextAccess == Access!AccessAssumption /\ AccessInv /\ [Access!Next]_accessVars => AccessInv'
<1> SUFFICES ASSUME Access!AccessAssumption, AccessInv, [Access!Next]_accessVars PROVE AccessInv'
  OBVIOUS
<1>a. /\ Access!TypeOK /\ PagesHold /\ RolesThere /\ Access!AssignmentsBound
      /\ \A r \in Roles : role[r] # Nothing => role[r] \in Access!RoleRows
      /\ \A a \in Assignments : assignment[a] # Nothing => assignment[a] \in Access!AssignmentRows
      /\ \A m \in People : desk[m] # Nothing => desk[m] \in Access!Pages
  BY DEF AccessInv, Access!TypeOK
<1>b. /\ Nothing \notin Access!RoleRows /\ Nothing \notin Access!AssignmentRows
      /\ Nothing \notin Access!Pages /\ Nothing \notin Grants
      /\ \A g \in Grants : g \subseteq Permissions
  BY DEF Access!AccessAssumption
<1>1. ASSUME NEW m \in People, NEW c \in Companies, NEW r \in Roles, NEW a \in Assignments,
             Access!CreateCompany(m, c, r, a)
      PROVE  AccessInv'
  <2> DEFINE newRole == Access!NewRole(c, Permissions)
             newAssignment == Access!NewAssignment(m, r, c, "open")
  <2>1. /\ newRole \in Access!RoleRows /\ newRole.company = c /\ newRole.deny = {} /\ newRole # Nothing
        /\ newAssignment \in Access!AssignmentRows /\ newAssignment # Nothing /\ newAssignment.company = c
        /\ newAssignment.member = m /\ newAssignment.role = r
    <3>1. newRole \in Access!RoleRows
      BY DEF Access!NewRole, Access!RoleRows, Access!Scopes
    <3>2. newAssignment \in Access!AssignmentRows
      BY DEF Access!NewAssignment, Access!AssignmentRows, Access!Scopes, Access!Windows
    <3>3. newRole # Nothing /\ newAssignment # Nothing
      BY <1>b, <3>1, <3>2
    <3> QED BY <3>1, <3>2, <3>3 DEF Access!NewRole, Access!NewAssignment
  <2> HIDE DEF newRole, newAssignment
  <2>2. /\ role[r] = Nothing /\ assignment[a] = Nothing
        /\ role' = [role EXCEPT ![r] = newRole] /\ assignment' = [assignment EXCEPT ![a] = newAssignment]
        /\ company' = company \cup {c} /\ changes' = changes + 1 /\ changes < MaxChanges
        /\ UNCHANGED <<delegated, desk, selfmade>> /\ Access!Alone
    BY <1>1 DEF Access!CreateCompany, Access!Count, newRole, newAssignment
  <2>3. /\ role'[r] = newRole /\ \A q \in Roles \ {r} : role'[q] = role[q]
        /\ assignment'[a] = newAssignment /\ \A b \in Assignments \ {a} : assignment'[b] = assignment[b]
    BY <1>a, <2>2 DEF Access!TypeOK
  <2>4. Access!TypeOK'
    BY <1>a, <2>1, <2>2 DEF Access!TypeOK, Access!AccessAssumption
  <2>5. \A b \in Assignments : assignment[b] # Nothing => assignment[b].role \in Roles \ {r}
    BY <1>a, <2>2 DEF RolesThere, Access!AssignmentRows
  <2>6. Access!AssignmentsBound'
    BY <1>a, <2>1, <2>3, <2>5 DEF Access!AssignmentsBound, Access!Bound
  <2>7. ~Overlap => \A n \in People : ~Chosen(n)'
    BY <2>2 DEF Access!Alone, Chosen
  <2> QED BY <2>1, <2>2, <2>3, <2>4, <2>5, <2>6, <2>7, AccessGrows
<1>2. ASSUME NEW m \in People, NEW c \in Companies, NEW r \in Roles, NEW g \in Grants,
             Access!CreateRole(m, c, r, g)
      PROVE  AccessInv'
  <2> DEFINE newRole == Access!NewRole(c, g)
  <2>1. newRole \in Access!RoleRows /\ newRole.deny = {} /\ newRole # Nothing
    <3>1. newRole \in Access!RoleRows
      BY <1>b DEF Access!NewRole, Access!RoleRows, Access!Scopes
    <3>2. newRole # Nothing
      BY <1>b, <3>1
    <3> QED BY <3>1, <3>2 DEF Access!NewRole
  <2> HIDE DEF newRole
  <2>2. /\ role[r] = Nothing /\ role' = [role EXCEPT ![r] = newRole]
        /\ changes' = changes + 1 /\ changes < MaxChanges
        /\ UNCHANGED <<company, assignment, delegated, desk, selfmade>> /\ Access!Alone
    BY <1>2 DEF Access!CreateRole, Access!Count, newRole
  <2>3. role'[r] = newRole /\ \A q \in Roles \ {r} : role'[q] = role[q]
    BY <1>a, <2>2 DEF Access!TypeOK
  <2>4. Access!TypeOK'
    BY <1>a, <2>1, <2>2 DEF Access!TypeOK, Access!AccessAssumption
  <2>5. \A b \in Assignments : assignment[b] # Nothing => assignment[b].role \in Roles \ {r}
    BY <1>a, <2>2 DEF RolesThere, Access!AssignmentRows
  <2>6. Access!AssignmentsBound'
    BY <1>a, <2>2, <2>3, <2>5 DEF Access!AssignmentsBound, Access!Bound
  <2>7. ~Overlap => \A n \in People : ~Chosen(n)'
    BY <2>2 DEF Access!Alone, Chosen
  <2> QED BY <2>1, <2>2, <2>3, <2>4, <2>5, <2>6, <2>7, AccessGrows
<1>3. ASSUME NEW m \in People, NEW other \in People, NEW r \in Roles, NEW a \in Assignments,
             NEW w \in {"coming", "open"}, Access!AssignRole(m, other, r, a, w)
      PROVE  AccessInv'
  <2> DEFINE new == Access!NewAssignment(other, r, role[r].company, w)
  <2>1. /\ role[r] # Nothing /\ assignment[a] = Nothing /\ assignment' = [assignment EXCEPT ![a] = new]
        /\ changes' = changes + 1 /\ changes < MaxChanges /\ ~Access!Uses(other, r)
        /\ UNCHANGED <<company, role, delegated, desk, selfmade>> /\ Access!Alone
    BY <1>3 DEF Access!AssignRole, Access!Count
  <2>2. /\ new \in Access!AssignmentRows /\ new # Nothing /\ new.company = role[r].company
        /\ new.member = other /\ new.role = r
    BY <1>a, <2>1 DEF Access!NewAssignment, Access!RoleRows, Access!AssignmentRows,
                      Access!Windows, Access!AccessAssumption
  <2> HIDE DEF new
  <2>3. assignment'[a] = new /\ \A b \in Assignments \ {a} : assignment'[b] = assignment[b]
    BY <1>a, <2>1 DEF Access!TypeOK
  <2>4. Access!TypeOK'
    BY <1>a, <2>1, <2>2 DEF Access!TypeOK, Access!AccessAssumption
  <2>5. Access!AssignmentsBound'
    BY <1>a, <2>1, <2>2, <2>3 DEF Access!AssignmentsBound, Access!Bound, Access!Uses
  <2>6. ~Overlap => \A n \in People : ~Chosen(n)'
    BY <2>1 DEF Access!Alone, Chosen
  <2> QED BY <2>1, <2>2, <2>3, <2>4, <2>5, <2>6, AccessGrows
<1>4. ASSUME NEW m \in People, Access!RevokeRole(m) PROVE AccessInv'
  <2> DEFINE a == desk[m].of
             new == [assignment[a] EXCEPT !.status = "revoked", !.version = @ + 1]
  <2>1. /\ desk[m] # Nothing /\ a \in Assignments /\ assignment[a] # Nothing
        /\ changes' = changes + 1 /\ changes < MaxChanges
        /\ UNCHANGED <<company, role, delegated, selfmade>> /\ Access!Alone
        /\ desk' = [desk EXCEPT ![m] = Nothing]
    BY <1>4, <1>a DEF Access!RevokeRole, Access!Count, PagesHold
  <2>2. /\ new \in Access!AssignmentRows /\ new.role = assignment[a].role /\ new.status = "revoked"
        /\ new.member = assignment[a].member /\ new # Nothing
    <3>1. assignment[a] \in Access!AssignmentRows /\ assignment[a].version + 1 \in Nat
      BY <1>a, <2>1 DEF Access!AssignmentRows
    <3> QED BY <1>b, <3>1, AssignmentRevoked
  <2>3. assignment' = [assignment EXCEPT ![a] = new]
    BY <1>4, <1>a, <2>1 DEF Access!RevokeRole, Access!TypeOK, Access!AssignmentRows
  <2> HIDE DEF new, a
  <2>4. /\ assignment'[a] = new /\ \A b \in Assignments \ {a} : assignment'[b] = assignment[b]
        /\ desk'[m] = Nothing /\ \A n \in People \ {m} : desk'[n] = desk[n]
    BY <1>a, <2>1, <2>3 DEF Access!TypeOK
  <2>5. Access!TypeOK'
    BY <1>a, <2>1, <2>2, <2>3 DEF Access!TypeOK, Access!AccessAssumption
  <2>6. Access!AssignmentsBound'
    BY <1>a, <2>1, <2>2, <2>4 DEF Access!AssignmentsBound, Access!Bound
  <2>7. ~Overlap => \A n \in People : ~Chosen(n)'
    BY <2>1, <2>4 DEF Access!Alone, Chosen
  <2>8. \A b \in Assignments : assignment[b] # Nothing =>
          assignment'[b] # Nothing /\ assignment'[b].role = assignment[b].role
    BY <2>2, <2>4
  <2>9. \A b \in Assignments : ~(assignment[b] = Nothing /\ assignment'[b] # Nothing)
    BY <2>1, <2>4
  <2> QED BY <2>1, <2>4, <2>5, <2>6, <2>7, <2>8, <2>9, AccessGrows
<1>5. ASSUME NEW a \in Assignments, Access!TimePasses(a) PROVE AccessInv'
  <2>1. /\ assignment[a] # Nothing /\ changes' = changes + 1 /\ changes < MaxChanges
        /\ UNCHANGED <<company, role, delegated, desk, selfmade>>
    BY <1>5 DEF Access!TimePasses, Access!Count
  <2>2. PICK w \in Access!Windows : assignment' = [assignment EXCEPT ![a].window = w]
    BY <1>5 DEF Access!TimePasses, Access!Windows
  <2> DEFINE new == [assignment[a] EXCEPT !.window = w]
  <2>3. /\ new \in Access!AssignmentRows /\ new.role = assignment[a].role /\ new.status = assignment[a].status
        /\ new.member = assignment[a].member /\ new.company = assignment[a].company /\ new # Nothing
    BY <1>a, <2>1 DEF Access!AssignmentRows, Access!AccessAssumption
  <2>4. assignment' = [assignment EXCEPT ![a] = new]
    BY <1>a, <2>1, <2>2 DEF Access!TypeOK, Access!AssignmentRows
  <2> HIDE DEF new
  <2>5. assignment'[a] = new /\ \A b \in Assignments \ {a} : assignment'[b] = assignment[b]
    BY <1>a, <2>1, <2>4 DEF Access!TypeOK
  <2>6. Access!TypeOK'
    BY <1>a, <2>1, <2>3, <2>4 DEF Access!TypeOK, Access!AccessAssumption
  <2>7. Access!AssignmentsBound'
    BY <1>a, <2>1, <2>3, <2>5 DEF Access!AssignmentsBound, Access!Bound
  <2>8. \A n \in People, r \in Roles : Access!Uses(n, r)' => Access!Uses(n, r)
    BY <2>1, <2>3, <2>5 DEF Access!Uses
  <2>9. \A b \in Assignments : /\ assignment[b] # Nothing =>
                                    assignment'[b] # Nothing /\ assignment'[b].role = assignment[b].role
                               /\ ~(assignment[b] = Nothing /\ assignment'[b] # Nothing)
    BY <2>1, <2>3, <2>5
  <2> QED BY <2>1, <2>6, <2>7, <2>8, <2>9, AccessGrows
<1>6. ASSUME NEW d \in Delegations, Access!Delegate(d) PROVE AccessInv'
  <2>1. /\ changes' = changes + 1 /\ changes < MaxChanges /\ delegated' \subseteq delegated \cup {d}
        /\ UNCHANGED <<company, role, assignment, desk, selfmade>>
    BY <1>6 DEF Access!Delegate, Access!Count
  <2>2. Access!TypeOK' /\ Access!AssignmentsBound'
    BY <1>a, <2>1 DEF Access!TypeOK, Access!AssignmentsBound, Access!Bound, Access!AccessAssumption
  <2> QED BY <2>1, <2>2, AccessGrows DEF Access!Uses
<1>7. ASSUME NEW m \in People, Access!Close(m) PROVE AccessInv'
  <2>1. /\ desk' = [desk EXCEPT ![m] = Nothing]
        /\ UNCHANGED <<company, role, assignment, delegated, selfmade, changes>>
    BY <1>7 DEF Access!Close
  <2>2. \A n \in People : desk'[n] # Nothing => desk'[n] = desk[n]
    BY <1>a, <2>1 DEF Access!TypeOK
  <2>3. Access!TypeOK' /\ Access!AssignmentsBound'
    BY <1>a, <2>1 DEF Access!TypeOK, Access!AssignmentsBound, Access!Bound
  <2> QED BY <1>a, <2>1, <2>2, <2>3, AccessGrows DEF Access!Uses
<1>8. ASSUME NEW m \in People, NEW x \in Roles \cup Assignments, NEW page,
             page.of = x, page.chosen = Nothing, page \in Access!Pages, desk[m] = Nothing,
             x \in Roles => role[x] # Nothing /\ page.version = role[x].version /\ page.seen = role[x].allow,
             x \in Assignments => assignment[x] # Nothing,
             desk' = [desk EXCEPT ![m] = page],
             UNCHANGED <<company, role, assignment, delegated, selfmade, changes>>
      PROVE  AccessInv'
  <2>1. desk'[m] = page /\ \A n \in People \ {m} : desk'[n] = desk[n]
    BY <1>a, <1>8 DEF Access!TypeOK
  <2>2. Access!TypeOK' /\ Access!AssignmentsBound' /\ DeniesSeeded' /\ RolesThere'
    BY <1>a, <1>8 DEF AccessInv, Access!TypeOK, Access!AssignmentsBound, Access!Bound, DeniesSeeded, RolesThere
  <2>3. x \in Roles => page.version <= role[x].version
    BY <1>a, <1>8 DEF Access!RoleRows
  <2>4. PagesHold'
    <3> SUFFICES ASSUME NEW n \in People, desk'[n] # Nothing
                 PROVE  /\ desk'[n].of \in Roles =>
                             /\ role[desk'[n].of] # Nothing /\ desk'[n].version <= role[desk'[n].of].version
                             /\ desk'[n].version = role[desk'[n].of].version => desk'[n].seen = role[desk'[n].of].allow
                        /\ desk'[n].of \in Assignments => assignment[desk'[n].of] # Nothing
                        /\ desk'[n].chosen # Nothing => desk'[n].of \in Roles /\ ~role[desk'[n].of].system
      BY <1>8 DEF PagesHold
    <3>1. CASE n = m
      BY <1>8, <2>1, <2>3, <3>1
    <3>2. CASE n # m
      BY <1>a, <2>1, <3>2 DEF PagesHold
    <3> QED BY <3>1, <3>2
  <2>5. \A n \in People : Chosen(n)' => Chosen(n) /\ desk'[n] = desk[n]
    BY <1>8, <2>1 DEF Chosen
  <2>6. ASSUME ~Overlap PROVE OneChoice' /\ ChoiceStands' /\ ~selfmade'
    <3>1. OneChoice'
      BY <2>5, <2>6 DEF AccessInv, OneChoice
    <3>2. ChoiceStands'
      BY <1>8, <2>5, <2>6 DEF AccessInv, ChoiceStands, Access!NeedsAnother, Access!Uses
    <3> QED BY <1>8, <2>6, <3>1, <3>2 DEF AccessInv
  <2> QED BY <2>2, <2>4, <2>6 DEF AccessInv
<1>9. ASSUME NEW m \in People, NEW r \in Roles, Access!OpenRole(m, r) PROVE AccessInv'
  <2> DEFINE page == [of |-> r, version |-> role[r].version, seen |-> role[r].allow, chosen |-> Nothing]
  <2>1. page \in Access!Pages
    BY <1>9, <1>a DEF Access!OpenRole, Access!Pages, Access!RoleRows
  <2>2. r \notin Assignments
    BY DEF Access!AccessAssumption
  <2> QED BY <1>8, <1>9, <2>1, <2>2 DEF Access!OpenRole
<1>10. ASSUME NEW m \in People, NEW a \in Assignments, Access!OpenAssignment(m, a) PROVE AccessInv'
  <2> DEFINE page == [of |-> a, version |-> assignment[a].version, seen |-> {}, chosen |-> Nothing]
  <2>1. page \in Access!Pages
    BY <1>10, <1>a DEF Access!OpenAssignment, Access!Pages, Access!AssignmentRows
  <2>2. a \notin Roles
    BY DEF Access!AccessAssumption
  <2> QED BY <1>8, <1>10, <2>1, <2>2 DEF Access!OpenAssignment
<1>11. ASSUME NEW m \in People, NEW g \in Grants, Access!CheckPermissions(m, g) PROVE AccessInv'
  <2>1. /\ desk[m] # Nothing /\ desk[m].of \in Roles /\ desk[m].chosen = Nothing /\ Access!Alone
        /\ ~role[desk[m].of].system /\ role[desk[m].of].version = desk[m].version
        /\ ~Access!NeedsAnother(m, desk[m].of, g)
        /\ UNCHANGED <<company, role, assignment, delegated, selfmade, changes>>
    BY <1>11 DEF Access!CheckPermissions
  <2> DEFINE new == [desk[m] EXCEPT !.chosen = g]
  <2>2. /\ new \in Access!Pages /\ new.of = desk[m].of /\ new.version = desk[m].version
        /\ new.seen = desk[m].seen /\ new.chosen = g
    BY <1>a, <2>1 DEF Access!Pages
  <2>3. desk' = [desk EXCEPT ![m] = new]
    BY <1>11 DEF Access!CheckPermissions
  <2> HIDE DEF new
  <2>4. desk'[m] = new /\ \A n \in People \ {m} : desk'[n] = desk[n]
    BY <1>a, <2>3 DEF Access!TypeOK
  <2>5. Access!TypeOK' /\ Access!AssignmentsBound' /\ DeniesSeeded' /\ RolesThere'
    BY <1>a, <2>1, <2>2, <2>3 DEF AccessInv, Access!TypeOK, Access!AssignmentsBound, Access!Bound, DeniesSeeded, RolesThere
  <2>6. PagesHold'
    <3> SUFFICES ASSUME NEW n \in People, desk'[n] # Nothing
                 PROVE  /\ desk'[n].of \in Roles =>
                             /\ role[desk'[n].of] # Nothing /\ desk'[n].version <= role[desk'[n].of].version
                             /\ desk'[n].version = role[desk'[n].of].version => desk'[n].seen = role[desk'[n].of].allow
                        /\ desk'[n].of \in Assignments => assignment[desk'[n].of] # Nothing
                        /\ desk'[n].chosen # Nothing => desk'[n].of \in Roles /\ ~role[desk'[n].of].system
      BY <2>1 DEF PagesHold
    <3>1. CASE n = m
      BY <1>a, <2>1, <2>2, <2>4, <3>1 DEF PagesHold
    <3>2. CASE n # m
      BY <1>a, <2>4, <3>2 DEF PagesHold
    <3> QED BY <3>1, <3>2
  <2>7. ASSUME ~Overlap PROVE OneChoice' /\ ChoiceStands' /\ ~selfmade'
    <3>1. \A n \in People : Chosen(n)' => n = m
      BY <2>1, <2>4, <2>7 DEF Access!Alone, Chosen
    <3>2. OneChoice'
      BY <3>1 DEF OneChoice
    <3>3. ~Access!NeedsAnother(m, desk'[m].of, desk'[m].chosen)
      BY <2>1, <2>2, <2>4
    <3>4. ChoiceStands'
      BY <2>1, <3>1, <3>3 DEF ChoiceStands, Access!NeedsAnother, Access!Uses
    <3> QED BY <2>1, <2>7, <3>2, <3>4 DEF AccessInv
  <2> QED BY <2>5, <2>6, <2>7 DEF AccessInv
<1>12. ASSUME NEW m \in People, Access!WritePermissions(m) PROVE AccessInv'
  BY <1>12, <1>a, PermissionsWritten
<1>13. CASE UNCHANGED accessVars
  <2>1. Access!TypeOK' /\ Access!AssignmentsBound'
    BY <1>13, <1>a DEF accessVars, Access!TypeOK, Access!AssignmentsBound, Access!Bound
  <2> QED BY <1>13, <2>1, AccessGrows DEF accessVars, Access!Uses
<1> QED BY <1>1, <1>2, <1>3, <1>4, <1>5, <1>6, <1>7, <1>9, <1>10, <1>11, <1>12, <1>13 DEF Access!Next

\* For any company, roles, assignments and delegations: a company is in the list of whoever
\* may use a permission there, a page that tells the current version tells the current permissions,
\* active assignments are to roles of their company and not twice, and while requests do not overlap
\* nobody's own change gives them a sensitive permission (vendorAccessService.ts, access.ts).
THEOREM AccessKept ==
    Access!Spec => [](/\ Access!VisibleWhenPermitted /\ Access!PagesTellVersions
                      /\ Access!AssignmentsBound /\ Access!NoSelfGrant)
<1>1. Access!Init => AccessInv
  BY InitAccess, CompanyAssumption
<1>2. AccessInv /\ [Access!Next]_(Access!vars) => AccessInv'
  BY NextAccess, CompanyAssumption DEF Access!vars, accessVars
<1>3. Access!VisibleWhenPermitted
  BY PermittedVisible, CompanyAssumption
<1>4. AccessInv => /\ Access!PagesTellVersions /\ Access!AssignmentsBound /\ Access!NoSelfGrant
  BY DEF AccessInv, PagesHold, Access!PagesTellVersions, Access!NoSelfGrant
<1> QED BY <1>1, <1>2, <1>3, <1>4, PTL DEF Access!Spec

-----------------------------------------------------------------------------
(* FixedAssets.                                                            *)

LEMMA RegisterCardinality == ASSUME NEW S PROVE Register!Cardinality(S) = Cardinality(S)
  BY Zenon DEF Register!Cardinality, Cardinality, Register!IsFiniteSet, IsFiniteSet

\* An event that was computed and has not taken effect was computed from its asset as it is.
EventFits(x) ==
    LET a == asset[x.asset] IN
    /\ a # Nothing /\ x.stage = "pending"
    /\ a.status = IF x.kind = "capitalization" THEN "under_construction" ELSE "active"
    /\ x.kind = "capitalization" => x.amount = a.cost
    /\ x.kind = "depreciation" => x.amount <= a.value - a.residual
    /\ x.kind = "impairment" => x.amount <= a.value

Waiting(e) == event[e] # Nothing /\ event[e].stage = "pending"

\* The row lock of the asset, and the look for pending events under it, let one event be under way.
OneUnderWay ==
    /\ \A m \in Members : proposing[m] # Nothing =>
         /\ EventFits(proposing[m].event)
         /\ \A e \in AssetEvents : Waiting(e) => event[e].asset # proposing[m].event.asset
         /\ \A n \in Members : (proposing[n] # Nothing /\ n # m) => proposing[n].event.asset # proposing[m].event.asset
    /\ \A e \in AssetEvents : Waiting(e) =>
         /\ EventFits(event[e])
         /\ \A f \in AssetEvents : (Waiting(f) /\ f # e) => event[f].asset # event[e].asset

\* The books of an asset, and what its accounts leave of its cost.
BooksTell(a) ==
    LET x == asset[a]
        b == books[a]
    IN  /\ (x = Nothing \/ x.status # "active") => b.cost = 0 /\ b.depreciation = 0 /\ b.impairment = 0
        /\ x # Nothing /\ x.status = "under_construction" =>
             x.depreciation = 0 /\ x.impairment = 0 /\ x.value = x.cost /\ x.residual <= x.cost
        /\ x # Nothing /\ x.status = "active" =>
             /\ b.cost = x.cost /\ b.depreciation = -x.depreciation /\ b.impairment = -x.impairment
             /\ x.cost - x.depreciation - x.impairment = x.value
             /\ x.value + x.impairment >= x.residual

AssetsInv == Register!TypeOK /\ OneUnderWay /\ (\A a \in Assets : BooksTell(a))

\* AssetsInv holds before any asset.
LEMMA InitAssets == Register!AssetsAssumption /\ Register!Init => AssetsInv
<1> SUFFICES ASSUME Register!AssetsAssumption, Register!Init PROVE AssetsInv
  OBVIOUS
<1>1. Register!TypeOK
  BY DEF Register!Init, Register!TypeOK, Register!Books
<1>2. OneUnderWay
  BY DEF Register!Init, OneUnderWay, Waiting
<1>3. \A a \in Assets : BooksTell(a)
  BY DEF Register!Init, BooksTell
<1> QED BY <1>1, <1>2, <1>3 DEF AssetsInv

\* A step that leaves the assets and the books alone.
LEMMA EventsMove ==
    ASSUME AssetsInv, UNCHANGED <<asset, books>>, Register!TypeOK', OneUnderWay'
    PROVE  AssetsInv'
  BY DEF AssetsInv, BooksTell

\* A proposal was computed from the asset, whose row is locked and which no event waits for.
LEMMA ProposalBegins ==
    ASSUME Register!AssetsAssumption, AssetsInv, NEW m \in Members, NEW a \in Assets, NEW x \in Register!Event,
           x.asset = a, EventFits(x), Register!AssetLockFree(a), ~Register!Pending(a),
           proposing' = [proposing EXCEPT ![m] = [event |-> x]], UNCHANGED <<asset, event, books>>
    PROVE  AssetsInv'
<1>1. PICK p \in [event : Register!Event] : p = [event |-> x] /\ p.event = x
  <2>1. [event |-> x] \in [event : Register!Event] /\ [event |-> x].event = x
    OBVIOUS
  <2> QED BY <2>1, Zenon
<1>2. proposing' = [proposing EXCEPT ![m] = p]
  BY <1>1
<1>3. Register!TypeOK'
  BY <1>2 DEF AssetsInv, Register!TypeOK
<1>4. \A e \in AssetEvents : Waiting(e) => event[e].asset # a
  BY DEF Waiting, Register!Pending, Register!Created, AssetsInv, Register!TypeOK
<1>5. \A n \in Members : proposing[n] # Nothing => proposing[n].event.asset # a
  BY DEF Register!AssetLockFree
<1>6. proposing'[m].event = x /\ \A n \in Members \ {m} : proposing'[n] = proposing[n]
  BY <1>1, <1>2 DEF AssetsInv, Register!TypeOK
<1>7. \A n \in Members : proposing'[n] # Nothing => EventFits(proposing[n].event)'
  BY <1>6 DEF AssetsInv, OneUnderWay, EventFits
<1>8. \A e \in AssetEvents : Waiting(e)' => EventFits(event[e])'
  BY DEF AssetsInv, OneUnderWay, EventFits, Waiting
<1>9. OneUnderWay'
  BY <1>4, <1>5, <1>6, <1>7, <1>8 DEF AssetsInv, OneUnderWay, Waiting
<1> QED BY <1>3, <1>9, EventsMove

\* The least of two integers.
LEMMA LeastOfTwo == \A i, j \in Int : LET k == Register!Min({i, j}) IN k \in {i, j} /\ k <= i /\ k <= j
<1> TAKE i, j \in Int
<1>1. \E k \in {i, j} : \A y \in {i, j} : k =< y
  <2>1. CASE i <= j
    BY <2>1
  <2>2. CASE j <= i
    BY <2>2
  <2> QED BY <2>1, <2>2
<1> QED BY <1>1 DEF Register!Min

\* What was proposed is a number.
LEMMA ProposedWhole ==
    ASSUME Register!AssetsAssumption, NEW a, asset[a] \in Register!Asset, NEW months \in Months
    PROVE  Register!Proposed(a, months) \in Int /\ Register!Remaining(a) \in Int
<1>1. asset[a].cost \in Int /\ asset[a].residual \in Int /\ asset[a].value \in Int
  <2>1. Costs \subseteq Int /\ Residuals \subseteq Int
    BY DEF Register!AssetsAssumption
  <2>2. asset[a].cost \in Costs /\ asset[a].residual \in Residuals /\ asset[a].value \in Int
    BY DEF Register!Asset
  <2>3. asset[a].cost \in Int
    BY <2>1, <2>2, Zenon
  <2>4. asset[a].residual \in Int
    BY <2>1, <2>2, Zenon
  <2> QED BY <2>2, <2>3, <2>4, Zenon
<1>4. months \in Int /\ LifeMonths \in Int /\ LifeMonths > 0
  BY DEF Register!AssetsAssumption
<1>2. \A i, d \in Int : d > 0 => Register!Rounded(i, d) \in Int
  BY DEF Register!Rounded
<1>3. (asset[a].cost - asset[a].residual) * months \in Int /\ asset[a].value * months \in Int
  BY <1>1, <1>4
<1> QED BY <1>1, <1>2, <1>3, <1>4 DEF Register!Proposed, Register!Remaining

\* CreateAsset.
LEMMA AssetCreated ==
    ASSUME Register!AssetsAssumption, AssetsInv, NEW a \in Assets, NEW c \in Costs, NEW r \in Residuals,
           NEW method \in {"slm", "wdv"}, NEW place \in Locations, Register!CreateAsset(a, c, r, method, place)
    PROVE  AssetsInv'
<1>1. PICK x \in Register!Asset :
        /\ x.status = "under_construction" /\ x.cost = c /\ x.residual = r
        /\ x.depreciation = 0 /\ x.impairment = 0 /\ x.value = c /\ asset' = [asset EXCEPT ![a] = x]
  <2> DEFINE new == [status |-> "under_construction", cost |-> c, residual |-> r, method |-> method,
                     depreciation |-> 0, impairment |-> 0, value |-> c, through |-> 0, location |-> place]
  <2>1. new \in Register!Asset
    BY DEF Register!Asset, Register!AssetsAssumption
  <2>2. /\ new.status = "under_construction" /\ new.cost = c /\ new.residual = r
        /\ new.depreciation = 0 /\ new.impairment = 0 /\ new.value = c
    OBVIOUS
  <2>3. asset' = [asset EXCEPT ![a] = new]
    BY DEF Register!CreateAsset
  <2> HIDE DEF new
  <2> QED BY <2>1, <2>2, <2>3, Zenon
<1>2. asset[a] = Nothing /\ r <= c /\ UNCHANGED <<event, proposing, books>>
  BY DEF Register!CreateAsset
<1>3. Register!TypeOK'
  BY <1>1, <1>2 DEF AssetsInv, Register!TypeOK
<1>4. asset'[a] = x /\ \A o \in Assets \ {a} : asset'[o] = asset[o]
  BY <1>1 DEF AssetsInv, Register!TypeOK
<1>5. ASSUME NEW o \in Assets PROVE BooksTell(o)'
  BY <1>1, <1>2, <1>4 DEF AssetsInv, BooksTell
<1>6. ASSUME NEW e \in Register!Event, EventFits(e) PROVE EventFits(e)'
  <2>1. e.asset \in Assets /\ e.asset # a
    BY <1>2, <1>6 DEF EventFits, Register!Event
  <2> QED BY <1>4, <1>6, <2>1 DEF EventFits
<1>7. OneUnderWay'
  <2>1. \A m \in Members : proposing[m] # Nothing => proposing[m].event \in Register!Event
    BY DEF AssetsInv, Register!TypeOK
  <2>2. \A e \in AssetEvents : event[e] # Nothing => event[e] \in Register!Event
    BY DEF AssetsInv, Register!TypeOK
  <2>3. \A m \in Members : proposing[m] # Nothing => EventFits(proposing[m].event)'
    BY <1>2, <1>6, <2>1 DEF AssetsInv, OneUnderWay, EventFits
  <2>4. \A e \in AssetEvents : Waiting(e) => EventFits(event[e])'
    BY <1>2, <1>6, <2>2 DEF AssetsInv, OneUnderWay, EventFits, Waiting
  <2> QED BY <1>2, <2>3, <2>4 DEF AssetsInv, OneUnderWay, Waiting
<1> QED BY <1>3, <1>5, <1>7 DEF AssetsInv

\* CapitalizeAsset.
LEMMA CapitalizationProposed ==
    ASSUME Register!AssetsAssumption, AssetsInv, NEW m \in Members, NEW a \in Assets, Register!CapitalizeAsset(m, a)
    PROVE  AssetsInv'
<1>1. PICK x \in Register!Event :
        /\ x.asset = a /\ x.kind = "capitalization" /\ x.amount = asset[a].cost /\ x.stage = "pending"
        /\ proposing' = [proposing EXCEPT ![m] = [event |-> x]]
  <2> DEFINE new == [asset |-> a, kind |-> "capitalization", amount |-> asset[a].cost, proceeds |-> 0,
                     through |-> 0, stage |-> "pending"]
  <2>1. asset[a].cost \in Nat
    BY DEF Register!CapitalizeAsset, Register!Proposable, AssetsInv, Register!TypeOK, Register!Asset,
           Register!AssetsAssumption
  <2>2. new \in Register!Event
    BY <2>1 DEF Register!Event, Register!Kinds, Register!AssetsAssumption
  <2>3. /\ new.asset = a /\ new.kind = "capitalization" /\ new.amount = asset[a].cost /\ new.stage = "pending"
        /\ proposing' = [proposing EXCEPT ![m] = [event |-> new]]
    BY DEF Register!CapitalizeAsset, Register!Computed
  <2> HIDE DEF new
  <2> QED BY <2>2, <2>3, Zenon
<1>2. /\ asset[a] # Nothing /\ asset[a].status = "under_construction"
      /\ Register!AssetLockFree(a) /\ ~Register!Pending(a) /\ UNCHANGED <<asset, event, books>>
  BY DEF Register!CapitalizeAsset, Register!Proposable, Register!Computed
<1>3. EventFits(x)
  BY <1>1, <1>2 DEF EventFits
<1> QED BY <1>1, <1>2, <1>3, ProposalBegins

\* ProposeDepreciation.
LEMMA DepreciationProposed ==
    ASSUME Register!AssetsAssumption, AssetsInv, NEW m \in Members, NEW a \in Assets, NEW months \in Months,
           NEW through \in 1..LastDay, Register!ProposeDepreciation(m, a, months, through)
    PROVE  AssetsInv'
<1>1. /\ asset[a] # Nothing /\ asset[a].status = "active" /\ Register!Depreciation(a, months) > 0
      /\ Register!AssetLockFree(a) /\ ~Register!Pending(a) /\ UNCHANGED <<asset, event, books>>
  BY DEF Register!ProposeDepreciation, Register!Proposable, Register!Computed
<1>2. asset[a] \in Register!Asset
  BY <1>1 DEF AssetsInv, Register!TypeOK
<1>3. PICK q \in Nat : q = Register!Depreciation(a, months) /\ q <= Register!Remaining(a)
  <2>1. Register!Proposed(a, months) \in Int /\ Register!Remaining(a) \in Int
    BY <1>2, ProposedWhole
  <2>2. /\ Register!Depreciation(a, months) \in {Register!Remaining(a), Register!Proposed(a, months)}
        /\ Register!Depreciation(a, months) <= Register!Remaining(a)
    BY <2>1, LeastOfTwo DEF Register!Depreciation
  <2> DEFINE q == Register!Depreciation(a, months)
  <2>3. q \in Int /\ q > 0
    BY <1>1, <2>1, <2>2
  <2> HIDE DEF q
  <2>4. q \in Nat
    BY <2>3
  <2> QED BY <2>2, <2>4, Zenon DEF q
<1>4. PICK x \in Register!Event :
        /\ x.asset = a /\ x.kind = "depreciation" /\ x.amount = q /\ x.stage = "pending"
        /\ proposing' = [proposing EXCEPT ![m] = [event |-> x]]
  <2> DEFINE new == [asset |-> a, kind |-> "depreciation", amount |-> q, proceeds |-> 0,
                     through |-> through, stage |-> "pending"]
  <2>1. new \in Register!Event
    BY DEF Register!Event, Register!Kinds, Register!AssetsAssumption
  <2>2. /\ new.asset = a /\ new.kind = "depreciation" /\ new.amount = q /\ new.stage = "pending"
        /\ proposing' = [proposing EXCEPT ![m] = [event |-> new]]
    BY <1>3 DEF Register!ProposeDepreciation, Register!Computed
  <2> HIDE DEF new
  <2> QED BY <2>1, <2>2, Zenon
<1>5. EventFits(x)
  BY <1>1, <1>3, <1>4 DEF EventFits, Register!Remaining
<1> QED BY <1>1, <1>4, <1>5, ProposalBegins

\* ProposeImpairment.
LEMMA ImpairmentProposed ==
    ASSUME Register!AssetsAssumption, AssetsInv, NEW m \in Members, NEW a \in Assets, NEW q \in Charges,
           Register!ProposeImpairment(m, a, q)
    PROVE  AssetsInv'
<1>1. /\ asset[a] # Nothing /\ asset[a].status = "active" /\ q <= asset[a].value
      /\ Register!AssetLockFree(a) /\ ~Register!Pending(a) /\ UNCHANGED <<asset, event, books>>
  BY DEF Register!ProposeImpairment, Register!Proposable, Register!Computed
<1>2. PICK x \in Register!Event :
        /\ x.asset = a /\ x.kind = "impairment" /\ x.amount = q /\ x.stage = "pending"
        /\ proposing' = [proposing EXCEPT ![m] = [event |-> x]]
  <2> DEFINE new == [asset |-> a, kind |-> "impairment", amount |-> q, proceeds |-> 0,
                     through |-> 0, stage |-> "pending"]
  <2>1. new \in Register!Event
    BY DEF Register!Event, Register!Kinds, Register!AssetsAssumption
  <2>2. /\ new.asset = a /\ new.kind = "impairment" /\ new.amount = q /\ new.stage = "pending"
        /\ proposing' = [proposing EXCEPT ![m] = [event |-> new]]
    BY DEF Register!ProposeImpairment, Register!Computed
  <2> HIDE DEF new
  <2> QED BY <2>1, <2>2, Zenon
<1>3. EventFits(x)
  BY <1>1, <1>2 DEF EventFits
<1> QED BY <1>1, <1>2, <1>3, ProposalBegins

\* ProposeDisposal.
LEMMA DisposalProposed ==
    ASSUME Register!AssetsAssumption, AssetsInv, NEW m \in Members, NEW a \in Assets, NEW q \in Charges,
           Register!ProposeDisposal(m, a, q)
    PROVE  AssetsInv'
<1>1. /\ asset[a] # Nothing /\ asset[a].status = "active"
      /\ Register!AssetLockFree(a) /\ ~Register!Pending(a) /\ UNCHANGED <<asset, event, books>>
  BY DEF Register!ProposeDisposal, Register!Proposable, Register!Computed
<1>2. PICK x \in Register!Event :
        /\ x.asset = a /\ x.kind = "disposal" /\ x.stage = "pending"
        /\ proposing' = [proposing EXCEPT ![m] = [event |-> x]]
  <2> DEFINE new == [asset |-> a, kind |-> "disposal", amount |-> asset[a].value, proceeds |-> q,
                     through |-> 0, stage |-> "pending"]
  <2>1. asset[a].value \in Nat
    BY <1>1 DEF AssetsInv, Register!TypeOK, Register!Asset
  <2>2. new \in Register!Event
    BY <2>1 DEF Register!Event, Register!Kinds, Register!AssetsAssumption
  <2>3. /\ new.asset = a /\ new.kind = "disposal" /\ new.stage = "pending"
        /\ proposing' = [proposing EXCEPT ![m] = [event |-> new]]
    BY DEF Register!ProposeDisposal, Register!Computed
  <2> HIDE DEF new
  <2> QED BY <2>2, <2>3, Zenon
<1>3. EventFits(x)
  BY <1>1, <1>2 DEF EventFits
<1> QED BY <1>1, <1>2, <1>3, ProposalBegins

\* CommitProposal: the event that was computed waits for its voucher.
LEMMA ProposalCommitted ==
    ASSUME AssetsInv, NEW m \in Members, NEW e \in AssetEvents, Register!CommitProposal(m, e)
    PROVE  AssetsInv'
<1>1. /\ proposing[m] # Nothing /\ event[e] = Nothing /\ UNCHANGED <<asset, books>>
      /\ event' = [event EXCEPT ![e] = proposing[m].event]
      /\ proposing' = [proposing EXCEPT ![m] = Nothing]
  BY DEF Register!CommitProposal
<1>2. PICK x \in Register!Event : x = proposing[m].event
  BY <1>1, Zenon DEF AssetsInv, Register!TypeOK
<1>3. /\ event'[e] = x /\ \A f \in AssetEvents \ {e} : event'[f] = event[f]
      /\ proposing'[m] = Nothing /\ \A n \in Members \ {m} : proposing'[n] = proposing[n]
  BY <1>1, <1>2 DEF AssetsInv, Register!TypeOK
<1>4. Register!TypeOK'
  BY <1>1, <1>2 DEF AssetsInv, Register!TypeOK
<1>5. EventFits(x)
  BY <1>1, <1>2 DEF AssetsInv, OneUnderWay
<1>6. /\ \A f \in AssetEvents : Waiting(f) => event[f].asset # x.asset
      /\ \A n \in Members : (proposing[n] # Nothing /\ n # m) => proposing[n].event.asset # x.asset
  BY <1>1, <1>2 DEF AssetsInv, OneUnderWay
<1>7. \A n \in Members : proposing'[n] # Nothing =>
        /\ n # m /\ proposing[n] # Nothing /\ proposing'[n] = proposing[n]
  BY <1>3
<1>8. \A f \in AssetEvents : Waiting(f)' => (f = e \/ (f # e /\ Waiting(f) /\ event'[f] = event[f]))
  BY <1>3 DEF Waiting
<1>9. \A n \in Members : proposing'[n] # Nothing => EventFits(proposing[n].event)'
  BY <1>1, <1>7 DEF AssetsInv, OneUnderWay, EventFits
<1>10. \A f \in AssetEvents : Waiting(f)' => EventFits(event[f])'
  BY <1>1, <1>3, <1>5, <1>8 DEF AssetsInv, OneUnderWay, EventFits
<1>11. \A n \in Members : proposing'[n] # Nothing =>
         /\ \A f \in AssetEvents : Waiting(f)' => event'[f].asset # proposing'[n].event.asset
         /\ \A k \in Members : (proposing'[k] # Nothing /\ k # n) => proposing'[k].event.asset # proposing'[n].event.asset
  BY <1>3, <1>6, <1>7, <1>8 DEF AssetsInv, OneUnderWay
<1>12. \A f \in AssetEvents : Waiting(f)' =>
         \A g \in AssetEvents : (Waiting(g)' /\ g # f) => event'[g].asset # event'[f].asset
  BY <1>3, <1>6, <1>8 DEF AssetsInv, OneUnderWay
<1>13. OneUnderWay'
  BY <1>9, <1>10, <1>11, <1>12, Zenon DEF OneUnderWay
<1> QED BY <1>1, <1>4, <1>13, EventsMove

\* AbortProposal.
LEMMA ProposalAborted ==
    ASSUME AssetsInv, NEW m \in Members, Register!AbortProposal(m)
    PROVE  AssetsInv'
<1>1. /\ UNCHANGED <<asset, event, books>> /\ proposing' = [proposing EXCEPT ![m] = Nothing]
  BY DEF Register!AbortProposal
<1>2. Register!TypeOK'
  BY <1>1 DEF AssetsInv, Register!TypeOK
<1>3. \A n \in Members : proposing'[n] # Nothing => proposing[n] # Nothing /\ proposing'[n] = proposing[n]
  BY <1>1 DEF AssetsInv, Register!TypeOK
<1>4. \A n \in Members : proposing'[n] # Nothing => EventFits(proposing[n].event)'
  BY <1>1, <1>3 DEF AssetsInv, OneUnderWay, EventFits
<1>5. \A f \in AssetEvents : Waiting(f)' => Waiting(f) /\ EventFits(event[f])'
  BY <1>1 DEF AssetsInv, OneUnderWay, EventFits, Waiting
<1>6. OneUnderWay'
  BY <1>1, <1>3, <1>4, <1>5 DEF AssetsInv, OneUnderWay
<1> QED BY <1>1, <1>2, <1>6, EventsMove

\* A step that changes one asset, whose row is not locked, and leaves its events fitting.
LEMMA AssetChanges ==
    ASSUME AssetsInv, NEW a \in Assets, NEW x \in Register!Asset, asset' = [asset EXCEPT ![a] = x],
           Register!TypeOK', UNCHANGED proposing, Register!AssetLockFree(a),
           \A o \in Assets \ {a} : books'[o] = books[o],
           \A f \in AssetEvents : Waiting(f)' => Waiting(f) /\ event'[f] = event[f] /\ event[f].asset # a,
           BooksTell(a)'
    PROVE  AssetsInv'
<1>1. asset'[a] = x /\ \A o \in Assets \ {a} : asset'[o] = asset[o]
  BY DEF AssetsInv, Register!TypeOK
<1>2. \A o \in Assets : BooksTell(o)'
  BY <1>1 DEF AssetsInv, BooksTell
<1>3. ASSUME NEW e \in Register!Event, EventFits(e), e.asset # a PROVE EventFits(e)'
  <2>1. e.asset \in Assets \ {a}
    BY <1>3 DEF Register!Event
  <2> QED BY <1>1, <1>3, <2>1 DEF EventFits
<1>4. \A n \in Members : proposing[n] # Nothing => proposing[n].event \in Register!Event /\ proposing[n].event.asset # a
  BY DEF AssetsInv, Register!TypeOK, Register!AssetLockFree
<1>5. \A f \in AssetEvents : event[f] # Nothing => event[f] \in Register!Event
  BY DEF AssetsInv, Register!TypeOK
<1>6. \A n \in Members : proposing[n] # Nothing => EventFits(proposing[n].event)'
  BY <1>3, <1>4 DEF AssetsInv, OneUnderWay, EventFits
<1>7. \A f \in AssetEvents : Waiting(f)' => EventFits(event[f])'
  <2> TAKE f \in AssetEvents
  <2> HAVE Waiting(f)'
  <2>1. Waiting(f) /\ event'[f] = event[f] /\ event[f].asset # a /\ event[f] \in Register!Event
    BY <1>5 DEF Waiting
  <2>2. EventFits(event[f])
    BY <2>1 DEF AssetsInv, OneUnderWay
  <2> QED BY <1>1, <2>1, <2>2 DEF EventFits, Register!Event
<1>8. OneUnderWay'
  BY <1>6, <1>7 DEF AssetsInv, OneUnderWay
<1> QED BY <1>2, <1>8 DEF AssetsInv

\* TransferAsset.
LEMMA AssetTransferred ==
    ASSUME Register!AssetsAssumption, AssetsInv, NEW a \in Assets, NEW place \in Locations, Register!TransferAsset(a, place)
    PROVE  AssetsInv'
<1>1. /\ asset[a] # Nothing /\ Register!AssetLockFree(a) /\ ~Register!Pending(a)
      /\ UNCHANGED <<event, proposing, books>> /\ asset' = [asset EXCEPT ![a].location = place]
  BY DEF Register!TransferAsset
<1>2. asset[a] \in Register!Asset
  BY <1>1 DEF AssetsInv, Register!TypeOK
<1>3. PICK x \in Register!Asset :
        /\ x.status = asset[a].status /\ x.cost = asset[a].cost /\ x.residual = asset[a].residual
        /\ x.depreciation = asset[a].depreciation /\ x.impairment = asset[a].impairment
        /\ x.value = asset[a].value /\ asset' = [asset EXCEPT ![a] = x]
  <2> DEFINE new == [asset[a] EXCEPT !.location = place]
  <2>1. new \in Register!Asset
    BY <1>2 DEF Register!Asset
  <2>2. /\ new.status = asset[a].status /\ new.cost = asset[a].cost /\ new.residual = asset[a].residual
        /\ new.depreciation = asset[a].depreciation /\ new.impairment = asset[a].impairment
        /\ new.value = asset[a].value
    BY <1>2 DEF Register!Asset
  <2>3. asset' = [asset EXCEPT ![a] = new]
    BY <1>1 DEF AssetsInv, Register!TypeOK
  <2> HIDE DEF new
  <2> QED BY <2>1, <2>2, <2>3, Zenon
<1>4. Register!TypeOK'
  BY <1>1, <1>3 DEF AssetsInv, Register!TypeOK
<1>6. asset'[a] = x
  BY <1>3 DEF AssetsInv, Register!TypeOK
<1>7. BooksTell(a)'
  <2>1. x # Nothing
    BY DEF Register!AssetsAssumption
  <2> QED BY <1>1, <1>3, <1>6, <2>1 DEF AssetsInv, BooksTell
<1>8. \A f \in AssetEvents : Waiting(f)' => Waiting(f) /\ event'[f] = event[f] /\ event[f].asset # a
  BY <1>1 DEF Waiting, Register!Pending, Register!Created, AssetsInv, Register!TypeOK
<1> QED BY <1>1, <1>3, <1>4, <1>7, <1>8, AssetChanges

\* ApplyFinanceControlPosting: the asset and its books take the event together.
LEMMA EventTakesEffect ==
    ASSUME Register!AssetsAssumption, AssetsInv, NEW e \in AssetEvents, Register!ApplyFinanceControlPosting(e)
    PROVE  AssetsInv'
<1>1. Waiting(e) /\ Register!AssetLockFree(event[e].asset) /\ UNCHANGED proposing
  BY DEF Register!ApplyFinanceControlPosting, Waiting
<1>2. PICK x \in Register!Event : x = event[e]
  BY <1>1 DEF AssetsInv, Register!TypeOK, Waiting
<1>3. PICK a \in Assets : a = x.asset
  BY DEF Register!Event
<1>4. /\ asset' = [asset EXCEPT ![a] = Register!Applied(x)]
      /\ books' = [books EXCEPT ![a] = Register!Posted(x, books[a])]
      /\ event' = [event EXCEPT ![e].stage = "completed"]
  BY <1>2, <1>3 DEF Register!ApplyFinanceControlPosting, AssetsInv, Register!TypeOK
<1>5. EventFits(x) /\ x.amount \in Nat /\ x.through \in 0..LastDay /\ x.kind \in Register!Kinds
  BY <1>1, <1>2 DEF AssetsInv, OneUnderWay, Register!Event
<1>6. PICK o \in Register!Asset : o = asset[a] /\ o # Nothing
  BY <1>3, <1>5 DEF AssetsInv, Register!TypeOK, EventFits
<1>7. PICK b \in Register!Books : b = books[a]
  BY DEF AssetsInv, Register!TypeOK
<1>8. /\ o.cost \in Int /\ o.residual \in Nat /\ o.depreciation \in Nat /\ o.impairment \in Nat /\ o.value \in Nat
      /\ b.cost \in Int /\ b.depreciation \in Int /\ b.impairment \in Int
  <2>1. /\ o.cost \in Costs /\ o.residual \in Residuals /\ o.depreciation \in Nat /\ o.impairment \in Nat /\ o.value \in Nat
        /\ b.cost \in Int /\ b.depreciation \in Int /\ b.impairment \in Int
    BY DEF Register!Asset, Register!Books
  <2>2. Costs \subseteq Int /\ Residuals \subseteq Nat
    BY DEF Register!AssetsAssumption
  <2>3. o.cost \in Int
    BY <2>1, <2>2, Zenon
  <2>4. o.residual \in Nat
    BY <2>1, <2>2, Zenon
  <2> QED BY <2>1, <2>3, <2>4, Zenon
<1>9. BooksTell(a)
  BY DEF AssetsInv
<1>10. \E n \in Register!Asset, c \in Register!Books :
         /\ n = Register!Applied(x) /\ c = Register!Posted(x, b)
         /\ n.status # "active" => c.cost = 0 /\ c.depreciation = 0 /\ c.impairment = 0
         /\ n.status # "under_construction"
         /\ n.status = "active" =>
              /\ c.cost = n.cost /\ c.depreciation = -n.depreciation /\ c.impairment = -n.impairment
              /\ n.cost - n.depreciation - n.impairment = n.value
              /\ n.value + n.impairment >= n.residual
  <2>1. CASE x.kind = "capitalization"
    <3> DEFINE n == [o EXCEPT !.status = "active"]
    <3> DEFINE c == [b EXCEPT !.cost = @ + x.amount]
    <3>1. n \in Register!Asset /\ c \in Register!Books
      BY <1>5, <1>8 DEF Register!Asset, Register!Books
    <3>2. n = Register!Applied(x) /\ c = Register!Posted(x, b)
      BY <1>3, <1>6, <2>1 DEF Register!Applied, Register!Posted
    <3>3. /\ n.status = "active" /\ n.cost = o.cost /\ n.depreciation = o.depreciation
          /\ n.impairment = o.impairment /\ n.value = o.value /\ n.residual = o.residual
          /\ c.cost = b.cost + x.amount /\ c.depreciation = b.depreciation /\ c.impairment = b.impairment
      BY DEF Register!Asset, Register!Books
    <3>4. o.status = "under_construction" /\ x.amount = o.cost
      BY <1>3, <1>5, <1>6, <2>1 DEF EventFits
    <3>5. /\ b.cost = 0 /\ b.depreciation = 0 /\ b.impairment = 0
          /\ o.depreciation = 0 /\ o.impairment = 0 /\ o.value = o.cost /\ o.residual <= o.cost
      BY <1>6, <1>7, <1>9, <3>4 DEF BooksTell
    <3> HIDE DEF n, c
    <3>6. /\ n.status # "under_construction" /\ n.status = "active"
          /\ c.cost = n.cost /\ c.depreciation = -n.depreciation /\ c.impairment = -n.impairment
          /\ n.cost - n.depreciation - n.impairment = n.value
          /\ n.value + n.impairment >= n.residual
      <4>1. n.status # "under_construction" /\ n.status = "active"
        BY <3>3
      <4>5. c.cost = n.cost
        BY <1>8, <3>3, <3>4, <3>5
      <4>6. n.depreciation = 0 /\ n.impairment = 0 /\ c.depreciation = 0 /\ c.impairment = 0
        BY <3>3, <3>5
      <4>7. c.depreciation = -n.depreciation /\ c.impairment = -n.impairment
        <5>1. \A i \in Int : i + i = i => -i = i
          OBVIOUS
        <5>4. 0 + 0 = 0
          OBVIOUS
        <5>2. n.depreciation \in Int /\ n.impairment \in Int
          BY <4>6
        <5>3. 0 = -n.depreciation /\ 0 = -n.impairment
          BY <4>6, <5>1, <5>2, <5>4, Zenon
        <5> QED BY <4>6, <5>3, Zenon
      <4>2. c.cost = n.cost /\ c.depreciation = -n.depreciation /\ c.impairment = -n.impairment
        BY <4>5, <4>7
      <4>3. n.cost - n.depreciation - n.impairment = n.value
        BY <1>8, <3>3, <3>5
      <4>4. n.value + n.impairment >= n.residual
        BY <1>8, <3>3, <3>5
      <4> QED BY <4>1, <4>2, <4>3, <4>4
    <3> QED BY <3>1, <3>2, <3>6, Zenon
  <2>2. CASE x.kind = "depreciation"
    <3> DEFINE n == [o EXCEPT !.depreciation = @ + x.amount, !.value = @ - x.amount, !.through = x.through]
    <3> DEFINE c == [b EXCEPT !.depreciation = @ - x.amount]
    <3>1. o.status = "active" /\ x.amount <= o.value - o.residual
      BY <1>3, <1>5, <1>6, <2>2 DEF EventFits
    <3>2. o.value - x.amount \in Nat /\ o.depreciation + x.amount \in Nat
      BY <1>5, <1>8, <3>1
    <3>8. n \in Register!Asset
      BY <1>5, <3>2 DEF Register!Asset
    <3>9. c \in Register!Books
      BY <1>5, <1>8 DEF Register!Books
    <3>3. n \in Register!Asset /\ c \in Register!Books
      BY <3>8, <3>9
    <3>4. n = Register!Applied(x) /\ c = Register!Posted(x, b)
      BY <1>3, <1>6, <2>2 DEF Register!Applied, Register!Posted
    <3>5. /\ n.status = "active" /\ n.cost = o.cost /\ n.depreciation = o.depreciation + x.amount
          /\ n.impairment = o.impairment /\ n.value = o.value - x.amount /\ n.residual = o.residual
          /\ c.cost = b.cost /\ c.depreciation = b.depreciation - x.amount /\ c.impairment = b.impairment
      BY <3>1 DEF Register!Asset, Register!Books
    <3>6. /\ b.cost = o.cost /\ b.depreciation = -o.depreciation /\ b.impairment = -o.impairment
          /\ o.cost - o.depreciation - o.impairment = o.value
      BY <1>6, <1>7, <1>9, <3>1 DEF BooksTell
    <3> HIDE DEF n, c
    <3>7. /\ n.status # "under_construction" /\ n.status = "active"
          /\ c.cost = n.cost /\ c.depreciation = -n.depreciation /\ c.impairment = -n.impairment
          /\ n.cost - n.depreciation - n.impairment = n.value
          /\ n.value + n.impairment >= n.residual
      BY <1>5, <1>8, <3>1, <3>5, <3>6
    <3> QED BY <3>3, <3>4, <3>7, Zenon
  <2>3. CASE x.kind = "impairment"
    <3> DEFINE n == [o EXCEPT !.impairment = @ + x.amount, !.value = @ - x.amount]
    <3> DEFINE c == [b EXCEPT !.impairment = @ - x.amount]
    <3>1. o.status = "active" /\ x.amount <= o.value
      BY <1>3, <1>5, <1>6, <2>3 DEF EventFits
    <3>2. o.value - x.amount \in Nat /\ o.impairment + x.amount \in Nat
      BY <1>5, <1>8, <3>1
    <3>8. n \in Register!Asset
      BY <1>5, <3>2 DEF Register!Asset
    <3>9. c \in Register!Books
      BY <1>5, <1>8 DEF Register!Books
    <3>3. n \in Register!Asset /\ c \in Register!Books
      BY <3>8, <3>9
    <3>4. n = Register!Applied(x) /\ c = Register!Posted(x, b)
      BY <1>3, <1>6, <2>3 DEF Register!Applied, Register!Posted
    <3>5. /\ n.status = "active" /\ n.cost = o.cost /\ n.depreciation = o.depreciation
          /\ n.impairment = o.impairment + x.amount /\ n.value = o.value - x.amount /\ n.residual = o.residual
          /\ c.cost = b.cost /\ c.depreciation = b.depreciation /\ c.impairment = b.impairment - x.amount
      BY <3>1 DEF Register!Asset, Register!Books
    <3>6. /\ b.cost = o.cost /\ b.depreciation = -o.depreciation /\ b.impairment = -o.impairment
          /\ o.cost - o.depreciation - o.impairment = o.value
          /\ o.value + o.impairment >= o.residual
      BY <1>6, <1>7, <1>9, <3>1 DEF BooksTell
    <3> HIDE DEF n, c
    <3>7. /\ n.status # "under_construction" /\ n.status = "active"
          /\ c.cost = n.cost /\ c.depreciation = -n.depreciation /\ c.impairment = -n.impairment
          /\ n.cost - n.depreciation - n.impairment = n.value
          /\ n.value + n.impairment >= n.residual
      BY <1>5, <1>8, <3>1, <3>5, <3>6
    <3> QED BY <3>3, <3>4, <3>7, Zenon
  <2>4. CASE x.kind = "disposal"
    <3> DEFINE n == [o EXCEPT !.status = "disposed", !.value = 0]
    <3> DEFINE c == [cost |-> b.cost - o.cost, depreciation |-> b.depreciation + o.depreciation,
                     impairment |-> b.impairment + o.impairment]
    <3>1. o.status = "active"
      BY <1>3, <1>5, <1>6, <2>4 DEF EventFits
    <3>7. n \in Register!Asset
      BY DEF Register!Asset
    <3>8. c \in Register!Books
      BY <1>8 DEF Register!Books
    <3>2. n \in Register!Asset /\ c \in Register!Books
      BY <3>7, <3>8
    <3>3. n = Register!Applied(x) /\ c = Register!Posted(x, b)
      BY <1>3, <1>6, <2>4 DEF Register!Applied, Register!Posted
    <3>4. /\ n.status = "disposed"
          /\ c.cost = b.cost - o.cost /\ c.depreciation = b.depreciation + o.depreciation
          /\ c.impairment = b.impairment + o.impairment
      BY DEF Register!Asset
    <3>5. b.cost = o.cost /\ b.depreciation = -o.depreciation /\ b.impairment = -o.impairment
      BY <1>6, <1>7, <1>9, <3>1 DEF BooksTell
    <3> HIDE DEF n, c
    <3>6. /\ n.status # "under_construction" /\ n.status # "active"
          /\ c.cost = 0 /\ c.depreciation = 0 /\ c.impairment = 0
      BY <1>8, <3>4, <3>5
    <3> QED BY <3>2, <3>3, <3>6, Zenon
  <2> QED BY <1>5, <2>1, <2>2, <2>3, <2>4 DEF Register!Kinds
<1>11. PICK n \in Register!Asset, c \in Register!Books :
         /\ n = Register!Applied(x) /\ c = Register!Posted(x, b)
         /\ n.status # "active" => c.cost = 0 /\ c.depreciation = 0 /\ c.impairment = 0
         /\ n.status # "under_construction"
         /\ n.status = "active" =>
              /\ c.cost = n.cost /\ c.depreciation = -n.depreciation /\ c.impairment = -n.impairment
              /\ n.cost - n.depreciation - n.impairment = n.value
              /\ n.value + n.impairment >= n.residual
  BY <1>10, Zenon
<1>12. asset' = [asset EXCEPT ![a] = n] /\ books' = [books EXCEPT ![a] = c]
  BY <1>4, <1>7, <1>11
<1>13. /\ asset'[a] = n /\ books'[a] = c /\ \A z \in Assets \ {a} : books'[z] = books[z]
       /\ asset' \in [Assets -> Register!Asset \cup {Nothing}] /\ books' \in [Assets -> Register!Books]
  BY <1>12 DEF AssetsInv, Register!TypeOK
<1>14. PICK y \in Register!Event : y = [x EXCEPT !.stage = "completed"] /\ y.stage = "completed"
  <2> DEFINE new == [x EXCEPT !.stage = "completed"]
  <2>1. new \in Register!Event /\ new.stage = "completed"
    BY DEF Register!Event
  <2> HIDE DEF new
  <2> QED BY <2>1, Zenon DEF new
<1>15. event' = [event EXCEPT ![e] = y]
  BY <1>2, <1>4, <1>14 DEF AssetsInv, Register!TypeOK
<1>16. event' \in [AssetEvents -> Register!Event \cup {Nothing}]
  BY <1>15 DEF AssetsInv, Register!TypeOK
<1>17. Register!TypeOK'
  BY <1>1, <1>13, <1>16 DEF AssetsInv, Register!TypeOK
<1>18. BooksTell(a)'
  <2>1. n # Nothing
    BY DEF Register!AssetsAssumption
  <2> QED BY <1>11, <1>13, <2>1 DEF BooksTell
<1>19. \A f \in AssetEvents : Waiting(f)' => Waiting(f) /\ event'[f] = event[f] /\ event[f].asset # a
  <2>1. event'[e] = y /\ \A f \in AssetEvents \ {e} : event'[f] = event[f]
    BY <1>15 DEF AssetsInv, Register!TypeOK
  <2>2. \A f \in AssetEvents : Waiting(f)' => f # e /\ Waiting(f) /\ event'[f] = event[f]
    BY <1>14, <2>1 DEF Waiting
  <2> QED BY <1>1, <1>2, <1>3, <2>2 DEF AssetsInv, OneUnderWay
<1> QED BY <1>1, <1>2, <1>3, <1>12, <1>13, <1>17, <1>18, <1>19, AssetChanges

\* One step.
LEMMA NextAssets ==
    ASSUME Register!AssetsAssumption, AssetsInv, [Register!Next]_(Register!vars)
    PROVE  AssetsInv'
<1>1. CASE UNCHANGED Register!vars
  <2>1. Register!TypeOK' /\ OneUnderWay'
    BY <1>1 DEF Register!vars, AssetsInv, Register!TypeOK, OneUnderWay, EventFits, Waiting
  <2> QED BY <1>1, <2>1, EventsMove DEF Register!vars
<1>2. CASE Register!Next
  <2>1. \/ \E a \in Assets, c \in Costs, r \in Residuals, method \in {"slm", "wdv"}, place \in Locations :
             Register!CreateAsset(a, c, r, method, place)
        \/ \E m \in Members, a \in Assets :
             \/ Register!CapitalizeAsset(m, a)
             \/ \E months \in Months, through \in 1..LastDay : Register!ProposeDepreciation(m, a, months, through)
             \/ \E q \in Charges : Register!ProposeImpairment(m, a, q) \/ Register!ProposeDisposal(m, a, q)
        \/ \E m \in Members : Register!AbortProposal(m) \/ \E e \in AssetEvents : Register!CommitProposal(m, e)
        \/ \E a \in Assets, place \in Locations : Register!TransferAsset(a, place)
        \/ \E e \in AssetEvents : Register!ApplyFinanceControlPosting(e)
    BY <1>2, Zenon DEF Register!Next
  <2> QED BY <2>1, AssetCreated, CapitalizationProposed, DepreciationProposed, ImpairmentProposed, DisposalProposed,
             ProposalAborted, ProposalCommitted, AssetTransferred, EventTakesEffect, Zenon
<1> QED BY <1>1, <1>2

\* What a state of the register means for its books and its proposals.
LEMMA AssetsTell ==
    ASSUME Register!AssetsAssumption, AssetsInv
    PROVE  Register!RegisterMatchesBooks /\ Register!ResidualKept
<1>1. \A a \in Register!Created(asset) : a \in Assets /\ asset[a] # Nothing /\ asset[a] \in Register!Asset
  BY DEF Register!Created, AssetsInv, Register!TypeOK
<1>2. \A a \in Register!Created(asset) : asset[a].status \in {"under_construction", "active", "disposed"}
  BY <1>1 DEF Register!Asset
<1>3. \A a \in Assets : books[a] \in Register!Books
  BY DEF AssetsInv, Register!TypeOK
<1>4. Register!RegisterMatchesBooks
  <2> SUFFICES ASSUME NEW a \in Register!Created(asset)
               PROVE  LET x == asset[a]
                          b == books[a]
                      IN  CASE x.status = "under_construction" -> b = [cost |-> 0, depreciation |-> 0, impairment |-> 0]
                            [] x.status = "active" -> /\ b.cost = x.cost
                                                      /\ b.depreciation = -x.depreciation
                                                      /\ b.impairment = -x.impairment
                                                      /\ b.cost + b.depreciation + b.impairment = x.value
                            [] x.status = "disposed" -> b = [cost |-> 0, depreciation |-> 0, impairment |-> 0]
    BY DEF Register!RegisterMatchesBooks
  <2>1. BooksTell(a) /\ a \in Assets /\ asset[a] # Nothing
    BY <1>1 DEF AssetsInv
  <2>2. books[a] = [cost |-> books[a].cost, depreciation |-> books[a].depreciation, impairment |-> books[a].impairment]
    BY <1>3, <2>1 DEF Register!Books
  <2>3. CASE asset[a].status = "active"
    <3>1. /\ books[a].cost = asset[a].cost /\ books[a].depreciation = -asset[a].depreciation
          /\ books[a].impairment = -asset[a].impairment
          /\ asset[a].cost - asset[a].depreciation - asset[a].impairment = asset[a].value
      BY <2>1, <2>3 DEF BooksTell
    <3>2. books[a].cost \in Int /\ asset[a].depreciation \in Int /\ asset[a].impairment \in Int
      BY <1>1, <1>3, <2>1 DEF Register!Asset, Register!Books
    <3>3. books[a].cost + books[a].depreciation + books[a].impairment = asset[a].value
      BY <3>1, <3>2
    <3> QED BY <2>3, <3>1, <3>3
  <2>4. CASE asset[a].status # "active"
    <3>1. books[a] = [cost |-> 0, depreciation |-> 0, impairment |-> 0]
      BY <2>1, <2>2, <2>4 DEF BooksTell
    <3> QED BY <1>2, <2>4, <3>1
  <2> QED BY <2>3, <2>4
<1>5. Register!ResidualKept
  <2> SUFFICES ASSUME NEW a \in Register!Created(asset)
               PROVE  /\ asset[a].status = "active" => asset[a].value + asset[a].impairment >= asset[a].residual
                      /\ Register!Cardinality({e \in Register!Created(event) : event[e].asset = a /\ event[e].stage = "pending"}) <= 1
    BY DEF Register!ResidualKept
  <2>1. asset[a].status = "active" => asset[a].value + asset[a].impairment >= asset[a].residual
    BY <1>1 DEF AssetsInv, BooksTell
  <2> DEFINE S == {e \in Register!Created(event) : event[e].asset = a /\ event[e].stage = "pending"}
  <2>2. \A e, f \in S : e = f
    BY DEF AssetsInv, OneUnderWay, Waiting, Register!Created, Register!TypeOK
  <2>3. Register!Cardinality(S) <= 1
    <3> HIDE DEF S
    <3> QED BY <2>2, AtMostOne, RegisterCardinality
  <2> QED BY <2>1, <2>3
<1> QED BY <1>4, <1>5

\* The asset register agrees with the books of its assets after every posting
\* (financeControlPosting.ts), and depreciation alone leaves the residual value, however many
\* members propose and post at once: one event is under way for an asset at a time.
THEOREM AssetsKept == Register!AssetsAssumption => (Register!Spec => [](Register!RegisterMatchesBooks /\ Register!ResidualKept))
<1> SUFFICES ASSUME Register!AssetsAssumption PROVE Register!Spec => [](Register!RegisterMatchesBooks /\ Register!ResidualKept)
  OBVIOUS
<1>1. Register!Init => AssetsInv
  BY InitAssets
<1>2. AssetsInv /\ [Register!Next]_(Register!vars) => AssetsInv'
  BY NextAssets
<1>3. AssetsInv => Register!RegisterMatchesBooks /\ Register!ResidualKept
  BY AssetsTell
<1> QED BY <1>1, <1>2, <1>3, PTL DEF Register!Spec

-----------------------------------------------------------------------------
(* FinanceReports.  Every figure of a report is a sum over postings, and the *)
(* reports differ in how they sort the postings they add up.                 *)

\* The sums and finite sets of the reports are those of this module.
LEMMA ReportSums == ASSUME NEW f PROVE Reports!SumFunction(f) = SumFunctionOnSet(f, DOMAIN f)
  BY DEF Reports!SumFunction, Reports!SumFunctionOnSet, SumFunctionOnSet, Reports!FoldFunctionOnSet,
         FoldFunctionOnSet, Reports!MapThenFoldSet, MapThenFoldSet
LEMMA ReportCardinality == ASSUME NEW S PROVE Reports!Cardinality(S) = Cardinality(S)
  BY Zenon DEF Reports!Cardinality, Cardinality, Reports!IsFiniteSet, IsFiniteSet
LEMMA ReportFinite == ASSUME NEW S PROVE Reports!IsFiniteSet(S) <=> IsFiniteSet(S)
  BY Zenon DEF Reports!IsFiniteSet, IsFiniteSet

\* All postings, and what each adds to the debits, the credits and the debit balance.
Entries == Reports!PostingsOf(PostedVouchers)
DebitOf == [p \in Entries |-> Reports!LineOf(p).debit]
CreditOf == [p \in Entries |-> Reports!LineOf(p).credit]
NetOf == [p \in Entries |-> DebitOf[p] - CreditOf[p]]

LEMMA EntriesTyped ==
    ASSUME Reports!ReportsAssumption, Reports!TypeOK
    PROVE  /\ IsFiniteSet(Entries)
           /\ \A p \in Entries :
                /\ p = <<p[1], p[2]>> /\ p[1] \in PostedVouchers /\ p[2] \in PostedLines
                /\ Reports!LineOf(p) # Nothing /\ Reports!LineOf(p).account \in Accounts
                /\ Reports!DimensionsOf(p) \in (CostCenters \cup {Nothing}) \X (PlantNames \cup {Nothing})
                /\ DebitOf[p] = Reports!LineOf(p).debit /\ CreditOf[p] = Reports!LineOf(p).credit
                /\ NetOf[p] = DebitOf[p] - CreditOf[p]
                /\ DebitOf[p] \in Int /\ CreditOf[p] \in Int /\ NetOf[p] \in Int
                /\ Reports!PostingDay(p) \in Nat
<1>1. IsFiniteSet(Entries)
  <2>1. IsFiniteSet(PostedVouchers) /\ IsFiniteSet(PostedLines)
    BY ReportFinite DEF Reports!ReportsAssumption
  <2>2. IsFiniteSet(PostedVouchers \X PostedLines)
    BY <2>1, FS_Product
  <2>3. Entries \subseteq PostedVouchers \X PostedLines
    BY DEF Entries, Reports!PostingsOf
  <2> QED BY <2>2, <2>3, FS_Subset
<1> SUFFICES ASSUME NEW p \in Entries
             PROVE  /\ p = <<p[1], p[2]>> /\ p[1] \in PostedVouchers /\ p[2] \in PostedLines
                    /\ Reports!LineOf(p) # Nothing /\ Reports!LineOf(p).account \in Accounts
                    /\ Reports!DimensionsOf(p) \in (CostCenters \cup {Nothing}) \X (PlantNames \cup {Nothing})
                    /\ DebitOf[p] = Reports!LineOf(p).debit /\ CreditOf[p] = Reports!LineOf(p).credit
                    /\ NetOf[p] = DebitOf[p] - CreditOf[p]
                    /\ DebitOf[p] \in Int /\ CreditOf[p] \in Int /\ NetOf[p] \in Int
                    /\ Reports!PostingDay(p) \in Nat
  BY <1>1
<1>2. p \in PostedVouchers \X PostedLines /\ Reports!LineOf(p) # Nothing
  BY DEF Entries, Reports!PostingsOf
<1>3. p = <<p[1], p[2]>> /\ p[1] \in PostedVouchers /\ p[2] \in PostedLines
  BY <1>2
<1>4. /\ ledger[p[1]].day \in PostingDays
      /\ ledger[p[1]].lines[p[2]] \in Reports!Line \cup {Nothing}
  <2>1. ledger[p[1]] \in Reports!Voucher
    BY <1>3 DEF Reports!TypeOK
  <2> QED BY <1>3, <2>1 DEF Reports!Voucher
<1>5. Reports!LineOf(p) \in Reports!Line
  BY <1>2, <1>4 DEF Reports!LineOf
<1>6. /\ Reports!LineOf(p).account \in Accounts
      /\ Reports!LineOf(p).debit \in PostedAmounts /\ Reports!LineOf(p).credit \in PostedAmounts
      /\ Reports!LineOf(p).costCenterId \in CostCenters \cup {Nothing}
      /\ Reports!LineOf(p).plantId \in PlantNames \cup {Nothing}
  <2> DEFINE l == Reports!LineOf(p)
  <2>1. l \in Reports!Line
    BY <1>5
  <2> HIDE DEF l
  <2>2. /\ l.account \in Accounts /\ l.debit \in PostedAmounts /\ l.credit \in PostedAmounts
        /\ l.costCenterId \in CostCenters \cup {Nothing} /\ l.plantId \in PlantNames \cup {Nothing}
    BY <2>1 DEF Reports!Line
  <2> QED BY <2>2 DEF l
<1>7. PostedAmounts \subseteq Nat /\ PostingDays \subseteq Nat
  BY DEF Reports!ReportsAssumption
<1>8. /\ DebitOf[p] = Reports!LineOf(p).debit /\ CreditOf[p] = Reports!LineOf(p).credit
      /\ NetOf[p] = DebitOf[p] - CreditOf[p]
  BY DEF DebitOf, CreditOf, NetOf
<1>9. Reports!DimensionsOf(p) \in (CostCenters \cup {Nothing}) \X (PlantNames \cup {Nothing})
  BY <1>6 DEF Reports!DimensionsOf
<1>10. Reports!PostingDay(p) \in Nat
  BY <1>4, <1>7 DEF Reports!PostingDay
<1>11. DebitOf[p] \in Int /\ CreditOf[p] \in Int
  <2>1. \A x \in PostedAmounts : x \in Int
    BY <1>7
  <2> QED BY <1>6, <1>8, <2>1, Zenon
<1>12. NetOf[p] \in Int
  BY <1>8, <1>11
<1> QED BY <1>2, <1>3, <1>6, <1>8, <1>9, <1>10, <1>11, <1>12, Zenon

\* Debits, credits and balance of a set of postings are sums of what its postings add.
LEMMA BalanceIsSum ==
    ASSUME Reports!ReportsAssumption, Reports!TypeOK, NEW ps \in SUBSET Entries
    PROVE  /\ IsFiniteSet(ps)
           /\ Reports!Debits(ps) = SumFunctionOnSet(DebitOf, ps) /\ Reports!Debits(ps) \in Int
           /\ Reports!Credits(ps) = SumFunctionOnSet(CreditOf, ps) /\ Reports!Credits(ps) \in Int
           /\ Reports!Balance(ps) = SumFunctionOnSet(NetOf, ps) /\ Reports!Balance(ps) \in Int
<1> DEFINE d == [p \in ps |-> Reports!LineOf(p).debit]
           c == [p \in ps |-> Reports!LineOf(p).credit]
           diff == [p \in ps |-> DebitOf[p] - CreditOf[p]]
<1>1. IsFiniteSet(ps)
  BY EntriesTyped, FS_Subset
<1>2. /\ \A p \in ps : DebitOf[p] \in Int /\ DebitOf[p] = d[p]
      /\ \A p \in ps : CreditOf[p] \in Int /\ CreditOf[p] = c[p]
      /\ \A p \in ps : NetOf[p] \in Int /\ NetOf[p] = diff[p]
  BY EntriesTyped
<1>3. Reports!Debits(ps) = SumFunctionOnSet(d, ps) /\ Reports!Credits(ps) = SumFunctionOnSet(c, ps)
  BY ReportSums DEF Reports!Debits, Reports!Credits
<1> HIDE DEF d, c
<1>4. SumFunctionOnSet(diff, ps) = SumFunctionOnSet(DebitOf, ps) - SumFunctionOnSet(CreditOf, ps)
  BY <1>1, <1>2, SumMinus
<1> HIDE DEF diff
<1>5. SumFunctionOnSet(DebitOf, ps) = SumFunctionOnSet(d, ps) /\ SumFunctionOnSet(CreditOf, ps) = SumFunctionOnSet(c, ps)
  BY <1>1, <1>2, SumSame
<1>6. SumFunctionOnSet(NetOf, ps) = SumFunctionOnSet(diff, ps)
  BY <1>1, <1>2, SumSame
<1>7. SumFunctionOnSet(DebitOf, ps) \in Int /\ SumFunctionOnSet(CreditOf, ps) \in Int /\ SumFunctionOnSet(NetOf, ps) \in Int
  BY <1>1, <1>2, SumInteger
<1>8. Reports!Balance(ps) = Reports!Debits(ps) - Reports!Credits(ps)
  BY DEF Reports!Balance
<1> QED BY <1>1, <1>3, <1>4, <1>5, <1>6, <1>7, <1>8

\* However postings are sorted into classes, the classes have together what the postings have.
LEMMA ClassesAddUp ==
    ASSUME Reports!ReportsAssumption, Reports!TypeOK, NEW ps \in SUBSET Entries,
           NEW C, IsFiniteSet(C), NEW k, \A p \in ps : k[p] \in C
    PROVE  /\ SumFunctionOnSet([c \in C |-> Reports!Debits({p \in ps : k[p] = c})], C) = Reports!Debits(ps)
           /\ SumFunctionOnSet([c \in C |-> Reports!Credits({p \in ps : k[p] = c})], C) = Reports!Credits(ps)
           /\ SumFunctionOnSet([c \in C |-> Reports!Balance({p \in ps : k[p] = c})], C) = Reports!Balance(ps)
<1> DEFINE class(c) == {p \in ps : k[p] = c}
           d == [c \in C |-> Reports!Debits(class(c))]
           e == [c \in C |-> Reports!Credits(class(c))]
           b == [c \in C |-> Reports!Balance(class(c))]
           ds == [c \in C |-> SumFunctionOnSet(DebitOf, class(c))]
           es == [c \in C |-> SumFunctionOnSet(CreditOf, class(c))]
           bs == [c \in C |-> SumFunctionOnSet(NetOf, class(c))]
<1>1. IsFiniteSet(ps) /\ \A p \in ps : DebitOf[p] \in Int /\ CreditOf[p] \in Int /\ NetOf[p] \in Int
  BY EntriesTyped, BalanceIsSum
<1>2. \A c \in C : class(c) \in SUBSET Entries
  OBVIOUS
<1>3. /\ SumFunctionOnSet(ds, C) = SumFunctionOnSet(DebitOf, ps)
      /\ SumFunctionOnSet(es, C) = SumFunctionOnSet(CreditOf, ps)
      /\ SumFunctionOnSet(bs, C) = SumFunctionOnSet(NetOf, ps)
  BY <1>1, SumByClass
<1> HIDE DEF class
<1>4. \A c \in C : /\ d[c] \in Int /\ d[c] = ds[c] /\ e[c] \in Int /\ e[c] = es[c] /\ b[c] \in Int /\ b[c] = bs[c]
  BY <1>2, BalanceIsSum
<1> HIDE DEF d, e, b, ds, es, bs
<1>5. /\ SumFunctionOnSet(d, C) = SumFunctionOnSet(ds, C) /\ SumFunctionOnSet(e, C) = SumFunctionOnSet(es, C)
      /\ SumFunctionOnSet(b, C) = SumFunctionOnSet(bs, C)
  BY <1>4, SumSame
<1>6. /\ SumFunctionOnSet(d, C) = Reports!Debits(ps) /\ SumFunctionOnSet(e, C) = Reports!Credits(ps)
      /\ SumFunctionOnSet(b, C) = Reports!Balance(ps)
  BY <1>3, <1>5, BalanceIsSum
<1> QED BY <1>6 DEF d, e, b, class

\* A voucher balances, posting by posting.
LEMMA VoucherBalances ==
    ASSUME Reports!ReportsAssumption, Reports!TypeOK, NEW v \in PostedVouchers
    PROVE  Reports!PostingsOf({v}) \in SUBSET Entries /\ Reports!Balance(Reports!PostingsOf({v})) = 0
<1> DEFINE ps == Reports!PostingsOf({v})
           lines == ledger[v].lines
           C == Reports!Used(lines)
           k == [p \in ps |-> p[2]]
           d == [n \in C |-> lines[n].debit]
           e == [n \in C |-> lines[n].credit]
           ds == [n \in C |-> Reports!Debits({p \in ps : k[p] = n})]
           es == [n \in C |-> Reports!Credits({p \in ps : k[p] = n})]
<1>1. ps \in SUBSET Entries /\ C \in SUBSET PostedLines
  BY DEF Entries, Reports!PostingsOf, Reports!Used
<1>2. IsFiniteSet(C)
  BY <1>1, FS_Subset, ReportFinite DEF Reports!ReportsAssumption
<1>3. Reports!SumFunction(d) = Reports!SumFunction(e)
  <2>1. ledger[v] \in Reports!Voucher
    BY DEF Reports!TypeOK
  <2>2. Reports!Balanced(lines)
    BY <2>1 DEF Reports!Voucher
  <2> QED BY <2>2 DEF Reports!Balanced
<1>4. SumFunctionOnSet(d, C) = SumFunctionOnSet(e, C)
  BY <1>3, ReportSums
<1>5. \A p \in ps : k[p] \in C
  BY DEF Reports!PostingsOf, Reports!Used, Reports!LineOf
<1>6. \A n \in C : ds[n] = d[n] /\ ds[n] \in Int /\ es[n] = e[n] /\ es[n] \in Int
  <2> SUFFICES ASSUME NEW n \in C PROVE ds[n] = d[n] /\ ds[n] \in Int /\ es[n] = e[n] /\ es[n] \in Int
    OBVIOUS
  <2> DEFINE q == <<v, n>>
  <2>1. q \in ps /\ {p \in ps : k[p] = n} = {q}
    BY DEF Reports!PostingsOf, Reports!Used, Reports!LineOf
  <2>2. Reports!LineOf(q) = lines[n]
    BY DEF Reports!LineOf
  <2>3. q \in Entries /\ {q} \in SUBSET Entries
    BY <1>1, <2>1
  <2>4. DebitOf[q] = lines[n].debit /\ DebitOf[q] \in Int /\ CreditOf[q] = lines[n].credit /\ CreditOf[q] \in Int
    BY <2>2, <2>3, EntriesTyped
  <2>5. ds[n] = Reports!Debits({q}) /\ es[n] = Reports!Credits({q}) /\ d[n] = lines[n].debit /\ e[n] = lines[n].credit
    BY <2>1
  <2> HIDE DEF q, ps, lines, C, k, d, e, ds, es
  <2>6. Reports!Debits({q}) = SumFunctionOnSet(DebitOf, {q}) /\ Reports!Credits({q}) = SumFunctionOnSet(CreditOf, {q})
    BY <2>3, BalanceIsSum
  <2>7. /\ IsFiniteSet({q}) /\ q \in {q} /\ (\A y \in {q} : y = q)
    BY FS_Singleton
  <2>8. SumFunctionOnSet(DebitOf, {q}) = DebitOf[q] /\ SumFunctionOnSet(CreditOf, {q}) = CreditOf[q]
    BY <2>4, <2>7, SumOne
  <2> QED BY <2>4, <2>5, <2>6, <2>8
<1> HIDE DEF ps, lines, C, k, d, e
<1>7. SumFunctionOnSet(ds, C) = Reports!Debits(ps) /\ SumFunctionOnSet(es, C) = Reports!Credits(ps)
  BY <1>1, <1>2, <1>5, ClassesAddUp
<1> HIDE DEF ds, es
<1>8. SumFunctionOnSet(ds, C) = SumFunctionOnSet(d, C) /\ SumFunctionOnSet(es, C) = SumFunctionOnSet(e, C)
  BY <1>2, <1>6, SumSame
<1>9. Reports!Debits(ps) = Reports!Credits(ps) /\ Reports!Debits(ps) \in Int
  BY <1>1, <1>4, <1>7, <1>8, BalanceIsSum
<1>10. Reports!Balance(ps) = 0
  BY <1>9 DEF Reports!Balance
<1> QED BY <1>1, <1>10 DEF ps

\* So do all lines of any vouchers together.
LEMMA VouchersBalance ==
    ASSUME Reports!ReportsAssumption, Reports!TypeOK, NEW vs \in SUBSET PostedVouchers
    PROVE  /\ IsFiniteSet(vs) /\ Reports!PostingsOf(vs) \in SUBSET Entries
           /\ Reports!Balance(Reports!PostingsOf(vs)) = 0
<1> DEFINE ps == Reports!PostingsOf(vs)
           k == [p \in ps |-> p[1]]
           b == [v \in vs |-> Reports!Balance({p \in ps : k[p] = v})]
<1>1. ps \in SUBSET Entries /\ \A p \in ps : k[p] \in vs
  BY DEF Entries, Reports!PostingsOf
<1>2. IsFiniteSet(vs)
  BY FS_Subset, ReportFinite DEF Reports!ReportsAssumption
<1>3. \A v \in vs : b[v] = 0
  <2> SUFFICES ASSUME NEW v \in vs PROVE b[v] = 0
    OBVIOUS
  <2>1. {p \in ps : k[p] = v} = Reports!PostingsOf({v})
    BY DEF Reports!PostingsOf
  <2>2. b[v] = Reports!Balance(Reports!PostingsOf({v}))
    BY <2>1
  <2> HIDE DEF ps, k, b
  <2> QED BY <2>2, VoucherBalances
<1> HIDE DEF ps, k
<1>4. SumFunctionOnSet(b, vs) = Reports!Balance(ps)
  BY <1>1, <1>2, ClassesAddUp
<1> HIDE DEF b
<1>5. SumFunctionOnSet(b, vs) = 0
  BY <1>2, <1>3, SumZero
<1> QED BY <1>1, <1>2, <1>4, <1>5 DEF ps

\* What the reports select are postings.
LEMMA Selections ==
    ASSUME Reports!ReportsAssumption, Reports!TypeOK
    PROVE  /\ Reports!Scope \in SUBSET PostedVouchers /\ Reports!AllLines \in SUBSET Entries
           /\ \A as, ps : ps \in SUBSET Entries => Reports!On(as, ps) \in SUBSET Entries
  BY VouchersBalance DEF Reports!Scope, Reports!AllLines, Reports!On

\* The rows of the accounts have together what the postings on them have.
LEMMA RowsAddUp ==
    ASSUME Reports!ReportsAssumption, Reports!TypeOK, NEW ps \in SUBSET Entries, NEW as \in SUBSET Accounts
    PROVE  /\ SumFunctionOnSet([a \in as |-> Reports!Debits(Reports!On({a}, ps))], as) = Reports!Debits(Reports!On(as, ps))
           /\ SumFunctionOnSet([a \in as |-> Reports!Credits(Reports!On({a}, ps))], as) = Reports!Credits(Reports!On(as, ps))
           /\ SumFunctionOnSet([a \in as |-> Reports!Balance(Reports!On({a}, ps))], as) = Reports!Balance(Reports!On(as, ps))
<1> DEFINE on == Reports!On(as, ps)
           k == [p \in on |-> Reports!LineOf(p).account]
<1>1. on \in SUBSET Entries /\ \A p \in on : k[p] \in as
  BY Selections DEF Reports!On
<1>2. IsFiniteSet(as)
  BY FS_Subset, ReportFinite DEF Reports!ReportsAssumption
<1>3. \A a \in as : {p \in on : k[p] = a} = Reports!On({a}, ps)
  BY DEF Reports!On
<1>4. /\ [a \in as |-> Reports!Debits({p \in on : k[p] = a})] = [a \in as |-> Reports!Debits(Reports!On({a}, ps))]
      /\ [a \in as |-> Reports!Credits({p \in on : k[p] = a})] = [a \in as |-> Reports!Credits(Reports!On({a}, ps))]
      /\ [a \in as |-> Reports!Balance({p \in on : k[p] = a})] = [a \in as |-> Reports!Balance(Reports!On({a}, ps))]
  <2> HIDE DEF on, k
  <2> QED BY <1>3
<1> HIDE DEF on, k
<1>5. /\ SumFunctionOnSet([a \in as |-> Reports!Debits({p \in on : k[p] = a})], as) = Reports!Debits(on)
      /\ SumFunctionOnSet([a \in as |-> Reports!Credits({p \in on : k[p] = a})], as) = Reports!Credits(on)
      /\ SumFunctionOnSet([a \in as |-> Reports!Balance({p \in on : k[p] = a})], as) = Reports!Balance(on)
  BY <1>1, <1>2, ClassesAddUp
<1> QED BY <1>4, <1>5 DEF on

LEMMA TypesFinite == IsFiniteSet(Reports!Types)
<1>1. Reports!Types = (((({} \cup {"asset"}) \cup {"liability"}) \cup {"equity"}) \cup {"income"}) \cup {"expense"}
  BY DEF Reports!Types
<1>2. \A S, x : IsFiniteSet(S) => IsFiniteSet(S \cup {x})
  BY FS_AddElement
<1> QED BY <1>1, <1>2, FS_EmptySet

\* The types of account share out the balance of any postings.
LEMMA TypesAddUp ==
    ASSUME Reports!ReportsAssumption, Reports!TypeOK, NEW ps \in SUBSET Entries,
           NEW T, IsFiniteSet(T), \A p \in ps : TypeOf[Reports!LineOf(p).account] \in T
    PROVE  SumFunctionOnSet([t \in T |-> Reports!Balance(Reports!On(Reports!OfType(t), ps))], T) = Reports!Balance(ps)
<1> DEFINE k == [p \in ps |-> TypeOf[Reports!LineOf(p).account]]
<1>1. \A p \in ps : k[p] \in T
  OBVIOUS
<1>2. \A p \in ps : Reports!LineOf(p).account \in Accounts
  BY EntriesTyped
<1>3. \A t \in T : {p \in ps : k[p] = t} = Reports!On(Reports!OfType(t), ps)
  BY <1>2 DEF Reports!On, Reports!OfType
<1>4. [t \in T |-> Reports!Balance({p \in ps : k[p] = t})]
        = [t \in T |-> Reports!Balance(Reports!On(Reports!OfType(t), ps))]
  <2> HIDE DEF k
  <2> QED BY <1>3
<1> HIDE DEF k
<1>5. SumFunctionOnSet([t \in T |-> Reports!Balance({p \in ps : k[p] = t})], T) = Reports!Balance(ps)
  BY <1>1, ClassesAddUp
<1> QED BY <1>4, <1>5

\* The balance of a type is that of the postings on its accounts.
LEMMA DebitBalances ==
    ASSUME Reports!ReportsAssumption, Reports!TypeOK, NEW t
    PROVE  /\ Reports!DebitBalance(t) = Reports!Balance(Reports!On(Reports!OfType(t), Reports!AllLines))
           /\ Reports!DebitBalance(t) \in Int
<1> DEFINE as == Reports!OfType(t)
           rows == [a \in as |-> Reports!AccountRows[a].debit - Reports!AccountRows[a].credit]
           balances == [a \in as |-> Reports!Balance(Reports!On({a}, Reports!AllLines))]
<1>1. as \in SUBSET Accounts
  BY DEF Reports!OfType
<1>2. rows = balances
  BY <1>1 DEF Reports!AccountRows, Reports!Balance
<1>3. Reports!DebitBalance(t) = SumFunctionOnSet(rows, as)
  BY ReportSums DEF Reports!DebitBalance
<1>4. Reports!AllLines \in SUBSET Entries /\ Reports!On(as, Reports!AllLines) \in SUBSET Entries
  BY Selections
<1> HIDE DEF as, rows
<1>5. SumFunctionOnSet(balances, as) = Reports!Balance(Reports!On(as, Reports!AllLines))
  BY <1>1, <1>4, RowsAddUp
<1>6. Reports!Balance(Reports!On(as, Reports!AllLines)) \in Int
  BY <1>4, BalanceIsSum
<1> HIDE DEF balances
<1> QED BY <1>2, <1>3, <1>5, <1>6 DEF as

\* The balance sheet, with the open profit in it, is out by what the lines are.
LEMMA EquationHolds ==
    ASSUME Reports!ReportsAssumption, Reports!TypeOK
    PROVE  Reports!EquationDifference = Reports!Balance(Reports!AllLines)
<1> DEFINE f == [t \in Reports!Types |-> Reports!Balance(Reports!On(Reports!OfType(t), Reports!AllLines))]
           S1 == {"asset"}
           S2 == S1 \cup {"liability"}
           S3 == S2 \cup {"equity"}
           S4 == S3 \cup {"income"}
<1>1. /\ f["asset"] = Reports!DebitBalance("asset") /\ f["liability"] = Reports!DebitBalance("liability")
      /\ f["equity"] = Reports!DebitBalance("equity") /\ f["income"] = Reports!DebitBalance("income")
      /\ f["expense"] = Reports!DebitBalance("expense")
  BY DebitBalances DEF Reports!Types
<1>2. \A t \in Reports!Types : f[t] \in Int
  BY DebitBalances
<1>3. /\ f["asset"] \in Int /\ f["liability"] \in Int /\ f["equity"] \in Int /\ f["income"] \in Int /\ f["expense"] \in Int
  BY <1>2 DEF Reports!Types
<1>4. SumFunctionOnSet(f, Reports!Types) = Reports!Balance(Reports!AllLines)
  <2>1. Reports!AllLines \in SUBSET Entries
    BY Selections
  <2>2. \A p \in Reports!AllLines : TypeOf[Reports!LineOf(p).account] \in Reports!Types
    <3>1. \A p \in Reports!AllLines : Reports!LineOf(p).account \in Accounts
      BY <2>1, EntriesTyped
    <3> QED BY <3>1 DEF Reports!ReportsAssumption
  <2> QED BY <2>1, <2>2, TypesFinite, TypesAddUp
<1>5. Reports!Types = S4 \cup {"expense"}
  BY DEF Reports!Types
<1> HIDE DEF f
<1>6. IsFiniteSet(S1) /\ SumFunctionOnSet(f, S1) = f["asset"]
  <2>1. IsFiniteSet(S1) /\ "asset" \in S1 /\ (\A y \in S1 : f[y] \in Int) /\ (\A y \in S1 : y # "asset" => f[y] = 0)
    BY <1>3, FS_Singleton
  <2> HIDE DEF S1
  <2> QED BY <2>1, SumOne
<1>7. IsFiniteSet(S2) /\ SumFunctionOnSet(f, S2) = f["liability"] + SumFunctionOnSet(f, S1)
  <2>1. "liability" \notin S1 /\ f["liability"] \in Int /\ \A y \in S1 : f[y] \in Int
    BY <1>3
  <2> HIDE DEF S1
  <2> QED BY <2>1, <1>6, SumWith, FS_AddElement
<1>8. IsFiniteSet(S3) /\ SumFunctionOnSet(f, S3) = f["equity"] + SumFunctionOnSet(f, S2)
  <2>1. "equity" \notin S2 /\ f["equity"] \in Int /\ \A y \in S2 : f[y] \in Int
    BY <1>3
  <2> HIDE DEF S2
  <2> QED BY <2>1, <1>7, SumWith, FS_AddElement
<1>9. IsFiniteSet(S4) /\ SumFunctionOnSet(f, S4) = f["income"] + SumFunctionOnSet(f, S3)
  <2>1. "income" \notin S3 /\ f["income"] \in Int /\ \A y \in S3 : f[y] \in Int
    BY <1>3
  <2> HIDE DEF S3
  <2> QED BY <2>1, <1>8, SumWith, FS_AddElement
<1>10. SumFunctionOnSet(f, S4 \cup {"expense"}) = f["expense"] + SumFunctionOnSet(f, S4)
  <2>1. "expense" \notin S4 /\ f["expense"] \in Int /\ \A y \in S4 : f[y] \in Int
    BY <1>3
  <2> HIDE DEF S4
  <2> QED BY <2>1, <1>9, SumWith
<1>11. Reports!EquationDifference
         = f["asset"] + f["liability"] + f["equity"] - ((-f["income"]) - f["expense"])
  BY <1>1 DEF Reports!EquationDifference, Reports!ProfitAndLoss
<1> QED
  <2> DEFINE s1 == SumFunctionOnSet(f, S1)
             s2 == SumFunctionOnSet(f, S2)
             s3 == SumFunctionOnSet(f, S3)
             s4 == SumFunctionOnSet(f, S4)
             s5 == SumFunctionOnSet(f, S4 \cup {"expense"})
  <2>1. s5 = Reports!Balance(Reports!AllLines)
    BY <1>4, <1>5
  <2>2. s1 = f["asset"] /\ s2 = f["liability"] + s1 /\ s3 = f["equity"] + s2 /\ s4 = f["income"] + s3 /\ s5 = f["expense"] + s4
    BY <1>6, <1>7, <1>8, <1>9, <1>10
  <2> HIDE DEF s1, s2, s3, s4, s5
  <2> QED BY <1>3, <1>11, <2>1, <2>2

\* The columns of the trial balance differ by the balance of the lines.
LEMMA TrialBalances ==
    ASSUME Reports!ReportsAssumption, Reports!TypeOK
    PROVE  Reports!TrialBalance.debit - Reports!TrialBalance.credit = Reports!Balance(Reports!AllLines)
<1> DEFINE ps == Reports!AllLines
           d == [a \in Accounts |-> Reports!Debits(Reports!On({a}, ps))]
           c == [a \in Accounts |-> Reports!Credits(Reports!On({a}, ps))]
<1>1. ps \in SUBSET Entries
  BY Selections
<1>2. [a \in Accounts |-> Reports!AccountRows[a].debit] = d /\ [a \in Accounts |-> Reports!AccountRows[a].credit] = c
  BY DEF Reports!AccountRows
<1>3. Reports!TrialBalance.debit = SumFunctionOnSet(d, Accounts) /\ Reports!TrialBalance.credit = SumFunctionOnSet(c, Accounts)
  BY <1>2, ReportSums DEF Reports!TrialBalance
<1>4. Reports!On(Accounts, ps) = ps
  BY <1>1, EntriesTyped DEF Reports!On
<1> HIDE DEF ps
<1>5. SumFunctionOnSet(d, Accounts) = Reports!Debits(ps) /\ SumFunctionOnSet(c, Accounts) = Reports!Credits(ps)
  BY <1>1, <1>4, RowsAddUp
<1> HIDE DEF d, c
<1> QED BY <1>3, <1>5 DEF Reports!Balance, ps

\* The cost centres and plants, with what is not assigned, have together what the lines have.
LEMMA DimensionsAddUp ==
    ASSUME Reports!ReportsAssumption, Reports!TypeOK
    PROVE  Reports!SumFunction(Reports!Dimensions) = Reports!Balance(Reports!AllLines)
<1> DEFINE ps == Reports!AllLines
           C == (CostCenters \cup {Nothing}) \X (PlantNames \cup {Nothing})
           k == [p \in ps |-> Reports!DimensionsOf(p)]
<1>1. ps \in SUBSET Entries
  BY Selections
<1>2. \A p \in ps : k[p] \in C
  BY <1>1, EntriesTyped
<1>3. IsFiniteSet(C)
  <2>1. IsFiniteSet(CostCenters) /\ IsFiniteSet(PlantNames)
    BY ReportFinite DEF Reports!ReportsAssumption
  <2> QED BY <2>1, FS_AddElement, FS_Product
<1>4. Reports!Dimensions = [c \in C |-> Reports!Balance({p \in ps : k[p] = c})]
  <2>1. \A c \in C : {p \in ps : k[p] = c} = {p \in ps : Reports!DimensionsOf(p) = c}
    OBVIOUS
  <2> HIDE DEF C, k
  <2>2. [c \in C |-> Reports!Balance({p \in ps : k[p] = c})]
          = [c \in C |-> Reports!Balance({p \in ps : Reports!DimensionsOf(p) = c})]
    BY <2>1
  <2> QED BY <2>2 DEF Reports!Dimensions, C
<1>5. Reports!SumFunction(Reports!Dimensions) = SumFunctionOnSet(Reports!Dimensions, C)
  BY ReportSums DEF Reports!Dimensions
<1> HIDE DEF ps, C, k
<1>6. SumFunctionOnSet([c \in C |-> Reports!Balance({p \in ps : k[p] = c})], C) = Reports!Balance(ps)
  BY <1>1, <1>2, <1>3, ClassesAddUp
<1> QED BY <1>4, <1>5, <1>6 DEF ps

\* Unless one plant or cost centre is asked for, the lines of the scope are those of its vouchers.
LEMMA AllBalance ==
    ASSUME Reports!ReportsAssumption, Reports!TypeOK, query.plantId = Nothing, query.costCenterId = Nothing
    PROVE  Reports!Balance(Reports!AllLines) = 0
<1>1. Reports!AllLines = Reports!PostingsOf(Reports!Scope)
  BY DEF Reports!AllLines, Reports!Matches
<1> QED BY <1>1, Selections, VouchersBalance

\* Cash flow by class adds up to what the cash and bank accounts moved.
LEMMA CashFlowAddsUp ==
    ASSUME Reports!ReportsAssumption, Reports!TypeOK
    PROVE  Reports!SumFunction(Reports!CashFlow) = Reports!Balance(Reports!On(CashLike, Reports!PostingsOf(Reports!Scope)))
<1> DEFINE S == Reports!Scope
           V == {v \in S : Reports!CashLines(v) # {}}
           C == {ClassOf[a] : a \in Accounts} \cup {"mixed"}
           k == [v \in V |-> Reports!Bucket(v)]
           f == [v \in S |-> Reports!Balance(Reports!CashLines(v))]
           cash == Reports!On(CashLike, Reports!PostingsOf(S))
           of == [p \in cash |-> p[1]]
           byClass == [c \in C |-> SumFunctionOnSet(f, {v \in V : k[v] = c})]
           byVoucher == [v \in S |-> Reports!Balance({p \in cash : of[p] = v})]
<1>1. S \in SUBSET PostedVouchers /\ IsFiniteSet(S) /\ cash \in SUBSET Entries
  BY Selections, VouchersBalance
<1>2. V \in SUBSET S /\ IsFiniteSet(V)
  BY <1>1, FS_Subset
<1>3. IsFiniteSet(C)
  <2> DEFINE g == [a \in Accounts |-> ClassOf[a]]
             Classes == {ClassOf[a] : a \in Accounts}
  <2>1. g \in Surjection(Accounts, Classes)
    BY DEF Surjection
  <2>2. IsFiniteSet(Accounts)
    BY ReportFinite DEF Reports!ReportsAssumption
  <2> HIDE DEF g, Classes
  <2>3. IsFiniteSet(Classes)
    BY <2>1, <2>2, FS_Surjection
  <2>4. IsFiniteSet(Classes \cup {"mixed"})
    BY <2>3, FS_AddElement
  <2> QED BY <2>4 DEF Classes
<1>4. \A v \in V : k[v] \in C
  <2> SUFFICES ASSUME NEW v \in V PROVE Reports!Bucket(v) \in C
    OBVIOUS
  <2>1. v \in PostedVouchers
    BY <1>1, <1>2
  <2>2. Reports!PostingsOf({v}) \in SUBSET Entries
    BY <2>1, VoucherBalances
  <2>3. Reports!Classes(v) \subseteq C
    BY <2>2, EntriesTyped DEF Reports!Classes
  <2>4. Reports!Cardinality(Reports!Classes(v)) = 1 => Reports!Classes(v) # {}
    BY ReportCardinality, FS_EmptySet
  <2>5. CASE Reports!Cardinality(Reports!Classes(v)) = 1
    <3>1. Reports!Bucket(v) = CHOOSE c \in Reports!Classes(v) : TRUE
      BY <2>5 DEF Reports!Bucket
    <3>2. Reports!Bucket(v) \in Reports!Classes(v)
      BY <2>4, <2>5, <3>1
    <3> QED BY <2>3, <3>2
  <2>6. CASE Reports!Cardinality(Reports!Classes(v)) # 1
    BY <2>6 DEF Reports!Bucket
  <2> QED BY <2>5, <2>6
<1>5. \A v \in S : Reports!CashLines(v) \in SUBSET Entries /\ f[v] \in Int /\ f[v] = Reports!Balance(Reports!CashLines(v))
  <2> SUFFICES ASSUME NEW v \in S
               PROVE  Reports!CashLines(v) \in SUBSET Entries /\ f[v] \in Int /\ f[v] = Reports!Balance(Reports!CashLines(v))
    OBVIOUS
  <2>1. Reports!PostingsOf({v}) \in SUBSET Entries
    BY <1>1, VoucherBalances
  <2>2. Reports!CashLines(v) \in SUBSET Entries
    BY <2>1, Selections DEF Reports!CashLines
  <2>3. Reports!Balance(Reports!CashLines(v)) \in Int
    BY <2>2, BalanceIsSum
  <2> QED BY <2>2, <2>3
<1>6. \A v \in S \ V : f[v] = 0
  <2> SUFFICES ASSUME NEW v \in S \ V PROVE f[v] = 0
    OBVIOUS
  <2>1. Reports!CashLines(v) = {}
    OBVIOUS
  <2>2. Reports!Balance({}) = 0
    BY BalanceIsSum, SumEmpty
  <2> QED BY <2>1, <2>2, <1>5
<1>7. Reports!SumFunction(Reports!CashFlow) = SumFunctionOnSet(byClass, C)
  <2>1. ASSUME NEW c \in C
        PROVE  Reports!SumFunction([v \in {v \in S : Reports!CashLines(v) # {} /\ Reports!Bucket(v) = c} |->
                                      Reports!Balance(Reports!CashLines(v))])
                 = byClass[c]
    <3> DEFINE part == {v \in V : k[v] = c}
               g == [v \in part |-> Reports!Balance(Reports!CashLines(v))]
    <3>1. part = {v \in S : Reports!CashLines(v) # {} /\ Reports!Bucket(v) = c}
      OBVIOUS
    <3>2. Reports!SumFunction(g) = SumFunctionOnSet(g, part)
      BY ReportSums
    <3>3. \A v \in part : g[v] = f[v] /\ g[v] \in Int
      BY <1>5
    <3>4. IsFiniteSet(part)
      BY <1>2, FS_Subset
    <3>5. byClass[c] = SumFunctionOnSet(f, part)
      BY <2>1
    <3>6. SumFunctionOnSet(g, part) = SumFunctionOnSet(f, part)
      <4> HIDE DEF g, f, part, byClass
      <4> QED BY <3>3, <3>4, SumSame
    <3> QED BY <3>1, <3>2, <3>5, <3>6
  <2>2. Reports!CashFlow = [c \in C |-> byClass[c]]
    BY <2>1 DEF Reports!CashFlow
  <2>3. Reports!CashFlow = byClass
    BY <2>2
  <2> HIDE DEF C
  <2> QED BY <2>3, ReportSums
<1>8. \A v \in V : f[v] \in Int
  BY <1>2, <1>5
<1>9. \A v \in S : byVoucher[v] = f[v]
  <2> SUFFICES ASSUME NEW v \in S PROVE byVoucher[v] = f[v]
    OBVIOUS
  <2>1. {p \in cash : of[p] = v} = Reports!CashLines(v)
    BY DEF Reports!CashLines, Reports!PostingsOf, Reports!On
  <2>2. byVoucher[v] = Reports!Balance(Reports!CashLines(v))
    BY <2>1
  <2> QED BY <1>5, <2>2
<1>10. \A p \in cash : of[p] \in S
  BY DEF Reports!On, Reports!PostingsOf
<1> HIDE DEF V, C, k, f, S, cash, of
<1>11. SumFunctionOnSet(byClass, C) = SumFunctionOnSet(f, V)
  BY <1>2, <1>3, <1>4, <1>8, SumByClass
<1>12. SumFunctionOnSet(byVoucher, S) = Reports!Balance(cash)
  BY <1>1, <1>10, ClassesAddUp
<1> HIDE DEF byClass, byVoucher
<1>13. SumFunctionOnSet(f, S) = SumFunctionOnSet(byVoucher, S)
  BY <1>1, <1>5, <1>9, SumSame
<1>14. SumFunctionOnSet(f, S) = SumFunctionOnSet(f, V)
  <2> DEFINE rest == S \ V
  <2>1. V \cup rest = S /\ V \cap rest = {} /\ IsFiniteSet(rest) /\ \A v \in V \cup rest : f[v] \in Int
    BY <1>1, <1>2, <1>5, FS_Subset
  <2>2. \A v \in rest : f[v] = 0
    BY <1>6
  <2> HIDE DEF rest
  <2>3. SumFunctionOnSet(f, V \cup rest) = SumFunctionOnSet(f, V) + SumFunctionOnSet(f, rest)
    BY <1>2, <2>1, SumUnion
  <2>4. SumFunctionOnSet(f, rest) = 0
    BY <2>1, <2>2, SumZero
  <2>5. SumFunctionOnSet(f, V) \in Int
    BY <1>2, <2>1, SumInteger
  <2>6. SumFunctionOnSet(f, S) = SumFunctionOnSet(f, V) + SumFunctionOnSet(f, rest)
    BY <2>1, <2>3
  <2> QED BY <2>4, <2>5, <2>6
<1>15. Reports!Balance(cash) = SumFunctionOnSet(byClass, C)
  BY <1>11, <1>12, <1>13, <1>14
<1> QED BY <1>7, <1>15 DEF cash, S

\* The ledger of an account closes at its balance of all days up to the end of the range, for the
\* queries that do not give asOf with from.
LEMMA ClosesAtEnd ==
    ASSUME Reports!ReportsAssumption, Reports!TypeOK
    PROVE  Reports!LedgerClosesByRange
<1> SUFFICES ASSUME query.asOf = Nothing \/ query.from = Nothing, NEW a \in Accounts,
                    query.from # Nothing /\ Reports!EndOfRange # Nothing => query.from <= Reports!EndOfRange
             PROVE  Reports!GeneralLedger(a).closing
                      = Reports!Balance(Reports!On({a}, {p \in Reports!PostingsOf(Reports!UpTo(Reports!EndOfRange)) : Reports!Matches(p)}))
  BY DEF Reports!LedgerClosesByRange, Reports!LedgerCloses
<1> DEFINE S == Reports!Scope
           B == Reports!Before
           U == Reports!UpTo(Reports!EndOfRange)
           sel(vs) == Reports!On({a}, {p \in Reports!PostingsOf(vs) : Reports!Matches(p)})
<1>1. S \in SUBSET PostedVouchers /\ B \in SUBSET PostedVouchers /\ U \in SUBSET PostedVouchers
  BY DEF Reports!Scope, Reports!UpTo, Reports!Before
<1>2. \A v \in PostedVouchers : ledger[v].day \in Nat
  <2>1. \A v \in PostedVouchers : ledger[v].day \in PostingDays
    BY DEF Reports!TypeOK, Reports!Voucher
  <2> QED BY <2>1 DEF Reports!ReportsAssumption
<1>3. /\ query.from \in Nat \/ query.from = Nothing
      /\ query.to \in Nat \/ query.to = Nothing
      /\ query.asOf \in Nat \/ query.asOf = Nothing
  <2>1. query \in Reports!FinanceReportQuery
    BY DEF Reports!TypeOK
  <2>2. /\ query.from \in PostingDays \cup {Nothing} /\ query.to \in PostingDays \cup {Nothing}
        /\ query.asOf \in PostingDays \cup {Nothing}
    BY <2>1 DEF Reports!FinanceReportQuery
  <2>3. PostingDays \subseteq Nat
    BY DEF Reports!ReportsAssumption
  <2> QED BY <2>2, <2>3, Zenon
<1>4. B \cap S = {} /\ B \cup S = U
  <2> DEFINE asOf == query.asOf
             from == query.from
             to == query.to
             end == IF asOf # Nothing THEN asOf ELSE to
             day(v) == ledger[v].day
  <2>1. \A v \in PostedVouchers : v \in S <=> IF asOf # Nothing THEN day(v) <= asOf
                                              ELSE (from # Nothing => day(v) >= from) /\ (to # Nothing => day(v) <= to)
    BY DEF Reports!Scope, Reports!InScope
  <2>2. \A v \in PostedVouchers : v \in B <=> from # Nothing /\ day(v) < from
    BY DEF Reports!Before
  <2>3. \A v \in PostedVouchers : v \in U <=> (end # Nothing => day(v) <= end)
    BY DEF Reports!UpTo, Reports!EndOfRange
  <2>4. /\ from \in Nat \/ from = Nothing
        /\ to \in Nat \/ to = Nothing
        /\ asOf \in Nat \/ asOf = Nothing
        /\ asOf = Nothing \/ from = Nothing
        /\ from # Nothing /\ end # Nothing => from <= end
    BY <1>3 DEF Reports!EndOfRange
  <2>5. \A v \in PostedVouchers : day(v) \in Nat
    BY <1>2
  <2> HIDE DEF asOf, from, to, day, B, S, U
  <2>6. ASSUME NEW v \in PostedVouchers
        PROVE  ~(v \in B /\ v \in S) /\ (v \in U <=> v \in B \/ v \in S)
    <3>1. CASE asOf # Nothing
      <4>1. from = Nothing /\ v \notin B
        BY <2>2, <2>4, <3>1
      <4>2. v \in S <=> day(v) <= asOf
        BY <2>1, <3>1
      <4>3. v \in U <=> day(v) <= asOf
        BY <2>3, <3>1
      <4> QED BY <4>1, <4>2, <4>3
    <3>2. CASE asOf = Nothing /\ from = Nothing
      <4>1. v \notin B
        BY <2>2, <3>2
      <4>2. v \in S <=> (to # Nothing => day(v) <= to)
        BY <2>1, <3>2
      <4>3. v \in U <=> (to # Nothing => day(v) <= to)
        BY <2>3, <3>2
      <4> QED BY <4>1, <4>2, <4>3
    <3>3. CASE asOf = Nothing /\ from # Nothing
      <4>1. v \in B <=> day(v) < from
        BY <2>2, <3>3
      <4>2. v \in S <=> day(v) >= from /\ (to # Nothing => day(v) <= to)
        BY <2>1, <3>3
      <4>3. v \in U <=> (to # Nothing => day(v) <= to)
        BY <2>3, <3>3
      <4>4. from \in Nat /\ day(v) \in Nat /\ (to # Nothing => to \in Nat /\ from <= to)
        BY <2>4, <2>5, <3>3
      <4> HIDE DEF end
      <4> QED BY <4>1, <4>2, <4>3, <4>4
    <3> QED BY <3>1, <3>2, <3>3
  <2> QED BY <1>1, <2>6
<1>5. sel(B) \cap sel(S) = {} /\ sel(B) \cup sel(S) = sel(U)
  BY <1>4 DEF Reports!PostingsOf, Reports!On
<1>6. sel(B) \in SUBSET Entries /\ sel(S) \in SUBSET Entries /\ sel(U) \in SUBSET Entries
  <2>1. \A vs \in SUBSET PostedVouchers : {p \in Reports!PostingsOf(vs) : Reports!Matches(p)} \in SUBSET Entries
    BY VouchersBalance
  <2> HIDE DEF S, B, U
  <2> QED BY <1>1, <2>1, Selections
<1>7. Reports!GeneralLedger(a).closing = Reports!Balance(sel(B)) + Reports!Balance(sel(S))
  BY DEF Reports!GeneralLedger, Reports!AllLines
<1> DEFINE before == sel(B)
           within == sel(S)
           until == sel(U)
<1>8. /\ before \in SUBSET Entries /\ within \in SUBSET Entries /\ until \in SUBSET Entries
      /\ before \cap within = {} /\ before \cup within = until
  BY <1>5, <1>6
<1> HIDE DEF before, within, until
<1>9. Reports!Balance(until) = Reports!Balance(before) + Reports!Balance(within)
  <2>1. /\ IsFiniteSet(before) /\ Reports!Balance(before) = SumFunctionOnSet(NetOf, before)
        /\ IsFiniteSet(within) /\ Reports!Balance(within) = SumFunctionOnSet(NetOf, within)
        /\ Reports!Balance(until) = SumFunctionOnSet(NetOf, until)
    BY <1>8, BalanceIsSum
  <2>2. \A p \in before \cup within : NetOf[p] \in Int
    BY <1>8, EntriesTyped
  <2>3. SumFunctionOnSet(NetOf, before \cup within) = SumFunctionOnSet(NetOf, before) + SumFunctionOnSet(NetOf, within)
    BY <1>8, <2>1, <2>2, SumUnion
  <2> QED BY <1>8, <2>1, <2>3
<1> QED BY <1>7, <1>9 DEF before, within, until

\* Half a unit at most is lost in rounding.
LEMMA RoundingError ==
    \A n \in Int : /\ Reports!Rounded(n) \in Int
                   /\ 200 * Reports!Rounded(n) <= 2 * n + 100
                   /\ 2 * n - 100 <= 200 * Reports!Rounded(n)
  BY DEF Reports!Rounded

\* A consolidated company is out of balance by half a unit for each type of account at most.
LEMMA NearlyBalanced ==
    ASSUME Reports!ReportsAssumption, Reports!TypeOK
    PROVE  Reports!TranslationNearlyBalances
<1> SUFFICES ASSUME NEW last \in PostingDays
             PROVE  2 * Reports!SumFunction(Reports!ConsolidationReport(last))
                      \in (-Reports!Cardinality(DOMAIN Reports!ConsolidationReport(last)))
                          ..Reports!Cardinality(DOMAIN Reports!ConsolidationReport(last))
  BY DEF Reports!TranslationNearlyBalances
<1> DEFINE lines == Reports!PostedUntil(last)
           T == {TypeOf[Reports!LineOf(p).account] : p \in lines}
           r == Reports!ConsolidationReport(last)
           b == [t \in T |-> Reports!Balance(Reports!On(Reports!OfType(t), lines))]
           scaled == [t \in T |-> rate * b[t]]
           doubled == [t \in T |-> 2 * scaled[t]]
           hundreds == [t \in T |-> 100]
           above == [t \in T |-> doubled[t] + hundreds[t]]
           below == [t \in T |-> doubled[t] - hundreds[t]]
           left == [t \in T |-> 200 * r[t]]
           n == Cardinality(T)
<1>0. lines \in SUBSET Entries /\ Reports!Balance(lines) = 0
  <2>1. {v \in PostedVouchers : ledger[v].day <= last} \in SUBSET PostedVouchers
    OBVIOUS
  <2> QED BY <2>1, VouchersBalance DEF Reports!PostedUntil
<1>1. T \in SUBSET Reports!Types
  <2>1. \A p \in lines : Reports!LineOf(p).account \in Accounts
    BY <1>0, EntriesTyped
  <2> QED BY <2>1 DEF Reports!ReportsAssumption
<1>2. IsFiniteSet(T) /\ n \in Nat
  BY <1>1, TypesFinite, FS_Subset, FS_CardinalityType
<1>3. \A t \in T : b[t] \in Int /\ b[t] = Reports!Balance(Reports!On(Reports!OfType(t), lines))
  BY <1>0, Selections, BalanceIsSum
<1>4. rate \in Int
  <2>1. rate \in Nat
    BY Zenon DEF Reports!TypeOK, Reports!ReportsAssumption
  <2> QED BY <2>1
<1>5. \A p \in lines : TypeOf[Reports!LineOf(p).account] \in T
  OBVIOUS
<1>6. r = [t \in T |-> Reports!Rounded(rate * b[t])]
  BY DEF Reports!ConsolidationReport
<1>7. \A t \in T : r[t] = Reports!Rounded(rate * b[t])
  BY <1>6
<1>8. Reports!SumFunction(r) = SumFunctionOnSet(r, T) /\ DOMAIN r = T
  BY <1>6, ReportSums
<1>9. Reports!Cardinality(T) = n
  BY ReportCardinality
<1> HIDE DEF T, r, n, lines
<1>10. SumFunctionOnSet(b, T) = 0
  BY <1>0, <1>2, <1>5, TypesAddUp
<1> HIDE DEF b
<1>11. \A t \in T : b[t] \in Int
  BY <1>3
<1>12. \A t \in T : scaled[t] = rate * b[t] /\ scaled[t] \in Int
  BY <1>4, <1>11
<1>13. \A t \in T : /\ r[t] \in Int /\ doubled[t] \in Int /\ hundreds[t] \in Int
                    /\ above[t] \in Int /\ below[t] \in Int /\ left[t] \in Int
                    /\ left[t] <= above[t] /\ below[t] <= left[t]
  <2> SUFFICES ASSUME NEW t \in T
               PROVE  /\ r[t] \in Int /\ doubled[t] \in Int /\ hundreds[t] \in Int
                      /\ above[t] \in Int /\ below[t] \in Int /\ left[t] \in Int
                      /\ left[t] <= above[t] /\ below[t] <= left[t]
    OBVIOUS
  <2> DEFINE x == scaled[t]
  <2>1. x \in Int /\ r[t] = Reports!Rounded(x)
    BY <1>7, <1>12
  <2>2. /\ doubled[t] = 2 * x /\ hundreds[t] = 100 /\ left[t] = 200 * r[t]
        /\ above[t] = doubled[t] + hundreds[t] /\ below[t] = doubled[t] - hundreds[t]
    OBVIOUS
  <2>3. Reports!Rounded(x) \in Int /\ 200 * Reports!Rounded(x) <= 2 * x + 100 /\ 2 * x - 100 <= 200 * Reports!Rounded(x)
    BY <2>1, RoundingError
  <2> HIDE DEF x, scaled, doubled, hundreds, above, below, left
  <2> QED BY <2>1, <2>2, <2>3
<1>14. SumFunctionOnSet(scaled, T) = rate * SumFunctionOnSet(b, T)
  BY <1>2, <1>4, <1>11, SumTimes
<1>15. SumFunctionOnSet(scaled, T) = 0
  BY <1>4, <1>10, <1>14
<1>16. SumFunctionOnSet(hundreds, T) = 100 * n
  <2>1. \A t \in T : hundreds[t] = 100
    OBVIOUS
  <2> HIDE DEF hundreds
  <2>2. SumFunctionOnSet(hundreds, T) = 100 * Cardinality(T)
    BY <1>2, <2>1, SumConstant
  <2> QED BY <2>2 DEF n
<1>17. SumFunctionOnSet(left, T) = 200 * SumFunctionOnSet(r, T)
  BY <1>2, <1>13, SumTimes
<1> HIDE DEF scaled, hundreds, left
<1>18. SumFunctionOnSet(doubled, T) = 2 * SumFunctionOnSet(scaled, T)
  BY <1>2, <1>12, SumTimes
<1> HIDE DEF doubled
<1>19. SumFunctionOnSet(above, T) = SumFunctionOnSet(doubled, T) + SumFunctionOnSet(hundreds, T)
  BY <1>2, <1>13, SumPlus
<1>20. SumFunctionOnSet(below, T) = SumFunctionOnSet(doubled, T) - SumFunctionOnSet(hundreds, T)
  BY <1>2, <1>13, SumMinus
<1> HIDE DEF above, below
<1>21. SumFunctionOnSet(left, T) <= SumFunctionOnSet(above, T) /\ SumFunctionOnSet(below, T) <= SumFunctionOnSet(left, T)
  BY <1>2, <1>13, SumOrdered
<1>22. SumFunctionOnSet(r, T) \in Int
  BY <1>2, <1>13, SumInteger
<1>23. 2 * SumFunctionOnSet(r, T) \in (-n)..n
  <2> DEFINE x == SumFunctionOnSet(r, T)
             s == SumFunctionOnSet(scaled, T)
             d == SumFunctionOnSet(doubled, T)
             h == SumFunctionOnSet(hundreds, T)
             l == SumFunctionOnSet(left, T)
             u == SumFunctionOnSet(above, T)
             w == SumFunctionOnSet(below, T)
  <2>1. /\ x \in Int /\ s = 0 /\ d = 2 * s /\ h = 100 * n /\ u = d + h /\ w = d - h /\ l = 200 * x
        /\ l <= u /\ w <= l /\ n \in Nat
    BY <1>2, <1>15, <1>16, <1>17, <1>18, <1>19, <1>20, <1>21, <1>22
  <2> HIDE DEF x, s, d, h, l, u, w
  <2>2. 2 * x \in (-n)..n
    BY <2>1
  <2> QED BY <2>2 DEF x
<1> QED BY <1>8, <1>9, <1>23 DEF r

ReportsHold == Reports!StatementsAgree /\ Reports!LedgerClosesByRange /\ Reports!TranslationNearlyBalances

LEMMA InitReports == ASSUME Reports!ReportsAssumption, Reports!Init PROVE Reports!TypeOK
  BY DEF Reports!Init, Reports!TypeOK, Reports!ReportsAssumption
LEMMA NextReports == ASSUME Reports!TypeOK, [Reports!Next]_(Reports!vars) PROVE Reports!TypeOK'
  BY DEF Reports!TypeOK, Reports!Next, Reports!vars

\* Whatever vouchers are posted, each with lines that balance together but not plant by plant, and
\* whatever dates, plant and cost centre are asked for: the balance sheet, the trial balance and the cost
\* centres and plants are out by the same, which is nothing unless one plant or cost centre is asked for;
\* cash flow adds up; the general ledger closes at its balance, asOf with from left out; and on every day
\* translation is off by half a unit for each type at most
\* (financeControlService.ts: report, consolidationReport).
THEOREM ReportsAgreeAlways == Reports!ReportsAssumption => (Reports!Spec => []ReportsHold)
<1> SUFFICES ASSUME Reports!ReportsAssumption PROVE Reports!Spec => []ReportsHold
  OBVIOUS
<1>1. Reports!Init => Reports!TypeOK
  BY InitReports
<1>2. Reports!TypeOK /\ [Reports!Next]_(Reports!vars) => Reports!TypeOK'
  BY NextReports
<1>3. Reports!TypeOK => ReportsHold
  <2> SUFFICES ASSUME Reports!TypeOK PROVE ReportsHold
    OBVIOUS
  <2>1. Reports!StatementsAgree
    BY TrialBalances, EquationHolds, DimensionsAddUp, AllBalance, CashFlowAddsUp DEF Reports!StatementsAgree
  <2> QED BY <2>1, ClosesAtEnd, NearlyBalanced DEF ReportsHold
<1> QED BY <1>1, <1>2, <1>3, PTL DEF Reports!Spec

-----------------------------------------------------------------------------
(* CompanyScreens.  A copy is behind for a reason: unless something was      *)
(* missed, or an action has changed the list and is not answered, what is    *)
(* fetched is the server's version, and what is cached too or marked.        *)

Changing == call # Nothing /\ call.changed
ScreensTyped ==
    /\ Shown!TypeOK
    /\ Changing => call.done /\ Shown!Affects(Shown!Actions[call.of], list)
BehindSound ==
    missed = Nothing /\ ~Changing =>
        /\ Shown!OnItsWay => fetch = version
        /\ cached # Nothing /\ cached < version /\ fetch = Shown!NoFetch => stale /\ ~shown
MissedSound ==
    Shown!LeftBehind =>
        /\ missed \in DOMAIN Shown!Actions
        /\ Shown!Affects(Shown!Actions[missed], list) /\ ~Shown!Refreshes(Shown!Actions[missed], list)
ScreensInv == ScreensTyped /\ BehindSound /\ MissedSound

LEMMA ScreensConstants ==
    ASSUME Shown!ScreensAssumption
    PROVE  /\ ScreenVersions \in Nat \ {0}
           /\ Nothing \notin Shown!Reasons /\ Nothing \notin DOMAIN Shown!Actions
           /\ \A c \in Shown!Calls : /\ c # Nothing /\ c.of \in DOMAIN Shown!Actions
                                     /\ c.done \in BOOLEAN /\ c.changed \in BOOLEAN
  BY DEF Shown!ScreensAssumption, Shown!Calls

LEMMA InitScreens == ASSUME Shown!ScreensAssumption, Shown!Init PROVE ScreensInv
<1>1. /\ list \in Shown!Lists /\ shown \in BOOLEAN /\ version = 0 /\ cached = Nothing /\ stale = FALSE
      /\ fetch \in {Shown!Asked, Shown!NoFetch} /\ call = Nothing /\ missed = Nothing
  BY DEF Shown!Init
<1>2. 0 \in 0 .. ScreenVersions
  BY ScreensConstants
<1>3. Shown!TypeOK
  BY <1>1, <1>2 DEF Shown!TypeOK
<1>4. BehindSound
  BY <1>1 DEF BehindSound, Shown!OnItsWay, Shown!NoFetch, Shown!Asked
<1> QED BY <1>1, <1>3, <1>4 DEF ScreensInv, ScreensTyped, Changing, MissedSound, Shown!LeftBehind

\* What the steps assume of the state.
LEMMA ScreensRead ==
    ASSUME Shown!ScreensAssumption, ScreensInv
    PROVE  /\ list \in Shown!Lists /\ shown \in BOOLEAN /\ ScreenVersions \in Nat
           /\ version \in 0 .. ScreenVersions /\ (cached = Nothing \/ cached \in 0 .. version)
           /\ stale \in BOOLEAN /\ fetch \in {-2, -1} \cup 0 .. version /\ call \in Shown!Calls \cup {Nothing}
           /\ Changing => call.done /\ Shown!Affects(Shown!Actions[call.of], list)
           /\ missed = Nothing /\ ~Changing =>
                /\ fetch >= 0 => fetch = version
                /\ cached # Nothing /\ cached < version /\ fetch = -2 => stale /\ ~shown
  BY ScreensConstants DEF ScreensInv, ScreensTyped, BehindSound, Shown!TypeOK, Shown!NoFetch, Shown!Asked, Shown!OnItsWay

\* What they have to show, where the list stays the same.
LEMMA ScreensWritten ==
    ASSUME Shown!ScreensAssumption, ScreensInv, list' = list,
           shown' \in BOOLEAN, version' \in 0 .. ScreenVersions, cached' = Nothing \/ cached' \in 0 .. version',
           stale' \in BOOLEAN, fetch' \in {-2, -1} \cup 0 .. version', call' \in Shown!Calls \cup {Nothing},
           Changing' => call'.done /\ Shown!Affects(Shown!Actions[call'.of], list),
           missed' = Nothing /\ ~Changing' =>
                /\ fetch' >= 0 => fetch' = version'
                /\ cached' # Nothing /\ cached' < version' /\ fetch' = -2 => stale' /\ ~shown',
           \/ missed' \in {missed, Nothing} \cup Shown!Reasons
           \/ /\ missed' \in DOMAIN Shown!Actions
              /\ Shown!Affects(Shown!Actions[missed'], list) /\ ~Shown!Refreshes(Shown!Actions[missed'], list)
    PROVE  ScreensInv'
<1>1. list \in Shown!Lists
  BY ScreensRead
<1>2. (Shown!TypeOK)'
  BY <1>1 DEF Shown!TypeOK, Shown!NoFetch, Shown!Asked, Shown!Calls
<1>3. Shown!Affects(Shown!Actions[call'.of], list) = Shown!Affects(Shown!Actions[call.of], list)'
  BY DEF Shown!Affects
<1>4. ScreensTyped'
  BY <1>2, <1>3 DEF ScreensTyped
<1>5. BehindSound'
  BY DEF BehindSound, Shown!NoFetch, Shown!OnItsWay
<1>6. MissedSound'
  <2> SUFFICES ASSUME Shown!LeftBehind'
               PROVE  /\ missed' \in DOMAIN Shown!Actions
                      /\ Shown!Affects(Shown!Actions[missed'], list) /\ ~Shown!Refreshes(Shown!Actions[missed'], list)
    BY DEF MissedSound, Shown!Affects, Shown!Refreshes, Shown!Under
  <2>1. missed' \notin Shown!Reasons \cup {Nothing}
    BY DEF Shown!LeftBehind, Shown!Reasons
  <2>2. CASE missed' = missed
    <3>1. Shown!LeftBehind
      BY <2>1, <2>2 DEF Shown!LeftBehind
    <3> QED BY <2>2, <3>1 DEF ScreensInv, MissedSound
  <2> QED BY <2>1, <2>2
<1> QED BY <1>4, <1>5, <1>6 DEF ScreensInv

\* A step of an action.
LEMMA CallsKeep ==
    ASSUME Shown!ScreensAssumption, ScreensInv,
           Shown!Send \/ Shown!Commit \/ Shown!Refused \/ Shown!AnswerLost \/ Shown!Succeeds
    PROVE  ScreensInv'
<1>1. /\ list \in Shown!Lists /\ shown \in BOOLEAN /\ ScreenVersions \in Nat
      /\ version \in 0 .. ScreenVersions /\ (cached = Nothing \/ cached \in 0 .. version)
      /\ stale \in BOOLEAN /\ fetch \in {-2, -1} \cup 0 .. version /\ call \in Shown!Calls \cup {Nothing}
      /\ Changing => call.done /\ Shown!Affects(Shown!Actions[call.of], list)
      /\ missed = Nothing /\ ~Changing =>
           /\ fetch >= 0 => fetch = version
           /\ cached # Nothing /\ cached < version /\ fetch = -2 => stale /\ ~shown
  BY ScreensRead
<1>2. /\ Nothing \notin Shown!Reasons /\ (call # Nothing => call \in Shown!Calls) /\ Nothing \notin DOMAIN Shown!Actions
      /\ \A c \in Shown!Calls : c # Nothing /\ c.of \in DOMAIN Shown!Actions /\ c.done \in BOOLEAN /\ c.changed \in BOOLEAN
  BY <1>1, ScreensConstants
<1>3. CASE Shown!Send
  <2>1. PICK a \in Shown!Offered : call' = [of |-> a, done |-> FALSE, changed |-> FALSE]
    BY <1>3 DEF Shown!Send
  <2>2. a \in DOMAIN Shown!Actions
    BY DEF Shown!Offered
  <2>3. call' \in Shown!Calls /\ ~Changing' /\ ~Changing
    BY <1>3, <2>1, <2>2 DEF Shown!Calls, Changing, Shown!Send
  <2>4. UNCHANGED <<list, shown, version, cached, stale, fetch, missed>>
    BY <1>3 DEF Shown!Send
  <2> QED BY <1>1, <2>3, <2>4, ScreensWritten
<1>4. CASE Shown!Commit
  <2>1. call \in Shown!Calls /\ call # Nothing /\ ~call.done /\ ~Changing
        /\ UNCHANGED <<list, shown, cached, stale, fetch, missed>>
    BY <1>1, <1>2, <1>4 DEF Shown!Commit
  <2>2. CASE /\ Shown!Affects(Shown!Actions[call.of], list) /\ version < ScreenVersions
             /\ version' = version + 1 /\ call' = [call EXCEPT !.done = TRUE, !.changed = TRUE]
    <3>1. call' \in Shown!Calls /\ call'.of = call.of /\ call'.done /\ call'.changed /\ call' # Nothing
      <4>1. call' \in Shown!Calls /\ call'.of = call.of /\ call'.done /\ call'.changed
        BY <2>1, <2>2 DEF Shown!Calls
      <4> QED BY <4>1, <1>2
    <3>2. Changing' /\ version' \in 0 .. ScreenVersions /\ fetch' \in {-2, -1} \cup 0 .. version'
          /\ (cached' = Nothing \/ cached' \in 0 .. version')
      BY <1>1, <2>1, <2>2, <3>1 DEF Changing
    <3> QED BY <1>1, <2>1, <2>2, <3>1, <3>2, ScreensWritten
  <2>3. CASE version' = version /\ call' = [call EXCEPT !.done = TRUE]
    <3>1. call' \in Shown!Calls /\ call'.of = call.of /\ call'.done /\ call'.changed = call.changed
      BY <2>1, <2>3 DEF Shown!Calls
    <3>2. ~Changing'
      BY <2>1, <3>1 DEF Changing
    <3> QED BY <1>1, <2>1, <2>3, <3>1, <3>2, ScreensWritten
  <2> QED BY <1>4, <2>2, <2>3 DEF Shown!Commit
<1>5. CASE Shown!Refused
  <2>1. ~Changing /\ call' = Nothing /\ UNCHANGED <<list, shown, version, cached, stale, fetch, missed>>
    BY <1>1, <1>5 DEF Shown!Refused
  <2>2. ~Changing'
    BY <2>1 DEF Changing
  <2> QED BY <1>1, <2>1, <2>2, ScreensWritten
<1>6. CASE Shown!AnswerLost
  <2>1. /\ call # Nothing /\ call' = Nothing /\ UNCHANGED <<list, shown, version, cached, stale, fetch>>
        /\ missed' = IF call.changed THEN "lost" ELSE missed
    BY <1>6 DEF Shown!AnswerLost
  <2>2. ~Changing' /\ "lost" \in Shown!Reasons /\ "lost" # Nothing
    BY <2>1, <1>2 DEF Changing, Shown!Reasons
  <2>3. call.changed => Changing
    BY <2>1 DEF Changing
  <2> QED BY <1>1, <2>1, <2>2, <2>3, ScreensWritten DEF Changing
<1>7. CASE Shown!Succeeds
  <2> DEFINE refreshes == Shown!Refreshes(Shown!Actions[call.of], list)
  <2>1. /\ call # Nothing /\ call' = Nothing /\ UNCHANGED <<list, shown, version, cached>>
        /\ refreshes => /\ stale' = (cached # Nothing)
                        /\ fetch' = IF shown THEN -1 ELSE fetch
                        /\ missed' = IF ~shown /\ fetch >= 0 /\ call.changed THEN "raced" ELSE missed
        /\ ~refreshes => /\ missed' = IF call.changed THEN call.of ELSE missed
                         /\ UNCHANGED <<stale, fetch>>
    BY <1>7 DEF Shown!Succeeds, Shown!Asked, Shown!OnItsWay
  <2> HIDE DEF refreshes
  <2>2. ~Changing' /\ "raced" \in Shown!Reasons /\ "raced" # Nothing
    BY <2>1, <1>2 DEF Changing, Shown!Reasons
  <2>3. (call.changed <=> Changing) /\ call.of \in DOMAIN Shown!Actions /\ call.of # Nothing
    BY <1>2, <2>1 DEF Changing
  <2>4. CASE refreshes
    <3>1. stale' = (cached # Nothing)
      BY <2>1, <2>4
    <3>2. stale' \in BOOLEAN /\ (cached # Nothing => stale')
      BY <3>1
    <3>3. /\ fetch' = IF shown THEN -1 ELSE fetch
          /\ missed' = IF ~shown /\ fetch >= 0 /\ call.changed THEN "raced" ELSE missed
      BY <2>1, <2>4
    <3>4. fetch' \in {-2, -1} \cup 0 .. version' /\ missed' \in {missed, Nothing} \cup Shown!Reasons
      BY <1>1, <2>1, <2>2, <3>3
    <3>5. missed' = Nothing /\ ~Changing' =>
            /\ fetch' >= 0 => fetch' = version'
            /\ cached' # Nothing /\ cached' < version' /\ fetch' = -2 => stale' /\ ~shown'
      <4> SUFFICES ASSUME missed' = Nothing
                   PROVE  /\ fetch' >= 0 => fetch' = version
                          /\ cached # Nothing /\ cached < version /\ fetch' = -2 => stale' /\ ~shown
        BY <2>1
      <4>1. fetch' >= 0 => ~shown /\ fetch' = fetch /\ fetch >= 0
        BY <3>3
      <4>2. fetch' >= 0 => ~call.changed /\ missed = Nothing
        BY <4>1, <2>2, <3>3
      <4>3. fetch' = -2 => ~shown
        BY <3>3
      <4> QED BY <4>1, <4>2, <4>3, <1>1, <2>3, <3>2
    <3> QED BY <1>1, <2>1, <2>2, <3>2, <3>4, <3>5, ScreensWritten
  <2>5. CASE ~refreshes /\ ~call.changed
    BY <1>1, <2>1, <2>2, <2>3, <2>5, ScreensWritten
  <2>6. CASE ~refreshes /\ call.changed
    <3>1. missed' = call.of /\ Shown!Affects(Shown!Actions[call.of], list) /\ ~Shown!Refreshes(Shown!Actions[call.of], list)
      BY <1>1, <2>1, <2>3, <2>6 DEF refreshes
    <3> QED BY <1>1, <2>1, <2>2, <2>3, <2>6, <3>1, ScreensWritten
  <2> QED BY <2>4, <2>5, <2>6
<1> QED BY <1>3, <1>4, <1>5, <1>6, <1>7

\* A step of the cache, or of others.
LEMMA CacheKeeps ==
    ASSUME Shown!ScreensAssumption, ScreensInv,
           \/ Shown!Open \/ Shown!Leave \/ Shown!Focus \/ Shown!Ages \/ Shown!Forget \/ Shown!ServerReads
           \/ Shown!Arrives \/ Shown!FetchFails \/ Shown!Others
    PROVE  ScreensInv'
<1>1. /\ list \in Shown!Lists /\ shown \in BOOLEAN /\ ScreenVersions \in Nat
      /\ version \in 0 .. ScreenVersions /\ (cached = Nothing \/ cached \in 0 .. version)
      /\ stale \in BOOLEAN /\ fetch \in {-2, -1} \cup 0 .. version /\ call \in Shown!Calls \cup {Nothing}
      /\ Changing => call.done /\ Shown!Affects(Shown!Actions[call.of], list)
      /\ missed = Nothing /\ ~Changing =>
           /\ fetch >= 0 => fetch = version
           /\ cached # Nothing /\ cached < version /\ fetch = -2 => stale /\ ~shown
  BY ScreensRead
<1>2. Nothing \notin {"others", "failed"} /\ {"others", "failed"} \subseteq Shown!Reasons
  BY ScreensConstants DEF Shown!Reasons
<1>3. list' = list /\ call' = call /\ Changing' = Changing
  BY DEF Shown!Open, Shown!Leave, Shown!Focus, Shown!Ages, Shown!Forget, Shown!ServerReads, Shown!Arrives,
         Shown!FetchFails, Shown!Others, Changing
<1> USE DEF Shown!NoFetch, Shown!Asked, Shown!OnItsWay
<1>4. CASE Shown!Open
  BY <1>1, <1>3, <1>4, ScreensWritten DEF Shown!Open
<1>5. CASE Shown!Leave
  BY <1>1, <1>3, <1>5, ScreensWritten DEF Shown!Leave
<1>6. CASE Shown!Focus
  BY <1>1, <1>3, <1>6, ScreensWritten DEF Shown!Focus
<1>7. CASE Shown!Ages
  BY <1>1, <1>3, <1>7, ScreensWritten DEF Shown!Ages
<1>8. CASE Shown!Forget
  <2>1. /\ cached' = Nothing /\ stale' = FALSE /\ missed' = Nothing /\ fetch = -2
        /\ UNCHANGED <<list, shown, version, fetch, call>>
    BY <1>8 DEF Shown!Forget
  <2>2. /\ stale' \in BOOLEAN /\ cached' = Nothing /\ fetch' = -2 /\ shown' \in BOOLEAN /\ version' \in 0 .. ScreenVersions
        /\ call' \in Shown!Calls \cup {Nothing} /\ missed' \in {missed, Nothing} \cup Shown!Reasons
    BY <1>1, <2>1
  <2>3. Changing' => call'.done /\ Shown!Affects(Shown!Actions[call'.of], list)
    BY <1>1, <1>3
  <2>4. fetch' \in {-2, -1} \cup 0 .. version' /\ ~(fetch' >= 0)
    BY <2>2
  <2> QED BY <2>1, <2>2, <2>3, <2>4, ScreensWritten
<1>9. CASE Shown!ServerReads
  BY <1>1, <1>3, <1>9, ScreensWritten DEF Shown!ServerReads
<1>10. CASE Shown!Arrives
  <2>1. /\ fetch >= 0 /\ cached' = fetch /\ stale' = FALSE /\ fetch' = -2
        /\ UNCHANGED <<list, shown, version, call, missed>>
    BY <1>10 DEF Shown!Arrives
  <2>2. cached' \in 0 .. version'
    BY <1>1, <2>1
  <2>3. /\ stale' \in BOOLEAN /\ shown' \in BOOLEAN /\ version' \in 0 .. ScreenVersions
        /\ call' \in Shown!Calls \cup {Nothing} /\ missed' \in {missed, Nothing} \cup Shown!Reasons
    BY <1>1, <2>1
  <2>4. Changing' => call'.done /\ Shown!Affects(Shown!Actions[call'.of], list)
    BY <1>1, <1>3
  <2>5. fetch' \in {-2, -1} \cup 0 .. version' /\ ~(fetch' >= 0)
    BY <2>1
  <2>6. missed' = Nothing /\ ~Changing' => ~(cached' < version')
    BY <1>1, <1>3, <2>1
  <2> QED BY <2>1, <2>2, <2>3, <2>4, <2>5, <2>6, ScreensWritten
<1>11. CASE Shown!FetchFails
  BY <1>1, <1>2, <1>3, <1>11, ScreensWritten DEF Shown!FetchFails
<1>12. CASE Shown!Others
  BY <1>1, <1>2, <1>3, <1>12, ScreensWritten DEF Shown!Others
<1> QED BY <1>4, <1>5, <1>6, <1>7, <1>8, <1>9, <1>10, <1>11, <1>12

LEMMA NextScreens ==
    ASSUME Shown!ScreensAssumption, ScreensInv, [Shown!Next]_(Shown!vars)
    PROVE  ScreensInv'
<1>1. CASE Shown!Next
  BY <1>1, CallsKeep, CacheKeeps DEF Shown!Next
<1>2. CASE UNCHANGED Shown!vars
  <2>1. UNCHANGED <<list, shown, version, cached, stale, fetch, call, missed>>
    BY <1>2 DEF Shown!vars
  <2> QED BY <2>1 DEF ScreensInv, ScreensTyped, BehindSound, MissedSound, Changing, Shown!TypeOK, Shown!OnItsWay,
             Shown!LeftBehind, Shown!Affects, Shown!Refreshes, Shown!Under, Shown!NoFetch, Shown!Asked, Shown!Calls
<1> QED BY <1>1, <1>2

\* The copies that are behind, and those an action left behind.
LEMMA ScreensTell ==
    ASSUME Shown!ScreensAssumption, ScreensInv
    PROVE  Shown!TypeOK /\ Shown!BehindForAReason
<1>1. Shown!TypeOK
  BY DEF ScreensInv, ScreensTyped
<1>2. Shown!BehindForAReason
  BY DEF ScreensInv, BehindSound, Changing, Shown!BehindForAReason
<1> QED BY <1>1, <1>2

-----------------------------------------------------------------------------
(* The catalogue of CompanyScreens: what an action of an area does, and the  *)
(* names of the areas are different.                                         *)

LEMMA Joins ==
    ASSUME NEW f, NEW g
    PROVE  /\ DOMAIN Shown!++(f, g) = DOMAIN f \cup DOMAIN g
           /\ \A x \in DOMAIN f : Shown!++(f, g)[x] = f[x]
           /\ \A x \in DOMAIN g \ DOMAIN f : Shown!++(f, g)[x] = g[x]
  BY DEF Shown!++

LEMMA ActionNames ==
    /\ DOMAIN Shown!ShellActions = {"createVendor", "transitionVendor", "saveVoucher", "reverseVoucher",
                                    "postVoucher"}
    /\ DOMAIN Shown!RoleActions = {"replacePermissions", "createRole", "assignRole", "revokeRole"}
    /\ DOMAIN Shown!PurchaseActions = {"createDocument", "submitDocument", "approveRequest", "approveReceipt",
                                       "createMatch", "approveMatch"}
    /\ DOMAIN Shown!SupplierActions = {"createRfq", "issueRfq", "selectQuotation", "activateAgreement",
                                       "addDocument", "reviewDocument", "decideChange", "raiseDispute",
                                       "resolveDispute", "proposePayment", "approvePayment"}
    /\ DOMAIN Shown!CommercialActions = {"createCustomer", "createSalesDocument", "submitSalesDocument",
                                         "approveSalesDocument"}
    /\ DOMAIN Shown!ManufacturingActions = {"saveDemand", "releaseDemand", "saveManufacturing",
                                            "approveManufacturing", "postManufacturing"}
    /\ DOMAIN Shown!InventoryActions = {"saveItem", "saveWarehouse", "adjustStock", "transferStock",
                                        "countStock"}
    /\ DOMAIN Shown!PlanningActions = {"updatePolicy", "saveBom", "saveForecast", "saveReservation", "runMrp",
                                       "decideSuggestion", "releaseSuggestion"}
    /\ DOMAIN Shown!FinanceActions = {"saveAccount", "movePeriod", "reconcile", "saveAsset",
                                      "proposeAssetVoucher", "saveBudget", "createPair", "eliminate",
                                      "consolidate"}
    /\ DOMAIN Shown!ComplianceActions = {"saveProfile", "file", "fileEWayBill", "recordInbound", "uploadGstr2b"}
    /\ DOMAIN Shown!HandoffActions = {"acceptHandoff", "receiveReturn", "decideReturn", "acceptReturn"}
<1>1. DOMAIN Shown!ShellActions = {"createVendor", "transitionVendor", "saveVoucher", "reverseVoucher",
                                   "postVoucher"}
  BY DEF Shown!ShellActions
<1>2. DOMAIN Shown!RoleActions = {"replacePermissions", "createRole", "assignRole", "revokeRole"}
  BY DEF Shown!RoleActions
<1>3. DOMAIN Shown!PurchaseActions = {"createDocument", "submitDocument", "approveRequest", "approveReceipt",
                                      "createMatch", "approveMatch"}
  BY DEF Shown!PurchaseActions
<1>4. DOMAIN Shown!SupplierActions = {"createRfq", "issueRfq", "selectQuotation", "activateAgreement",
                                      "addDocument", "reviewDocument", "decideChange", "raiseDispute",
                                      "resolveDispute", "proposePayment", "approvePayment"}
  BY DEF Shown!SupplierActions, Shown!++
<1>5. DOMAIN Shown!CommercialActions = {"createCustomer", "createSalesDocument", "submitSalesDocument",
                                        "approveSalesDocument"}
  BY DEF Shown!CommercialActions
<1>6. DOMAIN Shown!ManufacturingActions = {"saveDemand", "releaseDemand", "saveManufacturing",
                                           "approveManufacturing", "postManufacturing"}
  BY DEF Shown!ManufacturingActions
<1>7. DOMAIN Shown!InventoryActions = {"saveItem", "saveWarehouse", "adjustStock", "transferStock",
                                       "countStock"}
  BY DEF Shown!InventoryActions
<1>8. DOMAIN Shown!PlanningActions = {"updatePolicy", "saveBom", "saveForecast", "saveReservation", "runMrp",
                                      "decideSuggestion", "releaseSuggestion"}
  BY DEF Shown!PlanningActions
<1>9. DOMAIN Shown!FinanceActions = {"saveAccount", "movePeriod", "reconcile", "saveAsset",
                                     "proposeAssetVoucher", "saveBudget", "createPair", "eliminate",
                                     "consolidate"}
  BY DEF Shown!FinanceActions
<1>10. DOMAIN Shown!ComplianceActions = {"saveProfile", "file", "fileEWayBill", "recordInbound", "uploadGstr2b"}
  BY DEF Shown!ComplianceActions
<1>11. DOMAIN Shown!HandoffActions = {"acceptHandoff", "receiveReturn", "decideReturn", "acceptReturn"}
  BY DEF Shown!HandoffActions
<1> QED BY <1>1, <1>2, <1>3, <1>4, <1>5, <1>6, <1>7, <1>8, <1>9, <1>10, <1>11

LEMMA ActionAreas ==
    /\ \A a \in DOMAIN Shown!ShellActions : a \in DOMAIN Shown!Actions /\ Shown!Actions[a] = Shown!ShellActions[a]
    /\ \A a \in DOMAIN Shown!RoleActions : a \in DOMAIN Shown!Actions /\ Shown!Actions[a] = Shown!RoleActions[a]
    /\ \A a \in DOMAIN Shown!PurchaseActions : a \in DOMAIN Shown!Actions /\ Shown!Actions[a] = Shown!PurchaseActions[a]
    /\ \A a \in DOMAIN Shown!SupplierActions : a \in DOMAIN Shown!Actions /\ Shown!Actions[a] = Shown!SupplierActions[a]
    /\ \A a \in DOMAIN Shown!CommercialActions : a \in DOMAIN Shown!Actions /\ Shown!Actions[a] = Shown!CommercialActions[a]
    /\ \A a \in DOMAIN Shown!ManufacturingActions : a \in DOMAIN Shown!Actions /\ Shown!Actions[a] = Shown!ManufacturingActions[a]
    /\ \A a \in DOMAIN Shown!InventoryActions : a \in DOMAIN Shown!Actions /\ Shown!Actions[a] = Shown!InventoryActions[a]
    /\ \A a \in DOMAIN Shown!PlanningActions : a \in DOMAIN Shown!Actions /\ Shown!Actions[a] = Shown!PlanningActions[a]
    /\ \A a \in DOMAIN Shown!FinanceActions : a \in DOMAIN Shown!Actions /\ Shown!Actions[a] = Shown!FinanceActions[a]
    /\ \A a \in DOMAIN Shown!ComplianceActions : a \in DOMAIN Shown!Actions /\ Shown!Actions[a] = Shown!ComplianceActions[a]
    /\ \A a \in DOMAIN Shown!HandoffActions : a \in DOMAIN Shown!Actions /\ Shown!Actions[a] = Shown!HandoffActions[a]
    /\ \A a \in DOMAIN Shown!Actions :
          \/ a \in DOMAIN Shown!ShellActions \/ a \in DOMAIN Shown!RoleActions \/ a \in DOMAIN Shown!PurchaseActions
          \/ a \in DOMAIN Shown!SupplierActions \/ a \in DOMAIN Shown!CommercialActions \/ a \in DOMAIN Shown!ManufacturingActions
          \/ a \in DOMAIN Shown!InventoryActions \/ a \in DOMAIN Shown!PlanningActions \/ a \in DOMAIN Shown!FinanceActions
          \/ a \in DOMAIN Shown!ComplianceActions \/ a \in DOMAIN Shown!HandoffActions
<1> DEFINE j1 == Shown!ShellActions
<1> DEFINE j2 == Shown!++(j1, Shown!RoleActions)
<1> DEFINE j3 == Shown!++(j2, Shown!PurchaseActions)
<1> DEFINE j4 == Shown!++(j3, Shown!SupplierActions)
<1> DEFINE j5 == Shown!++(j4, Shown!CommercialActions)
<1> DEFINE j6 == Shown!++(j5, Shown!ManufacturingActions)
<1> DEFINE j7 == Shown!++(j6, Shown!InventoryActions)
<1> DEFINE j8 == Shown!++(j7, Shown!PlanningActions)
<1> DEFINE j9 == Shown!++(j8, Shown!FinanceActions)
<1> DEFINE j10 == Shown!++(j9, Shown!ComplianceActions)
<1> DEFINE j11 == Shown!++(j10, Shown!HandoffActions)
<1>1. Shown!Actions = j11
  BY DEF Shown!Actions
<1>2. /\ DOMAIN j2 = DOMAIN j1 \cup DOMAIN Shown!RoleActions
      /\ \A x \in DOMAIN j1 : j2[x] = j1[x]
      /\ \A x \in DOMAIN Shown!RoleActions \ DOMAIN j1 : j2[x] = Shown!RoleActions[x]
  BY Joins
<1>3. /\ DOMAIN j3 = DOMAIN j2 \cup DOMAIN Shown!PurchaseActions
      /\ \A x \in DOMAIN j2 : j3[x] = j2[x]
      /\ \A x \in DOMAIN Shown!PurchaseActions \ DOMAIN j2 : j3[x] = Shown!PurchaseActions[x]
  BY Joins
<1>4. /\ DOMAIN j4 = DOMAIN j3 \cup DOMAIN Shown!SupplierActions
      /\ \A x \in DOMAIN j3 : j4[x] = j3[x]
      /\ \A x \in DOMAIN Shown!SupplierActions \ DOMAIN j3 : j4[x] = Shown!SupplierActions[x]
  BY Joins
<1>5. /\ DOMAIN j5 = DOMAIN j4 \cup DOMAIN Shown!CommercialActions
      /\ \A x \in DOMAIN j4 : j5[x] = j4[x]
      /\ \A x \in DOMAIN Shown!CommercialActions \ DOMAIN j4 : j5[x] = Shown!CommercialActions[x]
  BY Joins
<1>6. /\ DOMAIN j6 = DOMAIN j5 \cup DOMAIN Shown!ManufacturingActions
      /\ \A x \in DOMAIN j5 : j6[x] = j5[x]
      /\ \A x \in DOMAIN Shown!ManufacturingActions \ DOMAIN j5 : j6[x] = Shown!ManufacturingActions[x]
  BY Joins
<1>7. /\ DOMAIN j7 = DOMAIN j6 \cup DOMAIN Shown!InventoryActions
      /\ \A x \in DOMAIN j6 : j7[x] = j6[x]
      /\ \A x \in DOMAIN Shown!InventoryActions \ DOMAIN j6 : j7[x] = Shown!InventoryActions[x]
  BY Joins
<1>8. /\ DOMAIN j8 = DOMAIN j7 \cup DOMAIN Shown!PlanningActions
      /\ \A x \in DOMAIN j7 : j8[x] = j7[x]
      /\ \A x \in DOMAIN Shown!PlanningActions \ DOMAIN j7 : j8[x] = Shown!PlanningActions[x]
  BY Joins
<1>9. /\ DOMAIN j9 = DOMAIN j8 \cup DOMAIN Shown!FinanceActions
      /\ \A x \in DOMAIN j8 : j9[x] = j8[x]
      /\ \A x \in DOMAIN Shown!FinanceActions \ DOMAIN j8 : j9[x] = Shown!FinanceActions[x]
  BY Joins
<1>10. /\ DOMAIN j10 = DOMAIN j9 \cup DOMAIN Shown!ComplianceActions
       /\ \A x \in DOMAIN j9 : j10[x] = j9[x]
       /\ \A x \in DOMAIN Shown!ComplianceActions \ DOMAIN j9 : j10[x] = Shown!ComplianceActions[x]
  BY Joins
<1>11. /\ DOMAIN j11 = DOMAIN j10 \cup DOMAIN Shown!HandoffActions
       /\ \A x \in DOMAIN j10 : j11[x] = j10[x]
       /\ \A x \in DOMAIN Shown!HandoffActions \ DOMAIN j10 : j11[x] = Shown!HandoffActions[x]
  BY Joins
<1> HIDE DEF j1, j2, j3, j4, j5, j6, j7, j8, j9, j10, j11
<1>12. \A x \in DOMAIN Shown!RoleActions : x \notin DOMAIN j1
  BY ActionNames DEF j1
<1>13. \A x \in DOMAIN Shown!PurchaseActions : x \notin DOMAIN j2
  BY ActionNames, <1>2 DEF j1
<1>14. \A x \in DOMAIN Shown!SupplierActions : x \notin DOMAIN j3
  BY ActionNames, <1>2, <1>3 DEF j1
<1>15. \A x \in DOMAIN Shown!CommercialActions : x \notin DOMAIN j4
  BY ActionNames, <1>2, <1>3, <1>4 DEF j1
<1>16. \A x \in DOMAIN Shown!ManufacturingActions : x \notin DOMAIN j5
  BY ActionNames, <1>2, <1>3, <1>4, <1>5 DEF j1
<1>17. \A x \in DOMAIN Shown!InventoryActions : x \notin DOMAIN j6
  BY ActionNames, <1>2, <1>3, <1>4, <1>5, <1>6 DEF j1
<1>18. \A x \in DOMAIN Shown!PlanningActions : x \notin DOMAIN j7
  BY ActionNames, <1>2, <1>3, <1>4, <1>5, <1>6, <1>7 DEF j1
<1>19. \A x \in DOMAIN Shown!FinanceActions : x \notin DOMAIN j8
  BY ActionNames, <1>2, <1>3, <1>4, <1>5, <1>6, <1>7, <1>8 DEF j1
<1>20. \A x \in DOMAIN Shown!ComplianceActions : x \notin DOMAIN j9
  BY ActionNames, <1>2, <1>3, <1>4, <1>5, <1>6, <1>7, <1>8, <1>9 DEF j1
<1>21. \A x \in DOMAIN Shown!HandoffActions : x \notin DOMAIN j10
  BY ActionNames, <1>2, <1>3, <1>4, <1>5, <1>6, <1>7, <1>8, <1>9, <1>10 DEF j1
<1> QED BY <1>1, <1>2, <1>3, <1>4, <1>5, <1>6, <1>7, <1>8, <1>9, <1>10, <1>11, <1>12, <1>13, <1>14, <1>15, <1>16, <1>17, <1>18, <1>19, <1>20, <1>21 DEF j1

\* A key lies under itself, and under the first half of it.
LEMMA KeysUnder ==
    ASSUME NEW a, NEW b
    PROVE  Shown!IsPrefix(<<a>>, <<a, b>>) /\ Shown!IsPrefix(<<a>>, <<a>>) /\ Shown!IsPrefix(<<a, b>>, <<a, b>>)
  BY DEF Shown!IsPrefix

LEMMA RefreshingActions ==
    /\ \A a \in DOMAIN Shown!InventoryActions : Shown!InventoryActions[a].refreshes = {<<"valued-inventory">>}
    /\ \A a \in DOMAIN Shown!PlanningActions : Shown!PlanningActions[a].refreshes = {<<"planning">>}
    /\ \A a \in DOMAIN Shown!FinanceActions :
          a = "consolidate" \/ Shown!FinanceActions[a].refreshes = {<<"finance-controls">>}
    /\ Shown!FinanceActions["consolidate"].writes = {}
    /\ \A a \in DOMAIN Shown!ComplianceActions : Shown!ComplianceActions[a].refreshes = {<<"india-compliance">>}
<1>1. \A a \in DOMAIN Shown!InventoryActions : Shown!InventoryActions[a].refreshes = {<<"valued-inventory">>}
  BY DEF Shown!InventoryActions, Shown!Only, Shown!Does
<1>2. \A a \in DOMAIN Shown!PlanningActions : Shown!PlanningActions[a].refreshes = {<<"planning">>}
  BY DEF Shown!PlanningActions, Shown!Only, Shown!Does
<1>3. /\ \A a \in DOMAIN Shown!FinanceActions :
            a = "consolidate" \/ Shown!FinanceActions[a].refreshes = {<<"finance-controls">>}
      /\ Shown!FinanceActions["consolidate"].writes = {}
  BY DEF Shown!FinanceActions, Shown!Only, Shown!Does
<1>4. \A a \in DOMAIN Shown!ComplianceActions : Shown!ComplianceActions[a].refreshes = {<<"india-compliance">>}
  BY DEF Shown!ComplianceActions, Shown!Only, Shown!Does
<1> QED BY <1>1, <1>2, <1>3, <1>4

LEMMA HandoffRefreshes ==
    LET A == Shown!HandoffActions
    IN  /\ A["acceptHandoff"].writes = {"erpEvents"} /\ A["acceptHandoff"].refreshes = {<<"handoff-inbox", "mesaerp-to-mesaops">>}
        /\ \A a \in DOMAIN A : a # "acceptHandoff" =>
              /\ "erpEvents" \notin A[a].writes
              /\ A[a].refreshes = {<<"handoff-inbox", "mesaops-to-mesaerp">>}
  BY DEF Shown!HandoffActions, Shown!Does

LEMMA WritersOfSome ==
    /\ \A a \in DOMAIN Shown!PlanningActions :
          /\ "warehouses" \notin Shown!PlanningActions[a].writes
          /\ "items" \in Shown!PlanningActions[a].writes => a = "updatePolicy"
    /\ \A a \in {"createVendor", "transitionVendor"} : "accounts" \notin Shown!ShellActions[a].writes
    /\ \A a \in DOMAIN Shown!PurchaseActions : "accounts" \notin Shown!PurchaseActions[a].writes
<1>1. \A a \in DOMAIN Shown!PlanningActions :
          /\ "warehouses" \notin Shown!PlanningActions[a].writes
          /\ "items" \in Shown!PlanningActions[a].writes => a = "updatePolicy"
  BY DEF Shown!PlanningActions, Shown!Only, Shown!Does
<1>2. \A a \in {"createVendor", "transitionVendor"} : "accounts" \notin Shown!ShellActions[a].writes
  BY DEF Shown!ShellActions, Shown!Only, Shown!Does
<1>3. \A a \in DOMAIN Shown!PurchaseActions : "accounts" \notin Shown!PurchaseActions[a].writes
  BY DEF Shown!PurchaseActions, Shown!Only, Shown!Does
<1> QED BY <1>1, <1>2, <1>3

LEMMA WritersOfVouchers ==
    /\ \A a \in DOMAIN Shown!ShellActions : "vouchers" \in Shown!ShellActions[a].writes =>
          <<"vouchers">> \in Shown!ShellActions[a].refreshes
    /\ \A a \in DOMAIN Shown!RoleActions : "vouchers" \notin Shown!RoleActions[a].writes
    /\ \A a \in DOMAIN Shown!PurchaseActions : "vouchers" \in Shown!PurchaseActions[a].writes => a = "approveReceipt"
    /\ \A a \in DOMAIN Shown!CommercialActions : "vouchers" \in Shown!CommercialActions[a].writes => a = "approveSalesDocument"
    /\ \A a \in DOMAIN Shown!ManufacturingActions : "vouchers" \in Shown!ManufacturingActions[a].writes => a = "approveManufacturing"
    /\ \A a \in DOMAIN Shown!InventoryActions : "vouchers" \in Shown!InventoryActions[a].writes =>
          a \in {"adjustStock", "transferStock", "countStock"}
    /\ \A a \in DOMAIN Shown!PlanningActions : "vouchers" \notin Shown!PlanningActions[a].writes
    /\ \A a \in DOMAIN Shown!FinanceActions : "vouchers" \in Shown!FinanceActions[a].writes =>
          a \in {"proposeAssetVoucher", "createPair", "eliminate"}
    /\ \A a \in DOMAIN Shown!ComplianceActions : "vouchers" \notin Shown!ComplianceActions[a].writes
    /\ \A a \in DOMAIN Shown!HandoffActions : "vouchers" \in Shown!HandoffActions[a].writes => a = "acceptReturn"
<1> USE DEF Shown!Only, Shown!Does
<1>1. \A a \in DOMAIN Shown!ShellActions : "vouchers" \in Shown!ShellActions[a].writes =>
          <<"vouchers">> \in Shown!ShellActions[a].refreshes
  BY DEF Shown!ShellActions
<1>2. \A a \in DOMAIN Shown!RoleActions : "vouchers" \notin Shown!RoleActions[a].writes
  BY DEF Shown!RoleActions
<1>3. \A a \in DOMAIN Shown!PurchaseActions : "vouchers" \in Shown!PurchaseActions[a].writes => a = "approveReceipt"
  BY DEF Shown!PurchaseActions
<1>5. \A a \in DOMAIN Shown!CommercialActions : "vouchers" \in Shown!CommercialActions[a].writes => a = "approveSalesDocument"
  BY DEF Shown!CommercialActions
<1>6. \A a \in DOMAIN Shown!ManufacturingActions : "vouchers" \in Shown!ManufacturingActions[a].writes => a = "approveManufacturing"
  BY DEF Shown!ManufacturingActions
<1>7. \A a \in DOMAIN Shown!InventoryActions : "vouchers" \in Shown!InventoryActions[a].writes =>
          a \in {"adjustStock", "transferStock", "countStock"}
  BY DEF Shown!InventoryActions
<1>8. \A a \in DOMAIN Shown!PlanningActions : "vouchers" \notin Shown!PlanningActions[a].writes
  BY DEF Shown!PlanningActions
<1>9. \A a \in DOMAIN Shown!FinanceActions : "vouchers" \in Shown!FinanceActions[a].writes =>
          a \in {"proposeAssetVoucher", "createPair", "eliminate"}
  BY DEF Shown!FinanceActions
<1>10. \A a \in DOMAIN Shown!ComplianceActions : "vouchers" \notin Shown!ComplianceActions[a].writes
  BY DEF Shown!ComplianceActions
<1>11. \A a \in DOMAIN Shown!HandoffActions : "vouchers" \in Shown!HandoffActions[a].writes => a = "acceptReturn"
  BY DEF Shown!HandoffActions
<1> QED BY <1>1, <1>2, <1>3, <1>5, <1>6, <1>7, <1>8, <1>9, <1>10, <1>11

LEMMA SupplierWriters ==
    \A a \in DOMAIN Shown!SupplierActions :
        /\ "accounts" \notin Shown!SupplierActions[a].writes
        /\ "vouchers" \in Shown!SupplierActions[a].writes => <<"vouchers">> \in Shown!SupplierActions[a].refreshes
<1> DEFINE rfq == [a \in {"createRfq", "issueRfq"} |-> Shown!Only({"rfqs"}, "supplier-workspace")]
           others ==
              [selectQuotation |-> Shown!Only({"rfqs", "agreements"}, "supplier-workspace"),
               activateAgreement |-> Shown!Only({"agreements"}, "supplier-workspace"),
               addDocument |-> Shown!Does({"vendorDocuments"}, {<<"supplier-workspace">>, <<"vendors">>}),
               reviewDocument |-> Shown!Does({"vendorDocuments", "vendors"}, {<<"supplier-workspace">>, <<"vendors">>}),
               decideChange |-> Shown!Does({"changeCases", "vendors"}, {<<"supplier-workspace">>, <<"vendors">>}),
               raiseDispute |-> Shown!Only({"disputes"}, "supplier-workspace"),
               resolveDispute |-> Shown!Only({"disputes"}, "supplier-workspace"),
               proposePayment |-> Shown!Only({"proposals"}, "supplier-workspace"),
               approvePayment |-> Shown!Does({"proposals", "vouchers"}, {<<"supplier-workspace">>, <<"vouchers">>})]
<1>1. Shown!SupplierActions = Shown!++(rfq, others)
  BY DEF Shown!SupplierActions
<1>2. /\ DOMAIN rfq = {"createRfq", "issueRfq"}
      /\ \A a \in DOMAIN rfq : rfq[a].writes = {"rfqs"}
  BY DEF Shown!Only, Shown!Does
<1>3. /\ \A a \in DOMAIN others : /\ "accounts" \notin others[a].writes
                                  /\ "vouchers" \in others[a].writes => <<"vouchers">> \in others[a].refreshes
  BY DEF Shown!Only, Shown!Does
<1>4. DOMAIN others \cap DOMAIN rfq = {}
  BY <1>2
<1> HIDE DEF rfq, others
<1>5. /\ DOMAIN Shown!SupplierActions = DOMAIN rfq \cup DOMAIN others
      /\ \A a \in DOMAIN rfq : Shown!SupplierActions[a] = rfq[a]
      /\ \A a \in DOMAIN others : Shown!SupplierActions[a] = others[a]
  <2>1. /\ DOMAIN Shown!++(rfq, others) = DOMAIN rfq \cup DOMAIN others
        /\ \A a \in DOMAIN rfq : Shown!++(rfq, others)[a] = rfq[a]
        /\ \A a \in DOMAIN others \ DOMAIN rfq : Shown!++(rfq, others)[a] = others[a]
    BY Joins
  <2> QED BY <1>1, <1>4, <2>1
<1> QED BY <1>2, <1>3, <1>5

LEMMA ListNames ==
    /\ DOMAIN Shown!ShellShows = {"entities", "accounts", "vendors", "vouchers", "roles", "permissions",
                                  "assignments"}
    /\ DOMAIN Shown!PurchaseShows = {"requisitions", "orders", "receipts", "invoices", "matches"}
    /\ DOMAIN Shown!WorkspaceShows = {"workspace"}
    /\ DOMAIN Shown!CommercialShows = {"customers", "salesOrders", "salesInvoices"}
    /\ DOMAIN Shown!ManufacturingShows = {"demands", "manufacturing", "batchCosts"}
    /\ DOMAIN Shown!InventoryShows = {"items", "warehouses", "balances", "ledger"}
    /\ DOMAIN Shown!PlanningShows = {"boms", "forecasts", "reservations", "runs", "transfers", "policy", "atp"}
    /\ DOMAIN Shown!FinanceShows = {"accountTree", "periods", "banks", "assets", "budgets", "pairs", "report"}
    /\ DOMAIN Shown!ComplianceShows = {"profiles", "outbound", "eWayBills", "inbound", "gstr2b"}
    /\ DOMAIN Shown!HandoffShows = {"handoffs", "opsReturns"}
  BY DEF Shown!ShellShows, Shown!PurchaseShows, Shown!WorkspaceShows, Shown!CommercialShows,
         Shown!ManufacturingShows, Shown!InventoryShows, Shown!PlanningShows, Shown!FinanceShows,
         Shown!ComplianceShows, Shown!HandoffShows

\* What the lists show that the properties name.
LEMMA ListContents ==
    /\ Shown!Shows["accounts"] = {"accounts"} /\ Shown!Shows["vouchers"] = {"vouchers"}
    /\ Shown!Shows["items"] = {"items"} /\ Shown!Shows["warehouses"] = {"warehouses"}
    /\ Shown!Shows["handoffs"] = {"erpEvents"} /\ Shown!Shows["opsReturns"] = {"opsEvents"}
<1> DEFINE j1 == Shown!ShellShows
<1> DEFINE j2 == Shown!++(j1, Shown!PurchaseShows)
<1> DEFINE j3 == Shown!++(j2, Shown!WorkspaceShows)
<1> DEFINE j4 == Shown!++(j3, Shown!CommercialShows)
<1> DEFINE j5 == Shown!++(j4, Shown!ManufacturingShows)
<1> DEFINE j6 == Shown!++(j5, Shown!InventoryShows)
<1> DEFINE j7 == Shown!++(j6, Shown!PlanningShows)
<1> DEFINE j8 == Shown!++(j7, Shown!FinanceShows)
<1> DEFINE j9 == Shown!++(j8, Shown!ComplianceShows)
<1> DEFINE j10 == Shown!++(j9, Shown!HandoffShows)
<1>1. Shown!Shows = j10
  BY DEF Shown!Shows
<1>2. /\ DOMAIN j2 = DOMAIN j1 \cup DOMAIN Shown!PurchaseShows
      /\ \A x \in DOMAIN j1 : j2[x] = j1[x]
      /\ \A x \in DOMAIN Shown!PurchaseShows \ DOMAIN j1 : j2[x] = Shown!PurchaseShows[x]
  BY Joins
<1>3. /\ DOMAIN j3 = DOMAIN j2 \cup DOMAIN Shown!WorkspaceShows
      /\ \A x \in DOMAIN j2 : j3[x] = j2[x]
      /\ \A x \in DOMAIN Shown!WorkspaceShows \ DOMAIN j2 : j3[x] = Shown!WorkspaceShows[x]
  BY Joins
<1>4. /\ DOMAIN j4 = DOMAIN j3 \cup DOMAIN Shown!CommercialShows
      /\ \A x \in DOMAIN j3 : j4[x] = j3[x]
      /\ \A x \in DOMAIN Shown!CommercialShows \ DOMAIN j3 : j4[x] = Shown!CommercialShows[x]
  BY Joins
<1>5. /\ DOMAIN j5 = DOMAIN j4 \cup DOMAIN Shown!ManufacturingShows
      /\ \A x \in DOMAIN j4 : j5[x] = j4[x]
      /\ \A x \in DOMAIN Shown!ManufacturingShows \ DOMAIN j4 : j5[x] = Shown!ManufacturingShows[x]
  BY Joins
<1>6. /\ DOMAIN j6 = DOMAIN j5 \cup DOMAIN Shown!InventoryShows
      /\ \A x \in DOMAIN j5 : j6[x] = j5[x]
      /\ \A x \in DOMAIN Shown!InventoryShows \ DOMAIN j5 : j6[x] = Shown!InventoryShows[x]
  BY Joins
<1>7. /\ DOMAIN j7 = DOMAIN j6 \cup DOMAIN Shown!PlanningShows
      /\ \A x \in DOMAIN j6 : j7[x] = j6[x]
      /\ \A x \in DOMAIN Shown!PlanningShows \ DOMAIN j6 : j7[x] = Shown!PlanningShows[x]
  BY Joins
<1>8. /\ DOMAIN j8 = DOMAIN j7 \cup DOMAIN Shown!FinanceShows
      /\ \A x \in DOMAIN j7 : j8[x] = j7[x]
      /\ \A x \in DOMAIN Shown!FinanceShows \ DOMAIN j7 : j8[x] = Shown!FinanceShows[x]
  BY Joins
<1>9. /\ DOMAIN j9 = DOMAIN j8 \cup DOMAIN Shown!ComplianceShows
      /\ \A x \in DOMAIN j8 : j9[x] = j8[x]
      /\ \A x \in DOMAIN Shown!ComplianceShows \ DOMAIN j8 : j9[x] = Shown!ComplianceShows[x]
  BY Joins
<1>10. /\ DOMAIN j10 = DOMAIN j9 \cup DOMAIN Shown!HandoffShows
       /\ \A x \in DOMAIN j9 : j10[x] = j9[x]
       /\ \A x \in DOMAIN Shown!HandoffShows \ DOMAIN j9 : j10[x] = Shown!HandoffShows[x]
  BY Joins
<1> HIDE DEF j1, j2, j3, j4, j5, j6, j7, j8, j9, j10
<1>11. "accounts" \in DOMAIN j1 /\ "vouchers" \in DOMAIN j1 /\ j1["accounts"] = {"accounts"} /\ j1["vouchers"] = {"vouchers"}
  BY DEF j1, Shown!ShellShows
<1>12. /\ "items" \notin DOMAIN j5 /\ "warehouses" \notin DOMAIN j5
  BY ListNames, <1>2, <1>3, <1>4, <1>5 DEF j1
<1>13. /\ "items" \in DOMAIN Shown!InventoryShows /\ "warehouses" \in DOMAIN Shown!InventoryShows
      /\ Shown!InventoryShows["items"] = {"items"} /\ Shown!InventoryShows["warehouses"] = {"warehouses"}
  BY DEF Shown!InventoryShows
<1>14. /\ "handoffs" \notin DOMAIN j9 /\ "opsReturns" \notin DOMAIN j9
  BY ListNames, <1>2, <1>3, <1>4, <1>5, <1>6, <1>7, <1>8, <1>9 DEF j1
<1>15. /\ "handoffs" \in DOMAIN Shown!HandoffShows /\ "opsReturns" \in DOMAIN Shown!HandoffShows
      /\ Shown!HandoffShows["handoffs"] = {"erpEvents"} /\ Shown!HandoffShows["opsReturns"] = {"opsEvents"}
  BY DEF Shown!HandoffShows
<1>16. /\ j9["items"] = {"items"} /\ j9["warehouses"] = {"warehouses"} /\ j9["accounts"] = {"accounts"} /\ j9["vouchers"] = {"vouchers"}
      /\ {"items", "warehouses", "accounts", "vouchers"} \subseteq DOMAIN j9
  BY <1>2, <1>3, <1>4, <1>5, <1>6, <1>7, <1>8, <1>9, <1>11, <1>12, <1>13
<1> QED BY <1>1, <1>10, <1>14, <1>15, <1>16

\* The keys of the panels' lists.
LEMMA ListKeys ==
    /\ Shown!KeyOf["vouchers"] = <<"vouchers">>
    /\ \A l \in DOMAIN Shown!InventoryShows : Shown!KeyOf[l] = <<"valued-inventory", l>>
    /\ \A l \in DOMAIN Shown!PlanningShows : Shown!KeyOf[l] = <<"planning", l>>
    /\ \A l \in DOMAIN Shown!FinanceShows : Shown!KeyOf[l] = <<"finance-controls", l>>
    /\ \A l \in DOMAIN Shown!ComplianceShows : Shown!KeyOf[l] = <<"india-compliance", l>>
    /\ Shown!KeyOf["handoffs"] = <<"handoff-inbox", "mesaerp-to-mesaops">>
    /\ Shown!KeyOf["opsReturns"] = <<"handoff-inbox", "mesaops-to-mesaerp">>
<1> DEFINE inventory == [l \in DOMAIN Shown!InventoryShows |-> <<"valued-inventory", l>>]
           planning == [l \in DOMAIN Shown!PlanningShows |-> <<"planning", l>>]
           finance == [l \in DOMAIN Shown!FinanceShows |-> <<"finance-controls", l>>]
           compliance == [l \in DOMAIN Shown!ComplianceShows |-> <<"india-compliance", l>>]
           handoff == [handoffs |-> <<"handoff-inbox", "mesaerp-to-mesaops">>,
                       opsReturns |-> <<"handoff-inbox", "mesaops-to-mesaerp">>]
           k1 == Shown!++(inventory, planning)
           k2 == Shown!++(k1, finance)
           k3 == Shown!++(k2, compliance)
           k4 == Shown!++(k3, handoff)
<1>1. Shown!PanelKeys = k4 /\ Shown!KeyOf = Shown!++(Shown!ErpKeys, Shown!PanelKeys)
  BY DEF Shown!PanelKeys, Shown!KeyOf
<1>2. /\ DOMAIN inventory = {"items", "warehouses", "balances", "ledger"}
      /\ \A l \in DOMAIN inventory : inventory[l] = <<"valued-inventory", l>>
      /\ DOMAIN planning = {"boms", "forecasts", "reservations", "runs", "transfers", "policy", "atp"}
      /\ \A l \in DOMAIN planning : planning[l] = <<"planning", l>>
      /\ DOMAIN finance = {"accountTree", "periods", "banks", "assets", "budgets", "pairs", "report"}
      /\ \A l \in DOMAIN finance : finance[l] = <<"finance-controls", l>>
      /\ DOMAIN compliance = {"profiles", "outbound", "eWayBills", "inbound", "gstr2b"}
      /\ \A l \in DOMAIN compliance : compliance[l] = <<"india-compliance", l>>
  BY ListNames
<1>3. /\ DOMAIN handoff = {"handoffs", "opsReturns"}
      /\ handoff["handoffs"] = <<"handoff-inbox", "mesaerp-to-mesaops">>
      /\ handoff["opsReturns"] = <<"handoff-inbox", "mesaops-to-mesaerp">>
  OBVIOUS
<1>4. /\ DOMAIN Shown!ErpKeys =
           {"entities", "accounts", "vendors", "vouchers", "roles", "permissions", "assignments", "requisitions",
            "orders", "receipts", "invoices", "matches", "workspace", "customers", "salesOrders", "salesInvoices",
            "demands", "manufacturing", "batchCosts"}
      /\ Shown!ErpKeys["vouchers"] = <<"vouchers">>
  BY DEF Shown!ErpKeys
<1> HIDE DEF inventory, planning, finance, compliance, handoff
<1>5. /\ DOMAIN k1 = DOMAIN inventory \cup DOMAIN planning
      /\ \A l \in DOMAIN inventory : k1[l] = inventory[l]
      /\ \A l \in DOMAIN planning \ DOMAIN inventory : k1[l] = planning[l]
  BY Joins
<1>6. /\ DOMAIN k2 = DOMAIN k1 \cup DOMAIN finance
      /\ \A l \in DOMAIN k1 : k2[l] = k1[l]
      /\ \A l \in DOMAIN finance \ DOMAIN k1 : k2[l] = finance[l]
  BY Joins
<1>7. /\ DOMAIN k3 = DOMAIN k2 \cup DOMAIN compliance
      /\ \A l \in DOMAIN k2 : k3[l] = k2[l]
      /\ \A l \in DOMAIN compliance \ DOMAIN k2 : k3[l] = compliance[l]
  BY Joins
<1>8. /\ DOMAIN k4 = DOMAIN k3 \cup DOMAIN handoff
      /\ \A l \in DOMAIN k3 : k4[l] = k3[l]
      /\ \A l \in DOMAIN handoff \ DOMAIN k3 : k4[l] = handoff[l]
  BY Joins
<1> HIDE DEF k1, k2, k3, k4
<1>9. /\ \A l \in DOMAIN planning : l \notin DOMAIN inventory
      /\ \A l \in DOMAIN finance : l \notin DOMAIN k1
  BY <1>2, <1>5
<1>10. /\ \A l \in DOMAIN compliance : l \notin DOMAIN k2
       /\ \A l \in DOMAIN handoff : l \notin DOMAIN k3
  BY <1>2, <1>3, <1>5, <1>6, <1>7
<1>11. /\ \A l \in DOMAIN inventory : l \in DOMAIN k4 /\ k4[l] = <<"valued-inventory", l>>
       /\ \A l \in DOMAIN planning : l \in DOMAIN k4 /\ k4[l] = <<"planning", l>>
       /\ \A l \in DOMAIN finance : l \in DOMAIN k4 /\ k4[l] = <<"finance-controls", l>>
       /\ \A l \in DOMAIN compliance : l \in DOMAIN k4 /\ k4[l] = <<"india-compliance", l>>
       /\ \A l \in DOMAIN handoff : l \in DOMAIN k4 /\ k4[l] = handoff[l]
  <2>0. /\ \A l \in DOMAIN inventory : inventory[l] = <<"valued-inventory", l>>
        /\ \A l \in DOMAIN planning : planning[l] = <<"planning", l>>
        /\ \A l \in DOMAIN finance : finance[l] = <<"finance-controls", l>>
        /\ \A l \in DOMAIN compliance : compliance[l] = <<"india-compliance", l>>
    BY <1>2
  <2> QED BY <2>0, <1>5, <1>6, <1>7, <1>8, <1>9, <1>10
<1>12. DOMAIN Shown!ErpKeys \cap DOMAIN inventory = {} /\ DOMAIN Shown!ErpKeys \cap DOMAIN planning = {}
       /\ DOMAIN Shown!ErpKeys \cap DOMAIN finance = {} /\ DOMAIN Shown!ErpKeys \cap DOMAIN compliance = {}
       /\ DOMAIN Shown!ErpKeys \cap DOMAIN handoff = {}
  BY <1>2, <1>3, <1>4
<1>13. /\ \A l \in DOMAIN Shown!ErpKeys : Shown!KeyOf[l] = Shown!ErpKeys[l]
       /\ \A l \in DOMAIN k4 \ DOMAIN Shown!ErpKeys : Shown!KeyOf[l] = k4[l]
  <2>1. Shown!KeyOf = Shown!++(Shown!ErpKeys, k4)
    BY <1>1
  <2>2. /\ \A l \in DOMAIN Shown!ErpKeys : Shown!++(Shown!ErpKeys, k4)[l] = Shown!ErpKeys[l]
        /\ \A l \in DOMAIN k4 \ DOMAIN Shown!ErpKeys : Shown!++(Shown!ErpKeys, k4)[l] = k4[l]
    BY Joins
  <2> QED BY <2>1, <2>2
<1>14. /\ DOMAIN inventory = DOMAIN Shown!InventoryShows /\ DOMAIN planning = DOMAIN Shown!PlanningShows
       /\ DOMAIN finance = DOMAIN Shown!FinanceShows /\ DOMAIN compliance = DOMAIN Shown!ComplianceShows
  BY DEF inventory, planning, finance, compliance
<1>15. Shown!KeyOf["vouchers"] = <<"vouchers">>
  BY <1>4, <1>13
<1>16. "handoffs" \in DOMAIN handoff /\ "opsReturns" \in DOMAIN handoff
  BY <1>3
<1> QED BY <1>3, <1>11, <1>12, <1>13, <1>14, <1>15, <1>16

\* The last thing missed was an action that wrote the list and does not refresh it.
LEMMA LeftBy ==
    ASSUME Shown!ScreensAssumption, ScreensInv, Shown!LeftBehind
    PROVE  /\ missed \in DOMAIN Shown!Actions
           /\ \E table \in Shown!Actions[missed].writes : table \in Shown!Shows[list]
           /\ \A key \in Shown!Actions[missed].refreshes : ~Shown!IsPrefix(key, Shown!KeyOf[list])
  BY DEF ScreensInv, MissedSound, Shown!Affects, Shown!Refreshes, Shown!Under

LEMMA OthersLists == ASSUME Shown!ScreensAssumption, ScreensInv PROVE Shown!OthersListsKnown
<1> SUFFICES ASSUME Shown!LeftBehind, list \in DOMAIN Shown!LeavesBehind
             PROVE  missed \in Shown!LeavesBehind[list]
  BY DEF Shown!OthersListsKnown
<1>1. list = "vouchers" /\ Shown!LeavesBehind[list] =
        {"approveReceipt", "approveSalesDocument", "approveManufacturing", "adjustStock", "transferStock",
         "countStock", "proposeAssetVoucher", "createPair", "eliminate", "acceptReturn"}
  BY DEF Shown!LeavesBehind
<1>2. /\ missed \in DOMAIN Shown!Actions /\ "vouchers" \in Shown!Actions[missed].writes
      /\ <<"vouchers">> \notin Shown!Actions[missed].refreshes
  <2>1. Shown!KeyOf[list] = <<"vouchers">> /\ Shown!Shows[list] = {"vouchers"}
    BY <1>1, ListContents, ListKeys
  <2>2. Shown!IsPrefix(<<"vouchers">>, <<"vouchers">>)
    BY KeysUnder
  <2> QED BY <2>1, <2>2, LeftBy
<1> HIDE DEF Shown!LeavesBehind
<1>3. \/ missed \in DOMAIN Shown!ShellActions \/ missed \in DOMAIN Shown!RoleActions \/ missed \in DOMAIN Shown!PurchaseActions
      \/ missed \in DOMAIN Shown!SupplierActions \/ missed \in DOMAIN Shown!CommercialActions \/ missed \in DOMAIN Shown!ManufacturingActions
      \/ missed \in DOMAIN Shown!InventoryActions \/ missed \in DOMAIN Shown!PlanningActions \/ missed \in DOMAIN Shown!FinanceActions
      \/ missed \in DOMAIN Shown!ComplianceActions \/ missed \in DOMAIN Shown!HandoffActions
  BY <1>2, ActionAreas
<1>4. missed \in {"approveReceipt", "approveSalesDocument", "approveManufacturing", "adjustStock", "transferStock",
                 "countStock", "proposeAssetVoucher", "createPair", "eliminate", "acceptReturn"}
  BY <1>2, <1>3, ActionAreas, WritersOfVouchers, SupplierWriters
<1> QED BY <1>1, <1>4

LEMMA OwnLists == ASSUME Shown!ScreensAssumption, ScreensInv PROVE Shown!OwnListsFresh
<1> SUFFICES ASSUME Shown!LeftBehind, NEW v \in Shown!Views, missed \in Shown!Offers[v], list \in Shown!PanelLists[v],
                    list # "workspace", ~(missed = "updatePolicy" /\ list = "items")
             PROVE  FALSE
  BY DEF Shown!OwnListsFresh
<1>1. /\ v \in {"sourceToPay", "inventory", "planning", "financeBooks", "financeAssets", "financeReports", "financeGroup",
                "taxCompliance", "handoffs"}
      /\ v = "sourceToPay" => list = "accounts"
      /\ v = "inventory" => list \in DOMAIN Shown!InventoryShows
      /\ v = "planning" => list \in DOMAIN Shown!PlanningShows \/ list \in {"items", "warehouses"}
      /\ v \in {"financeBooks", "financeAssets", "financeReports", "financeGroup"} => list \in DOMAIN Shown!FinanceShows
      /\ v = "taxCompliance" => list \in DOMAIN Shown!ComplianceShows
      /\ v = "handoffs" => list \in {"handoffs", "opsReturns"}
  BY ListNames DEF Shown!Views, Shown!PanelLists, Shown!++
<1>2. /\ v = "sourceToPay" => \/ missed \in {"createVendor", "transitionVendor"}
                              \/ missed \in DOMAIN Shown!PurchaseActions \/ missed \in DOMAIN Shown!SupplierActions
      /\ v = "inventory" => missed \in DOMAIN Shown!InventoryActions
      /\ v = "planning" => missed \in DOMAIN Shown!PlanningActions
      /\ v \in {"financeBooks", "financeAssets", "financeReports", "financeGroup"} => missed \in DOMAIN Shown!FinanceActions
      /\ v = "taxCompliance" => missed \in DOMAIN Shown!ComplianceActions
      /\ v = "handoffs" => missed \in DOMAIN Shown!HandoffActions
  BY ActionNames DEF Shown!Offers
<1>3. /\ missed \in DOMAIN Shown!Actions
      /\ \E table \in Shown!Actions[missed].writes : table \in Shown!Shows[list]
      /\ \A key \in Shown!Actions[missed].refreshes : ~Shown!IsPrefix(key, Shown!KeyOf[list])
  BY LeftBy
<1>4. CASE v = "sourceToPay"
  <2>1. list = "accounts" /\ "accounts" \in Shown!Actions[missed].writes
    BY <1>1, <1>3, <1>4, ListContents
  <2>2. {"createVendor", "transitionVendor"} \subseteq DOMAIN Shown!ShellActions
    BY ActionNames
  <2> QED BY <1>2, <1>4, <2>1, <2>2, ActionAreas, WritersOfSome, SupplierWriters
<1>5. CASE v = "inventory"
  <2>1. Shown!KeyOf[list] = <<"valued-inventory", list>> /\ Shown!IsPrefix(<<"valued-inventory">>, <<"valued-inventory", list>>)
    BY <1>1, <1>5, ListKeys, KeysUnder
  <2>2. Shown!Actions[missed].refreshes = {<<"valued-inventory">>}
    BY <1>2, <1>5, ActionAreas, RefreshingActions
  <2> QED BY <1>3, <2>1, <2>2
<1>6. CASE v = "planning"
  <2>1. CASE list \in DOMAIN Shown!PlanningShows
    <3>1. Shown!KeyOf[list] = <<"planning", list>> /\ Shown!IsPrefix(<<"planning">>, <<"planning", list>>)
      BY <2>1, ListKeys, KeysUnder
    <3>2. Shown!Actions[missed].refreshes = {<<"planning">>}
      BY <1>2, <1>6, ActionAreas, RefreshingActions
    <3> QED BY <1>3, <3>1, <3>2
  <2>2. CASE list \in {"items", "warehouses"}
    BY <1>2, <1>3, <1>6, <2>2, ActionAreas, WritersOfSome, ListContents
  <2> QED BY <1>1, <1>6, <2>1, <2>2
<1>7. CASE v \in {"financeBooks", "financeAssets", "financeReports", "financeGroup"}
  <2>1. missed # "consolidate"
    BY <1>2, <1>3, <1>7, ActionAreas, RefreshingActions
  <2>2. Shown!KeyOf[list] = <<"finance-controls", list>> /\ Shown!IsPrefix(<<"finance-controls">>, <<"finance-controls", list>>)
    BY <1>1, <1>7, ListKeys, KeysUnder
  <2>3. Shown!Actions[missed].refreshes = {<<"finance-controls">>}
    BY <1>2, <1>7, <2>1, ActionAreas, RefreshingActions
  <2> QED BY <1>3, <2>2, <2>3
<1>8. CASE v = "taxCompliance"
  <2>1. Shown!KeyOf[list] = <<"india-compliance", list>> /\ Shown!IsPrefix(<<"india-compliance">>, <<"india-compliance", list>>)
    BY <1>1, <1>8, ListKeys, KeysUnder
  <2>2. Shown!Actions[missed].refreshes = {<<"india-compliance">>}
    BY <1>2, <1>8, ActionAreas, RefreshingActions
  <2> QED BY <1>3, <2>1, <2>2
<1>9. CASE v = "handoffs"
  <2>1. CASE list = "handoffs"
    <3>1. Shown!Shows[list] = {"erpEvents"} /\ Shown!KeyOf[list] = <<"handoff-inbox", "mesaerp-to-mesaops">>
      BY <2>1, ListContents, ListKeys
    <3>2. Shown!IsPrefix(<<"handoff-inbox", "mesaerp-to-mesaops">>, <<"handoff-inbox", "mesaerp-to-mesaops">>)
      BY KeysUnder
    <3>3. "erpEvents" \in Shown!Actions[missed].writes => missed = "acceptHandoff"
      BY <1>2, <1>9, ActionAreas, HandoffRefreshes
    <3>4. missed = "acceptHandoff" => <<"handoff-inbox", "mesaerp-to-mesaops">> \in Shown!Actions[missed].refreshes
      BY <1>2, <1>9, ActionAreas, HandoffRefreshes
    <3> QED BY <1>3, <3>1, <3>2, <3>3, <3>4
  <2>2. CASE list = "opsReturns"
    <3>1. Shown!Shows[list] = {"opsEvents"} /\ Shown!KeyOf[list] = <<"handoff-inbox", "mesaops-to-mesaerp">>
      BY <2>2, ListContents, ListKeys
    <3>2. Shown!IsPrefix(<<"handoff-inbox", "mesaops-to-mesaerp">>, <<"handoff-inbox", "mesaops-to-mesaerp">>)
      BY KeysUnder
    <3>3. missed = "acceptHandoff" => "opsEvents" \notin Shown!Actions[missed].writes
      BY <1>2, <1>9, ActionAreas, HandoffRefreshes
    <3>4. missed # "acceptHandoff" => <<"handoff-inbox", "mesaops-to-mesaerp">> \in Shown!Actions[missed].refreshes
      BY <1>2, <1>9, ActionAreas, HandoffRefreshes
    <3> QED BY <1>3, <3>1, <3>2, <3>3, <3>4
  <2> QED BY <1>1, <1>9, <2>1, <2>2
<1> QED BY <1>1, <1>4, <1>5, <1>6, <1>7, <1>8, <1>9

\* A copy that is behind has a reason, and an action that leaves a list behind is one of those that
\* are known to (BehindForAReason, OwnListsFresh and OthersListsKnown of CompanyScreens).
THEOREM ScreensKept ==
    ASSUME Shown!ScreensAssumption
    PROVE  Shown!Spec => [](Shown!TypeOK /\ Shown!BehindForAReason /\ Shown!OwnListsFresh /\ Shown!OthersListsKnown)
<1>1. Shown!Init => ScreensInv
  BY InitScreens
<1>2. ScreensInv /\ [Shown!Next]_(Shown!vars) => ScreensInv'
  BY NextScreens
<1>3. ScreensInv => Shown!TypeOK /\ Shown!BehindForAReason /\ Shown!OwnListsFresh /\ Shown!OthersListsKnown
  BY ScreensTell, OwnLists, OthersLists
<1> QED BY <1>1, <1>2, <1>3, PTL DEF Shown!Spec

-----------------------------------------------------------------------------
(* The stock of the run starts with two receipts.                           *)

LEMMA StartStock ==
    ASSUME Stock!StockAssumption, ReceiptsAssumption, StockInit
    PROVE  StockInv
<1>1. PICK i \in StockItems :
        /\ valued = [p \in StockPlans |-> CASE p = "r1" -> Received(i, 1, 150) [] p = "r2" -> Received(i, 2, 250)
                                            [] OTHER -> Stock!Undrafted]
        /\ movements = <<Stock!Movement(Received(i, 1, 150), a1, 1, Received(i, 1, 150).value),
                         Stock!Movement(Received(i, 2, 250), a1, 1, Received(i, 2, 250).value)>>
        /\ layers = <<Stock!Layer(Received(i, 1, 150)), Stock!Layer(Received(i, 2, 250))>>
        /\ traced \in SUBSET {i} /\ inactive = StockItems \ {i}
        /\ valuing = [c \in Members |-> Stock!Idle] /\ overlapped = {}
  BY DEF StockInit
<1> DEFINE x == Received(i, 1, 150)
           y == Received(i, 2, 250)
<1>2. /\ "r1" \in StockPlans /\ "r2" \in StockPlans /\ a1 \in Warehouses /\ 1 \in StockDays /\ "b1" \in Stock!Traces
      /\ RateScale \in Nat \ {0} /\ RateScale <= 300 /\ Nothing \notin Warehouses /\ a1 # Nothing
      /\ IsFiniteSet(StockPlans)
  BY DEF ReceiptsAssumption, Before, Stock!StockAssumption, Stock!Traces, Stock!IsFiniteSet, IsFiniteSet
<1>3. Stock!Amount(1, 150) \in Nat \ {0} /\ Stock!Amount(2, 250) \in Nat \ {0}
  <2>1. ASSUME NEW n \in {150, 500} PROVE Stock!Rounded(n, RateScale) \in Nat \ {0}
    <3>0. n \in Int /\ n >= 0 /\ n >= 150
      BY <2>1
    <3>1. /\ Stock!Rounded(n, RateScale) \in Int
          /\ 2 * n + RateScale < 2 * (RateScale * Stock!Rounded(n, RateScale)) + 2 * RateScale
          /\ Stock!Rounded(n, RateScale) \in Nat
      BY <1>2, <3>0, RoundedBounds
    <3>2. Stock!Rounded(n, RateScale) # 0
      <4> SUFFICES ASSUME Stock!Rounded(n, RateScale) = 0 PROVE FALSE
        OBVIOUS
      <4>1. RateScale * 0 = 0
        BY <1>2
      <4> QED BY <4>1, <3>0, <3>1, <1>2
    <3> QED BY <3>1, <3>2
  <2>2. 1 * 150 = 150 /\ 2 * 250 = 500
    OBVIOUS
  <2> QED BY <2>1, <2>2 DEF Stock!Amount
<1>4. ASSUME NEW q \in {1, 2}, NEW r \in {150, 250}, Stock!Amount(q, r) \in Nat \ {0}
      PROVE  /\ Received(i, q, r) \in Stock!PlanRecords /\ Received(i, q, r).from = Nothing /\ Received(i, q, r).to = a1
             /\ Received(i, q, r).item = i /\ Received(i, q, r).stage = "posted"
  BY <1>2, <1>4 DEF Received, Stock!Line, Stock!PlanRecords, Stock!Families
<1>5. /\ x \in Stock!PlanRecords /\ x.from = Nothing /\ x.to = a1 /\ x.item = i /\ x.stage = "posted" /\ x.value \in Nat
      /\ y \in Stock!PlanRecords /\ y.from = Nothing /\ y.to = a1 /\ y.item = i /\ y.stage = "posted" /\ y.value \in Nat
  <2>1. /\ x \in Stock!PlanRecords /\ x.from = Nothing /\ x.to = a1 /\ x.item = i /\ x.stage = "posted"
        /\ y \in Stock!PlanRecords /\ y.from = Nothing /\ y.to = a1 /\ y.item = i /\ y.stage = "posted"
    BY <1>3, <1>4
  <2> HIDE DEF x, y
  <2> QED BY <2>1, DraftedTyped
<1> HIDE DEF x, y
<1>6. /\ valued = [p \in StockPlans |-> CASE p = "r1" -> x [] p = "r2" -> y [] OTHER -> Stock!Undrafted]
      /\ movements = <<InRow(x), InRow(y)>> /\ layers = <<Stock!Layer(x), Stock!Layer(y)>>
  BY <1>1, <1>5 DEF x, y, InRow
<1>7. /\ <<>> \in Seq(Stock!MovementRecords) /\ <<>> \in Seq(Stock!LayerRecords)
      /\ movements = Append(Append(<<>>, InRow(x)), InRow(y))
      /\ layers = Append(Append(<<>>, Stock!Layer(x)), Stock!Layer(y))
  BY <1>6
<1>8. /\ Append(<<>>, InRow(x)) \in Seq(Stock!MovementRecords) /\ Append(<<>>, Stock!Layer(x)) \in Seq(Stock!LayerRecords)
      /\ \A j, w, b : TraceSound(Append(<<>>, InRow(x)), Append(<<>>, Stock!Layer(x)), traced, j, w, b)
      /\ SumFunctionOnSet(Worths(Append(<<>>, InRow(x))), DOMAIN Append(<<>>, InRow(x)))
           = SumFunctionOnSet(Worths(<<>>), DOMAIN <<>>) + x.value
  BY <1>2, <1>5, <1>7, NothingSound, ReceiptAdded
<1>9. /\ movements \in Seq(Stock!MovementRecords) /\ layers \in Seq(Stock!LayerRecords)
      /\ \A j, w, b : TraceSound(movements, layers, traced, j, w, b)
      /\ SumFunctionOnSet(Worths(movements), DOMAIN movements)
           = SumFunctionOnSet(Worths(Append(<<>>, InRow(x))), DOMAIN Append(<<>>, InRow(x))) + y.value
  BY <1>2, <1>5, <1>7, <1>8, ReceiptAdded
<1>10. SumFunctionOnSet(Worths(movements), DOMAIN movements) = x.value + y.value
  BY <1>5, <1>8, <1>9, NothingSound
<1>11. StockTypes
  <2>1. valued \in [StockPlans -> Stock!PlanRecords \cup {Stock!Undrafted}]
    BY <1>5, <1>6
  <2>2. Stock!TypeOK
    BY <2>1, <1>1, <1>9 DEF Stock!TypeOK
  <2>3. \A p \in StockPlans : valued[p] # Stock!Undrafted => valued[p].from # valued[p].to
    BY <1>2, <1>5, <1>6
  <2> QED BY <2>2, <2>3, <1>1 DEF StockTypes
<1>12. FlightsSound
  BY <1>1, NothingFlies
<1>13. AllMoved
  <2>1. InRow(x).item = i /\ InRow(y).item = i /\ Stock!Layer(x).item = i /\ Stock!Layer(y).item = i
    BY <1>5, RowsTyped
  <2>2. HasMoved(movements, i)
    <3>1. 1 \in DOMAIN movements /\ movements[1].item = i
      BY <2>1, <1>6
    <3> QED BY <3>1 DEF HasMoved
  <2>3. \A k \in DOMAIN layers : layers[k].item = i
    BY <2>1, <1>6
  <2> QED BY <2>2, <2>3, <1>1 DEF AllMoved
<1>14. TracesSound
  BY <1>9 DEF TracesSound
<1>15. BooksAgree
  <2> DEFINE B == Books(valued)
             rest == StockPlans \ {"r1"}
             others == rest \ {"r2"}
  <2>1. \A p \in StockPlans : B[p] = IF p = "r1" THEN x.value ELSE IF p = "r2" THEN y.value ELSE 0
    BY <1>2, <1>5, <1>6, UndraftedStage DEF Books, BookValue
  <2> HIDE DEF B
  <2>2. IsFiniteSet(rest) /\ IsFiniteSet(others) /\ "r2" \in rest
    BY <1>2, FS_Subset
  <2>3. \A p \in StockPlans : B[p] \in Int
    BY <2>1, <1>5
  <2>4. SumFunctionOnSet(B, StockPlans) = B["r1"] + SumFunctionOnSet(B, rest)
    BY <2>3, <1>2, SumWithout
  <2>5. SumFunctionOnSet(B, rest) = B["r2"] + SumFunctionOnSet(B, others)
    BY <2>2, <2>3, SumWithout
  <2>6. SumFunctionOnSet(B, others) = 0
    BY <2>1, <2>2, SumZero
  <2>7. SumFunctionOnSet(B, StockPlans) = x.value + y.value
    BY <2>1, <2>4, <2>5, <2>6, <1>2, <1>5
  <2> QED BY <2>7, <1>10 DEF BooksAgree, B
<1> QED BY <1>11, <1>12, <1>13, <1>14, <1>15 DEF StockInv

-----------------------------------------------------------------------------
(* The properties the run checks: a behaviour is about one subject, and of *)
(* that subject it is a behaviour of its module.                           *)

\* No step changes what a behaviour is about.
LEMMA OneSubject == [Next]_vars => UNCHANGED subject
  BY DEF Next, vars, StockNext, ReservationNext, RunNext, NettingNext, TradeNext, AssetNext, BankNext,
         AccessNext, KeyedNext, LocalNext, ShownNext, TaxNext, Others

\* And what it is about takes steps of its own module.
LEMMA SubjectSteps ==
    ASSUME [Next]_vars
    PROVE  /\ subject = "bank"   => [Bank!Next]_(Bank!vars)
           /\ subject = "keys"   => [Keyed!Next]_(Keyed!vars)
           /\ subject = "local"  => [Local!Next]_(Local!vars)
           /\ subject = "access" => [Access!Next]_(Access!vars)
           /\ subject = "reservations" => [Holds!Next]_(Holds!vars)
           /\ subject = "runs"   => [Mrp!Next]_(Mrp!vars)
           /\ subject = "trade"  => [Trade!Next]_(Trade!vars)
           /\ subject = "assets" => [Register!Next]_(Register!vars)
           /\ subject = "reports" => [Reports!Next]_(Reports!vars)
           /\ subject = "netting" => [Netting!Next]_(Netting!vars)
           /\ subject = "stock"  => [Stock!Next]_(Stock!vars)
           /\ subject = "screens" => [Shown!Next]_(Shown!vars)
           /\ subject = "tax"    => [Tax!Next]_(Tax!vars)
<1>1. CASE UNCHANGED vars
  BY <1>1 DEF vars, keyedVars, bankVars, localVars, accessVars, heldVars, mrpVars, tradeVars, assetVars,
         reportVars, nettingVars, stockVars, shownVars, taxVars, sourceVars, Bank!vars, Keyed!vars, Local!vars, Access!vars, Holds!vars,
         Mrp!vars, Trade!vars, Register!vars, Reports!vars, Netting!vars, Stock!vars, Shown!vars, Tax!vars
<1>2. CASE Next
  BY <1>2, Zenon DEF Next, StockNext, ReservationNext, RunNext, NettingNext, TradeNext, AssetNext, BankNext,
         AccessNext, KeyedNext, LocalNext, ShownNext, TaxNext
<1> QED BY <1>1, <1>2

\* Whatever the statements and the members: completed statements have no unresolved line, and no
\* voucher line is matched in two different statements unless two matches overlapped
\* (CompletedResolved and OneStatementUnlessRaced of BankReconciliation).
THEOREM BankStaysSound == Spec => []BankSound
<1> DEFINE Here == subject = "bank"
<1>1. Init /\ Here => Bank!Init
  BY DEF Init
<1>2. [Next]_vars /\ Here => [Bank!Next]_(Bank!vars) /\ Here'
  BY SubjectSteps, OneSubject
<1>3. [Next]_vars /\ ~Here => ~Here'
  BY OneSubject
<1>4. Bank!CompletedResolved /\ Bank!OneStatementUnlessRaced => BankSound
  BY DEF BankSound
<1>5. ~Here => BankSound
  BY DEF BankSound
<1> HIDE DEF Here
<1> QED BY <1>1, <1>2, <1>3, <1>4, <1>5, StatementsReconciled, PTL DEF Spec, Bank!Spec

\* Whatever the company, its access desk stays sound (the four properties of CompanyAccess).
THEOREM AccessStaysSound == Spec => []AccessSound
<1> DEFINE Here == subject = "access"
<1>1. Init /\ Here => Access!Init
  BY DEF Init
<1>2. [Next]_vars /\ Here => [Access!Next]_(Access!vars) /\ Here'
  BY SubjectSteps, OneSubject
<1>3. [Next]_vars /\ ~Here => ~Here'
  BY OneSubject
<1>4. (/\ Access!VisibleWhenPermitted /\ Access!PagesTellVersions
       /\ Access!AssignmentsBound /\ Access!NoSelfGrant) => AccessSound
  BY DEF AccessSound
<1>5. ~Here => AccessSound
  BY DEF AccessSound
<1> HIDE DEF Here
<1> QED BY <1>1, <1>2, <1>3, <1>4, <1>5, AccessKept, PTL DEF Spec, Access!Spec

\* Whatever is asked under a key, and of the process-local ledger, the replay of requests
\* stays sound (the properties of CommandReplay and of MemoryLedger).
THEOREM ReplayStaysSound == Spec => []ReplaySound
<1> DEFINE AtKeys == subject = "keys"
           AtLedger == subject = "local"
           Replayed == Keyed!WrittenOnce /\ Keyed!OneAnswer /\ Keyed!CopiesAnswered /\ Keyed!OneAtATime
           Booked == Local!OncePerKey /\ Local!NumbersGapless /\ Local!ReversedOnce /\ Local!TwoMembers
<1>1. (Init /\ AtKeys => Keyed!Init) /\ (Init /\ AtLedger => Local!Init)
  BY DEF Init
<1>2. [Next]_vars /\ AtKeys => [Keyed!Next]_(Keyed!vars) /\ AtKeys'
  BY SubjectSteps, OneSubject
<1>3. [Next]_vars /\ AtLedger => [Local!Next]_(Local!vars) /\ AtLedger'
  BY SubjectSteps, OneSubject
<1>4. [Next]_vars /\ ~AtKeys => ~AtKeys'
  BY OneSubject
<1>5. [Next]_vars /\ ~AtLedger => ~AtLedger'
  BY OneSubject
<1>6. (AtKeys => Replayed) /\ (AtLedger => Booked) => ReplaySound
  BY DEF ReplaySound
<1>7. (Keyed!Spec => []Replayed) /\ (Local!Spec => []Booked)
  BY KeysReplayed, LocalLedgerSound
<1> HIDE DEF AtKeys, AtLedger, Replayed, Booked
<1> QED BY <1>1, <1>2, <1>3, <1>4, <1>5, <1>6, <1>7, PTL DEF Spec, Keyed!Spec, Local!Spec

\* Whatever is reserved and planned, reservations stay within stock and source, and MRP runs tell
\* one moment (NoOverReservation of StockReservations and RunsConsistent of MrpRuns).
THEOREM PlanningStaysSound == Spec => []PlanningSound
<1> DEFINE Reserving == subject = "reservations"
           Planning == subject = "runs"
<1>1. (Init /\ Reserving => Holds!Init) /\ (Init /\ Planning => Mrp!Init)
  BY DEF Init
<1>2. [Next]_vars /\ Reserving => [Holds!Next]_(Holds!vars) /\ Reserving'
  BY SubjectSteps, OneSubject
<1>3. [Next]_vars /\ Planning => [Mrp!Next]_(Mrp!vars) /\ Planning'
  BY SubjectSteps, OneSubject
<1>4. [Next]_vars /\ ~Reserving => ~Reserving'
  BY OneSubject
<1>5. [Next]_vars /\ ~Planning => ~Planning'
  BY OneSubject
<1>6. (Reserving => Holds!NoOverReservation) /\ (Planning => Mrp!RunsConsistent) => PlanningSound
  BY DEF PlanningSound
<1>7. (Holds!Spec => []Holds!NoOverReservation) /\ (Mrp!Spec => []Mrp!RunsConsistent)
  BY ReservationsCovered, RunsStayConsistent, CompanyAssumption
<1> HIDE DEF Reserving, Planning
<1> QED BY <1>1, <1>2, <1>3, <1>4, <1>5, <1>6, <1>7, PTL DEF Spec, Holds!Spec, Mrp!Spec

\* Whatever is sold, produced and posted, completions stay within their demand and are costed once
\* (DemandWithinQuantity and CostedOnce of CommercialManufacturing).
THEOREM TradeStaysSound == Spec => []TradeSound
<1> DEFINE Here == subject = "trade"
<1>1. Init /\ Here => Trade!Init
  BY DEF Init
<1>2. [Next]_vars /\ Here => [Trade!Next]_(Trade!vars) /\ Here'
  BY SubjectSteps, OneSubject
<1>3. [Next]_vars /\ ~Here => ~Here'
  BY OneSubject
<1>4. (Here => Trade!DemandWithinQuantity /\ Trade!CostedOnce) => TradeSound
  BY DEF TradeSound
<1>5. Trade!Spec => [](Trade!DemandWithinQuantity /\ Trade!CostedOnce)
  BY TradeKept, CompanyAssumption
<1> HIDE DEF Here
<1> QED BY <1>1, <1>2, <1>3, <1>4, <1>5, PTL DEF Spec, Trade!Spec

\* Whatever is proposed and posted, the asset register agrees with the books and keeps the residual
\* values (RegisterMatchesBooks and ResidualKept of FixedAssets).
THEOREM AssetsStaySound == Spec => []AssetsSound
<1> DEFINE Here == subject = "assets"
<1>1. Init /\ Here => Register!Init
  BY DEF Init
<1>2. [Next]_vars /\ Here => [Register!Next]_(Register!vars) /\ Here'
  BY SubjectSteps, OneSubject
<1>3. [Next]_vars /\ ~Here => ~Here'
  BY OneSubject
<1>4. (Here => Register!RegisterMatchesBooks /\ Register!ResidualKept) => AssetsSound
  BY DEF AssetsSound
<1>5. Register!Spec => [](Register!RegisterMatchesBooks /\ Register!ResidualKept)
  BY AssetsKept, CompanyAssumption
<1> HIDE DEF Here
<1> QED BY <1>1, <1>2, <1>3, <1>4, <1>5, PTL DEF Spec, Register!Spec
\* Whatever is posted and asked for, the reports of a company agree (StatementsAgree, LedgerClosesByRange
\* and TranslationNearlyBalances of FinanceReports).
THEOREM ReportsStayInAgreement == Spec => []ReportsAgree
<1> DEFINE Here == subject = "reports"
<1>1. Init /\ Here => Reports!Init
  BY DEF Init
<1>2. [Next]_vars /\ Here => [Reports!Next]_(Reports!vars) /\ Here'
  BY SubjectSteps, OneSubject
<1>3. [Next]_vars /\ ~Here => ~Here'
  BY OneSubject
<1>4. (Here => ReportsHold) => ReportsAgree
  BY DEF ReportsAgree, ReportsHold
<1>5. Reports!Spec => []ReportsHold
  BY ReportsAgreeAlways, CompanyAssumption
<1> HIDE DEF Here
<1> QED BY <1>1, <1>2, <1>3, <1>4, <1>5, PTL DEF Spec, Reports!Spec

\* Whatever is demanded, in stock and reserved, and whatever the policies and the product structure,
\* an MRP run covers its demand or tells that it did not (PlanCoversDemand and Converges of MrpNetting).
THEOREM NettingStaysSound == Spec => []NettingSound
<1> DEFINE Here == subject = "netting"
<1>1. Init /\ Here => Netting!Init
  BY DEF Init
<1>2. [Next]_vars /\ Here => [Netting!Next]_(Netting!vars) /\ Here'
  BY SubjectSteps, OneSubject
<1>3. [Next]_vars /\ ~Here => ~Here'
  BY OneSubject
<1>4. (Here => NettingHolds) => NettingSound
  BY DEF NettingSound, NettingHolds
<1>5. Netting!Init /\ [][Netting!Next]_(Netting!vars) => []NettingHolds
  BY NettingSafe, CompanyAssumption
<1> HIDE DEF Here
<1> QED BY <1>1, <1>2, <1>3, <1>4, <1>5, PTL DEF Spec

\* Whatever is received, issued, revalued and counted, what the movements are worth is what the books
\* say, and the layers of an item back its stock (StockNeverNegative, StockMatchesBooks and
\* LayersBackStock of InventoryPosting).
THEOREM StockStaysSound == Spec => []StockSound
<1> DEFINE Here == subject = "stock"
<1>1. Init /\ Here => StockInv
  BY StartStock, CompanyAssumption DEF Init
<1>2. [Next]_vars /\ Here => [Stock!Next]_(Stock!vars) /\ Here'
  BY SubjectSteps, OneSubject
<1>3. [Next]_vars /\ ~Here => ~Here'
  BY OneSubject
<1>4. StockInv /\ [Stock!Next]_(Stock!vars) => StockInv'
  BY NextStock, CompanyAssumption
<1>5. (Here => StockInv) => StockSound
  BY StockTells, CompanyAssumption DEF StockSound
<1> HIDE DEF Here
<1> QED BY <1>1, <1>2, <1>3, <1>4, <1>5, PTL DEF Spec

\* Whatever is opened, sent and answered, the lists of the company workspace are behind only for a
\* reason that is known (the three properties of CompanyScreens).
THEOREM ScreensStaySound == Spec => []ScreensSound
<1> DEFINE Here == subject = "screens"
           Hold == Shown!BehindForAReason /\ Shown!OwnListsFresh /\ Shown!OthersListsKnown
<1>1. Init /\ Here => Shown!Init
  BY DEF Init
<1>2. [Next]_vars /\ Here => [Shown!Next]_(Shown!vars) /\ Here'
  BY SubjectSteps, OneSubject
<1>3. [Next]_vars /\ ~Here => ~Here'
  BY OneSubject
<1>4. (Here => Hold) => ScreensSound
  BY DEF ScreensSound
<1>5. Shown!Spec => [](Shown!TypeOK /\ Hold)
  BY ScreensKept, CompanyAssumption
<1> HIDE DEF Here, Hold
<1> QED BY <1>1, <1>2, <1>3, <1>4, <1>5, PTL DEF Spec, Shown!Spec

\* Whatever the masters with the terms of each, the payables, deductions and vouchers: every deduction is
\* assessed on its own stretch of the year under the terms of its rate, under rates of equal terms each rupee
\* beyond the threshold is taxed once whatever the order (under others the order matters), and no payable
\* serves two vendors (the properties of TdsDeductions).
THEOREM TaxStaysSound == Spec => []TaxSound
<1> DEFINE Here == subject = "tax"
           Hold == Tax!AssessedInTurn /\ Tax!ExcessTaxedOnce /\ Tax!BasisWithinPayable /\ Tax!OneMasterUnlessRaced
<1>1. Init /\ Here => Tax!Init
  BY DEF Init
<1>2. [Next]_vars /\ Here => [Tax!Next]_(Tax!vars) /\ Here'
  BY SubjectSteps, OneSubject
<1>3. [Next]_vars /\ ~Here => ~Here'
  BY OneSubject
<1>4. (Here => Hold) => TaxSound
  BY OneOwner DEF TaxSound
<1>5. Tax!Spec => [](Tax!TypeOK /\ Hold)
  BY TaxKept, CompanyAssumption
<1> HIDE DEF Here, Hold
<1> QED BY <1>1, <1>2, <1>3, <1>4, <1>5, PTL DEF Spec, Tax!Spec

\* The bounds of what is queued, the forecasts and what the supplies are for, and the sales documents are
\* not needed for the properties; their types follow from the invariants.
RunsBeside ==
    /\ forecast \in [Forecasts -> [stage : {"none", "draft", "submitted", "approved"}, maker : Members \cup {Nothing}]]
    /\ \A s \in supplies : s.for = run[s.run].inputs
SalesTyped ==
    /\ customer \in Trade!Maybe(Trade!CustomerStatus)
    /\ document \in [Orders \cup Invoices -> Trade!Maybe(Trade!SalesDocument)]

\* A row of the ledger, and a command of the queue.
RowFits(row, n) == row.amount \in Amounts /\ row.number \in 0 .. n
Asks(c) == (c.op = "create" => c.asks \in Amounts) /\ (c.op = "update" => c.asks[2] \in Amounts)
LocalBeside ==
    /\ Len(queue) <= MaxQueue /\ commands \in 0 .. MaxCommands
    /\ \A v \in Created : RowFits(voucher[v], sequence)
    /\ \A i \in 1 .. Len(queue) : Asks(queue[i])

LEMMA InitBeside == ASSUME Local!MemoryAssumption, Local!Init PROVE LocalBeside
<1>1. queue = <<>> /\ commands = 0 /\ MaxQueue \in Nat /\ MaxCommands \in Nat
  BY DEF Local!Init, Local!MemoryAssumption
<1>2. CASE voucher = [v \in Vouchers |-> Nothing]
  BY <1>1, <1>2 DEF LocalBeside, Created
<1>3. ASSUME NEW v \in Vouchers, NEW x \in Amounts, NEW key \in CommandKeys, NEW maker \in Members, NEW checker \in Members,
             Local!PostedBefore(v, x, key, maker, checker)
      PROVE  LocalBeside
  <2>1. sequence = 1 /\ \A w \in Created : voucher[w].amount = x /\ voucher[w].number = 1
    BY <1>3 DEF Local!PostedBefore, Created, Local!Draft
  <2> QED BY <1>1, <2>1 DEF LocalBeside, RowFits
<1> QED BY <1>2, <1>3 DEF Local!Init

\* A command that is carried out leaves rows that fit.
LEMMA RowsFit ==
    ASSUME Local!MemoryAssumption, LedgerInv, LocalBeside, NEW c \in Commands, Fits(c), Asks(c), c = queue[1], Local!CarryOut
    PROVE  \A v \in Created' : RowFits(voucher'[v], sequence')
<1>1. /\ Local!Allowed(c)
      /\ \/ Local!Changes(c) /\ Local!Effect(c)
         \/ ~Local!Changes(c) /\ voucher' = voucher
      /\ sequence' = IF c.op = "post" /\ Local!Changes(c) THEN sequence + 1 ELSE sequence
  BY DEF Local!CarryOut, Local!Head_
<1>2. /\ c.op # "create" => c.voucher \in Created /\ c.voucher \in Vouchers /\ voucher[c.voucher] \in Local!VoucherRows
      /\ sequence \in Nat /\ voucher \in [Vouchers -> Local!VoucherRows \cup {Nothing}]
  BY DEF Fits, Created, LedgerInv, LocalTyped
<1>3. c.op # "post" => Local!Changes(c)
  BY DEF Local!Changes
<1>4. /\ \A v \in Created : RowFits(voucher[v], sequence)
      /\ \A x \in Amounts : -x \in Amounts
  BY DEF LocalBeside, Local!MemoryAssumption
<1>5. ASSUME NEW u \in Vouchers, NEW row, voucher' = [voucher EXCEPT ![u] = row], RowFits(row, sequence), sequence' = sequence
      PROVE  \A v \in Created' : RowFits(voucher'[v], sequence')
  <2>1. ASSUME NEW v \in Created', v # u PROVE v \in Created /\ voucher'[v] = voucher[v]
    BY <1>2, <1>5, <2>1 DEF Created
  <2>2. voucher'[u] = row
    BY <1>2, <1>5
  <2> QED BY <1>4, <1>5, <2>1, <2>2 DEF RowFits
<1>6. CASE c.op = "create"
  <2>1. PICK v \in Vouchers : voucher' = [voucher EXCEPT ![v] = Local!Draft(c.asks, c.by, Nothing)]
    BY <1>1, <1>3, <1>6 DEF Local!Effect, Local!Free
  <2>2. RowFits(Local!Draft(c.asks, c.by, Nothing), sequence)
    BY <1>2, <1>6 DEF RowFits, Local!Draft, Asks
  <2> QED BY <1>1, <1>5, <1>6, <2>1, <2>2
<1>7. CASE c.op = "reverse"
  <2>1. PICK v \in Vouchers : voucher' = [voucher EXCEPT ![v] = Local!Draft(-voucher[c.voucher].amount, c.by, c.voucher)]
    BY <1>1, <1>3, <1>7 DEF Local!Effect, Local!Free
  <2>2. voucher[c.voucher].amount \in Amounts
    BY <1>2, <1>4, <1>7 DEF RowFits
  <2>3. RowFits(Local!Draft(-voucher[c.voucher].amount, c.by, c.voucher), sequence)
    BY <1>2, <1>4, <2>2 DEF RowFits, Local!Draft
  <2> QED BY <1>1, <1>5, <1>7, <2>1, <2>3
<1>8. CASE c.op \in {"update", "submit", "approve"}
  <2> DEFINE old == voucher[c.voucher]
  <2>0. old \in Local!VoucherRows /\ RowFits(old, sequence) /\ sequence' = sequence /\ c.voucher \in Vouchers
    BY <1>1, <1>2, <1>4, <1>8
  <2>1. CASE c.op = "update"
    <3>1. voucher' = [voucher EXCEPT ![c.voucher] = [old EXCEPT !.amount = c.asks[2], !.version = @ + 1]]
      BY <1>1, <1>2, <1>3, <2>1 DEF Local!Effect, Local!VoucherRows
    <3>2. RowFits([old EXCEPT !.amount = c.asks[2], !.version = @ + 1], sequence)
      BY <2>0, <2>1 DEF RowFits, Asks, Local!VoucherRows
    <3> QED BY <1>5, <2>0, <3>1, <3>2
  <2>2. CASE c.op = "submit"
    <3>1. voucher' = [voucher EXCEPT ![c.voucher] = Local!Moved(c.voucher, "submitted")]
      BY <1>1, <1>3, <2>2 DEF Local!Effect
    <3>2. RowFits(Local!Moved(c.voucher, "submitted"), sequence)
      BY <2>0 DEF RowFits, Local!Moved, Local!VoucherRows
    <3> QED BY <1>5, <2>0, <3>1, <3>2
  <2>3. CASE c.op = "approve"
    <3>1. voucher' = [voucher EXCEPT ![c.voucher] = [Local!Moved(c.voucher, "approved") EXCEPT !.approved = c.by]]
      BY <1>1, <1>3, <2>3 DEF Local!Effect
    <3>2. RowFits([Local!Moved(c.voucher, "approved") EXCEPT !.approved = c.by], sequence)
      BY <2>0 DEF RowFits, Local!Moved, Local!VoucherRows
    <3> QED BY <1>5, <2>0, <3>1, <3>2
  <2> QED BY <1>8, <2>1, <2>2, <2>3
<1>9. CASE c.op = "post" /\ Local!Changes(c)
  <2>1. /\ sequence' = sequence + 1
        /\ voucher' = [w \in Vouchers |->
                        IF w = c.voucher THEN [Local!Moved(w, "posted") EXCEPT !.number = sequence + 1]
                        ELSE IF w = Local!Original(c.voucher) THEN Local!Moved(w, "reversed") ELSE voucher[w]]
    BY <1>1, <1>9 DEF Local!Effect
  <2>2. c.voucher \in Created
    BY <1>2, <1>9
  <2>3. Local!Original(c.voucher) # Nothing => Local!Original(c.voucher) \in Created
    BY <2>2 DEF Local!Original, LedgerInv, LocalTyped
  <2>4. Nothing \notin Vouchers
    BY DEF Local!MemoryAssumption
  <2>5. ASSUME NEW w \in Created
        PROVE  /\ RowFits(voucher[w], sequence + 1)
               /\ RowFits(Local!Moved(w, "reversed"), sequence + 1)
               /\ RowFits([Local!Moved(w, "posted") EXCEPT !.number = sequence + 1], sequence + 1)
    <3>1. voucher[w] \in Local!VoucherRows /\ RowFits(voucher[w], sequence)
      BY <1>2, <1>4 DEF Created
    <3>2. voucher[w].amount \in Amounts /\ voucher[w].number \in 0 .. sequence + 1
      BY <1>2, <3>1 DEF RowFits
    <3>3. /\ Local!Moved(w, "reversed").amount = voucher[w].amount /\ Local!Moved(w, "reversed").number = voucher[w].number
      BY <3>1 DEF Local!Moved, Local!VoucherRows
    <3>4. /\ [Local!Moved(w, "posted") EXCEPT !.number = sequence + 1].amount = voucher[w].amount
          /\ [Local!Moved(w, "posted") EXCEPT !.number = sequence + 1].number = sequence + 1
      BY <3>1 DEF Local!Moved, Local!VoucherRows
    <3> QED BY <1>2, <3>2, <3>3, <3>4 DEF RowFits
  <2>6. ASSUME NEW w \in Created' PROVE w \in Created
    <3>1. w \in Vouchers /\ voucher'[w] # Nothing
      BY DEF Created
    <3> QED BY <2>1, <2>2, <2>3, <2>4, <3>1 DEF Created
  <2>7. ASSUME NEW w \in Created' PROVE RowFits(voucher'[w], sequence + 1)
    <3>1. w \in Created /\ w \in Vouchers
      BY <2>6 DEF Created
    <3> QED BY <2>1, <2>5, <3>1
  <2> QED BY <2>1, <2>7
<1>10. CASE c.op = "post" /\ ~Local!Changes(c)
  BY <1>1, <1>4, <1>10 DEF Created
<1> QED BY <1>6, <1>7, <1>8, <1>9, <1>10 DEF Commands

LEMMA BesideKept ==
    ASSUME Local!MemoryAssumption, LocalInv, LocalBeside, [Local!Next]_(Local!vars)
    PROVE  LocalBeside'
<1>1. /\ queue \in Seq(Commands) /\ MaxQueue \in Nat /\ MaxCommands \in Nat /\ Len(queue) <= MaxQueue
      /\ commands \in 0 .. MaxCommands /\ \A i \in 1 .. Len(queue) : Fits(queue[i]) /\ Asks(queue[i])
      /\ LedgerInv /\ \A v \in Created : RowFits(voucher[v], sequence)
  BY DEF LocalInv, QueueFits, LocalBeside, Local!MemoryAssumption
<1>2. ASSUME UNCHANGED <<voucher, sequence>> PROVE \A v \in Created' : RowFits(voucher'[v], sequence')
  BY <1>1, <1>2 DEF Created
<1>3. CASE UNCHANGED Local!vars
  <2>1. UNCHANGED <<voucher, sequence, queue, commands>>
    BY <1>3 DEF Local!vars
  <2> QED BY <1>2, <2>1 DEF LocalBeside
<1>4. CASE Local!Replay \/ Local!Refuse \/ Local!CarryOut
  <2>1. queue # <<>> /\ queue' = Tail(queue) /\ commands' = commands
    BY <1>4 DEF Local!Replay, Local!Refuse, Local!CarryOut
  <2>2. /\ Len(Tail(queue)) = Len(queue) - 1 /\ Len(queue) >= 1
        /\ \A i \in 1 .. Len(queue) - 1 : Tail(queue)[i] = queue[i + 1]
    BY <1>1, <2>1
  <2>3. \A i \in 1 .. Len(queue') : Asks(queue'[i])
    BY <1>1, <2>1, <2>2
  <2>4. \A v \in Created' : RowFits(voucher'[v], sequence')
    <3>1. CASE Local!Replay \/ Local!Refuse
      BY <1>2, <3>1 DEF Local!Replay, Local!Refuse
    <3>2. CASE Local!CarryOut
      <4>1. queue[1] \in Commands /\ Fits(queue[1]) /\ Asks(queue[1])
        BY <1>1, <2>2
      <4> QED BY <1>1, <3>2, <4>1, RowsFit
    <3> QED BY <1>4, <3>1, <3>2
  <2> QED BY <1>1, <2>1, <2>2, <2>3, <2>4 DEF LocalBeside
<1>5. CASE Local!Send
  <2>1. \E c : Asks(c) /\ Local!Sends(c)
    <3>1. PICK key \in CommandKeys, by \in Members :
            \/ \E x \in Amounts : Local!Sends(Local!Command("create", Nothing, key, x, by))
            \/ \E v \in Created :
                 \/ \E op \in {"submit", "approve", "post", "reverse"} :
                      Local!Sends(Local!Command(op, v, key, voucher[v].version, by))
                 \/ \E x \in Amounts : Local!Sends(Local!Command("update", v, key, <<voucher[v].version, x>>, by))
      BY <1>5 DEF Local!Send, Created
    <3>2. \A x \in Amounts : Asks(Local!Command("create", Nothing, key, x, by))
      BY DEF Asks, Local!Command
    <3>3. \A v, op : op \in {"submit", "approve", "post", "reverse"} => Asks(Local!Command(op, v, key, voucher[v].version, by))
      BY DEF Asks, Local!Command
    <3>4. \A v, x : x \in Amounts => Asks(Local!Command("update", v, key, <<voucher[v].version, x>>, by))
      BY DEF Asks, Local!Command
    <3> QED BY <3>1, <3>2, <3>3, <3>4
  <2>2. PICK c : /\ Asks(c) /\ queue' = Append(queue, c) /\ commands' = commands + 1 /\ commands < MaxCommands
                 /\ Len(queue) < MaxQueue /\ UNCHANGED <<voucher, sequence>>
    BY <2>1 DEF Local!Sends
  <2>3. /\ Len(Append(queue, c)) = Len(queue) + 1 /\ Append(queue, c)[Len(queue) + 1] = c
        /\ \A i \in 1 .. Len(queue) : Append(queue, c)[i] = queue[i]
    BY <1>1
  <2>4. \A i \in 1 .. Len(queue') : Asks(queue'[i])
    BY <1>1, <2>2, <2>3
  <2>5. Len(queue') <= MaxQueue /\ commands' \in 0 .. MaxCommands
    BY <1>1, <2>2, <2>3
  <2> QED BY <1>2, <2>2, <2>4, <2>5 DEF LocalBeside
<1> QED BY <1>3, <1>4, <1>5 DEF Local!Next

LEMMA RunsBesideKept ==
    ASSUME Mrp!MrpAssumption, MrpInv, RunsBeside, [Mrp!Next]_(Mrp!vars)
    PROVE  RunsBeside'
<1>1. /\ \A s \in supplies : s.run \in Runs /\ run[s.run] # Nothing
      /\ run \in [Runs -> Mrp!RunRecords \cup {Nothing}]
      /\ calculating \in Calculations \cup {Nothing} /\ acting \in [Members -> Steps \cup {Nothing}]
      /\ \A m \in Members : acting[m] # Nothing => run[acting[m].run] # Nothing
      /\ calculating # Nothing => run[calculating.run] = Nothing
  BY DEF MrpInv, SuppliesSingle, RunsTyped, StepsHold
<1>2. CASE UNCHANGED Mrp!vars
  BY <1>2 DEF Mrp!vars, RunsBeside
<1>3. ASSUME UNCHANGED <<forecast, run, supplies>> PROVE RunsBeside'
  BY <1>3 DEF RunsBeside
<1>4. CASE \/ Mrp!UpdatePlanningPolicy \/ Mrp!Collect \/ \E x \in PlannedHolds : Mrp!Reserve(x) \/ Mrp!Unreserve(x)
           \/ \E m \in Members : \/ Mrp!AbortStep(m)
                                 \/ \E r \in Runs : Mrp!BeginRun(m, r) \/ Mrp!BeginStep(m, r)
  BY <1>3, <1>4 DEF Mrp!UpdatePlanningPolicy, Mrp!Collect, Mrp!Reserve, Mrp!Unreserve, Mrp!AbortStep, Mrp!BeginRun,
                    Mrp!BeginStep, Mrp!Changes
<1>5. ASSUME NEW f \in Forecasts,
             \/ Mrp!SubmitForecast(f)
             \/ \E m \in Members : Mrp!CreateForecast(m, f) \/ Mrp!ApproveForecast(m, f)
      PROVE  RunsBeside'
  <2>1. UNCHANGED <<run, supplies>>
    BY <1>5 DEF Mrp!SubmitForecast, Mrp!CreateForecast, Mrp!ApproveForecast, Mrp!Changes
  <2>2. forecast' \in [Forecasts -> [stage : {"none", "draft", "submitted", "approved"}, maker : Members \cup {Nothing}]]
    BY <1>5 DEF RunsBeside, Mrp!SubmitForecast, Mrp!CreateForecast, Mrp!ApproveForecast
  <2> QED BY <2>1, <2>2 DEF RunsBeside
<1>6. CASE Mrp!FinishRun
  <2>1. /\ calculating # Nothing /\ run[calculating.run] = Nothing /\ UNCHANGED <<forecast, supplies>>
        /\ \A r \in Runs : r # calculating.run => run'[r] = run[r]
    BY <1>1, <1>6 DEF Mrp!FinishRun
  <2> QED BY <1>1, <2>1 DEF RunsBeside
<1>7. ASSUME NEW m \in Members, Mrp!CommitStep(m) PROVE RunsBeside'
  <2>1. /\ acting[m] # Nothing /\ acting[m] \in Steps /\ run[acting[m].run] # Nothing
        /\ run' = [run EXCEPT ![acting[m].run].stage = Mrp!Following(acting[m].from)] /\ forecast' = forecast
        /\ supplies' = supplies \/ supplies' = supplies \cup {Mrp!Resource(m)}
    BY <1>1, <1>7 DEF Mrp!CommitStep
  <2>2. acting[m].run \in Runs
    BY <2>1 DEF Steps
  <2>3. \A r \in Runs : run[r] # Nothing => run'[r].inputs = run[r].inputs
    BY <1>1, <2>1, <2>2 DEF Mrp!RunRecords
  <2>4. Mrp!Resource(m).for = run[acting[m].run].inputs /\ Mrp!Resource(m).run = acting[m].run
    BY DEF Mrp!Resource
  <2> QED BY <1>1, <2>1, <2>2, <2>3, <2>4 DEF RunsBeside
<1> QED BY <1>2, <1>4, <1>5, <1>6, <1>7 DEF Mrp!Next

LEMMA SalesKept ==
    ASSUME SalesTyped, [Trade!Next]_(Trade!vars)
    PROVE  SalesTyped'
<1>1. ASSUME UNCHANGED <<customer, document>> PROVE SalesTyped'
  BY <1>1 DEF SalesTyped
<1>2. \/ UNCHANGED <<customer, document>> \/ Trade!CreateCustomer
      \/ (\E s \in Trade!CustomerStatus : Trade!UpdateCustomer(s))
      \/ \E m \in Members, q \in Outputs, source \in Orders \cup {Nothing}, d \in DOMAIN document :
           Trade!CreateSalesDocument(m, d, source, q)
      \/ \E d \in DOMAIN document : Trade!SubmitSalesDocument(d) \/ \E m \in Members : Trade!ApproveSalesDocument(m, d)
  <2>1. \A m, d, q, source : Trade!CreateProductionDemand(m, d, source, q) => UNCHANGED <<customer, document>>
    BY DEF Trade!CreateProductionDemand
  <2>2. \A m, d : Trade!ReleaseProductionDemand(d) \/ Trade!ApproveProductionDemand(m, d) => UNCHANGED <<customer, document>>
    BY DEF Trade!ReleaseProductionDemand, Trade!ApproveProductionDemand
  <2>3. \A m, v, kind, batch, d, value, output, qa :
          Trade!CreateManufacturingVoucher(m, v, kind, batch, d, value, output, qa) => UNCHANGED <<customer, document>>
    BY DEF Trade!CreateManufacturingVoucher
  <2>4. \A m, v : \/ Trade!SubmitManufacturingVoucher(v) \/ Trade!PostLedger(v) \/ Trade!PostMovement(v)
                  \/ Trade!ApproveManufacturingVoucher(m, v) \/ Trade!BeginCompletion(m, v)
                  => UNCHANGED <<customer, document>>
    BY DEF Trade!SubmitManufacturingVoucher, Trade!PostLedger, Trade!PostMovement, Trade!ApproveManufacturingVoucher,
           Trade!BeginCompletion
  <2>5. \A m : Trade!CommitCompletion(m) \/ Trade!AbortCompletion(m) => UNCHANGED <<customer, document>>
    BY DEF Trade!CommitCompletion, Trade!AbortCompletion
  <2>6. UNCHANGED Trade!vars => UNCHANGED <<customer, document>>
    BY DEF Trade!vars
  <2> QED BY <2>1, <2>2, <2>3, <2>4, <2>5, <2>6, Zenon DEF Trade!Next
<1>3. CASE Trade!CreateCustomer \/ \E s \in Trade!CustomerStatus : Trade!UpdateCustomer(s)
  BY <1>3 DEF SalesTyped, Trade!CreateCustomer, Trade!UpdateCustomer, Trade!Maybe, Trade!CustomerStatus
<1>4. ASSUME NEW m \in Members, NEW q \in Outputs, NEW source \in Orders \cup {Nothing}, NEW d \in DOMAIN document,
             Trade!CreateSalesDocument(m, d, source, q)
      PROVE  SalesTyped'
  BY <1>4 DEF SalesTyped, Trade!CreateSalesDocument, Trade!Maybe, Trade!SalesDocument
<1>5. ASSUME NEW d \in DOMAIN document, Trade!SubmitSalesDocument(d) \/ \E m \in Members : Trade!ApproveSalesDocument(m, d)
      PROVE  SalesTyped'
  BY <1>5 DEF SalesTyped, Trade!SubmitSalesDocument, Trade!ApproveSalesDocument, Trade!Maybe, Trade!SalesDocument
<1> QED BY <1>1, <1>2, <1>3, <1>4, <1>5

\* What the invariants say of the types.
LEMMA BankTells == ASSUME BankInv PROVE Bank!TypeOK
  BY DEF BankInv, BankTyped, MatchesHold, Bank!TypeOK
LEMMA LocalTells == ASSUME Local!MemoryAssumption, LocalInv, LocalBeside PROVE Local!TypeOK
<1>1. ASSUME NEW v \in Vouchers, voucher[v] # Nothing
      PROVE  /\ voucher[v].status \in Local!Lifecycle /\ voucher[v].version \in Nat
             /\ voucher[v].amount \in Amounts /\ voucher[v].by \in Members
             /\ voucher[v].number \in 0 .. sequence
  BY <1>1 DEF LocalInv, LedgerInv, LocalTyped, LocalBeside, RowFits, Created, Local!VoucherRows
<1> QED BY <1>1 DEF LocalBeside, Local!TypeOK
LEMMA RunsTell == ASSUME MrpInv, RunsBeside PROVE Mrp!TypeOK
  BY DEF MrpInv, RunsTyped, RunsBeside, SuppliesSingle, Mrp!TypeOK
LEMMA SalesTell == ASSUME TradeInv, SalesTyped PROVE Trade!TypeOK
  BY DEF TradeInv, TradeTyped, SalesTyped, Trade!TypeOK
LEMMA NettingTells == ASSUME NettingInv PROVE Netting!TypeOK
  BY DEF NettingInv, RunSound, OrdersOf, Netting!TypeOK

\* The invariants of all the subjects: whatever the company is about, its state has its type.
CompanyInv ==
    /\ subject = "stock"        => StockInv
    /\ subject = "reservations" => HoldsInv
    /\ subject = "runs"         => MrpInv /\ RunsBeside
    /\ subject = "netting"      => NettingInv
    /\ subject = "trade"        => TradeInv /\ SalesTyped
    /\ subject = "assets"       => AssetsInv
    /\ subject = "bank"         => BankInv
    /\ subject = "reports"      => Reports!TypeOK
    /\ subject = "access"       => AccessInv
    /\ subject = "keys"         => ReplayInv
    /\ subject = "local"        => LocalInv /\ LocalBeside
    /\ subject = "screens"      => ScreensInv
    /\ subject = "tax"          => TaxInv

LEMMA InitCompany == ASSUME Init PROVE CompanyInv
<1>1. subject = "stock" => StockInv
  BY StartStock, CompanyAssumption DEF Init
<1>2. subject = "reservations" => HoldsInv
  BY InitHolds, CompanyAssumption DEF Init
<1>3. subject = "runs" => MrpInv /\ RunsBeside
  <2>1. Mrp!Init => RunsBeside
    BY DEF Mrp!Init, RunsBeside
  <2> QED BY <2>1, InitMrp, CompanyAssumption DEF Init
<1>4. subject = "netting" => NettingInv
  BY InitNetting, CompanyAssumption DEF Init
<1>5. subject = "trade" => TradeInv /\ SalesTyped
  <2>1. Trade!Init => SalesTyped
    BY DEF Trade!Init, SalesTyped, Trade!Maybe
  <2> QED BY <2>1, InitTrade, CompanyAssumption DEF Init
<1>6. subject = "assets" => AssetsInv
  BY InitAssets, CompanyAssumption DEF Init
<1>7. subject = "bank" => BankInv
  BY InitBank DEF Init
<1>8. subject = "reports" => Reports!TypeOK
  BY InitReports, CompanyAssumption DEF Init
<1>9. subject = "access" => AccessInv
  BY InitAccess, CompanyAssumption DEF Init
<1>10. subject = "keys" => ReplayInv
  BY InitReplay, CompanyAssumption DEF Init
<1>11. subject = "local" => LocalInv /\ LocalBeside
  BY InitLocal, InitBeside, CompanyAssumption DEF Init
<1>12. subject = "screens" => ScreensInv
  BY InitScreens, CompanyAssumption DEF Init
<1>13. subject = "tax" => TaxInv
  BY InitTax, CompanyAssumption DEF Init
<1> QED BY <1>1, <1>2, <1>3, <1>4, <1>5, <1>6, <1>7, <1>8, <1>9, <1>10, <1>11, <1>12, <1>13 DEF CompanyInv

LEMMA NextCompany == ASSUME CompanyInv, [Next]_vars PROVE CompanyInv'
<1>0. UNCHANGED subject
  BY OneSubject
<1>1. subject = "stock" => StockInv'
  BY SubjectSteps, NextStock, CompanyAssumption DEF CompanyInv
<1>2. subject = "reservations" => HoldsInv'
  BY SubjectSteps, NextHolds, CompanyAssumption DEF CompanyInv, Holds!vars, heldVars
<1>3. subject = "runs" => MrpInv' /\ RunsBeside'
  BY SubjectSteps, NextMrp, RunsBesideKept, CompanyAssumption DEF CompanyInv, Mrp!vars, mrpVars
<1>4. subject = "netting" => NettingInv'
  BY SubjectSteps, NettingGoesOn, CompanyAssumption DEF CompanyInv
<1>5. subject = "trade" => TradeInv' /\ SalesTyped'
  BY SubjectSteps, NextTrade, SalesKept, CompanyAssumption DEF CompanyInv
<1>6. subject = "assets" => AssetsInv'
  BY SubjectSteps, NextAssets, CompanyAssumption DEF CompanyInv
<1>7. subject = "bank" => BankInv'
  BY SubjectSteps, NextBank, CompanyAssumption DEF CompanyInv, Bank!vars, bankVars
<1>8. subject = "reports" => Reports!TypeOK'
  BY SubjectSteps, NextReports DEF CompanyInv
<1>9. subject = "access" => AccessInv'
  BY SubjectSteps, NextAccess, CompanyAssumption DEF CompanyInv, Access!vars, accessVars
<1>10. subject = "keys" => ReplayInv'
  BY SubjectSteps, NextReplay, CompanyAssumption DEF CompanyInv, Keyed!vars, keyedVars
<1>11. subject = "local" => LocalInv' /\ LocalBeside'
  BY SubjectSteps, NextLocal, BesideKept, CompanyAssumption DEF CompanyInv, Local!vars, localVars
<1>12. subject = "screens" => ScreensInv'
  BY SubjectSteps, NextScreens, CompanyAssumption DEF CompanyInv
<1>13. subject = "tax" => TaxInv'
  BY SubjectSteps, NextTax, CompanyAssumption DEF CompanyInv
<1> QED BY <1>0, <1>1, <1>2, <1>3, <1>4, <1>5, <1>6, <1>7, <1>8, <1>9, <1>10, <1>11, <1>12, <1>13 DEF CompanyInv

\* Whatever the company is about, its state has the type of that service.
LEMMA CompanyTyped == ASSUME CompanyInv PROVE CompanyTypes
<1>1. subject = "stock" => Stock!TypeOK
  BY StockTells, CompanyAssumption DEF CompanyInv
<1>2. subject = "reservations" => Holds!TypeOK
  BY DEF CompanyInv, HoldsInv
<1>3. subject = "runs" => Mrp!TypeOK
  BY RunsTell DEF CompanyInv
<1>4. subject = "netting" => Netting!TypeOK
  BY NettingTells DEF CompanyInv
<1>5. subject = "trade" => Trade!TypeOK
  BY SalesTell DEF CompanyInv
<1>6. subject = "assets" => Register!TypeOK
  BY DEF CompanyInv, AssetsInv
<1>7. subject = "bank" => Bank!TypeOK
  BY BankTells DEF CompanyInv
<1>8. subject = "reports" => Reports!TypeOK
  BY DEF CompanyInv
<1>9. subject = "access" => Access!TypeOK
  BY DEF CompanyInv, AccessInv
<1>10. subject = "keys" => Keyed!TypeOK
  BY DEF CompanyInv, ReplayInv
<1>11. subject = "local" => Local!TypeOK
  BY LocalTells, CompanyAssumption DEF CompanyInv
<1>12. subject = "screens" => Shown!TypeOK
  BY ScreensTell, CompanyAssumption DEF CompanyInv
<1>13. subject = "tax" => Tax!TypeOK
  BY DEF CompanyInv, TaxInv
<1> QED BY <1>1, <1>2, <1>3, <1>4, <1>5, <1>6, <1>7, <1>8, <1>9, <1>10, <1>11, <1>12, <1>13 DEF CompanyTypes

\* Whatever the company is about, every part of its state keeps its type.
THEOREM CompanyTypesStay == Spec => []CompanyTypes
<1>1. Init => CompanyInv
  BY InitCompany
<1>2. CompanyInv /\ [Next]_vars => CompanyInv'
  BY NextCompany
<1>3. CompanyInv => CompanyTypes
  BY CompanyTyped
<1> QED BY <1>1, <1>2, <1>3, PTL DEF Spec
=============================================================================
