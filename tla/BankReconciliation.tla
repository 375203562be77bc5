------------------------- MODULE BankReconciliation -------------------------
(***************************************************************************)
(* Bank statements of a company and the voucher lines their lines are      *)
(* matched with (mesaerp/financeControlService.ts).  Every line action     *)
(* holds the statement's row; a completion reads the statement and writes  *)
(* it only if its row version has not moved.                               *)
(***************************************************************************)
EXTENDS FiniteSets, Naturals

CONSTANTS Statements, Lines,   \* statements, and the lines each has
          VoucherLines,        \* posted lines of the bank account, all of the lines' amount
          Members, MaxVersion, Nothing

VARIABLES statement,   \* statement[s]: status, importer, row version and match of each line
          matching,    \* matching[m]: a match found allowed and not yet written
          completing,  \* completing[m]: a completion found allowed and not yet written
          raced        \* history: two matches have been in flight at once

vars == <<statement, matching, completing, raced>>

Imported == {s \in Statements : statement[s] # Nothing}
Statement == [status : {"in_progress", "completed"}, maker : Members, version : 0..MaxVersion,
              match : [Lines -> VoucherLines \cup {"unmatched", "ignored"}]]

\* A voucher line is never taken for one of the marks.
BankAssumption ==
    /\ VoucherLines \cap {"unmatched", "ignored"} = {}
    /\ MaxVersion \in Nat /\ Nothing \notin Statement

TypeOK ==
    /\ \A s \in Statements : statement[s] \in Statement \cup {Nothing}
    /\ \A m \in Members : matching[m] # Nothing => matching[m].statement \in Imported

Init ==
    /\ statement = [s \in Statements |-> Nothing]
    /\ matching = [m \in Members |-> Nothing]
    /\ completing = [m \in Members |-> Nothing]
    /\ raced = FALSE

ImportBankStatement(m, s) ==
    /\ statement[s] = Nothing
    /\ statement' = [statement EXCEPT ![s] =
                       [status |-> "in_progress", maker |-> m, version |-> 0,
                        match |-> [l \in Lines |-> "unmatched"]]]
    /\ UNCHANGED <<matching, completing, raced>>

StatementLockFree(s) == \A m \in Members : matching[m] # Nothing => matching[m].statement # s
Editable(s) == /\ s \in Imported /\ statement[s].status = "in_progress"
               /\ statement[s].version < MaxVersion
               /\ StatementLockFree(s)

\* Mutant of UsedElsewhere: other statements are not searched.
UsedElsewhereIgnored(v, s) == FALSE
UsedElsewhere(v, s) == \E o \in Imported \ {s}, l \in Lines : statement[o].match[l] = v

BeginMatch(m, s, l, v) ==
    /\ matching[m] = Nothing /\ Editable(s)
    /\ ~UsedElsewhere(v, s)
    /\ matching' = [matching EXCEPT ![m] = [statement |-> s, line |-> l, with |-> v]]
    /\ raced' = (raced \/ \E n \in Members : matching[n] # Nothing)
    /\ UNCHANGED <<statement, completing>>

Rematched(s, l, to) ==
    [statement EXCEPT ![s].match[l] = to, ![s].version = @ + 1]

CommitMatch(m) ==
    /\ matching[m] # Nothing
    /\ statement' = Rematched(matching[m].statement, matching[m].line, matching[m].with)
    /\ matching' = [matching EXCEPT ![m] = Nothing]
    /\ UNCHANGED <<completing, raced>>

\* unmatch and ignore.
UpdateBankLine(s, l, to) ==
    /\ Editable(s)
    /\ statement' = Rematched(s, l, to)
    /\ UNCHANGED <<matching, completing, raced>>

Unresolved(s) == {l \in Lines : statement[s].match[l] = "unmatched"}

BeginComplete(m, s) ==
    /\ completing[m] = Nothing
    /\ s \in Imported /\ statement[s].status = "in_progress"
    /\ statement[s].maker # m
    /\ Unresolved(s) = {}
    /\ completing' = [completing EXCEPT ![m] = [statement |-> s, version |-> statement[s].version]]
    /\ UNCHANGED <<statement, matching, raced>>

\* Mutant of Unmoved: the completion is written whatever the row version.
UnmovedIgnored(m) == TRUE
Unmoved(m) == statement[completing[m].statement].version = completing[m].version

CommitComplete(m) ==
    /\ completing[m] # Nothing
    /\ StatementLockFree(completing[m].statement)
    /\ statement' = IF statement[completing[m].statement].status = "in_progress" /\ Unmoved(m)
                    THEN [statement EXCEPT ![completing[m].statement].status = "completed"]
                    ELSE statement
    /\ completing' = [completing EXCEPT ![m] = Nothing]
    /\ UNCHANGED <<matching, raced>>

Next ==
    \/ \E m \in Members, s \in Statements :
         \/ ImportBankStatement(m, s) \/ BeginComplete(m, s)
         \/ \E l \in Lines, v \in VoucherLines : BeginMatch(m, s, l, v)
    \/ \E s \in Statements, l \in Lines, to \in {"unmatched", "ignored"} : UpdateBankLine(s, l, to)
    \/ \E m \in Members : CommitMatch(m) \/ CommitComplete(m)

Spec == Init /\ [][Next]_vars

-----------------------------------------------------------------------------
\* A completed statement has no unmatched line, although lines go on being unmatched
\* while its completion is under way.
CompletedResolved ==
    \A s \in Imported : statement[s].status = "completed" => Unresolved(s) = {}

\* A voucher line is reconciled by one statement, until two matches overlap: each
\* searches the other statements under the lock of its own.
OneStatementUnlessRaced ==
    ~raced => \A s, o \in Imported, l, k \in Lines :
                /\ statement[s].match[l] \in VoucherLines
                /\ statement[s].match[l] = statement[o].match[k]
                => s = o
=============================================================================
