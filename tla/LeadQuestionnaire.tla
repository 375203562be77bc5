------------------------- MODULE LeadQuestionnaire --------------------------
(***************************************************************************)
(* A questionnaire of MesaLeads from its editor (FormBuilder.tsx) through  *)
(* the customer's browser (CustomerQuestionnaire.tsx) to the check of the  *)
(* server (mesaleads/service.ts).  Browser and server each decide which    *)
(* questions are shown; the browser keeps the answers of questions it      *)
(* hides again.                                                            *)
(***************************************************************************)
EXTENDS Naturals, Sequences, FiniteSets, SequencesExt

CONSTANTS Templates,  \* forms the editor starts from
          Texts,      \* what is typed
          MaxEdits,   \* changes the editor makes
          Nothing

VARIABLES form,      \* the questions in their order
          edits,
          phase,     \* "editing", or the kind of the link the form is answered by
          answers,   \* answers[k], in the browser
          uploads,   \* questions with a file
          step,      \* step the browser shows
          outcome,   \* "open", "refused" or "submitted"
          stored     \* what the server has kept

vars == <<form, edits, phase, answers, uploads, step, outcome, stored>>

Keys == {"a", "b", "c", "d", "s", "copy"}
Value == [kind : {"boolean", "number", "string"}, text : {"true", "false", "1", "file", ""} \cup Texts]
Text(t) == [kind |-> "string", text |-> t]
Boolean(t) == [kind |-> "boolean", text |-> t]
Question == [key : Keys, type : {"section", "yes_no", "number", "short_text", "file"}, required : BOOLEAN,
             rule : {Nothing} \cup [source : Keys, operator : {"equals", "not_equals", "contains"}, value : Value]]
Unanswered == [k \in Keys |-> Nothing]

TypeOK ==
    /\ form \in Seq(Question) /\ edits \in 0..MaxEdits /\ phase \in {"editing", "generic", "invitation"}
    /\ \A k \in Keys : answers[k] # Nothing => answers[k] \in Value
    /\ uploads \subseteq Keys /\ step \in Nat /\ outcome \in {"open", "refused", "submitted"}

Init ==
    /\ form \in Templates /\ edits = 0 /\ phase = "editing"
    /\ answers = Unanswered /\ uploads = {} /\ step = 0 /\ outcome = "open" /\ stored = Unanswered

Questions == {form[i] : i \in DOMAIN form}
Place(k) == CHOOSE i \in DOMAIN form : form[i].key = k
Missing(v) == v = Nothing \/ v.text = ""
Answerable(q) == q.type \notin {"section", "file"}

-----------------------------------------------------------------------------
(* The editor.                                                             *)

Editing == phase = "editing" /\ edits < MaxEdits
Edit(f) ==
    /\ form' = f /\ edits' = edits + 1
    /\ UNCHANGED <<phase, answers, uploads, step, outcome, stored>>

\* What is moved keeps its rule, which may now point forward.
move(i, j) ==
    /\ Editing /\ i \in DOMAIN form /\ j \in DOMAIN form /\ j \in {i - 1, i + 1}
    /\ Edit([form EXCEPT ![i] = form[j], ![j] = form[i]])
duplicate(i) ==
    /\ Editing /\ i \in DOMAIN form /\ \A q \in Questions : q.key # "copy"
    /\ Edit(InsertAt(form, i + 1, [form[i] EXCEPT !.key = "copy"]))
\* What is removed leaves the rules that look at it.
remove(i) == Editing /\ i \in DOMAIN form /\ Edit(RemoveAt(form, i))
\* A new key is put into the rules that look at the question.
rename(i, k) ==
    /\ Editing /\ i \in DOMAIN form /\ \A q \in Questions : q.key # k
    /\ Edit([j \in DOMAIN form |->
          IF j = i THEN [form[j] EXCEPT !.key = k]
          ELSE IF form[j].rule # Nothing /\ form[j].rule.source = form[i].key THEN [form[j] EXCEPT !.rule.source = k]
          ELSE form[j]])
setRequired(i) ==
    /\ Editing /\ i \in DOMAIN form /\ form[i].type # "section"
    /\ Edit([form EXCEPT ![i].required = ~@])
Before(i) == SelectSeq(SubSeq(form, 1, i - 1), LAMBDA q : q.type # "section")
setConditional(i) ==
    /\ Editing /\ i \in DOMAIN form /\ form[i].type # "section" /\ Before(i) # <<>>
    /\ Edit([form EXCEPT ![i].rule =
          IF @ # Nothing THEN Nothing ELSE [source |-> Before(i)[1].key, operator |-> "equals", value |-> Text("")]])
\* The value offered depends on the question looked at: yes or no, or a text even for a number.
setRule(i, operator, t) ==
    /\ Editing /\ i \in DOMAIN form /\ form[i].rule # Nothing
    /\ \E p \in Range(Before(i)) :
          /\ t \in IF p.type = "yes_no" THEN {"true", "false"} ELSE Texts \cup {"1"}
          /\ Edit([form EXCEPT ![i].rule = [source |-> p.key, operator |-> operator,
                                             value |-> IF p.type = "yes_no" THEN Boolean(t) ELSE Text(t)]])

\* Mutant of Refers: a rule may look at a later question.
RefersAnywhere(i) ==
    form[i].rule # Nothing => \E j \in DOMAIN form : form[j].key = form[i].rule.source /\ Answerable(form[j])
\* The rule of question i looks at an earlier question that can be answered.
Refers(i) ==
    form[i].rule # Nothing => \E j \in 1..(i - 1) : form[j].key = form[i].rule.source /\ Answerable(form[j])
\* Saved, published, and opened by a customer.  An invitation prefills what the lead tells.
publish(kind) ==
    /\ phase = "editing"
    /\ \E q \in Questions : q.type # "section"
    /\ \A i, j \in DOMAIN form : i # j => form[i].key # form[j].key
    /\ \A i \in DOMAIN form : Refers(i)
    /\ phase' = kind
    /\ answers' = [k \in Keys |-> IF kind = "invitation" /\ \E q \in Questions : q.key = k /\ q.type = "short_text"
                                  THEN Text(CHOOSE t \in Texts : t # "") ELSE Nothing]
    /\ UNCHANGED <<form, edits, uploads, step, outcome, stored>>

-----------------------------------------------------------------------------
(* The browser.                                                            *)

Lower(t) == IF t = "Abc" THEN "abc" ELSE t
Includes(t, part) == part \in {"", t}
\* The rule of q in the browser, which compares texts.
isVisible(q) ==
    q.rule # Nothing =>
        LET current == answers[q.rule.source]  expected == q.rule.value IN
        /\ ~Missing(current)
        /\ CASE q.rule.operator = "equals"     -> current.text = expected.text
             [] q.rule.operator = "not_equals" -> current.text # expected.text
             [] q.rule.operator = "contains"   -> Includes(Lower(current.text), Lower(expected.text))

\* Every section begins a step, unless nothing is in front of it.
StepOf(i) == Cardinality({j \in 1..i : form[j].type = "section" /\ \E h \in 1..(j - 1) : form[h].type # "section"})
Steps == IF form = <<>> THEN 0 ELSE StepOf(Len(form)) + 1
Shown(i) == i \in DOMAIN form /\ form[i].type # "section" /\ StepOf(i) = step /\ step < Steps /\ isVisible(form[i])
Answering == phase # "editing" /\ outcome # "submitted"

\* What the control of a question can hold.
Values(q) == CASE q.type = "yes_no" -> {Boolean("true"), Boolean("false")}
               [] q.type = "number" -> {[kind |-> "number", text |-> "1"], Text("")}
               [] q.type = "short_text" -> {Text(t) : t \in Texts \cup {""}}
               [] OTHER -> {}
setAnswer(i) ==
    /\ Answering /\ Shown(i)
    /\ \E v \in Values(form[i]) : answers' = [answers EXCEPT ![form[i].key] = v]
    /\ outcome' = "open"
    /\ UNCHANGED <<form, edits, phase, uploads, step, stored>>
\* The name of the file becomes the answer.
upload(i) ==
    /\ Answering /\ Shown(i) /\ form[i].type = "file"
    /\ uploads' = uploads \cup {form[i].key}
    /\ answers' = [answers EXCEPT ![form[i].key] = Text("file")]
    /\ outcome' = "open"
    /\ UNCHANGED <<form, edits, phase, step, stored>>

\* Mutant of validateStep: the browser accepts a step as it is.
validateNothing(s) == TRUE
validateStep(s) == \A i \in DOMAIN form : Shown(i) /\ form[i].required => ~Missing(answers[form[i].key])
next ==
    /\ Answering /\ step < Steps /\ validateStep(step)
    /\ step' = step + 1
    /\ UNCHANGED <<form, edits, phase, answers, uploads, outcome, stored>>
back ==
    /\ Answering /\ step > 0
    /\ step' = step - 1 /\ outcome' = "open"
    /\ UNCHANGED <<form, edits, phase, answers, uploads, stored>>
\* The session keeps the answers of a generic link, and no files.
reload ==
    /\ Answering /\ phase = "generic" /\ uploads # {}
    /\ uploads' = {} /\ step' = 0 /\ outcome' = "open"
    /\ UNCHANGED <<form, edits, phase, answers, stored>>

-----------------------------------------------------------------------------
(* The server.                                                             *)

\* The rule of q on the server, which compares values, case and type included.
isQuestionVisible(q, given) ==
    q.rule # Nothing =>
        LET actual == given[q.rule.source]  expected == q.rule.value IN
        /\ ~Missing(actual)
        /\ CASE q.rule.operator = "equals"     -> actual = expected
             [] q.rule.operator = "not_equals" -> actual # expected
             [] q.rule.operator = "contains"   -> /\ actual.kind = "string" /\ expected.kind = "string"
                                                  /\ Includes(actual.text, expected.text)

\* Mutant of Sanitized: rules look at everything that was sent.
SanitizedBlindly(sent) ==
    [k \in Keys |-> IF \E q \in Questions : q.key = k /\ Answerable(q) /\ isQuestionVisible(q, sent)
                    THEN (IF Missing(sent[k]) THEN Nothing ELSE sent[k]) ELSE Nothing]
\* Answers of questions that are visible, in their order, by what has been accepted so far.
Sanitized(sent) ==
    LET upTo[i \in 0..Len(form)] ==
          IF i = 0 THEN Unanswered
          ELSE LET q == form[i]  given == upTo[i - 1] IN
               IF Answerable(q) /\ isQuestionVisible(q, given) /\ ~Missing(sent[q.key])
               THEN [given EXCEPT ![q.key] = sent[q.key]] ELSE given
    IN upTo[Len(form)]
TypeFits(q, v) == Missing(v) \/ v.kind = CASE q.type = "yes_no" -> "boolean" [] q.type = "number" -> "number" [] OTHER -> "string"
Valid(sent, files) ==
    LET given == Sanitized(sent) IN
    /\ \A q \in Questions : Answerable(q) /\ isQuestionVisible(q, given) =>
          (q.required => ~Missing(sent[q.key])) /\ TypeFits(q, sent[q.key])
    /\ \A k \in files : \E q \in Questions : q.key = k /\ q.type = "file" /\ isQuestionVisible(q, given)
    /\ \A q \in Questions : q.type = "file" /\ q.required /\ isQuestionVisible(q, given) => q.key \in files

\* The browser sends what it shows.
submit ==
    LET visible == {q.key : q \in {p \in Questions : p.type # "section" /\ isVisible(p)}}
        sent == [k \in Keys |-> IF k \in visible THEN answers[k] ELSE Nothing]
        files == uploads \cap visible IN
    /\ Answering /\ step = Steps
    /\ IF Valid(sent, files)
       THEN outcome' = "submitted" /\ stored' = Sanitized(sent)
       ELSE outcome' = "refused" /\ UNCHANGED stored
    /\ UNCHANGED <<form, edits, phase, answers, uploads, step>>

Next ==
    \/ \E i \in 1..(Len(form) + 1) :
          \/ \E j \in DOMAIN form : move(i, j)
          \/ duplicate(i) \/ remove(i) \/ rename(i, "d") \/ setRequired(i) \/ setConditional(i)
          \/ \E operator \in {"equals", "not_equals", "contains"}, t \in Texts \cup {"1", "true", "false"} : setRule(i, operator, t)
          \/ setAnswer(i) \/ upload(i)
    \/ \E kind \in {"generic", "invitation"} : publish(kind)
    \/ next \/ back \/ reload \/ submit

Spec == Init /\ [][Next]_vars

-----------------------------------------------------------------------------
(* Properties.                                                             *)

\* What the server keeps forms a path through the questionnaire: every kept answer belongs
\* to a question whose own rule, and that of every question above it, holds on what is
\* kept, and nothing required on the path is missing.
StoredOnPath ==
    LET above[n \in 0..Len(form)] == \* keys reached by at most n rules
          IF n = 0 THEN {q.key : q \in {p \in Questions : p.rule = Nothing}}
          ELSE {q.key : q \in {p \in Questions : \/ p.rule = Nothing
                                                 \/ /\ p.rule.source \in above[n - 1]
                                                    /\ isQuestionVisible(p, stored)}}
    IN outcome = "submitted" =>
         \A q \in Questions : Answerable(q) =>
            /\ ~Missing(stored[q.key]) => q.key \in above[Len(form)]
            /\ q.required /\ q.key \in above[Len(form)] => ~Missing(stored[q.key])

\* The only reasons for which a form the browser has found complete is refused: a rule that
\* compares other kinds of values or ignores case, an answer under a question that is
\* hidden again, or files that a reload has lost.
RefusedForReason ==
    LET mixed == \E q, p \in Questions :
                    /\ q.rule # Nothing /\ q.rule.source = p.key
                    /\ \/ p.type = "number" \/ q.rule.operator = "contains"
        stale == \E q \in Questions : ~isVisible(q) /\ ~Missing(answers[q.key])
        lost == \E q \in Questions : q.type = "file" /\ ~Missing(answers[q.key]) /\ q.key \notin uploads
    IN outcome = "refused" => mixed \/ stale \/ lost

\* A published form can be answered from its beginning to its end.
RulesLookBack ==
    phase # "editing" => \A i \in DOMAIN form : form[i].rule # Nothing => form[i].rule.source \in {form[j].key : j \in 1..(i - 1)}
=============================================================================
