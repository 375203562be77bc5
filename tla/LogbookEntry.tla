---------------------------- MODULE LogbookEntry -----------------------------
(***************************************************************************)
(* The logbook of one production plan while operators fill it in           *)
(* (mesaops/components/LogbookModule.tsx over mesaops/logbook/service.ts). *)
(* A page holds a whole copy of the logbook.  Saving sends the whole copy, *)
(* closing saves, waits for the answer, and submits; the page can be       *)
(* edited while a request is under way, and a save does not wait for       *)
(* another page or for another save of its own.                            *)
(***************************************************************************)
EXTENDS Naturals, Sequences, FiniteSets

CONSTANTS Clients,
          Rolls,        \* rolls of one kg that can be registered
          Templates,
          Layouts,      \* ways to fill in the sheet: guided, paper, panel, mobile
          Operations,   \* what can happen beside filling in and closing
          MaxEdits,     \* edits of all pages together
          MaxRevision,  \* changes of the plan, and logbooks made for it
          MaxLength,    \* keys typed into one field
          Nothing

VARIABLES plan,      \* header and template the planner has chosen
          templates, \* templates there are
          logbook,   \* Nothing, or the stored logbook
          booked,    \* Nothing, or the kg of raw material booked
          page,      \* page[c]: Nothing, or the copy in front of client c
          call,      \* call[c]: requests of client c under way
          edits

vars == <<plan, templates, logbook, booked, page, call, edits>>

Kg == 0..Cardinality(Rolls) + 1
Sheet == [rolls : SUBSET Rolls, scrap : 0..1, total : Kg,
          filled : BOOLEAN]  \* signed, nothing required is empty, numbers are numbers in range
Logbook == [id : 1..MaxRevision + 1, template : Templates, header : 0..MaxRevision,
            status : {"draft", "submitted"}, sheet : Sheet]
Call == [op : {"save", "submit", "closed"}, closing : BOOLEAN, checked : BOOLEAN, id : 1..MaxRevision + 1]

TypeOK ==
    /\ plan \in [header : 0..MaxRevision, template : Templates]
    /\ templates \subseteq Templates
    /\ logbook # Nothing => logbook \in Logbook
    /\ booked # Nothing => booked \in Kg
    /\ \A c \in Clients : /\ page[c] # Nothing => page[c] \in Logbook
                          /\ \A q \in call[c] : /\ [op |-> q.op, closing |-> q.closing, checked |-> q.checked, id |-> q.id] \in Call
                                                 /\ q.copy # Nothing => q.copy \in Logbook
    /\ edits \in 0..MaxEdits

-----------------------------------------------------------------------------
(* The sheet.                                                              *)

buildBlank == [rolls |-> {}, scrap |-> 0, total |-> 0, filled |-> FALSE]
seedDraftLogbook(id, p) == [id |-> id, template |-> p.template, header |-> p.header, status |-> "draft", sheet |-> buildBlank]

\* Mutant of withDerived: the total follows the rolls only.
withDerivedRolls(s) == [s EXCEPT !.total = Cardinality(s.rolls)]
withDerived(s) == [s EXCEPT !.total = Cardinality(s.rolls) + s.scrap]

\* What a page may do to its sheet; header fields come from planning and are read-only.
addRoll(s) == {withDerived([s EXCEPT !.rolls = @ \cup {r}]) : r \in Rolls \ s.rolls}
removeRoll(s) == {withDerived([s EXCEPT !.rolls = @ \ {r}]) : r \in s.rolls}
RollRegister(s) == addRoll(s) \cup removeRoll(s)
setScrap(s) == {withDerived([s EXCEPT !.scrap = 1 - @])}
SetField(s) == {[s EXCEPT !.filled = ~@]}
SetTotals(s) == {[s EXCEPT !.total = kg] : kg \in Kg}
GuidedWizard(s) == RollRegister(s) \cup setScrap(s) \cup SetField(s)
MachineLogBookSheet(s) == SetField(s) \cup SetTotals(s)
FillPanel(s) == RollRegister(s) \cup setScrap(s) \cup SetField(s) \cup SetTotals(s)
MobileRollRegister(s) == addRoll(s) \cup removeRoll(s)
MobileLogEntry(s) == MobileRollRegister(s) \cup setScrap(s) \cup SetField(s) \cup SetTotals(s)
Edited(s) == UNION {CASE l = "guided" -> GuidedWizard(s)
                      [] l = "paper" -> MachineLogBookSheet(s)
                      [] l = "panel" -> FillPanel(s)
                      [] l = "mobile" -> MobileLogEntry(s) : l \in Layouts}
TotalsByHand == Layouts # {"guided"}

\* What the browser asks of a sheet before it closes, and the server before it submits.
validateLogbookForClose(s) == s.filled
\* Mutant of validateLogbookForSubmit: a sheet is only looked at in the browser.
validateNever(s) == TRUE
validateLogbookForSubmit(s) == s.filled

\* The total on the sheet, or, without one, the register and the scrap.
consumption(s) == IF s.total > 0 THEN s.total ELSE Cardinality(s.rolls) + s.scrap
\* What the ledger reports of submitted logbooks.
listLedger == IF logbook.status = "submitted" THEN [produced |-> Cardinality(logbook.sheet.rolls), consumed |-> logbook.sheet.total]
              ELSE [produced |-> 0, consumed |-> 0]

-----------------------------------------------------------------------------
(* Planning and templates.                                                 *)

Init ==
    /\ plan \in [header : {0}, template : Templates]
    /\ templates = Templates
    /\ logbook = seedDraftLogbook(1, plan)
    /\ booked = Nothing
    /\ page = [c \in Clients |-> Nothing]
    /\ call = [c \in Clients |-> {}]
    /\ edits = 0

\* A change of the plan reaches a draft; another template starts the draft again.
syncDraftHeaderFromPlan(template) ==
    /\ "plan" \in Operations
    /\ plan.header < MaxRevision /\ template \in templates
    /\ logbook.status = "draft"
    /\ plan' = [header |-> plan.header + 1, template |-> template]
    /\ logbook' = IF template # logbook.template
                  THEN seedDraftLogbook(logbook.id + 1, plan')
                  ELSE [logbook EXCEPT !.header = plan'.header]
    /\ UNCHANGED <<templates, booked, page, call, edits>>

createTemplate(t) ==
    /\ "template" \in Operations /\ t \notin templates
    /\ templates' = templates \cup {t}
    /\ UNCHANGED <<plan, logbook, booked, page, call, edits>>
InUse(t) == logbook.template = t \/ plan.template = t
deleteTemplate(t) ==
    /\ "template" \in Operations /\ t \in templates /\ ~InUse(t)
    /\ templates' = templates \ {t}
    /\ UNCHANGED <<plan, logbook, booked, page, call, edits>>

-----------------------------------------------------------------------------
(* A page.                                                                 *)

\* Opening a plan: the stored logbook is in front of the client.
openLogbook(c) ==
    /\ page[c] = Nothing
    /\ page' = [page EXCEPT ![c] = logbook]
    /\ UNCHANGED <<plan, templates, logbook, booked, call, edits>>

Open(c) == page[c] # Nothing /\ page[c].status = "draft"
on(c) ==
    /\ Open(c) /\ edits < MaxEdits
    /\ \E s \in Edited(page[c].sheet) \ {page[c].sheet} : page' = [page EXCEPT ![c].sheet = s]
    /\ edits' = edits + 1
    /\ UNCHANGED <<plan, templates, logbook, booked, call>>

\* "Clear draft": the stored logbook replaces what was typed.
handleNew(c) ==
    /\ "clear" \in Operations
    /\ Open(c) /\ page[c] # logbook
    /\ page' = [page EXCEPT ![c] = logbook]
    /\ UNCHANGED <<plan, templates, logbook, booked, call, edits>>

Pending(c, op) == \E q \in call[c] : q.op = op
Sends(c, closing) ==
    call' = [call EXCEPT ![c] = @ \cup {[op |-> "save", closing |-> closing, checked |-> FALSE, id |-> page[c].id,
                                         copy |-> page[c]]}]

\* Save: one at a time.
handleSubmit(c) ==
    /\ Open(c) /\ ~Pending(c, "save") /\ page[c] # logbook
    /\ Sends(c, FALSE)
    /\ UNCHANGED <<plan, templates, logbook, booked, page, edits>>
\* Close: whatever save is under way, but not beside a submission.
handleClose(c) ==
    /\ Open(c) /\ ~Pending(c, "submit") /\ ~Pending(c, "closed") /\ ~\E q \in call[c] : q.closing
    /\ validateLogbookForClose(page[c].sheet)
    /\ Sends(c, TRUE)
    /\ UNCHANGED <<plan, templates, logbook, booked, page, edits>>

\* The answer of a submission shows the closed logbook, over what was typed meanwhile.
Closed(c, q) ==
    /\ q \in call[c] /\ q.op = "closed"
    /\ call' = [call EXCEPT ![c] = @ \ {q}]
    /\ page' = [page EXCEPT ![c] = q.copy]
    /\ UNCHANGED <<plan, templates, logbook, booked, edits>>

-----------------------------------------------------------------------------
(* The service.  With "overlap" another request may come between the check *)
(* of a save and its write.                                                *)

\* Mutant of Writable: a submitted logbook is written.
WritableAlways(q) == q.id = logbook.id
Writable(q) == q.id = logbook.id /\ logbook.status = "draft"
\* Mutant of Written: the sheet keeps the total it had.
WrittenInPart(q) == [logbook EXCEPT !.header = q.copy.header, !.sheet = [q.copy.sheet EXCEPT !.total = logbook.sheet.total]]
\* Every field of the copy, the header it was opened with included.
Written(q) == [logbook EXCEPT !.header = q.copy.header, !.sheet = q.copy.sheet]

Instead(c, q, more) == call' = [call EXCEPT ![c] = (@ \ {q}) \cup more]
\* A refusal is shown and the page goes on; the answer of a save that closes sends the
\* submission.
updateLogbook(c, q) ==
    /\ q \in call[c] /\ q.op = "save"
    /\ \/ /\ IF q.checked THEN q.id # logbook.id ELSE ~Writable(q)
          /\ Instead(c, q, {}) /\ logbook' = logbook
       \/ /\ ~q.checked /\ Writable(q) /\ "overlap" \in Operations
          /\ Instead(c, q, {[q EXCEPT !.checked = TRUE]}) /\ logbook' = logbook
       \/ /\ IF q.checked THEN q.id = logbook.id ELSE Writable(q) /\ "overlap" \notin Operations
          /\ Instead(c, q, IF q.closing THEN {[q EXCEPT !.op = "submit", !.checked = FALSE, !.copy = Nothing]} ELSE {})
          /\ logbook' = Written(q)
    /\ UNCHANGED <<plan, templates, booked, page, edits>>

submitLogbook(c, q) ==
    /\ q \in call[c] /\ q.op = "submit"
    /\ IF q.id = logbook.id /\ logbook.status = "draft" /\ validateLogbookForSubmit(logbook.sheet)
       THEN /\ logbook' = [logbook EXCEPT !.status = "submitted"]
            /\ booked' = consumption(logbook.sheet)
            /\ Instead(c, q, {[q EXCEPT !.op = "closed", !.copy = logbook']})
       ELSE Instead(c, q, {}) /\ UNCHANGED <<logbook, booked>>
    /\ UNCHANGED <<plan, templates, page, edits>>

Next ==
    \/ \E t \in Templates : syncDraftHeaderFromPlan(t) \/ createTemplate(t) \/ deleteTemplate(t)
    \/ \E c \in Clients : \/ openLogbook(c) \/ handleNew(c) \/ on(c) \/ handleSubmit(c) \/ handleClose(c)
                          \/ \E q \in call[c] : Closed(c, q) \/ updateLogbook(c, q) \/ submitLogbook(c, q)

Spec == Init /\ [][Next]_vars

-----------------------------------------------------------------------------
(* What the fields of a sheet do to what is typed (logbook/validate.ts and   *)
(* the inputs of the pages): a number or a meter reading is cleaned after    *)
(* every key, a date or a time when it is entered and again whenever the     *)
(* logbook is loaded.                                                        *)

Chars == {"4", ".", "-", "/", "M", " "}  \* a digit, and what is not
Digit == {"4"}

Count(s, c) == Len(SelectSeq(s, LAMBDA x : x = c))
IsPrefixSign(s) == Len(s) > 0 /\ s[1] = "-"
Without(s, c) == SelectSeq(s, LAMBDA x : x # c)
Before(s, c) == SubSeq(s, 1, (CHOOSE i \in 1..Len(s) : s[i] = c /\ \A j \in 1..i - 1 : s[j] # c) - 1)
After(s, c) == SubSeq(s, Len(Before(s, c)) + 2, Len(s))

-----------------------------------------------------------------------------
(* Numbers and meter readings.                                             *)

\* Mutant of OneSign: a minus stays where it was typed.
AnySign(s) == s
OneSign(s) == (IF IsPrefixSign(s) THEN <<"-">> ELSE <<>>) \o Without(s, "-")
OneDot(s) == IF Count(s, ".") = 0 THEN s ELSE Before(s, ".") \o <<".">> \o Without(After(s, "."), ".")
sanitizeDecimal(s) == OneDot(OneSign(SelectSeq(s, LAMBDA x : x \in Digit \cup {".", "-"})))

Only(s, S) == \A i \in DOMAIN s : s[i] \in S

\* Number(v) of what sanitizeDecimal can leave: a digit somewhere.
isInvalidNumber(s) == s # <<>> /\ (\/ Count(s, "4") = 0
                                   \/ Count(s, ".") > 1
                                   \/ Count(Tail(s), "-") > 0 \/ ~Only(s, Digit \cup {".", "-"}))

sanitizeMeter(s) ==
    LET kept == SelectSeq(s, LAMBDA x : x \in Digit \cup {".", "/", "M"}) IN
    IF Count(kept, "/") = 0 THEN sanitizeDecimal(kept)
    ELSE sanitizeDecimal(Before(kept, "/")) \o <<"/">> \o SelectSeq(After(kept, "/"), LAMBDA x : x \in Digit \cup {"M"})

Plain(s) == /\ s # <<>> /\ Only(s, Digit \cup {"."}) /\ Count(s, ".") <= 1
            /\ s[1] \in Digit /\ s[Len(s)] \in Digit
isInvalidMeter(s) ==
    s # <<>> /\ ~(IF Count(s, "/") = 0 THEN Plain(s)
                  ELSE Plain(Before(s, "/")) /\ After(s, "/") # <<>> /\ Only(After(s, "/"), Digit \cup {"M"}))

-----------------------------------------------------------------------------
(* Dates and times, as the parts a text is made of.                        *)

Dates == [order : {"ymd", "dmy"}, y : {24, 72, 1900, 2024}, m : {0, 2, 12, 13}, d : {0, 1, 29, 30, 31, 32}]
Century(y) == IF y >= 100 THEN y ELSE IF y >= 70 THEN y + 1900 ELSE y + 2000
normalizeDate(v) ==
    IF v.order = "ymd" \/ v.m \notin 1..12 \/ v.d \notin 1..31 THEN v
    ELSE [v EXCEPT !.order = "ymd", !.y = Century(@)]
Leap(y) == y % 4 = 0 /\ (y % 100 = 0 => y % 400 = 0)
DaysOf(y, m) == IF m = 2 THEN IF Leap(y) THEN 29 ELSE 28 ELSE 31  \* of the months above
\* A date of another order is no date; a year below 100 is taken for one of the last century.
isInvalidDate(v) == LET n == normalizeDate(v) IN
    ~(n.order = "ymd" /\ n.y >= 100 /\ n.m \in 1..12 /\ n.d \in 1..DaysOf(n.y, n.m))

Times == [h : {0, 9, 11, 12, 13, 23, 24}, min : {0, 59, 60}, half : {"", "am", "pm"}]
To24(h, half) == IF half = "pm" /\ h < 12 THEN h + 12 ELSE IF half = "am" /\ h = 12 THEN 0 ELSE h
normalizeTime(v) ==
    IF To24(v.h, v.half) > 23 \/ v.min > 59 THEN v ELSE [v EXCEPT !.h = To24(v.h, v.half), !.half = ""]
isInvalidTime(v) == LET n == normalizeTime(v) IN n.half # "" \/ n.h > 23 \/ n.min > 59

FieldKinds == {"number", "meter", "date", "time"}
FieldTyped(kind, text) ==
    CASE kind \in {"number", "meter"} -> text \in Seq(Chars) /\ Len(text) <= MaxLength
      [] kind = "date" -> text \in Dates \cup {normalizeDate(v) : v \in Dates}
      [] kind = "time" -> text \in [h : 0..24, min : {0, 59, 60}, half : {"", "am", "pm"}]
FirstTexts(kind) == CASE kind = "date" -> Dates [] kind = "time" -> Times [] OTHER -> {<<>>}

\* A key lands anywhere in the text.
Type(kind, text) ==
    IF kind \in {"number", "meter"} /\ Len(text) < MaxLength
    THEN LET With(c, i) == SubSeq(text, 1, i) \o <<c>> \o SubSeq(text, i + 1, Len(text)) IN
         {IF kind = "number" THEN sanitizeDecimal(With(c, i)) ELSE sanitizeMeter(With(c, i)) : c \in Chars, i \in 0..Len(text)}
    ELSE {}
normalizeLogbookFormats(kind, text) ==
    CASE kind = "date" -> normalizeDate(text) [] kind = "time" -> normalizeTime(text) [] OTHER -> text

-----------------------------------------------------------------------------
(* Properties.                                                             *)

\* Raw material is booked by the figures of the closed logbook, which is complete: no save
\* of any page got in after the submission.
BookedAsClosed ==
    "overlap" \notin Operations =>
        /\ (booked # Nothing) <=> (logbook.status = "submitted")
        /\ booked # Nothing => logbook.sheet.filled /\ booked = consumption(logbook.sheet)

\* Unless totals are typed by hand, they are the register's, whoever saved last and whatever
\* was overwritten: a sheet is stored as one page had it, and the ledger balances.
TotalsDerived ==
    ~TotalsByHand =>
        /\ logbook.sheet.total = Cardinality(logbook.sheet.rolls) + logbook.sheet.scrap
        /\ listLedger.consumed >= listLedger.produced
        /\ booked # Nothing /\ "overlap" \notin Operations => booked = listLedger.consumed

\* A page that shows the logbook as closed shows what is stored.
ClosedPageAgrees ==
    "overlap" \notin Operations =>
        \A c \in Clients : page[c] # Nothing /\ page[c].status = "submitted" => page[c] = logbook

\* The templates of the plan and of its logbook exist.
TemplatesKept == {logbook.template, plan.template} \subseteq templates

\* What is stored does not change when it is loaded, cleaned or checked again.
Settled(kind, text) ==
    /\ kind = "number" => sanitizeDecimal(text) = text
    /\ kind = "meter" => sanitizeMeter(text) = text
    /\ kind = "date" => normalizeDate(normalizeDate(text)) = normalizeDate(text)
    /\ kind = "time" => normalizeTime(normalizeTime(text)) = normalizeTime(text)

\* However keys land, a number field holds a number once it holds a digit, and a reading is
\* refused only while a part of it is missing or has a sign.
NumbersComeOut(kind, text) ==
    /\ kind = "number" /\ isInvalidNumber(text) => Count(text, "4") = 0
    /\ kind = "meter" /\ Count(text, "/") > 0 /\ isInvalidMeter(text) =>
          After(text, "/") = <<>> \/ ~Plain(Before(text, "/"))

\* A time or a date the checks let through is one of the day or of the calendar, and twelve
\* hours make no difference to whether it is let through.
ClockAndCalendar(kind, text) ==
    /\ kind = "time" => (~isInvalidTime(text) <=> To24(text.h, text.half) <= 23 /\ text.min <= 59)
    /\ kind = "time" /\ text.half = "pm" /\ text.h = 12 /\ text.min = 0 => normalizeTime(text) = [h |-> 12, min |-> 0, half |-> ""]
    /\ kind = "date" /\ ~isInvalidDate(text) => text.d \in 1..31 /\ (text.m = 2 => text.d <= 29)
=============================================================================
