----------------------------- MODULE WelcomeBC -----------------------------
(***************************************************************************)
(* The WelcomeBC driver, web_checker/drivers/welcomebc_high_impact: the    *)
(* parser of a page that an editor keeps changing, row by row, between the *)
(* checks.  The table has one entry per row, and a row of five cells gives *)
(* its date to the rows of four cells its rowspan covers.  Older draws are *)
(* told in prose, under headings that are dates.  Texts are abstracted to  *)
(* what the parser tells apart: a target entry is one of the monitored     *)
(* type, a route stands for its factors and score, Bad for what is refused.*)
(***************************************************************************)
EXTENDS Integers, Sequences, FiniteSets, SequencesExt

CONSTANTS
    DrawDates,      \* the dates the editor may write
    Routes,         \* the selection routes of a draw
    Bad,            \* a text that is not a date, or not a route
    MaxEntries,     \* bound: rows of the table and sections of prose together
    Null            \* no date in force, or no snapshot recorded yet

WelcomeBCAssumption ==
    /\ MaxEntries \in Nat
    /\ Bad \notin DrawDates /\ Null \notin DrawDates

Core == INSTANCE Transitions WITH Opportunities <- DrawDates

Spans == 0..MaxEntries      \* 0 stands for every rowspan that is refused

FullRow == [cells : {5}, date : DrawDates \cup {Bad}, span : Spans,
            target : BOOLEAN, route : Routes \cup {Bad}]
CoveredRow == [cells : {4}, target : BOOLEAN, route : Routes \cup {Bad}]
OddRow == [cells : {3}, target : BOOLEAN]
Section == [date : DrawDates \cup {Bad}, target : BOOLEAN, route : Routes \cup {Bad}]

VARIABLES
    table, prose,       \* the page: rows, and the sections under date headings
    latest, changes     \* the last recorded snapshot and what the core reported for it

page == <<table, prose>>
recorded == <<latest, changes>>
vars == <<page, recorded>>

-----------------------------------------------------------------------------
(* _parse_table_draws: one pass over the rows, with the date in force, the *)
(* number of rows it still covers, and the (date, route) pairs grouped.    *)

Start == [date |-> Null, left |-> 0, draws |-> {}, failed |-> FALSE]

AddRoute(s, row) ==
    CASE ~row.target -> s
      [] row.target /\ (s.date = Null \/ row.route = Bad \/ <<s.date, row.route>> \in s.draws)
            -> [s EXCEPT !.failed = TRUE]
      [] OTHER -> [s EXCEPT !.draws = @ \cup {<<s.date, row.route>>}]

(* Mutant: the row of the date itself is not counted. *)
OpenSpanOffByOne(s, row) ==
    IF row.date # Bad /\ row.span > 0
    THEN AddRoute([s EXCEPT !.date = row.date, !.left = row.span], row)
    ELSE [s EXCEPT !.date = Null, !.left = 0, !.failed = row.target]

OpenSpan(s, row) ==
    IF row.date # Bad /\ row.span > 0
    THEN AddRoute([s EXCEPT !.date = row.date, !.left = row.span - 1], row)
    ELSE [s EXCEPT !.date = Null, !.left = 0, !.failed = row.target]

UseSpan(s, row) ==
    AddRoute(IF s.left = 0 THEN [s EXCEPT !.date = Null] ELSE [s EXCEPT !.left = @ - 1], row)

SkipOdd(s, row) ==
    [s EXCEPT !.left = IF @ > 0 THEN @ - 1 ELSE @, !.failed = row.target]

ParseRow(s, row) ==
    CASE s.failed        -> s
      [] ~s.failed /\ row.cells = 5 -> OpenSpan(s, row)
      [] ~s.failed /\ row.cells = 4 -> UseSpan(s, row)
      [] ~s.failed /\ row.cells = 3 -> SkipOdd(s, row)

ParseStates(rows) ==
    LET s[i \in 0..Len(rows)] == IF i = 0 THEN Start ELSE ParseRow(s[i - 1], rows[i])
    IN  s

ParseTable(rows) == ParseStates(rows)[Len(rows)]

(* _parse_narrative_draws: a heading that is no date is passed over.       *)
Told(sections) == {s \in sections : s.date # Bad /\ s.target}

ProseFails(sections) ==
    \/ \E s \in Told(sections) : s.route = Bad
    \/ \E s, t \in Told(sections) : s.date = t.date /\ s.route # t.route

(* Mutant: prose is only read when the table has no draw. *)
DrawnTableFirst(rows, sections) ==
    LET drawn == {pair[1] : pair \in ParseTable(rows).draws}
    IN  IF drawn # {} THEN drawn ELSE {s.date : s \in Told(sections)}

(* The dates of both; the table comes first where they overlap, and since  *)
(* an opportunity only has an identifier here, that makes no difference.   *)
Drawn(rows, sections) ==
    {pair[1] : pair \in ParseTable(rows).draws} \cup {s.date : s \in Told(sections)}

ParseFails(rows, sections) ==
    \/ ParseTable(rows).failed
    \/ ProseFails(sections)
    \/ Drawn(rows, sections) = {}

Snapshot(dates) == [d \in DrawDates |-> IF d \in dates THEN "available" ELSE Core!Absent]

-----------------------------------------------------------------------------
Init ==
    /\ table = << >> /\ prose = {}
    /\ latest = Null /\ changes = {}

(* The editor: a row or a section at a time, and every version is online.  *)
(* What no reader looks at is the same everywhere: the rowspan under a     *)
(* malformed date and the route of an entry of another type.               *)
Rows ==
    {r \in FullRow : (r.date = Bad => r.span = 0) /\ (~r.target => r.route = Bad)}
        \cup {r \in CoveredRow : ~r.target => r.route = Bad}
        \cup OddRow

Sections == {s \in Section : (s.date = Bad \/ ~s.target) => s.route = Bad}

InsertRow(row) ==
    /\ Len(table) + Cardinality(prose) < MaxEntries
    /\ \E i \in 1..(Len(table) + 1) : table' = InsertAt(table, i, row)
    /\ UNCHANGED <<prose, recorded>>

DeleteRow ==
    /\ \E i \in DOMAIN table : table' = RemoveAt(table, i)
    /\ UNCHANGED <<prose, recorded>>

InsertSection(section) ==
    /\ Len(table) + Cardinality(prose) < MaxEntries
    /\ prose' = prose \cup {section}
    /\ UNCHANGED <<table, recorded>>

DeleteSection(section) ==
    /\ section \in prose
    /\ prose' = prose \ {section}
    /\ UNCHANGED <<table, recorded>>

(* One request, and the whole page is in the answer; when it fails or the  *)
(* page is refused, nothing is recorded.                                   *)
Check ==
    /\ ~ParseFails(table, prose)
    /\ latest' = Snapshot(Drawn(table, prose))
    /\ changes' = IF latest = Null THEN Core!DetectInitialTransitions(latest')
                  ELSE Core!DetectTransitions(latest, latest')
    /\ UNCHANGED page

Next ==
    \/ \E row \in Rows : InsertRow(row)
    \/ DeleteRow
    \/ \E section \in Sections : InsertSection(section) \/ DeleteSection(section)
    \/ Check

Spec == Init /\ [][Next]_vars

-----------------------------------------------------------------------------
(* The reference: how a reader of the page sees it.  A row stands under    *)
(* the last date above it whose rowspan reaches it.                        *)

Heads(rows, i) == {k \in 1..i : rows[k].cells = 5}

DateOf(rows, i) ==
    IF \E k \in Heads(rows, i) : /\ \A m \in Heads(rows, i) : m <= k
                                 /\ i < k + rows[k].span
    THEN rows[CHOOSE k \in Heads(rows, i) : \A m \in Heads(rows, i) : m <= k].date
    ELSE Bad

Targets(rows) == {i \in DOMAIN rows : rows[i].target}

(* Every target row has its cells, a date and a route of its own. *)
Legible(rows) ==
    \A i \in Targets(rows) :
        /\ rows[i].cells # 3
        /\ DateOf(rows, i) # Bad
        /\ rows[i].route # Bad
        /\ \A k \in Targets(rows) :
              (k < i /\ rows[k].cells # 3 /\ DateOf(rows, k) = DateOf(rows, i))
                  => rows[k].route # rows[i].route

TypeOK ==
    /\ table \in Seq(FullRow \cup CoveredRow \cup OddRow)
    /\ prose \subseteq Section
    /\ Len(table) + Cardinality(prose) <= MaxEntries
    /\ latest # Null => latest \in [DrawDates -> {"available", Core!Absent}]
                        /\ \E d \in DrawDates : latest[d] = "available"
    /\ changes \subseteq Core!Changes

(* The one-pass counter of the parser agrees with the layout of the table:  *)
(* it refuses exactly the tables in which a target row is not legible, and  *)
(* gives every route of the others to the date it stands under.             *)
TableMatchesLayout ==
    /\ ParseTable(table).failed <=> ~Legible(table)
    /\ Legible(table) =>
          ParseTable(table).draws = {<<DateOf(table, i), table[i].route>> : i \in Targets(table)}

(* A snapshot is complete: a draw that the page tells of in a format with a *)
(* legible date, in the table, in prose, or in both while it is moved, is   *)
(* never missing from it, and so never reported as disappeared.             *)
RecordedIsComplete ==
    [][latest' # latest =>
          \A d \in DrawDates :
             latest'[d] = "available" <=>
                 \/ \E i \in Targets(table) : DateOf(table, i) = d
                 \/ \E s \in prose : s.target /\ s.date = d]_vars

(* A malformed date of a target entry fails the check, wherever it stands.  *)
MalformedDatesFail ==
    [][latest' # latest =>
          /\ \A i \in Targets(table) : DateOf(table, i) # Bad
          /\ \A s \in prose : s.target => s.date # Bad]_vars

=============================================================================
