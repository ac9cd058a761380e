--------------------------------- MODULE Sheets ---------------------------------
(***************************************************************************)
(* What the modules without state promise of files somebody made elsewhere *)
(* and of lists the server returns: every small file and list is an        *)
(* initial state, and nothing happens.                                     *)
(***************************************************************************)
EXTENDS CsvText, RiskAnalysis, Dashboards

CONSTANTS
    Files,      \* tables for the merge, with cells that are texts of CsvText
    Texts,      \* texts for the merge
    RiskRows,   \* rows of a merged file
    RiskHeaders,
    Thresholds, \* thresholds of high risk
    CaseRows,   \* cases the server returns
    TeamItems, DemoItems,   \* advisors of a leaderboard, and the invented ones
    GoalItems,  \* a student's goals
    Offsets     \* where browsers are: minutes ahead of UTC

ASSUME ItemsAssumption ==
    /\ TeamItems \subseteq [points : Int, sent : Nat, resolved : Nat]
    /\ GoalItems \subseteq [done : BOOLEAN, deadline : Int \cup {Never}]
    /\ Offsets \subseteq {z \in Int : 0 - 1440 < z /\ z < 1440}

\* Two files that are merged, the rows of a merged file, a list of cases, of
\* advisors or of goals, or NoSample.
VARIABLE sample

NoSample == [kind |-> "none"]

Named(items) == [i \in DOMAIN items |-> [advisor |-> i, points |-> items[i].points,
                                         sent |-> items[i].sent, resolved |-> items[i].resolved]]
Numbered(goals) == [i \in DOMAIN goals |-> [id |-> i, done |-> goals[i].done, deadline |-> goals[i].deadline]]
NoLocals(rows) == [sid \in {r.sid : r \in ToSet(rows)} |-> [acceptedAt |-> Never, goals |-> {}]]

SheetInit ==
    \/ \E a, b \in Files : sample = [kind |-> "files", a |-> a, b |-> b]
    \/ \E a, b \in Texts : sample = [kind |-> "texts", a |-> a, b |-> b]
    \/ \E rows \in SeqOf(RiskRows, 3) : sample = [kind |-> "rows", rows |-> rows]
    \/ \E rows \in SeqOf(CaseRows, 2) : sample = [kind |-> "cases", rows |-> rows]
    \/ \E items \in SeqOf(TeamItems, 4) : sample = [kind |-> "team", items |-> Named(items)]
    \/ \E goals \in SeqOf(GoalItems, 3) : sample = [kind |-> "goals", goals |-> Numbered(goals)]

\* A spreadsheet quotes what needs it (external).
Written(f) ==
    IF ToSet(f) \cap {LF, CR, Comma, Quote} = {} THEN f
    ELSE <<Quote>> \o FlattenSeq([i \in DOMAIN f |-> IF f[i] = Quote THEN <<Quote, Quote>> ELSE <<f[i]>>])
                   \o <<Quote>>
TextOf(table) ==
    JoinWith(<<JoinWith(table.headers, Comma)>>
                \o [i \in DOMAIN table.rows |->
                        JoinWith([k \in DOMAIN table.headers |-> Written(table.rows[i][table.headers[k]])], Comma)], LF)

\* The merge of two texts, read as a table, has the rows of the tables.
Unites(first, second, a, b) ==
    LET union == MergeTables(a, b, Blank)
    IN  ParseCsv(MergeCsv(first, second)) = [union EXCEPT !.rows = WithoutBlankRows(@, Blank)]

\* Merging the texts of two files and reading the result gives the rows of both
\* under the union of their columns, where each has a header and rows, and, when
\* the headers differ, one row to a line and a name for each column: quotes and
\* commas in fields, columns in another order or missing change nothing.
MergeIsUnion ==
    /\ sample.kind = "files" /\ Mergeable(TextOf(sample.a), TextOf(sample.b)) =>
            Unites(TextOf(sample.a), TextOf(sample.b), sample.a, sample.b)
    /\ sample.kind = "texts" /\ Mergeable(sample.a, sample.b) =>
            Unites(sample.a, sample.b, ParseCsv(sample.a), ParseCsv(sample.b))

Table(rows) == [headers |-> RiskHeaders, rows |-> rows]
Shuffled(rows) == {[i \in DOMAIN rows |-> rows[p[i]]] : p \in Bijection(DOMAIN rows, DOMAIN rows)}
Facts(rows) == {[id |-> s.id, year |-> s.year, notified |-> s.notified] : s \in ToSet(StudentsOf(Table(rows)))}

\* Risk, problems and last contact of the students do not depend on the order of
\* the rows, of which the merge puts all marks before all profiles; and counting
\* again at another threshold gives what an analysis at that threshold gives.
StatsOfRows ==
    sample.kind = "rows" =>
        \A rows \in Shuffled(sample.rows) :
            /\ Facts(rows) = Facts(sample.rows)
            /\ \A t \in Thresholds :
                  /\ AnalyzeCsv(Table(rows), t) = AnalyzeCsv(Table(sample.rows), t)
                  /\ Reclassify(StudentsOf(Table(rows)), t) = AnalyzeCsv(Table(sample.rows), t)

\* Screens that compute their figures from the same lists agree: the overview,
\* the Kanban, the table and the success stories on the cases, the leaderboard's
\* parts on the advisors, a card and its dialog on the goals (but for the day a card
\* is early west of UTC), the links of the overview and the sidebar on where the
\* route guard lets one arrive.
ScreensAgree ==
    /\ LinksAgree
    /\ sample.kind = "cases" => CasesAgree(sample.rows, NoLocals(sample.rows))
    /\ sample.kind = "team" => TeamAgrees(sample.items, Named(DemoItems))
    /\ sample.kind = "goals" => \A today \in 1 .. 3, zone \in Offsets : GoalsAgree(sample.goals, today, zone)
===============================================================================
