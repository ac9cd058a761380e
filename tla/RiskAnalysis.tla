----------------------------- MODULE RiskAnalysis -----------------------------
(***************************************************************************)
(* What the import page derives from the two files (lib/csv.ts): the       *)
(* records it sends, the validation it shows and the risk statistics.      *)
(* Tables are those of CsvText with a text for each cell and name.         *)
(* Column names are in the normal form of the code: lower case letters.    *)
(***************************************************************************)
EXTENDS Integers, SequencesExt, Lists

CONSTANTS
    NoNumber,   \* undefined, for a cell that is no number
    NumberOf    \* the numbers that the texts of cells stand for, where they do

NoText == ""    \* the blank cell

ASSUME NumbersAssumption ==
    /\ NumberOf \in [DOMAIN NumberOf -> Int] /\ NoNumber \notin Int
    /\ NoText \notin DOMAIN NumberOf

FAIL_SCORE == 50
LOW_AVG == 65
NoColumn == "no column"

-----------------------------------------------------------------------------
(* Columns and cells *)

\* String inclusion among the headers that occur: <<h, c>> when h includes c.
Includes == {<<"studentname", "name">>, <<"coursename", "name">>, <<"coursename", "course">>,
             <<"courseid", "course">>, <<"timestamp", "time">>,
             <<"lastnotifiedtimestamp", "timestamp">>, <<"lastnotifiedtimestamp", "time">>,
             <<"currentriskstatus", "riskstatus">>, <<"currentriskstatus", "risk">>,
             <<"currentriskstatus", "status">>, <<"interventionstatus", "status">>}

\* The first candidate that is a header; else, for the first candidate that some
\* header includes, the first such header.
FindCol(headers, candidates) ==
    LET exact == {k \in DOMAIN candidates : candidates[k] \in ToSet(headers)}
        partly(k) == {i \in DOMAIN headers :
                        headers[i] = candidates[k] \/ <<headers[i], candidates[k]>> \in Includes}
        partial == {k \in DOMAIN candidates : partly(k) # {}}
    IN  CASE exact # {}                     -> candidates[Min(exact)]
          [] exact = {} /\ partial # {}     -> headers[Min(partly(Min(partial)))]
          [] OTHER                          -> NoColumn

SidNames == <<"sid", "studentid", "mssv">>
NameNames == <<"studentname", "name", "hoten", "fullname">>
ScoreNames == <<"score", "diem">>
TimeNames == <<"timestamp", "time">>
NotifiedNames == <<"lastnotifiedtimestamp", "lastsendemail">>

Cell(row, col) == IF col = NoColumn THEN NoText ELSE row[col]
ToNumber(cell) == IF cell \in DOMAIN NumberOf THEN NumberOf[cell] ELSE NoNumber
NumberOr0(cell) == IF cell \in DOMAIN NumberOf THEN NumberOf[cell] ELSE 0

\* Only a positive number of seconds is a time; an ISO date is "never".
ParseLastNotified(cell) == IF NumberOr0(cell) > 0 THEN NumberOr0(cell) ELSE 0

NormalizeTestType(cell) ==
    CASE cell \in {"middle_semester", "midterm", "middle"}      -> "middle_semester"
      [] cell \in {"final_semester", "final", "final_exam", "exam"} -> "final_semester"
      [] OTHER                                                  -> "other"

-----------------------------------------------------------------------------
(* Risk of a student *)

Scores(tests) == [i \in DOMAIN tests |-> tests[i].score]
AverageBelow(tests, mark) == SumOf(Scores(tests)) < mark * Len(tests)
HasFailed(tests, type) == \E i \in DOMAIN tests : tests[i].type = type /\ tests[i].score < FAIL_SCORE

Problems(tests) ==
    IF tests = <<>> THEN {}
    ELSE {p \in {"failed_final", "failed_midterm", "low_average"} :
            CASE p = "failed_final"     -> HasFailed(tests, "final_semester")
              [] p = "failed_midterm"   -> HasFailed(tests, "middle_semester")
              [] p = "low_average"      -> AverageBelow(tests, LOW_AVG)}

\* highAvg is the configured threshold of getConfiguredHighAvg.
Severity(tests, highAvg) ==
    IF tests = <<>> THEN "low"
    ELSE IF "failed_final" \in Problems(tests) \/ AverageBelow(tests, highAvg) THEN "high"
    ELSE IF Problems(tests) # {} THEN "medium" ELSE "low"

-----------------------------------------------------------------------------
(* analyzeCsv: rows are grouped by student *)

ColumnsOf(headers) ==
    [sid |-> FindCol(headers, SidNames), name |-> FindCol(headers, NameNames),
     email |-> FindCol(headers, <<"email">>), notified |-> FindCol(headers, NotifiedNames),
     score |-> FindCol(headers, ScoreNames), type |-> FindCol(headers, <<"testtype", "examtype">>),
     year |-> FindCol(headers, <<"academicyear", "year">>)]

TestOf(row, col) ==
    [score |-> ToNumber(Cell(row, col.score)), type |-> NormalizeTestType(Cell(row, col.type))]

TestsIn(row, col) == IF TestOf(row, col).score = NoNumber THEN <<>> ELSE <<TestOf(row, col)>>
OrElse(cell, other) == IF cell = NoText THEN other ELSE cell

NewStudent(row, col) ==
    [id |-> Cell(row, col.sid), name |-> OrElse(Cell(row, col.name), Cell(row, col.sid)),
     email |-> Cell(row, col.email), year |-> NumberOr0(Cell(row, col.year)),
     notified |-> ParseLastNotified(Cell(row, col.notified)), tests |-> TestsIn(row, col)]

Larger(x, y) == IF x > y THEN x ELSE y

\* Slip: the last row decides when the student was contacted.
WithRowLast(s, row, col) ==
    LET new == NewStudent(row, col)
    IN  [s EXCEPT !.name = new.name, !.email = OrElse(@, new.email), !.year = Larger(@, new.year),
                  !.notified = new.notified, !.tests = @ \o new.tests]

\* The name is the last row's, also where that row has only the number to offer;
\* the contact is the newest, the address the first.
WithRow(s, row, col) ==
    LET new == NewStudent(row, col)
    IN  [s EXCEPT !.name = new.name, !.email = OrElse(@, new.email), !.year = Larger(@, new.year),
                  !.notified = Larger(@, new.notified), !.tests = @ \o new.tests]

AddRow(students, row, col) ==
    LET sid == Cell(row, col.sid)
    IN  IF sid = NoText THEN students
        ELSE IF \A k \in DOMAIN students : students[k].id # sid THEN Append(students, NewStudent(row, col))
        ELSE [k \in DOMAIN students |->
                IF students[k].id = sid THEN WithRow(students[k], row, col) ELSE students[k]]

\* The students after the first rows, for each number of them.
StudentsAfter(entries, col) ==
    LET after[n \in 0 .. Len(entries)] == IF n = 0 THEN <<>> ELSE AddRow(after[n - 1], entries[n], col) IN after

StudentsOf(table) ==
    LET col == ColumnsOf(table.headers)
    IN  IF col.sid = NoColumn \/ col.score = NoColumn THEN <<>>
        ELSE StudentsAfter(table.rows, col)[Len(table.rows)]

\* Statistics shown of the students, at a threshold.  Year 0 stands for "other".
YearOf(s) == IF s.year > 0 THEN s.year ELSE 0
AtRisk(s, highAvg) == Severity(s.tests, highAvg) # "low"
Stats(students, highAvg, totalTests) ==
    [totalStudents |-> Len(students), totalTests |-> totalTests,
     risk |-> [v \in {"high", "medium", "low"} |->
                    CountIn(students, LAMBDA s : Severity(s.tests, highAvg) = v)],
     problems |-> [p \in {"failed_final", "failed_midterm", "low_average"} |->
                    CountIn(students, LAMBDA s : p \in Problems(s.tests))],
     yearRisk |-> [y \in {YearOf(s) : s \in {s \in ToSet(students) : AtRisk(s, highAvg)}} |->
                    CountIn(students, LAMBDA s : YearOf(s) = y /\ AtRisk(s, highAvg))]]

Scored(row, col) == Cell(row, col.sid) # NoText /\ ToNumber(Cell(row, col.score)) # NoNumber
TestsOf(table) ==
    LET col == ColumnsOf(table.headers) IN CountIn(table.rows, LAMBDA row : Scored(row, col))

AnalyzeCsv(table, highAvg) ==
    LET students == StudentsOf(table)
    IN  Stats(students, highAvg, IF students = <<>> THEN 0 ELSE TestsOf(table))

\* reclassifyStudentsAndStats counts the tests again, student by student.
Reclassify(students, highAvg) ==
    Stats(students, highAvg, SumOf([i \in DOMAIN students |-> Len(students[i].tests)]))

-----------------------------------------------------------------------------
(* The records sent to the server *)

\* Slip: a row without a number keeps its place.
LmsRowsAll(table, col) == Filtered(table.rows, LAMBDA r : Cell(r, col.sid) # NoText)

LmsRows(table, col) == Filtered(table.rows, LAMBDA r : Scored(r, col))

\* A timestamp that is no number of seconds becomes the first second of 1970.
CsvToLMSRecords(table) ==
    LET col == ColumnsOf(table.headers)
        entries == LmsRows(table, col)
        time == FindCol(table.headers, TimeNames)
    IN  IF col.sid = NoColumn \/ col.score = NoColumn THEN <<>>
        ELSE [i \in DOMAIN entries |->
                [sid |-> Cell(entries[i], col.sid), score |-> ToNumber(Cell(entries[i], col.score)),
                 test_type |-> Cell(entries[i], col.type), timestamp |-> NumberOr0(Cell(entries[i], time)),
                 academic_year |-> NumberOr0(Cell(entries[i], col.year))]]

\* A student at risk whom nobody supports yet is a new case.
InterventionStatus(risk, status) ==
    IF risk \in {"elevated", "critical"} /\ status \in {NoText, "none"} THEN "new" ELSE status

CsvToSISRecords(table) ==
    LET col == ColumnsOf(table.headers)
        risk == FindCol(table.headers, <<"currentriskstatus", "riskstatus", "risk">>)
        status == FindCol(table.headers, <<"interventionstatus", "status">>)
        entries == Filtered(table.rows, LAMBDA r : Cell(r, col.sid) # NoText)
    IN  IF col.sid = NoColumn THEN <<>>
        ELSE [i \in DOMAIN entries |->
                [sid |-> Cell(entries[i], col.sid),
                 student_name |-> OrElse(Cell(entries[i], col.name), Cell(entries[i], col.sid)),
                 email |-> Cell(entries[i], col.email), current_risk_status |-> Cell(entries[i], risk),
                 intervention_status |-> InterventionStatus(Cell(entries[i], risk), Cell(entries[i], status)),
                 last_notified_timestamp |-> ParseLastNotified(Cell(entries[i], col.notified))]]

-----------------------------------------------------------------------------
(* Validation shown before the upload *)

Missing(headers, needed) == {n \in DOMAIN needed : FindCol(headers, needed[n]) = NoColumn}

ValidateLMSCsv(table) ==
    LET missing == Missing(table.headers, [sid |-> SidNames, score |-> ScoreNames])
        col == ColumnsOf(table.headers)
    IN  [missingColumns |-> missing, totalRows |-> Len(table.rows),
         skippedRows |-> IF missing # {} THEN 0
                         ELSE CountIn(table.rows, LAMBDA r : ~Scored(r, col))]

ValidateSISCsv(table) ==
    LET missing == Missing(table.headers, [sid |-> SidNames])
        col == ColumnsOf(table.headers)
    IN  [missingColumns |-> missing, totalRows |-> Len(table.rows),
         skippedRows |-> IF missing # {} THEN 0
                         ELSE CountIn(table.rows, LAMBDA r : Cell(r, col.sid) = NoText)]
===============================================================================
