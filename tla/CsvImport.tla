------------------------------- MODULE CsvImport -------------------------------
(***************************************************************************)
(* The import page of an administrator: csv-uploader.tsx, its drop zones,  *)
(* the registry of uploads and the state kept in IndexedDB.  Two files are *)
(* staged, read in the background, confirmed together, merged, analysed    *)
(* and sent; the page may be reloaded at any time.                         *)
(*                                                                         *)
(* A file is a name with a text.  The effects that store staged, inflight *)
(* and uploaded run after every change: what is stored is what is shown.   *)
(***************************************************************************)
EXTENDS CsvText, RiskAnalysis

CONSTANTS
    LmsFiles, SisFiles,     \* files a user may choose
    TextIn,                 \* their texts
    NoFile,                 \* nothing staged, nothing uploaded
    HighAvg,                \* the configured threshold of high risk
    MaxUploads, MaxReloads, MaxReaders  \* bounds on confirmations, reloads, open readers

ChosenFiles == LmsFiles \cup SisFiles

\* A field of a parsed table as a text, and the table with texts for its fields.
AsText(field) == LET join(text, ch) == text \o ch IN FoldLeft(join, "", field)
AsTexts(table) ==
    LET field == [name \in {AsText(h) : h \in ToSet(table.headers)} |->
                    CHOOSE h \in ToSet(table.headers) : AsText(h) = name]
    IN  [headers |-> [k \in DOMAIN table.headers |-> AsText(table.headers[k])],
         rows |-> [i \in DOMAIN table.rows |-> [name \in DOMAIN field |-> AsText(table.rows[i][field[name]])]]]
Parsed(text) == AsTexts(ParseCsv(text))

TableOf == [file \in ChosenFiles |-> Parsed(TextIn[file])]

\* A parsed file has a sequence of headers and one of rows, with a cell for each header.
ASSUME TablesAssumption ==
    /\ NoFile \notin ChosenFiles
    /\ \A file \in ChosenFiles :
          LET table == TableOf[file]
          IN  /\ table.headers \in Seq(ToSet(table.headers)) /\ table.rows \in Seq(ToSet(table.rows))
              /\ \A row \in ToSet(table.rows) : DOMAIN row = ToSet(table.headers)

Sources == {"LMS", "SIS"}
FilesOf(source) == IF source = "LMS" THEN LmsFiles ELSE SisFiles

VARIABLES
    staged,     \* the file of each source, or NoFile
    readers,    \* files being read: FileReader
    inflight,   \* the card below the zones
    uploaded,   \* the pair last confirmed, for the preview
    submission, \* the confirmation in progress and the call it waits for
    loading,    \* what was read from IndexedDB and is not yet shown, or NoFile
    registry,   \* the uploads in localStorage, as useUploads keeps them
    ingested,   \* uploads whose records the server stored
    autoDraft,  \* the user setting auto_draft_enabled, on the server
    reloads

importVars == <<staged, readers, inflight, uploaded, submission, loading, registry, ingested, autoDraft, reloads>>

NothingStaged == [s \in Sources |-> NoFile]
Idle == [kind |-> "idle"]
NoSubmission == [call |-> "none", upload |-> 0, pair |-> NoFile]
Confirming == submission.call # "none"

ImportInit ==
    /\ staged = NothingStaged /\ readers = {} /\ inflight = Idle /\ uploaded = NoFile
    /\ submission = NoSubmission /\ loading = NoFile
    /\ registry = <<>> /\ ingested = {} /\ autoDraft = TRUE /\ reloads = 0

-----------------------------------------------------------------------------
(* Staging *)

\* A file of another kind is refused with a message only.  The zones are disabled
\* during a confirmation, the button for the sample files is not.
StageFile(source, file) ==
    /\ Cardinality(readers) < MaxReaders
    /\ readers' = readers \cup {[source |-> source, file |-> file]}
    /\ UNCHANGED <<staged, inflight, uploaded, submission, loading, registry, ingested, autoDraft, reloads>>

\* Readers end in any order, whatever happened to the page's state meanwhile.
ReadEnds(reader) ==
    /\ readers' = readers \ {reader}
    /\ \/ staged' = [staged EXCEPT ![reader.source] = reader.file]
       \/ UNCHANGED staged      \* onerror
    /\ UNCHANGED <<inflight, uploaded, submission, loading, registry, ingested, autoDraft, reloads>>

RemoveStaged(source) ==
    /\ staged[source] # NoFile
    /\ staged' = [staged EXCEPT ![source] = NoFile]
    /\ UNCHANGED <<readers, inflight, uploaded, submission, loading, registry, ingested, autoDraft, reloads>>

\* Nothing in progress is stopped.
Reset ==
    /\ staged' = NothingStaged /\ inflight' = Idle /\ uploaded' = NoFile
    /\ UNCHANGED <<readers, submission, loading, registry, ingested, autoDraft, reloads>>

\* The page is mounted again: what is stored is read, and only then shown; the
\* requests of the old page are on their own.
ReloadPage ==
    /\ reloads < MaxReloads /\ reloads' = reloads + 1
    /\ loading' = [staged |-> staged, inflight |-> inflight, uploaded |-> uploaded]
    /\ staged' = NothingStaged /\ readers' = {} /\ inflight' = Idle /\ uploaded' = NoFile
    /\ submission' = NoSubmission
    /\ UNCHANGED <<registry, ingested, autoDraft>>

\* load: replaces whatever was done on the page before it ends.
LoadStored ==
    /\ loading # NoFile
    /\ staged' = loading.staged /\ inflight' = loading.inflight /\ uploaded' = loading.uploaded
    /\ loading' = NoFile
    /\ UNCHANGED <<readers, submission, registry, ingested, autoDraft, reloads>>

\* The timer of the success card, or the button of the error card.
HideCard ==
    /\ inflight.kind \in {"ready", "error"}
    /\ inflight' = Idle
    /\ UNCHANGED <<staged, readers, uploaded, submission, loading, registry, ingested, autoDraft, reloads>>

-----------------------------------------------------------------------------
(* handleConfirm *)

Validation(source) ==
    IF source = "LMS" THEN ValidateLMSCsv(TableOf[staged["LMS"]]) ELSE ValidateSISCsv(TableOf[staged["SIS"]])
HasValidationError == \E s \in Sources : staged[s] # NoFile /\ Validation(s).missingColumns # {}

CanConfirm == (\A s \in Sources : staged[s] # NoFile) /\ ~Confirming /\ ~HasValidationError

Pairs == {[LMS |-> lms, SIS |-> sis] : lms \in LmsFiles, sis \in SisFiles}

\* The page analyses the merged text, read again; the records are those of the files.
Merged == [pair \in Pairs |-> Parsed(MergeCsv(TextIn[pair.LMS], TextIn[pair.SIS]))]
Analysis == [pair \in Pairs |-> AnalyzeCsv(Merged[pair], HighAvg)]
LmsRecords == [file \in LmsFiles |-> CsvToLMSRecords(TableOf[file])]
SisRecords == [file \in SisFiles |-> CsvToSISRecords(TableOf[file])]
HasRecords(pair) == LmsRecords[pair.LMS] # <<>> \/ SisRecords[pair.SIS] # <<>>

\* updateUpload changes the fields it is given: after a success the status stays.
UpdateUpload(id, patch) ==
    [registry EXCEPT ![id] = [f \in DOMAIN @ |-> IF f \in DOMAIN patch THEN patch[f] ELSE @[f]]]
Failed == [status |-> "error"]

\* The zones are emptied at once, so that the next pair can be staged.
Confirm ==
    /\ CanConfirm /\ Len(registry) < MaxUploads
    /\ LET pair == staged
           id == Len(registry) + 1
           entry == [status |-> "processing", pair |-> pair, job |-> FALSE]
           usable == Analysis[pair].totalStudents > 0 /\ HasRecords(pair)
       IN  /\ registry' = Append(registry, IF usable THEN entry ELSE [entry EXCEPT !.status = "error"])
           /\ inflight' = IF usable THEN [kind |-> "processing", pair |-> pair] ELSE [kind |-> "error"]
           /\ submission' = IF usable THEN [call |-> "settings", upload |-> id, pair |-> pair]
                                      ELSE NoSubmission
           /\ uploaded' = pair
    /\ staged' = NothingStaged
    /\ UNCHANGED <<readers, loading, ingested, autoDraft, reloads>>

\* updateUserSettings({auto_draft_enabled: false}) is awaited first.
SettingsSaved ==
    /\ submission.call = "settings"
    /\ autoDraft' = FALSE
    /\ submission' = [submission EXCEPT !.call = "ingest"]
    /\ UNCHANGED <<staged, readers, inflight, uploaded, loading, registry, ingested, reloads>>

\* The server stores the records; its answer is still under way.
IngestServed ==
    /\ submission.call = "ingest"
    /\ ingested' = ingested \cup {submission.upload}
    /\ submission' = [submission EXCEPT !.call = "answer"]
    /\ UNCHANGED <<staged, readers, inflight, uploaded, loading, registry, autoDraft, reloads>>

\* Slip: the success is shown when the request is sent.
IngestAnsweredEarly ==
    /\ submission.call \in {"ingest", "answer"}
    /\ registry' = UpdateUpload(submission.upload, [job |-> TRUE])
    /\ inflight' = [kind |-> "ready", upload |-> submission.upload]
    /\ submission' = NoSubmission
    /\ UNCHANGED <<staged, readers, uploaded, loading, ingested, autoDraft, reloads>>

IngestAnswered ==
    /\ submission.call = "answer"
    /\ registry' = UpdateUpload(submission.upload, [job |-> TRUE])
    /\ inflight' = [kind |-> "ready", upload |-> submission.upload]
    /\ submission' = NoSubmission
    /\ UNCHANGED <<staged, readers, uploaded, loading, ingested, autoDraft, reloads>>

\* An error of either call, or 60 seconds without an answer: the server may
\* have stored the records all the same.
CallFails ==
    /\ Confirming
    /\ registry' = UpdateUpload(submission.upload, Failed)
    /\ inflight' = [kind |-> "error"]
    /\ submission' = NoSubmission
    /\ UNCHANGED <<staged, readers, uploaded, loading, ingested, autoDraft, reloads>>

-----------------------------------------------------------------------------
(* What is on the page *)

PREVIEW_LIMIT == 100
Dropzone(source) == [file |-> staged[source], disabled |-> Confirming]
HintLine == {s \in Sources : staged[s] = NoFile}

ValidationSummary(source) ==
    IF staged[source] = NoFile THEN [missing |-> {}, skipped |-> 0]
    ELSE [missing |-> Validation(source).missingColumns, skipped |-> Validation(source).skippedRows]

InflightCard ==
    CASE inflight.kind = "processing" -> [shown |-> TRUE, files |-> inflight.pair]
      [] inflight.kind = "ready" ->
            LET stats == Analysis[registry[inflight.upload].pair]
            IN  [shown |-> TRUE, totalStudents |-> stats.totalStudents, highRisk |-> stats.risk["high"]]
      [] inflight.kind = "error" -> [shown |-> TRUE, dismiss |-> TRUE]
      [] OTHER -> [shown |-> FALSE]

UploadedFileCard(rows) ==
    [count |-> Len(rows), preview |-> SubSeq(rows, 1, IF Len(rows) < PREVIEW_LIMIT THEN Len(rows) ELSE PREVIEW_LIMIT)]

RecordsOf(source, file) == IF source = "LMS" THEN LmsRecords[file] ELSE SisRecords[file]

\* A tab for each source, of the staged files or else of those confirmed last.
Preview(selected) ==
    LET here == {s \in Sources : staged[s] # NoFile}
        source == IF selected \in here THEN selected ELSE CHOOSE s \in here : TRUE
    IN  CASE here # {} -> <<UploadedFileCard(RecordsOf(source, staged[source]))>>
          [] here = {} /\ uploaded # NoFile -> <<UploadedFileCard(RecordsOf(selected, uploaded[selected]))>>
          [] OTHER -> <<>>

UploaderView(selected) ==
    [zones |-> [s \in Sources |-> Dropzone(s)], hint |-> HintLine,
     warnings |-> [s \in Sources |-> ValidationSummary(s)], canConfirm |-> CanConfirm,
     card |-> InflightCard, preview |-> Preview(selected)]

ImportNext ==
    \/ \E s \in Sources : (\E f \in FilesOf(s) : StageFile(s, f)) \/ RemoveStaged(s)
    \/ \E r \in readers : ReadEnds(r)
    \/ Reset \/ ReloadPage \/ LoadStored \/ HideCard
    \/ Confirm \/ SettingsSaved \/ IngestServed \/ IngestAnswered \/ CallFails

ImportSpec == ImportInit /\ [][ImportNext]_importVars

-----------------------------------------------------------------------------
(* Properties *)

ImportTypeOK ==
    /\ \A s \in Sources : staged[s] \in FilesOf(s) \cup {NoFile}
    /\ submission.call \in {"none", "settings", "ingest", "answer"}
    /\ inflight.kind \in {"idle", "processing", "ready", "error"}
    /\ ingested \subseteq 1 .. Len(registry)

\* What the page and the registry call a success was stored by the server,
\* whatever was reset, reloaded or staged meanwhile.
SuccessWasStored ==
    /\ inflight.kind = "ready" => inflight.upload \in ingested
    /\ \A id \in DOMAIN registry : registry[id].job => id \in ingested

\* The merge of the texts loses nothing, both files name the student's column
\* alike, and only the first has marks.
FittingPairs == {pair \in Pairs :
    LET lms == TableOf[pair.LMS].headers
        sis == TableOf[pair.SIS].headers
    IN  /\ Mergeable(TextIn[pair.LMS], TextIn[pair.SIS])
        /\ FindCol(lms, SidNames) = FindCol(sis, SidNames) /\ FindCol(sis, ScoreNames) = NoColumn}
StudentsIn(table) == {Cell(row, ColumnsOf(table.headers).sid) : row \in ToSet(table.rows)} \ {NoText}
CountedIn(table) == {s.id : s \in ToSet(StudentsOf(table))}
StudentsNamed == [pair \in Pairs |-> StudentsIn(TableOf[pair.LMS]) \cup StudentsIn(TableOf[pair.SIS])]
Skipped == [file \in LmsFiles |-> ValidateLMSCsv(TableOf[file]).skippedRows]

\* The page counts each student named in a row of either file, once, and a test
\* for each record of marks: every row but those it warned about.
CountedPairs == {pair \in Pairs :
    /\ CountedIn(Merged[pair]) = StudentsNamed[pair]
    /\ Analysis[pair].totalStudents = Cardinality(StudentsNamed[pair])
    /\ Analysis[pair].totalTests = Len(LmsRecords[pair.LMS])
    /\ Len(LmsRecords[pair.LMS]) = Len(TableOf[pair.LMS].rows) - Skipped[pair.LMS]}

\* The totals of the success card, which are those of the merged text, are those of
\* the records that were sent, which are read from each file: no student and no test
\* is lost or counted twice, for pairs that fit.
ShownIsSent ==
    \A id \in DOMAIN registry : registry[id].pair \in FittingPairs => registry[id].pair \in CountedPairs

\* What the merge of such texts is read as (MergeIsUnion).
MergesRead ==
    \A pair \in Pairs :
        Mergeable(TextIn[pair.LMS], TextIn[pair.SIS]) =>
            Merged[pair] = MergeTables(TableOf[pair.LMS], TableOf[pair.SIS], NoText)
===============================================================================
