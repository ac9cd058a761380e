-------------------------------- MODULE CsvText --------------------------------
(***************************************************************************)
(* Reading and merging CSV text in the browser (lib/csv.ts).  A text is a  *)
(* sequence of characters, of which only the quote, the comma and the two  *)
(* line breaks matter; of the blanks that the code trims at the ends of a  *)
(* text, a line or a field, the line breaks are modelled.                  *)
(* A table, as the parser returns it, has a sequence of headers and a      *)
(* sequence of rows, functions from headers to fields.                     *)
(***************************************************************************)
EXTENDS Integers, SequencesExt, Lists

Quote == "quote"
Comma == "comma"
LF == "lf"
CR == "cr"

-----------------------------------------------------------------------------
(* parseCsv: one character at a time, with a look at the next one *)

\* trim: no byte order mark, no line breaks at either end.
Trim(text) ==
    LET inner == {i \in 1 .. Len(text) : text[i] \notin {LF, CR}}
    IN  IF inner = {} THEN <<>>
        ELSE SubSeq(text, CHOOSE i \in inner : \A j \in inner : i <= j,
                          CHOOSE i \in inner : \A j \in inner : j <= i)

Blank == <<>>
Scanned == [lines |-> <<>>, row |-> <<>>, field |-> <<>>, quoted |-> FALSE, skip |-> FALSE]

Peek(text, i) == IF i < Len(text) THEN text[i + 1] ELSE "end"
Take(s, ch) == [s EXCEPT !.field = Append(@, ch)]
EndField(s) == [s EXCEPT !.row = Append(@, s.field), !.field = <<>>]

\* A line of one empty field is no line.
EndLine(s) ==
    LET row == Append(s.row, s.field)
    IN  [s EXCEPT !.lines = IF row = <<Blank>> THEN @ ELSE Append(@, row),
                  !.row = <<>>, !.field = <<>>]

\* Inside quotes, two quotes are one and everything else is text.
ScanQuoted(text, s, i) ==
    IF text[i] # Quote THEN Take(s, text[i])
    ELSE IF Peek(text, i) = Quote THEN [Take(s, Quote) EXCEPT !.skip = TRUE]
         ELSE [s EXCEPT !.quoted = FALSE]

ScanPlain(text, s, i) ==
    CASE text[i] = Quote    -> [s EXCEPT !.quoted = TRUE]
      [] text[i] = Comma    -> EndField(s)
      [] text[i] \in {LF, CR} ->
            [EndLine(s) EXCEPT !.skip = text[i] = CR /\ Peek(text, i) = LF]
      [] OTHER              -> Take(s, text[i])

Scan(text, s, i) ==
    IF s.skip THEN [s EXCEPT !.skip = FALSE]
    ELSE IF s.quoted THEN ScanQuoted(text, s, i) ELSE ScanPlain(text, s, i)

ScannedAll(text) ==
    LET scan(s, i) == Scan(text, s, i)
    IN  FoldLeft(scan, Scanned, [i \in 1 .. Len(text) |-> i])

LastLineEnded(s) == IF s.field # Blank \/ s.row # <<>> THEN EndLine(s).lines ELSE s.lines
Lines(text) == LastLineEnded(ScannedAll(text))

\* Of columns with one name the last one counts; missing cells are blank.
AsRow(headers, cells, blank) ==
    [h \in ToSet(headers) |->
        LET at == SelectLastInSeq(headers, LAMBDA x : x = h)
        IN  IF at <= Len(cells) THEN Trim(cells[at]) ELSE blank]

WithoutBlankRows(entries, blank) ==
    SelectSeq(entries, LAMBDA row : \E h \in DOMAIN row : row[h] # blank)

DataRows(headers, lines) ==
    [headers |-> headers,
     rows |-> WithoutBlankRows([i \in DOMAIN lines |-> AsRow(headers, lines[i], Blank)], Blank)]
TableIn(lines) ==
    IF lines = <<>> THEN [headers |-> <<>>, rows |-> <<>>]
    ELSE DataRows([k \in DOMAIN Head(lines) |-> Trim(Head(lines)[k])], Tail(lines))
ParseCsv(text) == TableIn(Lines(text))

-----------------------------------------------------------------------------
(* mergeCsv: two files under the union of their columns *)

JoinWith(parts, sep) ==
    FlattenSeq([i \in 1 .. Len(parts) |-> IF i = 1 THEN parts[i] ELSE <<sep>> \o parts[i]])

\* Slip: the quotes of a quoted field are not doubled.
RenderFieldRaw(f) ==
    IF Comma \in ToSet(f) \/ Quote \in ToSet(f) THEN <<Quote>> \o f \o <<Quote>> ELSE f

RenderField(f) ==
    IF Comma \in ToSet(f) \/ Quote \in ToSet(f)
    THEN <<Quote>> \o FlattenSeq([i \in 1 .. Len(f) |-> IF f[i] = Quote THEN <<Quote, Quote>> ELSE <<f[i]>>])
                   \o <<Quote>>
    ELSE f

RenderLine(fields) == JoinWith([i \in 1 .. Len(fields) |-> RenderField(fields[i])], Comma)

\* parseLine knows quotes and commas; a carriage return on its own is text to it.
ParseLine(line) ==
    LET plain(s, i) == ~s.skip /\ ~s.quoted /\ line[i] \in {LF, CR}
        scan(s, i) == IF plain(s, i) THEN Take(s, line[i]) ELSE Scan(line, s, i)
        end == FoldLeft(scan, Scanned, [i \in 1 .. Len(line) |-> i])
        fields == Append(end.row, end.field)
    IN  [k \in DOMAIN fields |-> Trim(fields[k])]

Break(text) == SelectInSeq(text, LAMBDA ch : ch = LF)   \* 0: there is none
HeaderLine(text) == Trim(SubSeq(text, 1, Break(text) - 1))
Body(text) == SubSeq(text, Break(text) + 1, Len(text))

\* The pieces of a text between separators, the blank ones left out.
Pieces(text, sep) ==
    LET slice(s, ch) == IF ch = sep THEN Append(s, <<>>) ELSE ReplaceAt(s, Len(s), Append(Last(s), ch))
    IN  SelectSeq(FoldLeft(slice, <<<<>>>>, text), LAMBDA piece : Trim(piece) # <<>>)

\* splitHeader: quotes are letters of a name, and a column without a name is left out.
ColumnsIn(line) == LET names == Pieces(line, Comma) IN [k \in DOMAIN names |-> Trim(names[k])]

\* The body is cut at every line break, also at one inside quotes.
BodyLines(body) ==
    LET kept == SelectSeq([i \in 1 .. Len(body) |-> i],
                          LAMBDA i : ~(body[i] = CR /\ Peek(body, i) = LF))
    IN  Pieces([k \in 1 .. Len(kept) |-> body[kept[k]]], LF)

UnionOf(a, b) == a \o Filtered(b, LAMBDA c : c \notin ToSet(a))

\* Rows that repeat the header are dropped, the others put in the union's order.
ParsedLines(pieces) == [i \in DOMAIN pieces |-> ParseLine(pieces[i])]
MapLines(lines, cols, union) ==
    LET kept == SelectSeq(lines, LAMBDA p : p # cols)
        inUnion(p) == [k \in 1 .. Len(union) |->
                        IF union[k] \in ToSet(cols) THEN AsRow(cols, p, Blank)[union[k]] ELSE Blank]
    IN  [i \in DOMAIN kept |-> RenderLine(inUnion(kept[i]))]
MapBody(body, cols, union) == MapLines(ParsedLines(BodyLines(body)), cols, union)

MergeCsv(first, second) ==
    LET a == Trim(first)
        b == Trim(second)
        aCols == ColumnsIn(HeaderLine(a))
        bCols == ColumnsIn(HeaderLine(b))
        union == UnionOf(aCols, bCols)
    IN  CASE a = <<>> -> b
          [] a # <<>> /\ b = <<>> -> a
          [] a # <<>> /\ b # <<>> /\ (Break(a) = 0 \/ Break(b) = 0) -> a \o <<LF>> \o b
          [] OTHER ->
                IF HeaderLine(a) = HeaderLine(b) THEN a \o <<LF>> \o Body(b)
                ELSE JoinWith(<<JoinWith(union, Comma)>> \o MapBody(Body(a), aCols, union)
                                                     \o MapBody(Body(b), bCols, union), LF)

-----------------------------------------------------------------------------
(* What a merge is, of tables *)

InColumns(row, cols, blank) == [c \in ToSet(cols) |-> IF c \in DOMAIN row THEN row[c] ELSE blank]

MergeTables(a, b, blank) ==
    LET cols == UnionOf(a.headers, b.headers)
        entries == a.rows \o b.rows
    IN  [headers |-> cols, rows |-> [i \in 1 .. Len(entries) |-> InColumns(entries[i], cols, blank)]]

\* Where the first line break ends the header, the last quote is closed ...
HeaderThenRows(text) ==
    /\ Break(text) # 0 /\ Lines(text)[1] = ParseLine(HeaderLine(text))
    /\ ~ScannedAll(text).quoted

\* ... and where each line is a row, the names of the columns are the header's
\* pieces, none of them blank, and no row repeats the header.
LineByLine(text) ==
    LET lines == Lines(text)
    IN  /\ lines[1] = ColumnsIn(HeaderLine(text)) /\ lines[1] \notin ToSet(Tail(lines))
        /\ Tail(lines) = ParsedLines(BodyLines(Body(text)))
        /\ \A line \in ToSet(lines), ch \in {LF, CR} : \A k \in DOMAIN line : ch \notin ToSet(line[k])

\* The texts whose merge loses nothing: rows in both, and one to a line unless the
\* headers are the same.
Mergeable(first, second) ==
    LET a == Trim(first)
        b == Trim(second)
    IN  /\ HeaderThenRows(a) /\ HeaderThenRows(b)
        /\ HeaderLine(a) = HeaderLine(b) \/ (LineByLine(a) /\ LineByLine(b))
===============================================================================
