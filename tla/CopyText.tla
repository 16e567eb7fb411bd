------------------------------ MODULE CopyText ------------------------------
(***************************************************************************)
(* The text format of COPY: stream_to puts a row into a line, the server   *)
(* reads it, later writes it out again, and stream_from or stream_query    *)
(* takes the line apart.  One row makes the whole trip in a behaviour.     *)
(*                                                                         *)
(* A field is null or a sequence of characters.  The readers unescape into *)
(* one buffer, m_row, and hand out views into it; offset and the positions *)
(* of the views count the characters before them.                          *)
(***************************************************************************)
EXTENDS Naturals, Sequences, FiniteSets, SequencesExt

CONSTANTS
    Chars,          \* of the texts in the rows
    MaxLen,         \* of a text
    MaxFields,      \* of a row
    MaxFails,       \* how often a field fails to convert, and the program goes on
    Null

CopyTextAssumption ==
    /\ MaxLen \in Nat
    /\ MaxFields \in Nat \ {0}
    /\ MaxFails \in Nat

VARIABLES
    row,            \* the row to be written
    stage,          \* "fill", "sent", "refused", "scan", "done", "failure"
    fails,
    filled,         \* how many of its fields are in the buffer
    m_buffer,
    line,           \* a line of COPY data without its newline
    reader,         \* the class that reads it
    offset,
    m_row,          \* what has been written into the row buffer
    begin,          \* where the current field starts in m_row; Null in a null
                    \* field of stream_from, between fields in stream_query
    m_fields        \* the views

vars == <<row, stage, fails, filled, m_buffer, line, reader, offset, m_row, begin, m_fields>>

Tab == "tab"
Backslash == "backslash"

Texts == UNION {[1 .. n -> Chars] : n \in 0 .. MaxLen}
Rows == UNION {[1 .. n -> Texts \cup {Null}] : n \in 1 .. MaxFields}

Init ==
    /\ row \in Rows
    /\ stage = "fill" /\ fails = 0 /\ filled = 0 /\ m_buffer = <<>> /\ line = <<>>
    /\ reader \in {"stream_from", "stream_query"}
    /\ offset = 0 /\ m_row = <<>> /\ m_fields = <<>>
    /\ begin = IF reader = "stream_from" THEN 0 ELSE Null

-----------------------------------------------------------------------------
(* Escaping.                                                               *)

escape_char ==
    [backspace |-> "b", formfeed |-> "f", newline |-> "n", return |-> "r",
     tab |-> "t", vtab |-> "v", backslash |-> Backslash]

unescape_char(c) ==
    IF \E s \in DOMAIN escape_char : escape_char[s] = c
    THEN CHOOSE s \in DOMAIN escape_char : escape_char[s] = c
    ELSE c

Escaped(data) ==
    FlattenSeq([i \in DOMAIN data |->
        IF data[i] \in DOMAIN escape_char
        THEN <<Backslash, escape_char[data[i]]>>
        ELSE <<data[i]>>])

NullField == <<Backslash, "N">>

-----------------------------------------------------------------------------
(* stream_to.                                                              *)

append_to_buffer(f) == (IF f = Null THEN NullField ELSE Escaped(f)) \o <<Tab>>

\* There is a tab after every field; the last one is one too many.
write_buffer(buffer) == IF buffer = <<>> THEN <<>> ELSE Front(buffer)

AppendField ==
    /\ stage = "fill" /\ filled < Len(row)
    /\ m_buffer' = m_buffer \o append_to_buffer(row[filled + 1])
    /\ filled' = filled + 1
    /\ UNCHANGED <<row, stage, fails, line, reader, offset, m_row, begin, m_fields>>

\* The conversion of the next field throws out of fill_buffer().  The program
\* leaves that row out and writes another.
ConversionFails ==
    /\ stage = "fill" /\ filled < Len(row) /\ fails < MaxFails
    /\ row' \in {r \in Rows : Len(r) = Len(row)}
    /\ filled' = 0 /\ fails' = fails + 1
    /\ UNCHANGED <<stage, m_buffer, line, reader, offset, m_row, begin, m_fields>>

WriteLine ==
    /\ stage = "fill" /\ filled = Len(row)
    /\ line' = write_buffer(m_buffer) /\ m_buffer' = <<>>
    /\ stage' = "sent"
    /\ UNCHANGED <<row, fails, filled, reader, offset, m_row, begin, m_fields>>

-----------------------------------------------------------------------------
(* The server.                                                             *)

\* The pieces of a line between its tabs.
Pieces(text) ==
    LET tabs == {i \in DOMAIN text : text[i] = Tab}
        cuts == <<0>> \o SelectSeq([i \in DOMAIN text |-> i], LAMBDA i : i \in tabs) \o <<Len(text) + 1>>
    IN  [k \in 1 .. Len(cuts) - 1 |-> SubSeq(text, cuts[k] + 1, cuts[k + 1] - 1)]

ServerUnescapes(piece) ==
    FoldLeft(LAMBDA acc, c :
                 IF acc.escape THEN [escape |-> FALSE, text |-> Append(acc.text, unescape_char(c))]
                 ELSE IF c = Backslash THEN [acc EXCEPT !.escape = TRUE]
                 ELSE [acc EXCEPT !.text = Append(@, c)],
             [escape |-> FALSE, text |-> <<>>], piece).text

ServerReads(text) ==
    LET pieces == Pieces(text)
    IN  [k \in DOMAIN pieces |->
            IF pieces[k] = NullField THEN Null ELSE ServerUnescapes(pieces[k])]

ServerWrites(fields) ==
    Front(FlattenSeq([k \in DOMAIN fields |->
        (IF fields[k] = Null THEN NullField ELSE Escaped(fields[k])) \o <<Tab>>]))

\* The server stores the row, and a query gives it back.
Store ==
    /\ stage = "sent" /\ Len(Pieces(line)) = Len(row)
    /\ line' = ServerWrites(ServerReads(line))
    /\ stage' = "scan"
    /\ UNCHANGED <<row, fails, filled, m_buffer, reader, offset, m_row, begin, m_fields>>

\* The line has too many fields for the table.
Refuse ==
    /\ stage = "sent" /\ Len(Pieces(line)) # Len(row)
    /\ stage' = "refused"
    /\ UNCHANGED <<row, fails, filled, m_buffer, line, reader, offset, m_row, begin, m_fields>>

-----------------------------------------------------------------------------
(* Reading: from the current offset to the next special character.         *)

Special(text, i) == i <= Len(text) /\ text[i] \in {Tab, Backslash}

\* m_char_finder: where the next tab or backslash is, or the end.
Stop(text) ==
    CHOOSE s \in offset .. Len(text) :
        /\ s = Len(text) \/ Special(text, s + 1)
        /\ \A i \in offset .. s - 1 : ~Special(text, i + 1)

\* Copying that takes the special character along.
Copied_TooFar(text) == m_row \o SubSeq(Append(text, Tab), offset + 1, Stop(text) + 1)

\* The row buffer with the unremarkable characters up to there.
Copied(text) == m_row \o SubSeq(text, offset + 1, Stop(text))

\* The view of a field that ends where the buffer ends.
View(buffer) == IF begin = Null THEN Null ELSE [at |-> begin, len |-> Len(buffer) - begin]

Scanning(class) == stage = "scan" /\ reader = class
UnchangedWriter == UNCHANGED <<row, fails, filled, m_buffer, line, reader>>

-----------------------------------------------------------------------------
(* stream_from::parse_line.                                                *)

FromTab ==
    /\ Scanning("stream_from") /\ offset < Len(line)
    /\ Stop(line) < Len(line) /\ line[Stop(line) + 1] = Tab
    /\ m_row' = Copied(line)
    /\ m_fields' = Append(m_fields, View(m_row'))
    /\ begin' = Len(m_row')
    /\ offset' = Stop(line) + 1
    /\ UNCHANGED stage /\ UnchangedWriter

\* parse_line() that does not mark the null.
FromEscape_NullIsText ==
    LET buffer == Copied(line)
        after  == Stop(line) + 2
    IN  /\ Scanning("stream_from") /\ offset < Len(line)
        /\ Stop(line) < Len(line) /\ line[Stop(line) + 1] = Backslash
        /\ m_row' = Append(buffer, unescape_char(line[after]))
        /\ offset' = after
        /\ UNCHANGED <<stage, begin, m_fields>> /\ UnchangedWriter

\* A null leaves an N in the row buffer.
FromEscape ==
    LET buffer == Copied(line)
        after  == Stop(line) + 2    \* the escaped character
        null   == after <= Len(line) /\ line[after] = "N"
    IN  /\ Scanning("stream_from") /\ offset < Len(line)
        /\ Stop(line) < Len(line) /\ line[Stop(line) + 1] = Backslash
        /\ IF after > Len(line) \/ (null /\ begin # Len(buffer))
           THEN stage' = "failure" /\ m_row' = buffer /\ UNCHANGED <<offset, begin>>
           ELSE /\ m_row' = Append(buffer, unescape_char(line[after]))
                /\ begin' = IF null THEN Null ELSE begin
                /\ offset' = after
                /\ UNCHANGED stage
        /\ UNCHANGED m_fields /\ UnchangedWriter

\* parse_line() that ends a field only inside its loop.
FromEnd_InLoop ==
    /\ Scanning("stream_from") /\ offset < Len(line)
    /\ Stop(line) = Len(line)
    /\ m_row' = Copied(line)
    /\ m_fields' = Append(m_fields, View(m_row'))
    /\ stage' = "done"
    /\ UNCHANGED <<offset, begin>> /\ UnchangedWriter

\* The end of the line ends the last field.
FromEnd ==
    /\ Scanning("stream_from")
    /\ Stop(line) = Len(line)
    /\ m_row' = Copied(line)
    /\ m_fields' = Append(m_fields, View(m_row'))
    /\ stage' = "done"
    /\ UNCHANGED <<offset, begin>> /\ UnchangedWriter

-----------------------------------------------------------------------------
(* stream_query::parse_line, which knows how many fields to expect and     *)
(* finds a tab where the newline was.                                      *)

At(i) == Append(line, Tab)[i + 1]
AtNull == offset < Len(line) /\ <<At(offset), At(offset + 1)>> = NullField
QueryLeft == Scanning("stream_query") /\ Len(m_fields) < Len(row)

\* read_field() that does not consume the separator after a null.
QueryNull_Short ==
    /\ QueryLeft /\ begin = Null /\ AtNull
    /\ m_fields' = Append(m_fields, Null)
    /\ offset' = offset + 2
    /\ UNCHANGED <<stage, m_row, begin>> /\ UnchangedWriter

QueryNull ==
    /\ QueryLeft /\ begin = Null /\ AtNull
    /\ m_fields' = Append(m_fields, Null)
    /\ offset' = offset + 3
    /\ UNCHANGED <<stage, m_row, begin>> /\ UnchangedWriter

QueryBegin ==
    /\ QueryLeft /\ begin = Null /\ ~AtNull
    /\ begin' = Len(m_row)
    /\ UNCHANGED <<stage, offset, m_row, m_fields>> /\ UnchangedWriter

\* One turn of the loop: to the separator, or past an escape sequence.
QueryScan ==
    /\ QueryLeft /\ begin # Null /\ At(offset) # Tab
    /\ IF At(Stop(line)) = Backslash
       THEN /\ m_row' = Append(Copied(line), unescape_char(At(Stop(line) + 1)))
            /\ offset' = Stop(line) + 2
       ELSE m_row' = Copied(line) /\ offset' = Stop(line)
    /\ UNCHANGED <<stage, begin, m_fields>> /\ UnchangedWriter

\* A terminating zero goes into the row buffer.
QueryEnd ==
    /\ QueryLeft /\ begin # Null /\ At(offset) = Tab
    /\ m_fields' = Append(m_fields, View(m_row))
    /\ m_row' = Append(m_row, "zero")
    /\ begin' = Null
    /\ offset' = offset + 1
    /\ UNCHANGED stage /\ UnchangedWriter

QueryDone ==
    /\ Scanning("stream_query") /\ Len(m_fields) = Len(row)
    /\ stage' = "done"
    /\ UNCHANGED <<offset, m_row, begin, m_fields>> /\ UnchangedWriter

Next ==
    \/ AppendField \/ ConversionFails \/ WriteLine \/ Store \/ Refuse
    \/ FromTab \/ FromEscape \/ FromEnd
    \/ QueryNull \/ QueryBegin \/ QueryScan \/ QueryEnd \/ QueryDone

Spec == Init /\ [][Next]_vars /\ WF_vars(Next)

-----------------------------------------------------------------------------
(* Properties.                                                             *)

Text(view) == IF view = Null THEN Null ELSE SubSeq(m_row, view.at + 1, view.at + view.len)

\* The fields that a reader hands out, looked up in its row buffer once the
\* whole line is parsed, are the fields of the row that stream_to was given:
\* nulls, empty texts and texts that look like escapes or nulls among them.
RoundTrip == stage = "done" => [k \in DOMAIN m_fields |-> Text(m_fields[k])] = row

\* The server reads in a line the row that the program wrote: "Each item
\* becomes a field in the row."
LineIsRow == stage = "sent" => ServerReads(line) = row

\* The readers write into a buffer that was sized by the line before the
\* first field was parsed: they never write past its end.
RowBufferSuffices == Len(m_row) <= IF reader = "stream_from" THEN Len(line) ELSE Len(line) + 1

\* A reader ends with the line's last character: read_field() meets its
\* assertions about offset, and stream_from refuses no line of the server.
LineUsedUp ==
    /\ stage # "failure"
    /\ reader = "stream_query" =>
        /\ offset <= Len(line) + 1
        /\ stage = "done" => offset = Len(line) + 1

Parsed == stage \in {"done", "refused"}

\* Every row gets through, unless the server refused it: no line of the server
\* makes a parser stop in the middle of it.
AlwaysParsed == <>Parsed
=============================================================================
