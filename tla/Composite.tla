----------------------------- MODULE Composite ------------------------------
(***************************************************************************)
(* A composite value is rendered into a buffer, goes to the server and     *)
(* comes back, and is parsed again.                                        *)
(*                                                                         *)
(* A field has one of three kinds of type:  string  is converted by a view *)
(* of the original, bytes (like all containers) by writing the text into   *)
(* the buffer it is given, and "safe" types, such as integers, need no     *)
(* quotes.  Every field is optional.  Its text is a sequence of            *)
(* characters, a character a sequence of bytes.                            *)
(***************************************************************************)
EXTENDS Quoting

CONSTANTS
    Values,         \* the values: nonempty sequences of fields
    Enc,            \* the group of the client encoding
    Extra,          \* the space in the buffer beyond the estimate
    Width,          \* the size_buffer() of a safe type
    Unset, Null

CompositeAssumption ==
    /\ Extra \in Nat /\ Width \in Nat
    /\ \A v \in Values : Len(v) > 0

VARIABLES
    value,
    stage,          \* "write", "copy", "sent", "parse", "done"; or
                    \* "overrun", "refused", "failure": an exception
    buf,
    pos,
    field,          \* the field that is written or parsed
    copied,         \* how many of its bytes are in their final place
    text,           \* what is sent and what comes back
    parsed

vars == <<value, stage, buf, pos, field, copied, text, parsed>>

Bytes(f) == IF f.null THEN <<>> ELSE FlattenSeq(f.chars)

-----------------------------------------------------------------------------
(* The size of the buffer.                                                 *)

size_buffer(f) ==
    IF f.null THEN 0
    ELSE CASE f.type = "string" -> Len(Bytes(f))
           [] f.type = "bytes"  -> Len(Bytes(f)) + 1
           [] f.type = "safe"   -> Width

\* An estimate that leaves no room for escapes.
size_composite_field_buffer_NoEscapes(f) ==
    IF f.type = "safe" THEN size_buffer(f) - 1 ELSE 1 + (size_buffer(f) - 1) + 1

\* (The sums are modulo 2^64 in the code.  They come out not negative.)
size_composite_field_buffer(f) ==
    IF f.type = "safe" THEN size_buffer(f) - 1 ELSE 1 + 2 * (size_buffer(f) - 1) + 1

composite_size_buffer(v) ==
    1 + FoldLeft(LAMBDA sum, f : sum + size_composite_field_buffer(f), 0, v) + Len(v) + 1

Size == composite_size_buffer(value) + Extra

Init ==
    /\ value \in Values
    /\ stage = "write" /\ pos = 1 /\ field = 1 /\ copied = 0
    /\ buf = [i \in 0 .. Size - 1 |-> IF i = 0 THEN OpenParen ELSE Unset]
    /\ text = <<>> /\ parsed = <<>>

-----------------------------------------------------------------------------
(* composite_into_buf.                                                     *)

\* The buffer with some bytes at an offset.  (A byte past its end is lost: see
\* NoOverrun.)
Put(b, at, bytes) ==
    [i \in DOMAIN b |-> IF i \in at .. at + Len(bytes) - 1 THEN bytes[i - at + 1] ELSE b[i]]

Writing == stage = "write" /\ field <= Len(value)
Current == value[field]

WriteSafe ==
    /\ Writing /\ Current.type = "safe"
    /\ pos + Len(Bytes(Current)) <= Size
    /\ buf' = Put(buf, pos, Append(Bytes(Current), Comma))
    /\ pos' = pos + Len(Bytes(Current)) + 1
    /\ field' = field + 1
    /\ UNCHANGED <<value, stage, copied, text, parsed>>

SafeOverrun ==
    /\ Writing /\ Current.type = "safe"
    /\ pos + Len(Bytes(Current)) > Size
    /\ stage' = "overrun"
    /\ UNCHANGED <<value, buf, pos, field, copied, text, parsed>>

\* The intermediate buffer in the middle.
TailAt_Middle == Size \div 2

\* The end of the buffer serves as the intermediate buffer.
TailAt == Size - size_buffer(Current)

\* The opening quote, and to_buf().
BeginField ==
    /\ Writing /\ Current.type # "safe"
    /\ buf' = LET quoted == Put(buf, pos, <<Quote>>)
              IN  IF Current.type = "bytes" THEN Put(quoted, TailAt, Bytes(Current)) ELSE quoted
    /\ pos' = pos + 1 /\ copied' = 0
    /\ stage' = "copy"
    /\ UNCHANGED <<value, field, text, parsed>>

\* The next byte of the conversion's result, wherever that is.
Source == IF Current.type = "bytes" THEN buf[TailAt + copied] ELSE Bytes(Current)[copied + 1]

\* Escaping that knows only about quotes.
Escape_QuotesOnly(x) == IF x = Quote THEN <<Backslash, x>> ELSE <<x>>

Escape(x) == IF x \in Specials THEN <<Backslash, x>> ELSE <<x>>

CopyByte ==
    /\ stage = "copy" /\ copied < Len(Bytes(Current))
    /\ buf' = Put(buf, pos, Escape(Source))
    /\ pos' = pos + Len(Escape(Source))
    /\ copied' = copied + 1
    /\ UNCHANGED <<value, stage, field, text, parsed>>

EndField ==
    /\ stage = "copy" /\ copied = Len(Bytes(Current))
    /\ buf' = Put(buf, pos, <<Quote, Comma>>)
    /\ pos' = pos + 2
    /\ field' = field + 1
    /\ stage' = "write"
    /\ UNCHANGED <<value, copied, text, parsed>>

\* The last comma goes, unless there is only one field.  The zero at the end
\* does not count.
Close ==
    LET last == IF Len(value) > 1 THEN pos - 1 ELSE pos
        final == Put(buf, last, <<CloseParen, 0>>)
    IN  /\ stage = "write" /\ field > Len(value)
        /\ buf' = final
        /\ pos' = last + 1
        /\ text' = [i \in 1 .. last + 1 |-> IF i - 1 \in DOMAIN final THEN final[i - 1] ELSE Unset]
        /\ stage' = "sent"
        /\ UNCHANGED <<value, field, copied, parsed>>

-----------------------------------------------------------------------------
(* The server.                                                             *)

Is(g, c) == g = <<c>>
NoField == [null |-> TRUE, chars |-> <<>>]

\* One character of a literal.  After a quote inside quotes the next character
\* tells whether it was the closing one.
ServerStep(acc, g) ==
    LET add(mode) == [acc EXCEPT !.mode = mode, !.field.null = FALSE,
                                 !.field.chars = Append(@, g)]
        turn(mode) == [acc EXCEPT !.mode = mode, !.field.null = FALSE]
        next(mode) == [acc EXCEPT !.mode = mode, !.fields = Append(@, acc.field), !.field = NoField]
    IN  CASE acc.mode = "start"  -> IF Is(g, OpenParen) THEN [acc EXCEPT !.mode = "plain"]
                                    ELSE [acc EXCEPT !.mode = "bad"]
          [] acc.mode = "escape" -> add("plain")
          [] acc.mode = "quoted escape" -> add("quoted")
          [] acc.mode = "quoted" -> IF Is(g, Quote) THEN turn("quote")
                                    ELSE IF Is(g, Backslash) THEN turn("quoted escape")
                                    ELSE add("quoted")
          [] acc.mode = "quote" /\ Is(g, Quote) -> add("quoted")
          [] acc.mode \in {"plain", "quote"} ->
                CASE Is(g, Comma)      -> next("plain")
                  [] Is(g, CloseParen) -> next("end")
                  [] Is(g, Quote)      -> turn("quoted")
                  [] Is(g, Backslash)  -> turn("escape")
                  [] OTHER             -> add("plain")
          [] OTHER -> [acc EXCEPT !.mode = "bad"]

ServerReads(bytes) ==
    FoldLeft(ServerStep, [mode |-> "start", field |-> NoField, fields |-> <<>>],
             Characters(Enc, bytes))

NeedsQuotes(chars) ==
    \/ chars = <<>>
    \/ \E i \in DOMAIN chars : \E c \in Specials \cup {OpenParen, CloseParen, Comma} : Is(chars[i], c)

Double(g) == Head(g)

ServerWrites(fields) ==
    LET out(f) == IF f.null THEN <<>>
                  ELSE IF NeedsQuotes(f.chars) THEN ServerQuotes(f.chars, Double)
                  ELSE FlattenSeq(f.chars)
    IN  <<OpenParen>>
        \o Front(FlattenSeq([k \in DOMAIN fields |-> Append(out(fields[k]), Comma)]))
        \o <<CloseParen>>

Accepts(read) == read.mode = "end" /\ Len(read.fields) = Len(value)

Store ==
    /\ stage = "sent" /\ Accepts(ServerReads(text))
    /\ text' = ServerWrites(ServerReads(text).fields)
    /\ pos' = 1 /\ field' = 1
    /\ stage' = "parse"
    /\ UNCHANGED <<value, buf, copied, parsed>>

Refuse ==
    /\ stage = "sent" /\ ~Accepts(ServerReads(text))
    /\ stage' = "refused"
    /\ UNCHANGED <<value, buf, pos, field, copied, text, parsed>>

-----------------------------------------------------------------------------
(* parse_composite.                                                        *)

FieldEnds == {Comma, CloseParen, Bracket}

\* The end of the field at pos, or Throw.
parse_composite_field_stop ==
    CASE At(text, pos) \in FieldEnds -> pos
      [] At(text, pos) = Quote       -> scan_double_quoted_string(Enc, text, pos)
      [] OTHER                       -> scan_unquoted_string(Enc, FieldEnds, text, pos)

parse_composite_field_value(stop) ==
    CASE stop = pos            -> Null
      [] At(text, pos) = Quote -> parse_double_quoted_string(Enc, SubSeq(text, 1, stop), pos)
      [] OTHER                 -> SubSeq(text, pos + 1, stop)

\* A check that takes the first closing parenthesis or bracket for the last.
EndsWell_First(stop) ==
    /\ stop # Throw /\ stop < Len(text)
    /\ IF field < Len(value) THEN At(text, stop) = Comma
       ELSE At(text, stop) \in {CloseParen, Bracket}

\* Is what comes after a field as it should be?
EndsWell(stop) ==
    /\ stop # Throw /\ stop < Len(text)
    /\ IF field < Len(value) THEN At(text, stop) = Comma
       ELSE At(text, stop) = CloseParen /\ stop + 1 = Len(text)

ParseField ==
    LET stop == parse_composite_field_stop
    IN  /\ stage = "parse" /\ EndsWell(stop)
        /\ parsed' = Append(parsed, parse_composite_field_value(stop))
        /\ pos' = stop + 1
        /\ field' = field + 1
        /\ stage' = IF field = Len(value) THEN "done" ELSE "parse"
        /\ UNCHANGED <<value, buf, copied, text>>

ParseFails ==
    /\ stage = "parse" /\ ~EndsWell(parse_composite_field_stop)
    /\ stage' = "failure"
    /\ UNCHANGED <<value, buf, pos, field, copied, text, parsed>>

Next ==
    \/ WriteSafe \/ SafeOverrun \/ BeginField \/ CopyByte \/ EndField \/ Close
    \/ Store \/ Refuse
    \/ ParseField \/ ParseFails

Spec == Init /\ [][Next]_vars

-----------------------------------------------------------------------------
(* Properties.                                                             *)

\* No byte is written past the end of the buffer, the zero included; and no
\* conversion runs out of space.  "Returns a conservative estimate."
NoOverrun ==
    /\ stage # "overrun"
    /\ stage \in {"write", "copy"} => pos <= Size
    /\ stage = "sent" => pos < Size

\* While a field is escaped from the end of the buffer to its place in it, the
\* part that has not been read is still what the conversion wrote.
SourceIntact ==
    stage = "copy" /\ Current.type = "bytes" =>
        \A i \in copied + 1 .. Len(Bytes(Current)) : buf[TailAt + i - 1] = Bytes(Current)[i]

\* What parse_composite() gets back is the value that composite_into_buf() was
\* given: nulls, empty strings, quotes, backslashes and separators included.
RoundTrip ==
    stage = "done" =>
        parsed = [k \in DOMAIN value |-> IF value[k].null THEN Null ELSE Bytes(value[k])]

\* The server understands what libpqxx renders.  "Render a series of values as
\* a single composite SQL value."
Understood == stage # "refused"

\* libpqxx understands what the server renders.  "The function is meant to
\* handle any value string that the backend can produce."
ParsesAll == stage # "failure"
=============================================================================
