------------------------------ MODULE MCTexts -------------------------------
(***************************************************************************)
(* A connection, what it owns, and the texts that are made for it and read *)
(* back: the answers of the prompts, lines of COPY, composite values,      *)
(* arrays, dates and the names of parameters.  None of these parts shares  *)
(* state with another; each is run by itself.                              *)
(***************************************************************************)
EXTENDS Connection, Parts, Encodings

CONSTANTS NoValue, NoText

(* The prompts.  A name, a code, a price and a tax with short fields and     *)
(* every kind of key; a price and a discount with the program's lengths.     *)
Field(max, as) == [max |-> max, as |-> as]
Control == {"ENTER", "ESC", "BACKSPACE", "UP", "DOWN"}

ShortFields == <<Field(2, "text"), Field(1, "stol"), Field(2, "stod"), Field(1, "char")>>
ShortOffers == {<< <<"x", ",", "x">>, <<"1", "2">>, <<"1", ".", "0">>, <<"x">> >>}
ShortKeys == Control \cup {"1", ".", ",", "x", "DC"}

PriceFields == <<Field(6, "stod"), Field(2, "int")>>
PriceOffers ==
    {<<"9", "9", "9", ".", "9", "9", "0", "0", "0", "0">>,
     <<"1", "2", "3", "4", ".", "5", "6", "0", "0", "0", "0">>,
     <<"0", ".", "0", "5", "0", "0", "0", "0">>}
    \X {<<"5">>, <<"1", "0">>, <<"1", "0", "0">>}
PriceKeys == Control \cup {"0", "."}

(* Texts in one encoding of each kind, with characters whose trail bytes are *)
(* a backslash (92), a quote's neighbours, digits or letters.                *)
Letter == <<97>>
Ascii == {<<Quote>>, <<Backslash>>, <<65>>}
MCGlyphs ==
    "UTF8"    :> Ascii \cup {<<195, 169>>} @@
    "UHC"     :> Ascii \cup {<<129, 65>>, <<176, 161>>} @@
    "BIG5"    :> Ascii \cup {<<164, 92>>, <<164, 64>>} @@
    "SJIS"    :> Ascii \cup {<<131, 92>>, <<177>>} @@
    "GB18030" :> Ascii \cup {<<129, 92>>, <<129, 48, 129, 48>>} @@
    "JOHAB"   :> Ascii

(* Values of string and other types, and nulls.                              *)
Typed(type, texts) == [type : {type}, null : {FALSE}, chars : texts]
NullOf(type) == [type |-> type, null |-> TRUE, chars |-> <<>>]
Number(n) == [type |-> "safe", null |-> FALSE, chars |-> [i \in 1 .. n |-> <<49>>]]
Numbers == {Number(1), Number(2), NullOf("safe")}

(* Composites: two fields with every text of up to two characters that mean  *)
(* something in one, and three short ones; long texts written into the end   *)
(* of the buffer; and values that are too wide, refused or not understood.   *)
Special == {Letter, <<Quote>>, <<Backslash>>, <<Comma>>, <<CloseParen>>}
Composites ==
    [1 .. 2 -> Typed("string", BoundedSeq(Special, 2)) \cup Typed("bytes", BoundedSeq(Special, 2))
               \cup Numbers]
    \cup [1 .. 3 -> Typed("string", BoundedSeq(Special, 1))
                    \cup Typed("bytes", BoundedSeq({Letter, <<Backslash>>}, 2)) \cup Numbers]
LongBytes == [1 .. 2 -> Typed("bytes", BoundedSeq({<<Quote>>, <<CloseParen>>}, 3))]
Troubled ==
    {<<Number(2), Number(2), Number(2), Number(2)>>}
    \cup [1 .. 1 -> Typed("bytes", BoundedSeq(Special, 2))]
    \cup [1 .. 2 -> Typed("bytes", BoundedSeq({Letter, <<Bracket>>}, 2))]

(* Arrays: every list of up to two texts of up to two characters that mean   *)
(* something in one, or of three of up to one; tables, ragged ones included; *)
(* and texts that no server wrote, of up to nine characters.                 *)
Meaning == {Letter, <<Quote>>, <<Backslash>>, <<Comma>>, <<OpenBrace>>, <<CloseBrace>>, <<131, 92>>}
Spelled == {<< <<78>>, <<85>>, <<76>>, <<76>> >>}
Lists ==
    {<<r>> : r \in BoundedSeq(Typed("string", BoundedSeq(Meaning, 2)), 2)
                   \cup BoundedSeq(Typed("string", BoundedSeq(Meaning, 1) \cup Spelled)
                                   \cup {NullOf("string")}, 3)
                   \cup BoundedSeq({Number(1), NullOf("safe")}, 3)}

NonemptyRows(S, n) == BoundedSeq(S, n) \ {<<>>}
Cells == Typed("string", {<<>>, <<Letter>>, << <<Quote>> >>, << <<CloseBrace>> >>, << <<131, 92>> >>})
         \cup {NullOf("string")}
Tables ==
    NonemptyRows(NonemptyRows(Cells, 2), 2)
    \cup NonemptyRows(NonemptyRows({Number(1), NullOf("safe")}, 3), 3)

WideNumbers == {<<r>> : r \in BoundedSeq(Numbers, 4)}

Garbled ==
    BoundedSeq({97, Comma, OpenBrace, CloseBrace}, 6)
    \cup {<<OpenBrace, OpenBrace>> \o t : t \in BoundedSeq({97, Comma, OpenBrace, CloseBrace}, 7)}
    \cup BoundedSeq({97, Quote, Backslash, CloseBrace}, 5)

(* Years at every change of sign, of the number of digits and of what one    *)
(* side or the other can hold, and the days at which months and leap years   *)
(* differ.                                                                   *)
Years == {-32767, -32766, -9999, -4713, -4712, -1000, -999, -100, -99, -10, -9, -8, -4, -1, 0,
          1, 4, 9, 10, 99, 100, 999, 1000, 1900, 2000, 2023, 2024, 9999, 10000, 32767}
Days == {<<1, 1>>, <<2, 28>>, <<2, 29>>, <<10, 31>>, <<12, 10>>}
AllDates == {[year |-> y, month |-> md[1], day |-> md[2]] : y \in Years, md \in Days}

Calendar == INSTANCE Dates WITH
    at <- v1, date <- v2, text <- v3, meant <- v4, reach <- v5,
    CppDate <- {}, ServerDate <- {}, Misprint <- {}
ValidDates == {d \in AllDates : Calendar!ok(d)}
ServerDates == {d \in AllDates : Calendar!ServerHas(Calendar!Server(d))}

Copy == INSTANCE CopyText WITH
    row <- v1, stage <- v2, fails <- v3, filled <- v4, m_buffer <- v5, line <- v6, reader <-
    v7, offset <- v8, m_row <- v9, begin <- v10, m_fields <- v11,
    Chars <- {"t", "N", "tab", "backslash"}, MaxLen <- 2, MaxFields <- 3, MaxFails <- 0,
    Null <- NoValue

Short == INSTANCE Prompt WITH
    offers <- v1, modify <- v2, at <- v3, phase <- v4, text <- v5, retrying <- v6, answers
    <- v7, selection <- v8, stored <- v9,
    Fields <- ShortFields, Offers <- ShortOffers, Keys <- ShortKeys, Units <- 3

Price == INSTANCE Prompt WITH
    offers <- v1, modify <- v2, at <- v3, phase <- v4, text <- v5, retrying <- v6, answers
    <- v7, selection <- v8, stored <- v9,
    Fields <- PriceFields, Offers <- PriceOffers, Keys <- PriceKeys, Units <- 3

Scan == INSTANCE GlyphScan WITH
    encoding <- v1, glyphs <- v2, buffer <- v3, here <- v4, hits <- v5, stage <- v6,
    Glyphs <- MCGlyphs, Needles <- {Quote, Backslash}, MaxGlyphs <- 4

Comp == INSTANCE Composite WITH
    value <- v1, stage <- v2, buf <- v3, pos <- v4, field <- v5, copied <- v6, text <- v7,
    parsed <- v8,
    Values <- Composites, Enc <- "ascii_safe", Extra <- 6, Width <- 2, Unset <- NoText, Null
    <- NoValue

CompBytes == INSTANCE Composite WITH
    value <- v1, stage <- v2, buf <- v3, pos <- v4, field <- v5, copied <- v6, text <- v7,
    parsed <- v8,
    Values <- LongBytes, Enc <- "ascii_safe", Extra <- 0, Width <- 2, Unset <- NoText, Null
    <- NoValue

CompTroubled == INSTANCE Composite WITH
    value <- v1, stage <- v2, buf <- v3, pos <- v4, field <- v5, copied <- v6, text <- v7,
    parsed <- v8,
    Values <- Troubled, Enc <- "ascii_safe", Extra <- 1, Width <- 2, Unset <- NoText, Null
    <- NoValue

List == INSTANCE SqlArray WITH
    value <- v1, stage <- v2, out <- v3, row <- v4, col <- v5, reader <- v6, text <- v7,
    here <- v8, dim <- v9, extents <- v10, know_extents_from <- v11, m_extents <- v12,
    m_elts <- v13, found <- v14,
    Dims <- 1, Values <- Lists \cup WideNumbers, Inputs <- {}, Enc <- "sjis", Width <- 2,
    Null <- NoValue

Table == INSTANCE SqlArray WITH
    value <- v1, stage <- v2, out <- v3, row <- v4, col <- v5, reader <- v6, text <- v7,
    here <- v8, dim <- v9, extents <- v10, know_extents_from <- v11, m_extents <- v12,
    m_elts <- v13, found <- v14,
    Dims <- 2, Values <- Tables, Inputs <- Garbled, Enc <- "sjis", Width <- 2, Null <-
    NoValue

Cal == INSTANCE Dates WITH
    at <- v1, date <- v2, text <- v3, meant <- v4, reach <- v5,
    CppDate <- ValidDates, ServerDate <- ServerDates, Misprint <- {}

Misread == INSTANCE Dates WITH
    at <- v1, date <- v2, text <- v3, meant <- v4, reach <- v5,
    CppDate <- {}, ServerDate <- ServerDates, Misprint <- {"", "-", "0", "1"}

Dollars == INSTANCE Placeholders WITH
    m_current <- v1, m_len <- v2, m_buf <- v3, thrown <- v4,
    Top <- 65535, digits10 <- 4, Signed <- FALSE

ASSUME TextsAssumption ==
    /\ ConnectionAssumption
    /\ Copy!CopyTextAssumption
    /\ Short!FieldsAssumption /\ Price!FieldsAssumption
    /\ Scan!GlyphScanAssumption
    /\ Comp!CompositeAssumption /\ CompBytes!CompositeAssumption /\ CompTroubled!CompositeAssumption
    /\ List!SqlArrayAssumption /\ Table!SqlArrayAssumption
    /\ Cal!DatesAssumption /\ Misread!DatesAssumption
    /\ Dollars!PlaceholdersAssumption

-----------------------------------------------------------------------------
runVars == <<vars, partVars>>

RunInit ==
    /\ Init
    /\ \/ part = "connection" /\ Unused(0)
       \/ part = "copy" /\ Copy!Init /\ Unused(11)
       \/ part = "short" /\ Short!Init /\ Unused(9)
       \/ part = "price" /\ Price!Init /\ Unused(9)
       \/ part = "scan" /\ Scan!Init /\ Unused(6)
       \/ part = "composite" /\ Comp!Init /\ Unused(8)
       \/ part = "composite_bytes" /\ CompBytes!Init /\ Unused(8)
       \/ part = "composite_troubled" /\ CompTroubled!Init /\ Unused(8)
       \/ part = "list" /\ List!Init /\ Unused(14)
       \/ part = "table" /\ Table!Init /\ Unused(14)
       \/ part = "dates" /\ Cal!Init /\ Unused(5)
       \/ part = "misprints" /\ Misread!Init /\ Unused(5)
       \/ part = "placeholders" /\ Dollars!Init /\ Unused(4)

RunNext ==
    \/ part = "connection" /\ Next /\ Keep(0)
    \/ part = "copy" /\ Copy!Next /\ Keep(11) /\ UNCHANGED vars
    \/ part = "short" /\ Short!Next /\ Keep(9) /\ UNCHANGED vars
    \/ part = "price" /\ Price!Next /\ Keep(9) /\ UNCHANGED vars
    \/ part = "scan" /\ Scan!Next /\ Keep(6) /\ UNCHANGED vars
    \/ part = "composite" /\ Comp!Next /\ Keep(8) /\ UNCHANGED vars
    \/ part = "composite_bytes" /\ CompBytes!Next /\ Keep(8) /\ UNCHANGED vars
    \/ part = "composite_troubled" /\ CompTroubled!Next /\ Keep(8) /\ UNCHANGED vars
    \/ part = "list" /\ List!Next /\ Keep(14) /\ UNCHANGED vars
    \/ part = "table" /\ Table!Next /\ Keep(14) /\ UNCHANGED vars
    \/ part = "dates" /\ Cal!Next /\ Keep(5) /\ UNCHANGED vars
    \/ part = "misprints" /\ Misread!Next /\ Keep(5) /\ UNCHANGED vars
    \/ part = "placeholders" /\ Dollars!Next /\ Keep(4) /\ UNCHANGED vars

RunSpec == RunInit /\ [][RunNext]_runVars

-----------------------------------------------------------------------------
(* Properties of the parts.                                                *)

\* The fields that stream_from and stream_query hand out are those of the row
\* that stream_to was given, nulls and texts that look like escapes included;
\* the parsers end with the line's last character, and stay inside a row buffer
\* that was sized by the line before its first field was parsed.
CopyRoundTrip == part = "copy" => Copy!RoundTrip /\ Copy!LineUsedUp /\ Copy!RowBufferSuffices

\* Whatever way an answer takes through the dialogue of add_modify_product,
\* what is kept of it is not empty, fits the column and has no comma; accepting
\* an offered number leaves it as it is when its significant characters fit.
AnswersKept ==
    /\ part = "short" => Short!AnswersFit
    /\ part = "price" => Price!UnchangedKept

\* A search for special characters finds those of the text and no trail byte
\* that looks like one; a text that ends in mid-character is an error wherever
\* the rest of the character could be taken for ASCII, and a whole one is none.
HitsAreGlyphs == part = "scan" => Scan!HitsAreGlyphs /\ Scan!CutCaught /\ Scan!WholeTextAccepted

\* In encodings without troublesome trail bytes, parse_composite() gets back
\* the value that composite_into_buf() was given; the server and libpqxx each
\* understand what the other renders of two or more fields without brackets;
\* byte strings are not written past the estimated size, and a field that is
\* escaped within the buffer never overwrites the part of itself that is still
\* to be read.
CompositesExact ==
    /\ part = "composite" => Comp!RoundTrip /\ Comp!Understood /\ Comp!ParsesAll
    /\ part = "composite_troubled" => CompTroubled!RoundTrip
    /\ part = "composite_bytes" => CompBytes!NoOverrun /\ CompBytes!SourceIntact

\* Every index that array::at() admits finds the element that the program put
\* there, and array_parser returns the structure and values of the container;
\* array_into_buf() stays inside the size that size_buffer() asks for, unless
\* its numbers are as wide as their type allows. Whatever the text, what
\* array::parse() accepts is the text of the array it returns, and its number
\* of elements is the product of its sizes.
ArraysExact ==
    /\ part = "list" =>
        /\ List!ParsesAll /\ List!IndexesFind /\ List!JuncturesFollow
        /\ v1 \in Lists => List!NoOverrun
    /\ part = "table" =>
        Table!IndexesFind /\ Table!JuncturesFollow /\ Table!AcceptsOnlyArrays /\ Table!SizesConsistent

\* A valid date that goes to the server and back stays the same day and is
\* refused by neither side, within the buffer it asked for; and what is
\* accepted as a date has the form that the server writes, although one of its
\* characters may have been lost or become a digit or a dash. A placeholder's
\* text is the dollar sign and the number of the parameter, with a zero behind
\* it, for as many parameters as the protocol has, if the counter is unsigned.
ValuesExact ==
    /\ part = "dates" => Cal!SameDay /\ Cal!NeitherRefuses /\ Cal!StaysInBuffer
    /\ part = "misprints" => Misread!OnlyDatesAccepted
    /\ part = "placeholders" => Dollars!NameExact /\ Dollars!Terminated /\ Dollars!AllSupported
=============================================================================
