------------------------------ MODULE SqlArray ------------------------------
(***************************************************************************)
(* An SQL array of one or two dimensions.  A container, or a container of  *)
(* containers, is rendered into a buffer of the size that size_buffer()    *)
(* computes; the server stores it and gives it back; a pqxx::array or an   *)
(* array_parser parses the text.  A behaviour may also start with a text   *)
(* that a parser gets from elsewhere.                                      *)
(*                                                                         *)
(* A container of one dimension is the only row of value.  Elements are    *)
(* "string", or "safe": of a type that needs no quotes.                    *)
(***************************************************************************)
EXTENDS Quoting

CONSTANTS
    Dims,
    Values,         \* the containers
    Inputs,         \* the texts from elsewhere
    Enc,            \* the group of the client encoding
    Width,          \* the size_buffer() of a safe type
    Null

SqlArrayAssumption ==
    /\ Dims \in {1, 2} /\ Width \in Nat
    /\ \A v \in Values : Len(v) > 0

VARIABLES
    value,
    stage,          \* "write", "sent", "parse", "done"; "overrun", "refused",
                    \* "failure": an exception; "undefined": wrote past the end
    out,            \* what has been written into the buffer
    row, col,       \* what is written next
    reader,         \* "array" or "array_parser"
    text,           \* what is parsed
    here,
    dim, extents, know_extents_from,    \* of array::parse
    m_extents, m_elts,
    found           \* the junctures that get_next() has returned

wvars == <<out, row, col>>
pvars == <<here, dim, extents, know_extents_from, m_extents, m_elts, found>>
vars == <<value, stage, wvars, reader, text, pvars>>

NullText == <<78, 85, 76, 76>>
Sep == Comma
Bytes(e) == FlattenSeq(e.chars)
Sum(s) == FoldLeft(LAMBDA a, b : a + b, 0, s)

-----------------------------------------------------------------------------
(* nonbinary_range_traits.                                                 *)

\* The budget that forgets the escapes.
ElementBudget_NoEscapes(e) ==
    IF e.type = "safe" THEN IF e.null THEN 4 + 1 ELSE Width
    ELSE (IF e.null THEN 4 ELSE Len(Bytes(e))) + 3

ElementBudget(e) ==
    IF e.type = "safe" THEN IF e.null THEN 4 + 1 ELSE Width
    ELSE 2 * (IF e.null THEN 4 ELSE Len(Bytes(e))) + 3

RowBudget(elts) == 3 + Sum([i \in DOMAIN elts |-> ElementBudget(elts[i])])

size_buffer(v) ==
    IF Dims = 1 THEN RowBudget(v[1])
    ELSE 3 + Sum([i \in DOMAIN v |-> 2 * RowBudget(v[i]) + 3])

Size == size_buffer(value)

ParserInit ==
    /\ here = 0 /\ dim = -1 /\ know_extents_from = Dims
    /\ extents = [d \in 0 .. Dims - 1 |-> 0] /\ m_extents = extents
    /\ m_elts = <<>> /\ found = <<>>

Init ==
    /\ ParserInit
    /\ reader \in {"array", "array_parser"}
    /\ row = 1 /\ col = 0
    /\ \/ /\ value \in Values /\ stage = "write" /\ text = <<>>
          /\ out = IF Dims = 1 THEN <<>> ELSE <<OpenBrace>>
       \/ /\ value = <<>> /\ stage = "parse" /\ text \in Inputs
          /\ out = <<>>

-----------------------------------------------------------------------------
(* array_into_buf.                                                         *)

Escaped(bytes) ==
    LET find(i) == find_ascii_char(Enc, Specials, bytes, i)
        copy[i \in 0 .. Len(bytes)] ==
            SubSeq(bytes, i + 1, find(i))
            \o IF find(i) = Len(bytes) THEN <<>>
               ELSE <<Backslash, At(bytes, find(i))>> \o copy[find(i) + 1]
    IN  copy[0]

Rendered(e) ==
    IF e.null THEN NullText
    ELSE IF e.type = "safe" THEN Bytes(e)
    ELSE <<Quote>> \o Escaped(Bytes(e)) \o <<Quote>>

\* Quotes, escapes and separators are not checked.
After(bytes) == IF Len(bytes) > Size THEN "undefined" ELSE "write"

\* Nulls and safe elements are checked against the space that is left.
Fits(e) == (e.null \/ e.type = "safe") => Len(out) + Len(Rendered(e)) <= Size

Writing == stage = "write" /\ row <= Len(value)
AtElement == Writing /\ col \in DOMAIN value[row]

\* Without the last separator, and with the closing brace.
Closed(bytes, elts) == Append(IF elts = <<>> THEN bytes ELSE Front(bytes), CloseBrace)

OpenRow ==
    /\ Writing /\ col = 0
    /\ Size - Len(out) >= RowBudget(value[row])
    /\ out' = Append(out, OpenBrace)
    /\ col' = 1
    /\ UNCHANGED <<value, stage, row, reader, text, pvars>>

WriteElement ==
    /\ AtElement /\ Fits(value[row][col])
    /\ out' = out \o Rendered(value[row][col]) \o <<Sep>>
    /\ stage' = After(out')
    /\ col' = col + 1
    /\ UNCHANGED <<value, row, reader, text, pvars>>

WriteFails ==
    /\ \/ Writing /\ col = 0 /\ Size - Len(out) < RowBudget(value[row])
       \/ AtElement /\ ~Fits(value[row][col])
    /\ stage' = "overrun"
    /\ UNCHANGED <<value, wvars, reader, text, pvars>>

CloseRow ==
    /\ Writing /\ col = Len(value[row]) + 1
    /\ out' = Closed(out, value[row]) \o IF Dims = 1 THEN <<>> ELSE <<Sep>>
    /\ stage' = After(out')
    /\ row' = row + 1 /\ col' = 0
    /\ UNCHANGED <<value, reader, text, pvars>>

Send ==
    /\ stage = "write" /\ row > Len(value)
    /\ out' = IF Dims = 1 THEN out ELSE Closed(out, value)
    /\ stage' = "sent"
    /\ UNCHANGED <<value, row, col, reader, text, pvars>>

-----------------------------------------------------------------------------
(* The server.                                                             *)

Is(g, c) == g = <<c>>
NullChars == [i \in DOMAIN NullText |-> <<NullText[i]>>]

ServerStep(acc, g) ==
    LET mode(m)  == [acc EXCEPT !.mode = m]
        add(m)   == [acc EXCEPT !.mode = m, !.elt = Append(@, g)]
        ended(null, m) == [acc EXCEPT !.mode = m, !.elt = <<>>,
                                      !.row = Append(@, [null |-> null, chars |-> acc.elt])]
        plain    == ended(acc.elt = NullChars, "value")
        close(a) == IF a.depth = 0 THEN [a EXCEPT !.mode = "bad"]
                    ELSE [a EXCEPT !.mode = "after", !.depth = @ - 1,
                            !.rows = IF a.depth = Dims THEN Append(@, a.row) ELSE @]
    IN  CASE acc.mode = "quoted" -> IF Is(g, Quote) THEN ended(FALSE, "after")
                                    ELSE IF Is(g, Backslash) THEN mode("escape") ELSE add("quoted")
          [] acc.mode = "escape" -> add("quoted")
          [] acc.mode = "plain"  -> IF Is(g, Sep) THEN plain
                                    ELSE IF Is(g, CloseBrace) THEN close(plain) ELSE add("plain")
          [] acc.mode = "after"  -> IF Is(g, Sep) THEN mode("value")
                                    ELSE IF Is(g, CloseBrace) THEN close(acc) ELSE mode("bad")
          [] acc.mode = "value"  -> CASE Is(g, OpenBrace)  -> [acc EXCEPT !.depth = @ + 1, !.row = <<>>]
                                      [] Is(g, CloseBrace) -> close(acc)
                                      [] Is(g, Quote)      -> mode("quoted")
                                      [] OTHER             -> add("plain")
          [] OTHER -> mode("bad")

ServerReads(bytes) ==
    FoldLeft(ServerStep, [mode |-> "value", depth |-> 0, rows |-> <<>>, row |-> <<>>, elt |-> <<>>],
             Characters(Enc, bytes))

Rectangular(rows) == \A i, j \in DOMAIN rows : Len(rows[i]) = Len(rows[j])

Accepts(read) == read.mode = "after" /\ read.depth = 0 /\ Rectangular(read.rows)

NeedsQuotes(chars) ==
    \/ chars \in {<<>>, NullChars}
    \/ \E i \in DOMAIN chars : \E c \in Specials \cup {OpenBrace, CloseBrace, Sep} : Is(chars[i], c)

EscapeChar(g) == Backslash

\* A braced list.
Braced(items) ==
    Closed(<<OpenBrace>> \o FlattenSeq([i \in DOMAIN items |-> Append(items[i], Sep)]), items)

\* An array without elements has no dimensions.
ServerWrites(rows) ==
    LET elt(e) == IF e.null THEN NullText
                  ELSE IF NeedsQuotes(e.chars) THEN ServerQuotes(e.chars, EscapeChar)
                  ELSE FlattenSeq(e.chars)
        line(r) == Braced([i \in DOMAIN r |-> elt(r[i])])
    IN  IF \A i \in DOMAIN rows : rows[i] = <<>> THEN Braced(<<>>)
        ELSE IF Dims = 1 THEN line(rows[1])
        ELSE Braced([i \in DOMAIN rows |-> line(rows[i])])

Store ==
    /\ stage = "sent" /\ Accepts(ServerReads(out))
    /\ text' = ServerWrites(ServerReads(out).rows)
    /\ stage' = "parse"
    /\ UNCHANGED <<value, wvars, reader, pvars>>

Refuse ==
    /\ stage = "sent" /\ ~Accepts(ServerReads(out))
    /\ stage' = "refused"
    /\ UNCHANGED <<value, wvars, reader, text, pvars>>

-----------------------------------------------------------------------------
(* array::parse.                                                           *)

size == Len(text)

check_dims ==
    /\ size >= Dims * 2
    /\ \A i \in 0 .. Dims - 1 : At(text, i) = OpenBrace /\ At(text, size - 1 - i) = CloseBrace
    /\ At(text, Dims) # OpenBrace

\* The end of a field that must be followed by another.
parse_field_end_More(at) ==
    IF at >= size THEN at
    ELSE IF At(text, at) = Sep /\ at + 1 < size THEN at + 1 ELSE Throw

\* The end of a field that may be followed by a separator and nothing else.
parse_field_end_Trailing(at) ==
    IF at >= size \/ At(text, at) = CloseBrace THEN at
    ELSE IF At(text, at) = Sep /\ at + 1 < size THEN at + 1
    ELSE Throw

parse_field_end(at) ==
    IF at >= size \/ At(text, at) = CloseBrace THEN at
    ELSE IF /\ At(text, at) = Sep /\ at + 1 < size
            /\ At(text, at + 1) \notin {Sep, CloseBrace} THEN at + 1
    ELSE Throw

Parsing(class) == stage = "parse" /\ reader = class
ArrayAt == Parsing("array") /\ check_dims /\ here < size
Outer == dim = -1

MayOpen ==
    /\ ArrayAt /\ At(text, here) = OpenBrace
    /\ IF Outer THEN know_extents_from = Dims ELSE dim < Dims - 1

OpenDim ==
    /\ MayOpen
    /\ extents' = [d \in DOMAIN extents |->
                      CASE d = dim     -> extents[d] + 1
                        [] d = dim + 1 -> 0
                        [] OTHER       -> extents[d]]
    /\ dim' = dim + 1
    /\ here' = here + 1
    /\ UNCHANGED <<value, stage, wvars, reader, text, know_extents_from, m_extents, m_elts, found>>

\* Rows of any length.
MayClose_Ragged ==
    /\ ArrayAt /\ At(text, here) = CloseBrace
    /\ ~Outer
    /\ parse_field_end(here + 1) # Throw

MayClose ==
    /\ ArrayAt /\ At(text, here) = CloseBrace
    /\ ~Outer
    /\ dim >= know_extents_from => extents[dim] = m_extents[dim]
    /\ parse_field_end(here + 1) # Throw

\* The first row that ends in a dimension tells how long all of them are.
CloseDim ==
    /\ MayClose
    /\ IF dim < know_extents_from
       THEN m_extents' = [m_extents EXCEPT ![dim] = extents[dim]] /\ know_extents_from' = dim
       ELSE UNCHANGED <<m_extents, know_extents_from>>
    /\ dim' = dim - 1
    /\ here' = parse_field_end(here + 1)
    /\ UNCHANGED <<value, stage, wvars, reader, text, extents, m_elts, found>>

\* The end of the element at an offset, and what it says.
ElementEnd(at) ==
    IF At(text, at) = Quote THEN scan_double_quoted_string(Enc, text, at)
    ELSE scan_unquoted_string(Enc, {Sep, CloseBrace}, text, at)

ElementValue(at, end) ==
    IF At(text, at) = Quote THEN parse_double_quoted_string(Enc, SubSeq(text, 1, end), at)
    ELSE IF SubSeq(text, at + 1, end) = NullText THEN Null
    ELSE SubSeq(text, at + 1, end)

MayTake ==
    /\ ArrayAt /\ At(text, here) \notin {OpenBrace, CloseBrace}
    /\ dim = Dims - 1
    /\ At(text, here) \notin {0, Comma}
    /\ \E end \in {ElementEnd(here)} : end # Throw /\ parse_field_end(end) # Throw

TakeElement ==
    /\ MayTake
    /\ extents' = [extents EXCEPT ![dim] = @ + 1]
    /\ \E end \in {ElementEnd(here)} :
        /\ m_elts' = Append(m_elts, ElementValue(here, end))
        /\ here' = parse_field_end(end)
    /\ UNCHANGED <<value, stage, wvars, reader, text, dim, know_extents_from, m_extents, found>>

MayEnd == Parsing("array") /\ check_dims /\ here >= size /\ Outer

ParseEnds ==
    /\ MayEnd
    /\ stage' = "done"
    /\ UNCHANGED <<value, wvars, reader, text, pvars>>

ParseFails ==
    /\ Parsing("array")
    /\ ~MayOpen /\ ~MayClose /\ ~MayTake /\ ~MayEnd
    /\ stage' = "failure"
    /\ UNCHANGED <<value, wvars, reader, text, pvars>>

-----------------------------------------------------------------------------
(* array_parser::get_next.                                                 *)

\* (A null or a string stands for itself.)
row_start == <<-2>>
row_end == <<-3>>

\* Quoted strings with their quotes.
Juncture_Raw ==
    CASE At(text, here) = OpenBrace  -> [found |-> row_start, end |-> here + 1]
      [] At(text, here) = CloseBrace -> [found |-> row_end, end |-> here + 1]
      [] OTHER -> [found |-> SubSeq(text, here + 1, ElementEnd(here)), end |-> ElementEnd(here)]

Juncture ==
    LET element(end) == [found |-> IF end = Throw THEN Null ELSE ElementValue(here, end), end |-> end]
    IN  CASE At(text, here) = OpenBrace  -> [found |-> row_start, end |-> here + 1]
          [] At(text, here) = CloseBrace -> [found |-> row_end, end |-> here + 1]
          [] OTHER -> element(ElementEnd(here))

MayStep == Parsing("array_parser") /\ here < size /\ At(text, here) # 0 /\ Juncture.end # Throw

parse_array_step ==
    /\ MayStep
    /\ \E j \in {Juncture} :
        /\ found' = Append(found, j.found)
        /\ here' = IF j.end < size /\ At(text, j.end) = Comma THEN j.end + 1 ELSE j.end
    /\ UNCHANGED <<value, stage, wvars, reader, text, dim, extents, know_extents_from,
                   m_extents, m_elts>>

StepsDone ==
    /\ Parsing("array_parser") /\ here >= size
    /\ stage' = "done"
    /\ UNCHANGED <<value, wvars, reader, text, pvars>>

StepFails ==
    /\ Parsing("array_parser") /\ here < size /\ ~MayStep
    /\ stage' = "failure"
    /\ UNCHANGED <<value, wvars, reader, text, pvars>>

Next ==
    \/ OpenRow \/ WriteElement \/ WriteFails \/ CloseRow \/ Send
    \/ Store \/ Refuse
    \/ OpenDim \/ CloseDim \/ TakeElement \/ ParseEnds \/ ParseFails
    \/ parse_array_step \/ StepsDone \/ StepFails

Spec == Init /\ [][Next]_vars

-----------------------------------------------------------------------------
(* Access.                                                                 *)

Indexes == IF Dims = 1 THEN 0 .. m_extents[0] - 1
           ELSE (0 .. m_extents[0] - 1) \X (0 .. m_extents[1] - 1)

\* Column by column.
locate_Columns(index) == IF Dims = 1 THEN index ELSE index[2] * m_extents[0] + index[1]

\* init_factors() and add_index().
locate(index) == IF Dims = 1 THEN index ELSE index[1] * m_extents[1] + index[2]

-----------------------------------------------------------------------------
(* Properties.                                                             *)

\* array_into_buf() stays inside a buffer of the size that size_buffer() asks
\* for, separators that are taken back included, and no conversion in it runs
\* out of space.
NoOverrun == stage \notin {"overrun", "undefined"}

Original(index) ==
    LET e == IF Dims = 1 THEN value[1][index + 1] ELSE value[index[1] + 1][index[2] + 1]
    IN  IF e.null THEN Null ELSE Bytes(e)

\* Every index that array::at() admits finds, in the linear storage, the
\* element that the program put at that index of its container, also when the
\* text has quotes, escapes, nulls and multibyte characters in it.
IndexesFind ==
    stage = "done" /\ reader = "array" /\ value # <<>> =>
        /\ m_extents[0] = IF Dims = 1 THEN Len(value[1]) ELSE Len(value)
        /\ \A index \in Indexes : m_elts[locate(index) + 1] = Original(index)

\* The junctures that array_parser returns are the structure and the values of
\* the container.
JuncturesFollow ==
    LET elts(r) == [i \in DOMAIN r |-> IF r[i].null THEN Null ELSE Bytes(r[i])]
        line(r) == <<row_start>> \o elts(r) \o <<row_end>>
    IN  stage = "done" /\ reader = "array_parser" /\ value # <<>> =>
            found = IF Dims = 1 THEN line(value[1])
                    ELSE <<row_start>> \o FlattenSeq([i \in DOMAIN value |-> line(value[i])])
                         \o <<row_end>>

\* The parsers understand what the server renders.
ParsesAll == value # <<>> => stage # "failure"

\* The number of elements is the product of the sizes: "The sizes of a given
\* SQL array are consistent."  And the assertion at the end of parse() holds.
SizesConsistent ==
    stage = "done" /\ reader = "array" =>
        /\ know_extents_from = 0
        /\ Len(m_elts) = IF Dims = 1 THEN m_extents[0] ELSE m_extents[0] * m_extents[1]

\* A text that parse() accepts is the text of the array that it returns: no
\* misplaced brace or separator gets through.
AcceptsOnlyArrays ==
    LET line(first, n) == Braced([i \in 1 .. n |-> m_elts[first + i]])
    IN  stage = "done" /\ reader = "array" /\ value = <<>> =>
            text = IF Dims = 1 THEN line(0, m_extents[0])
                   ELSE Braced([k \in 1 .. m_extents[0] |-> line((k - 1) * m_extents[1], m_extents[1])])
=============================================================================
