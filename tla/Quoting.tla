------------------------------ MODULE Quoting -------------------------------
(***************************************************************************)
(* The strings inside the text of an array or a composite value: how       *)
(* libpqxx finds the end of one and takes off its quotes and escapes, and  *)
(* how the server reads and writes one.  The server works on the           *)
(* characters of a text, libpqxx on its bytes.                             *)
(***************************************************************************)
EXTENDS Encodings

Specials == {Quote, Backslash}

\* Where the quoted string that starts at pos ends.  A quote inside it is
\* doubled or has a backslash before it.
scan_double_quoted_string(enc, input, pos) ==
    LET size == Len(input)
        scan[from \in 0 .. size] ==
            LET escaped(p) == p + 1 < size /\ At(input, p + 1) \in Specials
                special(p) ==
                    IF p = Throw \/ p = size THEN Throw
                    ELSE IF At(input, p) = Quote
                    THEN IF p + 1 >= size \/ At(input, p + 1) # Quote THEN p + 1
                         ELSE IF p + 2 >= size THEN Throw ELSE scan[p + 2]
                    ELSE IF p + 1 >= size \/ (escaped(p) /\ p + 2 >= size) THEN Throw
                    ELSE scan[IF escaped(p) THEN p + 2 ELSE p + 1]
            IN  special(find_ascii_char(enc, Specials, input, from))
    IN  scan[pos + 1]

\* What it says.  The string ends where input ends.
parse_double_quoted_string(enc, input, pos) ==
    LET closing_quote == Len(input) - 1
        parse[p \in 0 .. closing_quote] ==
            IF p >= closing_quote THEN <<>>
            ELSE LET special(next) ==
                         SubSeq(input, p + 1, next)
                         \o IF next >= closing_quote THEN <<>>
                            ELSE IF At(input, next + 1) \in Specials
                            THEN <<At(input, next + 1)>> \o parse[next + 2]
                            ELSE parse[next + 1]
                 IN  special(find_ascii_char(enc, Specials, input, p))
    IN  parse[pos + 1]

scan_unquoted_string(enc, stop, input, pos) == find_ascii_char(enc, stop, input, pos)

-----------------------------------------------------------------------------
(* The server.                                                             *)

\* The characters of a text, as the conversion to the server's encoding finds
\* them.
Characters(enc, bytes) ==
    LET from[i \in 0 .. Len(bytes)] ==
            IF i = Len(bytes) THEN <<>>
            ELSE LET next == glyph_scanner(enc, bytes, i)
                 IN  IF next = Throw THEN <<"broken">>
                     ELSE <<SubSeq(bytes, i + 1, next)>> \o from[next]
    IN  from[0]

\* A quoted string, with escape(g) before each special character g.
ServerQuotes(chars, escape(_)) ==
    <<Quote>> \o FlattenSeq([i \in DOMAIN chars |->
        IF chars[i] \in {<<s>> : s \in Specials}
        THEN <<escape(chars[i])>> \o chars[i] ELSE chars[i]]) \o <<Quote>>
=============================================================================
