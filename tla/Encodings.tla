----------------------------- MODULE Encodings ------------------------------
(***************************************************************************)
(* How libpqxx finds its way through text in a client encoding.  A text is *)
(* a sequence of bytes; offsets into it count from 0, as in the code.  A   *)
(* function that throws has the value Throw.                               *)
(***************************************************************************)
EXTENDS Integers, Sequences, SequencesExt

Throw == -1

At(buffer, offset) == buffer[offset + 1]

\* ASCII.
Quote == 34
OpenParen == 40
CloseParen == 41
Comma == 44
Bracket == 93
Backslash == 92
OpenBrace == 123
CloseBrace == 125

between_inc(value, bottom, top) == value >= bottom /\ value <= top

-----------------------------------------------------------------------------
(* The group of an encoding.                                               *)

AsciiSafe ==
    {"EUC_CN", "EUC_JIS_2004", "EUC_JP", "EUC_KR", "EUC_TW",
     "ISO_8859_5", "ISO_8859_6", "ISO_8859_7", "ISO_8859_8", "KOI8R", "KOI8U",
     "LATIN1", "LATIN2", "LATIN3", "LATIN4", "LATIN5", "LATIN6", "LATIN7",
     "LATIN8", "LATIN9", "LATIN10", "MULE_INTERNAL", "SQL_ASCII", "UHC", "UTF8",
     "WIN866", "WIN874", "WIN1250", "WIN1251", "WIN1252", "WIN1253", "WIN1254",
     "WIN1255", "WIN1256", "WIN1257", "WIN1258"}

enc_group(name) ==
    CASE name = "BIG5"                         -> "two_tier"
      [] name \in {"GB18030", "GBK"}           -> "gb18030"
      [] name \in {"SJIS", "SHIFT_JIS_2004"}   -> "sjis"
      [] name \in AsciiSafe                    -> "ascii_safe"
      [] OTHER                                 -> "throws"

-----------------------------------------------------------------------------
(* Where the next character starts.                                        *)

Truncated(buffer, start, length) == start + length > Len(buffer)

\* A last byte that is taken for a character of its own.
two_tier_scanner_Clamped(buffer, start) ==
    IF At(buffer, start) < 128 \/ Truncated(buffer, start, 2) THEN start + 1 ELSE start + 2

two_tier_scanner(buffer, start) ==
    IF At(buffer, start) < 128 THEN start + 1
    ELSE IF Truncated(buffer, start, 2) THEN Throw ELSE start + 2

gb18030_scanner(buffer, start) ==
    IF At(buffer, start) < 128 THEN start + 1
    ELSE IF At(buffer, start) = 128 \/ Truncated(buffer, start, 2) THEN Throw
    ELSE IF between_inc(At(buffer, start + 1), 64, 254)
    THEN IF At(buffer, start + 1) = 127 THEN Throw ELSE start + 2
    ELSE IF Truncated(buffer, start, 4) THEN Throw
    ELSE IF /\ between_inc(At(buffer, start + 1), 48, 57)
            /\ between_inc(At(buffer, start + 2), 129, 254)
            /\ between_inc(At(buffer, start + 3), 48, 57)
    THEN start + 4 ELSE Throw

sjis_scanner(buffer, start) ==
    LET byte1 == At(buffer, start)
    IN  IF byte1 < 128 \/ between_inc(byte1, 161, 223) THEN start + 1
        ELSE IF \/ ~between_inc(byte1, 129, 159) /\ ~between_inc(byte1, 224, 252)
                \/ Truncated(buffer, start, 2)
        THEN Throw ELSE start + 2

glyph_scanner(enc, buffer, start) ==
    CASE enc = "ascii_safe" -> start + 1
      [] enc = "two_tier"   -> two_tier_scanner(buffer, start)
      [] enc = "gb18030"    -> gb18030_scanner(buffer, start)
      [] enc = "sjis"       -> sjis_scanner(buffer, start)

\* The search that looks at every byte of a character.
find_ascii_char_Bytes(enc, needle, haystack, here) ==
    LET find[i \in 0 .. Len(haystack)] ==
            IF i = Len(haystack) THEN i
            ELSE IF At(haystack, i) >= 128 /\ glyph_scanner(enc, haystack, i) = Throw THEN Throw
            ELSE IF At(haystack, i) \in needle THEN i
            ELSE find[i + 1]
    IN  find[here]

\* Where the first of the characters in needle is, or the end of haystack.
find_ascii_char(enc, needle, haystack, here) ==
    LET find[i \in 0 .. Len(haystack)] ==
            IF i = Len(haystack) THEN i
            ELSE LET next == glyph_scanner(enc, haystack, i)
                 IN  IF next = Throw THEN Throw
                     ELSE IF At(haystack, i) \in needle THEN i
                     ELSE find[next]
    IN  find[here]
=============================================================================
