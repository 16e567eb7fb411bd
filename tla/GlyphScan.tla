----------------------------- MODULE GlyphScan ------------------------------
(***************************************************************************)
(* A text in some encoding, possibly cut off in mid-character, is searched *)
(* for special characters from its start to its end, the way the parsers   *)
(* use find_ascii_char(): each search goes on behind the last hit.         *)
(***************************************************************************)
EXTENDS Encodings, FiniteSets

CONSTANTS
    Glyphs,         \* for each encoding, characters of it: sequences of bytes
    Needles,        \* the ASCII characters to look for
    MaxGlyphs

GlyphScanAssumption == MaxGlyphs \in Nat

VARIABLES encoding, glyphs, buffer, here, hits, stage

vars == <<encoding, glyphs, buffer, here, hits, stage>>

Init ==
    /\ encoding \in DOMAIN Glyphs
    /\ glyphs \in UNION {[1 .. n -> Glyphs[encoding]] : n \in 0 .. MaxGlyphs}
    /\ \E cut \in 0 .. Len(FlattenSeq(glyphs)) :
        buffer = SubSeq(FlattenSeq(glyphs), 1, cut)
    /\ here = 0 /\ hits = <<>> /\ stage = "search"

Find == find_ascii_char(enc_group(encoding), Needles, buffer, here)
Searches == stage = "search" /\ enc_group(encoding) # "throws"

\* get_char_finder(), connection::get_encoding_group().
Unsupported ==
    /\ stage = "search" /\ enc_group(encoding) = "throws"
    /\ stage' = "refused"
    /\ UNCHANGED <<encoding, glyphs, buffer, here, hits>>

Hit ==
    /\ Searches /\ Find # Throw /\ Find < Len(buffer)
    /\ hits' = Append(hits, Find)
    /\ here' = Find + 1
    /\ UNCHANGED <<encoding, glyphs, buffer, stage>>

EndOfText ==
    /\ Searches /\ Find = Len(buffer)
    /\ here' = Find /\ stage' = "end"
    /\ UNCHANGED <<encoding, glyphs, buffer, hits>>

BadText ==
    /\ Searches /\ Find = Throw
    /\ stage' = "thrown"
    /\ UNCHANGED <<encoding, glyphs, buffer, here, hits>>

Next == Unsupported \/ Hit \/ EndOfText \/ BadText

Spec == Init /\ [][Next]_vars

-----------------------------------------------------------------------------
(* Properties.                                                             *)

\* Where the k-th character starts.
Start(k) == Len(FlattenSeq(SubSeq(glyphs, 1, k - 1)))

\* The hits are the special characters of the text up to here, each of them
\* and nothing else: a trail byte of a multibyte character that looks like one
\* is never a hit, also where UHC goes through the byte-by-byte search.
HitsAreGlyphs ==
    {hits[i] : i \in DOMAIN hits} =
        {Start(k) : k \in {j \in DOMAIN glyphs :
            glyphs[j] \in {<<n>> : n \in Needles} /\ Start(j) < here}}

\* A text that ends in mid-character in an encoding whose trail bytes may look
\* like ASCII is an error: the search never reports that it came to its end,
\* where the caller would take the next byte for a character.
CutCaught ==
    stage = "end" /\ enc_group(encoding) # "ascii_safe" =>
        \E k \in 1 .. Len(glyphs) + 1 : Start(k) = Len(buffer)

\* A well-formed text is never refused.
WholeTextAccepted == stage = "thrown" => buffer # FlattenSeq(glyphs)

\* What the compile-time tests say of each encoding.
AssertedGroup ==
    enc_group(encoding) =
        CASE encoding \in {"BIG5", "UHC"}              -> "two_tier"
          [] encoding \in {"GB18030", "GBK"}           -> "gb18030"
          [] encoding \in {"SJIS", "SHIFT_JIS_2004"}   -> "sjis"
          [] OTHER                                     -> "ascii_safe"
=============================================================================
