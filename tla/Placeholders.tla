---------------------------- MODULE Placeholders ----------------------------
(***************************************************************************)
(* pqxx::placeholders: the names $1, $2... of a statement's parameters,    *)
(* made in place in one buffer.  Most steps increment a digit of the text, *)
(* so whether the text is right depends on all the steps before.           *)
(***************************************************************************)
EXTENDS Integers, Sequences

CONSTANTS
    Top,            \* the greatest value of COUNTER
    digits10,       \* how many digits COUNTER holds whatever they are
    Signed

PlaceholdersAssumption ==
    /\ Signed \in BOOLEAN /\ digits10 \in Nat \ {0}
    /\ Top \in 10 ^ digits10 .. 10 ^ (digits10 + 1) - 1

VARIABLES
    m_current, m_len,
    m_buf,          \* bytes; what was never written is Dollar here
    thrown          \* "none", "range_error", "conversion_overrun"

vars == <<m_current, m_len, m_buf, thrown>>

-----------------------------------------------------------------------------
Dollar == 36
Zero == 48
Size == digits10 + 3

max_params == Top

Width(n) == CHOOSE w \in 1 .. digits10 + 1 : n < 10 ^ w /\ (w = 1 \/ n >= 10 ^ (w - 1))
Digits(n) == [i \in 1 .. Width(n) |-> Zero + ((n \div 10 ^ (Width(n) - i)) % 10)]

\* The buffer as it is when bytes are written from position at on.
Written(buf, at, bytes) ==
    [i \in DOMAIN buf |-> IF i \in at .. at + Len(bytes) - 1 THEN bytes[i - at + 1] ELSE buf[i]]

\* The size_buffer() of a type that may have a sign.
Needs_Signed == digits10 + 2

\* The size_buffer() of a COUNTER, and the part of the buffer that is offered:
\* all of it but the dollar sign and the last byte.
Needs == digits10 + 1 + (IF Signed THEN 1 ELSE 0)
Offered == Size - 2

Init ==
    /\ m_current = 1 /\ m_len = 2 /\ thrown = "none"
    /\ m_buf = Written([i \in 1 .. Size |-> Dollar], 1, <<Dollar, Zero + 1, 0>>)

\* Writes the number only where a digit is added.
Carries_Powers(n) == \E w \in 1 .. digits10 : n = 10 ^ w

Carries(n) == n % 10 = 0

\* Without the terminating zero.
Rewritten_Open(n) ==
    Written(Written(m_buf, 1 + Offered - Width(n) + 1, Digits(n)), 2, Digits(n))

\* The conversion puts the digits at the end of what it is offered, and moves them.
Rewritten(n) ==
    LET converted == Written(m_buf, 1 + Offered - Width(n) + 1, Digits(n))
        moved     == Written(converted, 2, Digits(n))
    IN  Written(moved, 2 + Width(n), <<0>>)

next ==
    /\ thrown = "none" /\ m_current < max_params
    /\ m_current' = m_current + 1
    /\ IF ~Carries(m_current')
       THEN m_buf' = [m_buf EXCEPT ![m_len] = @ + 1] /\ UNCHANGED <<m_len, thrown>>
       ELSE IF Offered < Needs
       THEN thrown' = "conversion_overrun" /\ UNCHANGED <<m_len, m_buf>>
       ELSE m_buf' = Rewritten(m_current') /\ m_len' = 1 + Width(m_current') /\ UNCHANGED thrown

TooMany ==
    /\ thrown = "none" /\ m_current >= max_params
    /\ thrown' = "range_error"
    /\ UNCHANGED <<m_current, m_len, m_buf>>

Thrown == thrown # "none" /\ UNCHANGED vars

Next == next \/ TooMany \/ Thrown

Spec == Init /\ [][Next]_vars

-----------------------------------------------------------------------------
(* Properties.                                                             *)

\* The text is the dollar sign and the number of the parameter, after any
\* number of increments and carries.
NameExact == thrown = "none" => SubSeq(m_buf, 1, m_len) = <<Dollar>> \o Digits(m_current)

\* view() is a zview: a zero follows the text, within the buffer, although
\* each conversion first writes its digits where the zero may have been.
Terminated == m_len < Size /\ m_buf[m_len + 1] = 0

\* There are names up to the greatest number.  "Maximum number of parameters
\* we support."
AllSupported == thrown # "none" => m_current = Top
=============================================================================
