------------------------------- MODULE Range --------------------------------
(***************************************************************************)
(* pqxx::range: a range is narrowed by intersections with others, and goes *)
(* to the server and back as text.  Of the text, its parts and their       *)
(* lengths matter.                                                         *)
(***************************************************************************)
EXTENDS Integers, Sequences

CONSTANTS
    Value,          \* the values that a bound may have
    Point,          \* a set of numbers with some between and around the values
    Length,         \* the length of the text of each value
    Width           \* the size_buffer() of a value

RangeAssumption ==
    /\ Value \subseteq Point /\ Point \subseteq Int /\ 0 \in Value
    /\ Width \in Nat /\ \A v \in Value : Length[v] \in 1 .. Width

VARIABLES
    r,
    said,           \* which points it should have
    stage,          \* "range", "text", "overrun"
    text            \* {} when there is none

vars == <<r, said, stage, text>>

-----------------------------------------------------------------------------
(* Bounds.                                                                 *)

no_bound == [kind |-> "none", value |-> 0]
Bound == [kind : {"inclusive", "exclusive"}, value : Value] \cup {no_bound}

is_limited(b) == b.kind # "none"
is_inclusive(b) == b.kind = "inclusive"
is_exclusive(b) == b.kind = "exclusive"

extends_down_to(b, v) ==
    CASE b.kind = "none"      -> TRUE
      [] b.kind = "inclusive" -> ~(v < b.value)
      [] b.kind = "exclusive" -> b.value < v

extends_up_to(b, v) ==
    CASE b.kind = "none"      -> TRUE
      [] b.kind = "inclusive" -> ~(b.value < v)
      [] b.kind = "exclusive" -> v < b.value

same_bound(a, b) ==
    IF is_limited(a)
    THEN is_limited(b) /\ is_inclusive(a) = is_inclusive(b) /\ a.value = b.value
    ELSE ~is_limited(b)

-----------------------------------------------------------------------------
(* Ranges.                                                                 *)

Inverted(lower, upper) == is_limited(lower) /\ is_limited(upper) /\ upper.value < lower.value

\* What the constructor does not refuse.
Ranges == {x \in [lower : Bound, upper : Bound] : ~Inverted(x.lower, x.upper)}

EmptyRange == LET zero == [kind |-> "exclusive", value |-> 0]
              IN  [lower |-> zero, upper |-> zero]

\* The test without a look at the kind of the bounds.
empty_Values(x) == is_limited(x.lower) /\ is_limited(x.upper) /\ ~(x.lower.value < x.upper.value)

empty(x) ==
    /\ is_exclusive(x.lower) \/ is_exclusive(x.upper)
    /\ is_limited(x.lower) /\ is_limited(x.upper)
    /\ ~(x.lower.value < x.upper.value)

contains_value(x, v) == extends_down_to(x.lower, v) /\ extends_up_to(x.upper, v)

\* Bounds only.
same_range_Bounds(a, b) == same_bound(a.lower, b.lower) /\ same_bound(a.upper, b.upper)

same_range(a, b) ==
    \/ same_bound(a.lower, b.lower) /\ same_bound(a.upper, b.upper)
    \/ empty(a) /\ empty(b)

\* The higher of two lower bounds.
HigherOf(this, other) ==
    IF ~is_limited(this) THEN other
    ELSE IF ~is_limited(other) THEN this
    ELSE IF this.value # other.value
         THEN IF this.value < other.value THEN other ELSE this
         ELSE IF is_exclusive(this) THEN this ELSE other

\* The lower of two upper bounds.
LowerOf(this, other) ==
    IF ~is_limited(this) THEN other
    ELSE IF ~is_limited(other) THEN this
    ELSE IF this.value # other.value
         THEN IF other.value < this.value THEN other ELSE this
         ELSE IF is_exclusive(this) THEN this ELSE other

intersection(a, b) ==
    LET lower == HigherOf(a.lower, b.lower)
        upper == LowerOf(a.upper, b.upper)
    IN  IF Inverted(lower, upper) THEN EmptyRange ELSE [lower |-> lower, upper |-> upper]

contains(a, b) == same_range(intersection(a, b), b)

-----------------------------------------------------------------------------
(* Text.                                                                   *)

\* The buffer that forgets a bracket.
size_buffer_Bare(x) ==
    LET size(b) == IF is_limited(b) THEN Width - 1 ELSE 0
    IN  IF empty(x) THEN 5 + 1 ELSE 1 + size(x.lower) + 1 + size(x.upper) + 1

size_buffer(x) ==
    LET size(b) == IF is_limited(b) THEN Width - 1 ELSE 0
    IN  IF empty(x) THEN 5 + 1 ELSE 1 + size(x.lower) + 1 + size(x.upper) + 2

\* What is left of the buffer before the upper bound, and before the bracket.
LengthOf(b) == IF is_limited(b) THEN Length[b.value] ELSE 0
BeforeUpper(x) == size_buffer(x) - 1 - LengthOf(x.lower) - 1
BeforeBracket(x) == BeforeUpper(x) - LengthOf(x.upper)

\* (A conversion of a bound asks for size_buffer() bytes, whatever its value.)
Fits(x) ==
    \/ empty(x)
    \/ /\ size_buffer(x) >= 4
       /\ is_limited(x.lower) => size_buffer(x) - 1 >= Width
       /\ is_limited(x.upper) => BeforeUpper(x) >= Width
       /\ BeforeBracket(x) >= 2

\* A bound that is missing leaves nothing beside the comma.
Rendered(x) ==
    LET part(b) == IF is_limited(b) THEN <<b.value>> ELSE <<>>
    IN  IF empty(x) THEN [open |-> "empty", fields |-> <<>>, closing |-> ""]
        ELSE [open    |-> IF is_inclusive(x.lower) THEN "[" ELSE "(",
              fields  |-> <<part(x.lower), part(x.upper)>>,
              closing |-> IF is_inclusive(x.upper) THEN "]" ELSE ")"]

\* Both bounds get the kind that the opening bracket says.
from_string_Opening(t) ==
    LET bound(field) ==
            IF field = <<>> THEN no_bound
            ELSE [kind |-> IF t.open = "[" THEN "inclusive" ELSE "exclusive", value |-> field[1]]
    IN  IF t.open = "empty" THEN EmptyRange
        ELSE [lower |-> bound(t.fields[1]), upper |-> bound(t.fields[2])]

from_string(t) ==
    LET bound(field, inclusive) ==
            IF field = <<>> THEN no_bound
            ELSE [kind |-> IF inclusive THEN "inclusive" ELSE "exclusive", value |-> field[1]]
    IN  IF t.open = "empty" THEN EmptyRange
        ELSE [lower |-> bound(t.fields[1], t.open = "["),
              upper |-> bound(t.fields[2], t.closing = "]")]

-----------------------------------------------------------------------------
Points(x) == {p \in Point : contains_value(x, p)}

Init ==
    /\ r \in Ranges
    /\ said = Points(r) /\ stage = "range" /\ text = {}

Intersect(other) ==
    /\ stage = "range"
    /\ r' = intersection(r, other)
    /\ said' = said \cap Points(other)
    /\ UNCHANGED <<stage, text>>

ToText ==
    /\ stage = "range" /\ Fits(r)
    /\ text' = Rendered(r)
    /\ stage' = "text"
    /\ UNCHANGED <<r, said>>

Overrun ==
    /\ stage = "range" /\ ~Fits(r)
    /\ stage' = "overrun"
    /\ UNCHANGED <<r, said, text>>

FromText ==
    /\ stage = "text"
    /\ r' = from_string(text)
    /\ stage' = "range"
    /\ text' = {}
    /\ UNCHANGED said

Next == (\E other \in Ranges : Intersect(other)) \/ ToText \/ Overrun \/ FromText

Spec == Init /\ [][Next]_vars

-----------------------------------------------------------------------------
(* Properties.                                                             *)

\* After any intersections and conversions to text and back, a range contains
\* the values that are in all the ranges that went into it, and no others.
PointsExact == Points(r) = said

\* empty() tells whether a range over a dense type has no values: one point
\* between inclusive bounds is a value, between others it is none.
EmptyExact == empty(r) <=> said = {}

\* contains() of a range, which compares an intersection with the other, tells
\* whether all its values are in this one: unlimited, equal and empty ranges
\* included.
ContainsExact == \A other \in Ranges : contains(r, other) <=> Points(other) \subseteq said

\* Every range can be converted to text.  "Estimate how much buffer space is
\* needed to represent value.  The estimate may be a little pessimistic"
Renders == stage # "overrun"
=============================================================================
