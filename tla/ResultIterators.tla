-------------------------- MODULE ResultIterators --------------------------
(***************************************************************************)
(* Going through a result: the forward and reverse iterators over the rows *)
(* of a result and over the fields of a row (Over says which), and the     *)
(* loops iter() and for_each(), which hand the rows to the client one at a *)
(* time.                                                                   *)
(*                                                                         *)
(* An iterator is a position.  A reverse iterator inherits the forward one *)
(* and keeps the position of the element it shows, which for rend() is -1. *)
(* back is what the client counts: how far from rbegin() it has taken the  *)
(* reverse iterator.  Iterators stay within begin() .. end().              *)
(***************************************************************************)
EXTENDS Integers, Sequences

CONSTANTS
    MaxSize,  \* the longest result
    Over      \* "rows" or "fields"

ResultIteratorsAssumption ==
    /\ MaxSize \in Nat
    /\ Over \in {"rows", "fields"}

VARIABLES
    size,     \* elements
    it,       \* position of a forward iterator
    rit,      \* position kept by a reverse iterator
    back,     \* steps from rbegin() to the reverse iterator
    loop,     \* the loop over the rows: kind, number of the row shown
    source,   \* the result the client started the loop on is still there
    seen      \* what the loop gave the client

vars == <<size, it, rit, back, loop, source, seen>>

NoLoop == [kind |-> "none", index |-> 0, home |-> FALSE]

Init ==
    /\ size \in 0 .. MaxSize
    /\ it = 0
    /\ rit = size - 1
    /\ back = 0
    /\ loop = NoLoop
    /\ source = TRUE
    /\ seen = <<>>

-----------------------------------------------------------------------------
(* const_result_iterator and const_row_iterator.                           *)
begin == 0
end == size
Plus(i, n) == i + n
Minus(i, n) == i - n
Distance(i, j) == i - j
At(i, n) == Plus(i, n)

(* The reverse iterators, made from a forward one and turned back into it. *)
Reversed(i) == Minus(i, 1)
base(r) == Plus(r, 1)

rbegin == Reversed(end)
rend == Reversed(begin)

RPlus(r, n) == Reversed(Minus(base(r), n))
RMinus(r, n) == Reversed(Plus(base(r), n))
RDistance(r, q) == Distance(q, r)
RLess(r, q) == r > q

(* Over rows operator[] is inherited from the forward iterator; over       *)
(* fields it steps and looks.                                              *)
RAt(r, n) == IF Over = "rows" THEN At(r, n) ELSE RPlus(r, n)

(* ++, --, += and -= of the two kinds of iterator.                         *)
Forward(n) ==
    /\ Plus(it, n) \in begin .. end
    /\ it' = Plus(it, n)
    /\ UNCHANGED <<size, rit, back, loop, source, seen>>

RStepForward(r, n) == Plus(r, n)

RStep(r, n) == Minus(r, n)

Backward(n) ==
    /\ back + n \in 0 .. size
    /\ rit' = RStep(rit, n)
    /\ back' = back + n
    /\ UNCHANGED <<size, it, loop, source, seen>>

(* A reverse iterator made from where the forward one is, and back again.  *)
Turn ==
    /\ rit' = Reversed(it)
    /\ back' = end - it
    /\ UNCHANGED <<size, it, loop, source, seen>>

TurnBack ==
    /\ it' = base(rit)
    /\ UNCHANGED <<size, rit, back, loop, source, seen>>

-----------------------------------------------------------------------------
(* A row that the loop hands over.  A result that was cleared has none:    *)
(* the fields read as null.                                                *)
Null == -1

Shown(i, there) == IF there THEN i ELSE Null

(* iter() copies the result, for_each() goes through the client's own.     *)
SharesSource(kind) == kind = "for_each"

BeginIter(kind) ==
    /\ loop = NoLoop
    /\ seen = <<>>
    /\ source
    /\ loop' = [kind |-> kind, index |-> 0, home |-> size # 0]
    /\ seen' = IF size = 0 THEN seen ELSE <<Shown(0, TRUE)>>
    /\ UNCHANGED <<size, it, rit, back, source>>

(* The end of the loop is where the result ended when it began.            *)
PastOne(i) == i >= size - 1

Past(i) == i >= size

AdvanceNoEnd ==
    /\ loop.home
    /\ LET next == loop.index + 1 IN
        /\ ~Past(next)
        /\ loop' = [loop EXCEPT !.index = next]
        /\ seen' = Append(seen, Shown(next, source \/ ~SharesSource(loop.kind)))
    /\ UNCHANGED <<size, it, rit, back, source>>

Advance ==
    /\ loop.home
    /\ LET next == loop.index + 1 IN
        IF Past(next)
        THEN loop' = [loop EXCEPT !.index = next, !.home = FALSE] /\ seen' = seen
        ELSE /\ loop' = [loop EXCEPT !.index = next]
             /\ seen' = Append(seen, Shown(next, source \/ ~SharesSource(loop.kind)))
    /\ UNCHANGED <<size, it, rit, back, source>>

(* The client clears its result, or assigns to it, while it loops.         *)
ClearSource ==
    /\ loop.home
    /\ source
    /\ source' = FALSE
    /\ UNCHANGED <<size, it, rit, back, loop, seen>>

Next ==
    \/ \E n \in -MaxSize .. MaxSize : Forward(n)
    \/ \E n \in -MaxSize .. MaxSize : Backward(n)
    \/ Turn
    \/ TurnBack
    \/ \E kind \in {"iter", "for_each"} : BeginIter(kind)
    \/ Advance
    \/ ClearSource

Spec == Init /\ [][Next]_vars /\ WF_vars(Advance)

-----------------------------------------------------------------------------
Steps == -MaxSize .. MaxSize

(* Where the reverse iterator may go from here.                            *)
Ahead == {n \in Steps : back + n \in 0 .. size}

(* However the reverse iterator was moved, made or turned, it shows the    *)
(* element the client counted back to, and so does every iterator that is  *)
(* computed from it; base() is the element after it.                       *)
ReverseMirrors ==
    /\ base(rit) = size - back
    /\ \A n \in Ahead :
        /\ RPlus(rit, n) = size - 1 - (back + n)
        /\ RMinus(RPlus(rit, n), n) = rit

(* Distances and order between reverse iterators are those of the steps    *)
(* between them, and the whole range lies between rbegin() and rend().     *)
ReverseOrder ==
    /\ RDistance(rend, rbegin) = size
    /\ RDistance(rit, rbegin) = back
    /\ \A n \in Ahead : RLess(rit, RPlus(rit, n)) <=> n > 0

(* result.hxx:77-78: a result "provides random access const iterators":    *)
(* subscripting one is the same as stepping and looking.                   *)
SubscriptIsStep ==
    \A n \in Ahead : RAt(rit, n) = RPlus(rit, n)

(* A loop over iter() hands over every row once and in order, even when    *)
(* the client clears its result on the way; for_each() does when the       *)
(* result is left alone.                                                   *)
LoopExact ==
    (source \/ ~SharesSource(loop.kind)) =>
        /\ \A k \in 1 .. Len(seen) : seen[k] = k - 1
        /\ (loop.kind # "none" /\ ~loop.home) => Len(seen) = size

Looping == loop.home

(* A loop comes to its end.                                                *)
LoopEnds == Looping ~> ~Looping
=============================================================================
