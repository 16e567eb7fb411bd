---------------------------- MODULE CursorStream ----------------------------
(***************************************************************************)
(* pqxx::icursorstream, which reads an SQL cursor forward in blocks, and   *)
(* its icursor_iterators.  Iterators are linked into a list of the stream; *)
(* reading one reads the blocks of all those that come before it, because  *)
(* the cursor cannot go back.                                              *)
(*                                                                         *)
(* A result is the set of the rows in it.  Postfix ++ is a Copy, an        *)
(* Advance and, after its value was used, a Destroy.                       *)
(***************************************************************************)
EXTENDS Integers, FiniteSets, FiniteSetsExt, SequencesExt

CONSTANTS
    Iters, Null,
    Rows,           \* of the cursor's result set
    Strides,        \* for set_stride()
    MaxPos,         \* how far iterators are moved, the bound of the model
    ReadFirst       \* iterators may be made on a stream that is being read

CursorStreamAssumption ==
    /\ Null \notin Iters
    /\ Rows \in Nat /\ MaxPos \in Nat /\ Strides \subseteq Nat \ {0}
    /\ ReadFirst \in BOOLEAN

VARIABLES
    stream,     \* the icursorstream; srv is the position of its cursor
    it,         \* the iterators
    out         \* the last iterator that was read or compared with the end

vars == <<stream, it, out>>

NoIter == [live |-> FALSE, on |-> FALSE, pos |-> 0, here |-> {}, prev |-> Null, next |-> Null]
NoOut == [pos |-> 0, on |-> FALSE, here |-> {}]

Init ==
    /\ stream \in [srv : {0}, realpos : {0}, reqpos : {0}, done : {FALSE}, head : {Null},
                   stride : Strides]
    /\ it = [i \in Iters |-> NoIter]
    /\ out = NoOut

-----------------------------------------------------------------------------
(* Reading the cursor.  s stands for a state of the stream, r for the rows *)
(* that a call has returned.                                               *)

Passed(srv, n) == {row \in 1 .. Rows : srv < row /\ row <= srv + n}
Landed(srv, n) == IF Cardinality(Passed(srv, n)) < n THEN Rows + 1 ELSE srv + n

fetchblock(s) ==
    LET r == Passed(s.srv, s.stride)
    IN  [s |-> [s EXCEPT !.srv = Landed(@, s.stride), !.realpos = @ + Cardinality(r),
                         !.done = @ \/ r = {}],
         r |-> r]

ignore(s, n) ==
    LET offset == Cardinality(Passed(s.srv, n))
    IN  IF n = 0 THEN s
        ELSE [s EXCEPT !.srv = Landed(@, n), !.realpos = @ + offset, !.done = @ \/ offset < n]

forward(s, n) == [s EXCEPT !.reqpos = @ + n * s.stride]

-----------------------------------------------------------------------------
(* The list of iterators: l is its head and its nodes.                     *)

List == [head |-> stream.head, it |-> it]

insert_iterator(l, i) ==
    LET linked == [l.it EXCEPT ![i].next = l.head]
    IN  [head |-> i,
         it |-> IF l.head = Null THEN linked ELSE [linked EXCEPT ![l.head].prev = i]]

\* remove_iterator() that leaves the link back.
remove_iterator_OneWay(l, i) ==
    LET prev == l.it[i].prev
        next == l.it[i].next
        bare == [l.it EXCEPT ![i].prev = Null, ![i].next = Null]
    IN  IF i = l.head THEN [head |-> next, it |-> bare]
        ELSE [head |-> l.head, it |-> [bare EXCEPT ![prev].next = next]]

remove_iterator(l, i) ==
    LET prev == l.it[i].prev
        next == l.it[i].next
        bare == [l.it EXCEPT ![i].prev = Null, ![i].next = Null]
        back == IF next = Null THEN bare
                ELSE [bare EXCEPT ![next].prev = IF i = l.head THEN Null ELSE prev]
    IN  IF i = l.head THEN [head |-> next, it |-> back]
        ELSE [head |-> l.head, it |-> [back EXCEPT ![prev].next = next]]

\* The iterators that a walk from the head meets.
Listed ==
    LET walk[n \in 0 .. Cardinality(Iters)] ==
            IF n = 0 THEN {stream.head}
            ELSE walk[n - 1] \cup {it[i].next : i \in walk[n - 1] \ {Null}}
    IN  walk[Cardinality(Iters)] \ {Null}

\* One position of the to-do list: skip to it, read a block, give it to all
\* the iterators there.
Serve(st, pos) ==
    LET at    == IF pos > st.s.realpos THEN ignore(st.s, pos - st.s.realpos) ELSE st.s
        block == fetchblock(at)
    IN  [s |-> block.s,
         it |-> [i \in Iters |-> IF i \in st.todo /\ st.it[i].pos = pos
                                 THEN [st.it[i] EXCEPT !.here = block.r] ELSE st.it[i]],
         todo |-> st.todo]

\* service_iterators() that reads only for the iterator it was called for.
service_iterators_Alone(topos) ==
    LET todo == {i \in Listed : it[i].pos = topos /\ topos >= stream.realpos}
        st   == [s |-> stream, it |-> it, todo |-> todo]
    IN  IF todo = {} THEN st ELSE Serve(st, topos)

service_iterators(topos) ==
    LET todo == {i \in Listed : stream.realpos <= it[i].pos /\ it[i].pos <= topos}
        positions == SetToSortSeq({it[i].pos : i \in todo}, <)
    IN  FoldLeft(Serve, [s |-> stream, it |-> it, todo |-> todo], positions)

-----------------------------------------------------------------------------
(* The program's calls.                                                    *)

NoIterators == \A i \in Iters : ~it[i].live

Linked(l) == stream' = [stream EXCEPT !.head = l.head] /\ it' = l.it

\* get() and >>, ignore() and set_stride(), not between the life of the first
\* iterator and that of the last.
Get ==
    /\ NoIterators
    /\ stream' = fetchblock(stream).s
    /\ UNCHANGED <<it, out>>

Ignore(n) ==
    /\ NoIterators
    /\ stream' = ignore(stream, n)
    /\ UNCHANGED <<it, out>>

set_stride(n) ==
    /\ NoIterators
    /\ stream' = [stream EXCEPT !.stride = n]
    /\ out' = NoOut
    /\ UNCHANGED it

\* The first position that an iterator gets is the last one asked for.
Make(i) ==
    /\ ~it[i].live
    /\ ReadFirst \/ stream.realpos <= stream.reqpos
    /\ Linked(insert_iterator([List EXCEPT !.it[i] = [NoIter EXCEPT
                  !.live = TRUE, !.on = TRUE, !.pos = forward(stream, 0).reqpos]], i))
    /\ UNCHANGED out

MakeEnd(i) ==
    /\ ~it[i].live
    /\ it' = [it EXCEPT ![i] = [NoIter EXCEPT !.live = TRUE]]
    /\ UNCHANGED <<stream, out>>

Copy(i, j) ==
    LET copy == [List EXCEPT !.it[i] = [it[j] EXCEPT !.prev = Null, !.next = Null]]
    IN  /\ ~it[i].live /\ it[j].live
        /\ Linked(IF it[j].on THEN insert_iterator(copy, i) ELSE copy)
        /\ UNCHANGED out

Destroy(i) ==
    /\ it[i].live
    /\ LET l == IF it[i].on THEN remove_iterator(List, i) ELSE List
       IN  Linked([l EXCEPT !.it[i] = NoIter])
    /\ UNCHANGED out

\* ++ and += of one iterator move the position that the stream is asked for.
Advance(i, n) ==
    /\ it[i].on /\ stream.reqpos + n * stream.stride <= MaxPos
    /\ stream' = forward(stream, n)
    /\ it' = [it EXCEPT ![i].pos = stream'.reqpos, ![i].here = {}]
    /\ UNCHANGED out

Assign(i, j) ==
    LET gone == IF it[i].on /\ ~it[j].on THEN remove_iterator(List, i) ELSE List
        set  == [gone EXCEPT !.it[i].here = it[j].here, !.it[i].pos = it[j].pos,
                             !.it[i].on = it[j].on]
    IN  /\ it[i].live /\ it[j].live /\ i # j
        /\ Linked(IF it[j].on /\ ~it[i].on THEN insert_iterator(set, i) ELSE set)
        /\ UNCHANGED out

\* * and ->, and == and < with an iterator that has no stream.
Refresh(i) ==
    /\ it[i].live
    /\ LET st == service_iterators(it[i].pos)
       IN  /\ stream' = IF it[i].on THEN st.s ELSE stream
           /\ it' = IF it[i].on THEN st.it ELSE it
           /\ out' = [pos |-> it[i].pos, on |-> it[i].on, here |-> it'[i].here]

Next ==
    \/ Get
    \/ \E n \in 1 .. Rows : Ignore(n)
    \/ \E n \in Strides : set_stride(n)
    \/ \E i \in Iters : Make(i)
    \/ \E i \in Iters : MakeEnd(i)
    \/ \E i, j \in Iters : Copy(i, j)
    \/ \E i \in Iters : Destroy(i)
    \/ \E i \in Iters, n \in 1 .. 2 : Advance(i, n)
    \/ \E i, j \in Iters : Assign(i, j)
    \/ \E i \in Iters : Refresh(i)

Spec == Init /\ [][Next]_vars

-----------------------------------------------------------------------------
(* Properties.                                                             *)

\* An iterator that is read shows the block at its position, although other
\* iterators have read before it and the cursor only goes forward; it is equal
\* to the end iterator exactly when there are no rows left there.
ShowsBlock == out.on => out.here = Passed(out.pos, stream.stride)

\* The position that the stream counts is the cursor's, and a stream that is
\* false has nothing left.
RealposExact ==
    /\ stream.realpos = Min({stream.srv, Rows})
    /\ stream.done => stream.srv > Rows

\* The list holds the iterators on the stream, each linked both ways, so that
\* reading the stream touches no iterator that is gone and misses none.
ListExact ==
    /\ Listed = {i \in Iters : it[i].live /\ it[i].on}
    /\ \A i \in Listed :
          /\ it[i].next # Null => it[it[i].next].prev = i
          /\ it[i].prev = Null <=> i = stream.head
=============================================================================
