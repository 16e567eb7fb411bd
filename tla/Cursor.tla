------------------------------- MODULE Cursor -------------------------------
(***************************************************************************)
(* pqxx::internal::sql_cursor, which mirrors the position of an SQL cursor *)
(* from the row counts the server reports, stateless_cursor, which turns   *)
(* ranges of rows into moves and fetches, and the ownership of the SQL     *)
(* cursor through transactions that end or fail.                           *)
(*                                                                         *)
(* Row numbers start at 1; position 0 is before the first row, rows + 1 is *)
(* after the last.  One cursor object at a time looks at the SQL cursor.   *)
(***************************************************************************)
EXTENDS Integers, Sequences, FiniteSets, FiniteSetsExt

CONSTANTS
    MaxRows,        \* of a result set, the bound of the model
    Strides,        \* of fetch() and move()
    OwnsHeld,       \* objects may own WITH HOLD cursors
    LooseUnheld,    \* loose cursors may be made without WITH HOLD
    BeginAtEnd      \* retrieve() may go backwards from the end of the set

CursorAssumption ==
    /\ MaxRows \in Nat /\ Strides \subseteq Int
    /\ {OwnsHeld, LooseUnheld, BeginAtEnd} \subseteq BOOLEAN

VARIABLES
    rows,   \* the size of the result set
    tx,     \* the transaction block: "open", "failed" or "none"
    srv,    \* the SQL cursor
    cur,    \* the cursor object
    out     \* the last retrieve(): its arguments and the rows it returned

vars == <<rows, tx, srv, cur, out>>

All == MaxRows + 2          \* cursor_base::all(), past any end
Unknown == -1
NoOut == [begin |-> 0, end |-> 0, got |-> <<>>]
NoServerCursor ==
    [state |-> "none", pos |-> 0, hold |-> FALSE, scroll |-> TRUE, old |-> FALSE, loose |-> FALSE]
NoCursor ==
    [kind |-> "none", live |-> FALSE, own |-> "loose", at_end |-> 0, pos |-> Unknown,
     endpos |-> Unknown, adopted |-> FALSE, start_hit |-> FALSE, bad |-> FALSE]

Init ==
    /\ rows \in 0 .. MaxRows
    /\ tx = "none"
    /\ srv = NoServerCursor
    /\ cur = NoCursor
    /\ out = NoOut

-----------------------------------------------------------------------------
(* The server's cursor.                                                    *)

\* The rows that FETCH n or MOVE n passes.
Passed(pos, n) ==
    LET k == IF n > 0 THEN Max({0, Min({n, rows - pos})}) ELSE Max({0, Min({-n, pos - 1})})
    IN  [i \in 1 .. k |-> IF n > 0 THEN pos + i ELSE pos - i]

\* A short move goes past the last row, or before the first.
Landed(pos, n) ==
    LET k == Len(Passed(pos, n))
    IN  CASE n > 0 /\ k < n  -> rows + 1
          [] n < 0 /\ k < -n -> 0
          [] OTHER -> pos + n

\* A command of an open cursor goes through.
Works(server, n) == tx # "failed" /\ server.state = "open" /\ (n < 0 => server.scroll)

-----------------------------------------------------------------------------
(* sql_cursor.  A call's state: the SQL cursor s, the object c, the rows   *)
(* of the last fetch, and whether it throws.                               *)

Call == [s |-> srv, c |-> cur, got |-> <<>>, threw |-> FALSE]

Sign(n) == IF n < 0 THEN -1 ELSE 1
Abs(n) == IF n < 0 THEN -n ELSE n

\* adjust() that counts an extra step whenever an end is hit.
adjust_AlwaysSteps(c, hoped, actual) ==
    LET direction == Sign(hoped)
        short == actual # Abs(hoped)
        real  == IF short THEN actual + 1 ELSE actual
        known == IF short /\ direction < 0 /\ c.pos = Unknown THEN real ELSE c.pos
        pos   == IF known = Unknown THEN Unknown ELSE known + direction * real
        wrong == \/ short /\ direction < 0 /\ known # real
                 \/ short /\ direction > 0 /\ c.endpos # Unknown /\ pos # c.endpos
    IN  [c EXCEPT !.at_end = IF short THEN direction ELSE 0,
                  !.bad = @ \/ wrong,
                  !.pos = IF wrong THEN @ ELSE pos,
                  !.endpos = IF short /\ direction > 0 /\ ~wrong THEN pos ELSE @]

\* The displacement behind a row count, and with it the position and the end
\* position; bad when it finds itself contradicted.
adjust(c, hoped, actual) ==
    LET direction == Sign(hoped)
        short == actual # Abs(hoped)
        real  == IF short /\ c.at_end # direction THEN actual + 1 ELSE actual
        known == IF short /\ direction < 0 /\ c.pos = Unknown THEN real ELSE c.pos
        pos   == IF known = Unknown THEN Unknown ELSE known + direction * real
        wrong == \/ short /\ direction < 0 /\ known # real
                 \/ short /\ direction > 0 /\ c.endpos # Unknown /\ pos # c.endpos
    IN  [c EXCEPT !.at_end = IF short THEN direction ELSE 0,
                  !.bad = @ \/ wrong,
                  !.pos = IF wrong THEN @ ELSE pos,
                  !.endpos = IF short /\ direction > 0 /\ ~wrong THEN pos ELSE @]

\* fetch() and move() differ in what becomes of the rows.
fetch(call, n) ==
    LET passed == Passed(call.s.pos, n)
        landed == Landed(call.s.pos, n)
        moved  == adjust(call.c, n, Len(passed))
    IN  CASE call.threw -> call
          [] ~call.threw /\ n = 0 -> [call EXCEPT !.got = <<>>]
          [] ~call.threw /\ n # 0 /\ ~Works(call.s, n) -> [call EXCEPT !.threw = TRUE]
          [] OTHER -> [call EXCEPT
                         !.s.pos = landed,
                         !.c = [moved EXCEPT !.start_hit = moved.start_hit \/ landed = 0],
                         !.got = passed]
move(call, n) == [fetch(call, n) EXCEPT !.got = call.got]

\* The call is over; an error from the server has failed the block.
Returns(call) ==
    /\ srv' = call.s /\ cur' = call.c
    /\ tx' = IF call.threw /\ tx = "open" THEN "failed" ELSE tx

-----------------------------------------------------------------------------
(* stateless_cursor.                                                       *)

\* retrieve() itself throws a range_error: nothing is sent.
OutOfRange(call, begin) == ~call.threw /\ begin > call.c.endpos - 1

obtain_stateless_cursor_size(call) ==
    IF call.c.endpos = Unknown THEN move(call, All) ELSE call

\* The move before the fetch stops on the first row it is to fetch.
stateless_cursor_retrieve_NoPreincrement(call, begin, end) ==
    LET stop == Max({-1, Min({end, call.c.endpos - 1})})
    IN  IF call.threw \/ OutOfRange(call, begin) \/ begin = stop
        THEN call
        ELSE fetch(move(call, begin - (call.c.pos - 1)), stop - begin)

stateless_cursor_retrieve(call, begin, end) ==
    LET stop == Max({-1, Min({end, call.c.endpos - 1})})
        direction == IF begin < stop THEN 1 ELSE -1
    IN  IF call.threw \/ OutOfRange(call, begin) \/ begin = stop
        THEN call
        ELSE fetch(move(call, (begin - direction) - (call.c.pos - 1)), stop - begin)

-----------------------------------------------------------------------------
(* The program's calls.                                                    *)

Policy(own, hold) == (own = "owned" /\ hold => OwnsHeld) /\ (own = "loose" /\ ~hold => LooseUnheld)

\* The constructors that declare a cursor; only stateless ones always scroll.
Declare(kind, own, hold, scroll) ==
    /\ tx = "open" /\ ~cur.live /\ srv.state # "open"
    /\ Policy(own, hold) /\ (kind = "stateless" => scroll)
    /\ srv' = [NoServerCursor EXCEPT !.state = "open", !.hold = hold, !.scroll = scroll,
                                     !.loose = own = "loose"]
    /\ cur' = [NoCursor EXCEPT !.kind = kind, !.live = TRUE, !.own = own, !.at_end = -1,
                               !.pos = 0, !.start_hit = TRUE]
    /\ UNCHANGED <<rows, tx, out>>

\* A cursor declared and moved in SQL.
DeclareInSQL(pos) ==
    /\ tx = "open" /\ ~cur.live /\ srv.state # "open" /\ pos <= rows + 1
    /\ srv' = [NoServerCursor EXCEPT !.state = "open", !.pos = pos]
    /\ cur' = NoCursor
    /\ UNCHANGED <<rows, tx, out>>

\* The constructors that adopt a cursor; a stateless_cursor goes to the start.
Adopt(kind, own) ==
    LET made == [Call EXCEPT !.c = [NoCursor EXCEPT !.kind = kind, !.live = TRUE, !.own = own,
                                                    !.adopted = TRUE]]
        done == IF kind = "stateless" THEN move(made, -All) ELSE made
    IN  /\ tx = "open" /\ ~cur.live /\ srv.state = "open"
        /\ own = "owned" /\ srv.hold => OwnsHeld
        /\ kind = "stateless" => srv.scroll
        /\ Returns(done)
        /\ UNCHANGED <<rows, out>>

FetchOrMove(n) ==
    /\ cur.live /\ cur.kind = "sql" /\ ~cur.bad
    /\ Returns(fetch(Call, n))
    /\ UNCHANGED <<rows, out>>

Retrieve(begin, end) ==
    LET sized == obtain_stateless_cursor_size(Call)
        call  == stateless_cursor_retrieve(sized, begin, end)
    IN  /\ cur.live /\ cur.kind = "stateless" /\ ~cur.bad
        /\ begin >= rows /\ end < begin => BeginAtEnd
        /\ Returns(call)
        /\ out' = IF call.threw \/ OutOfRange(sized, begin)
                  THEN NoOut ELSE [begin |-> begin, end |-> end, got |-> call.got]
        /\ UNCHANGED rows

\* CLOSE of an owned cursor.
Closed ==
    CASE cur.own = "loose" -> Call
      [] cur.own = "owned" /\ ~Works(srv, 0) -> [Call EXCEPT !.threw = TRUE]
      [] OTHER -> [Call EXCEPT !.s.state = "closed", !.c.own = "loose"]

close ==
    /\ cur.live
    /\ Returns(Closed)
    /\ UNCHANGED <<rows, out>>

\* A destructor that leaves the cursor alone.
Destroy_Only ==
    /\ cur.live
    /\ cur' = [cur EXCEPT !.live = FALSE]
    /\ UNCHANGED <<rows, tx, srv, out>>

\* The destructor swallows what close() throws.
Destroy ==
    /\ cur.live
    /\ Returns([Closed EXCEPT !.c.live = FALSE])
    /\ UNCHANGED <<rows, out>>

Begin ==
    /\ tx = "none"
    /\ tx' = "open"
    /\ UNCHANGED <<rows, srv, cur, out>>

\* Cursors go with their transaction, unless it is committed and they are
\* held.
End(commit) ==
    /\ tx # "none"
    /\ LET done == commit /\ tx = "open"
       IN  srv' = CASE srv.state # "open" \/ srv.old -> srv
                    [] srv.state = "open" /\ ~srv.old /\ done /\ srv.hold -> [srv EXCEPT !.old = TRUE]
                    [] OTHER -> [srv EXCEPT !.state = IF done THEN "committed" ELSE "rolled_back"]
    /\ tx' = "none"
    /\ UNCHANGED <<rows, cur, out>>

Next ==
    \/ \E kind \in {"sql", "stateless"}, own \in {"owned", "loose"}, hold, scroll \in BOOLEAN :
          Declare(kind, own, hold, scroll)
    \/ \E pos \in 0 .. MaxRows + 1 : DeclareInSQL(pos)
    \/ \E kind \in {"sql", "stateless"}, own \in {"owned", "loose"} : Adopt(kind, own)
    \/ \E n \in Strides \cup {All, -All} : FetchOrMove(n)
    \/ \E begin \in 0 .. MaxRows + 1, end \in -1 .. MaxRows + 1 : Retrieve(begin, end)
    \/ close
    \/ Destroy
    \/ Begin
    \/ \E commit \in BOOLEAN : End(commit)

Spec == Init /\ [][Next]_vars

-----------------------------------------------------------------------------
(* Properties.                                                             *)

\* What sql_cursor believes of its position and of the end is what the server
\* has, after any sequence of moves back and forth over either end, and
\* adjust() never throws its internal errors.
PositionExact ==
    /\ ~cur.bad
    /\ cur.live /\ cur.pos # Unknown => cur.pos = srv.pos
    /\ cur.live /\ cur.endpos # Unknown => cur.endpos = rows + 1

\* "Position may be unknown if (and only if) this cursor was adopted, and has
\* never hit its starting position."
UnknownOnlyAdopted ==
    cur.live => (cur.pos = Unknown <=> cur.adopted /\ ~cur.start_hit)

\* retrieve() returns the rows from begin_pos to end_pos, the latter excluded,
\* in that order, wherever the calls before it left the SQL cursor.
RetrieveExact ==
    LET wanted == {x \in 0 .. rows - 1 :
                      \/ out.begin <= x /\ x < out.end
                      \/ out.end < x /\ x <= out.begin}
    IN  /\ {out.got[i] - 1 : i \in DOMAIN out.got} = wanted
        /\ \A i, j \in DOMAIN out.got :
              i < j => IF out.begin < out.end THEN out.got[i] < out.got[j] ELSE out.got[i] > out.got[j]

\* When an object that owns its cursor is gone and no failed block is left,
\* the cursor is gone as well.
OwnedClosed == ~cur.live /\ cur.own = "owned" /\ tx # "failed" => srv.state # "open"

\* A loose cursor is not taken away by the object, "nor will its originating
\* transaction" take it.
LooseSurvives == srv.loose => srv.state # "committed"
=============================================================================
