----------------------------- MODULE CopyStream -----------------------------
(***************************************************************************)
(* stream_from, stream_query and stream_to in one transaction: the COPY    *)
(* that each of them keeps open on the connection, the focus that keeps    *)
(* other commands away from it, and the errors of the COPY, which the      *)
(* server reports only when it ends.                                       *)
(*                                                                         *)
(* Rows are numbers in the order of the table or of the program's writes.  *)
(* The text of the rows is in CopyText.                                    *)
(***************************************************************************)
EXTENDS Naturals, Sequences, SequencesExt

CONSTANTS
    Objects,        \* the stream objects of the program
    Rows,           \* how many rows a query gives
    MaxWrites,      \* how many rows the program writes
    MaxOpens,       \* how many streams it opens
    Careful,        \* no reader is destroyed before it has finished
    Kinds,          \* of the transaction: "work", "nontransaction"
    NoObject

CopyStreamAssumption ==
    /\ Rows \in Nat /\ MaxWrites \in Nat /\ MaxOpens \in Nat
    /\ Careful \in BOOLEAN
    /\ Kinds \subseteq {"work", "nontransaction"}
    /\ NoObject \notin Objects

VARIABLES
    streams,        \* the C++ objects
    focus,          \* transaction_base::m_focus
    tx,             \* kind, status and pending: is there an m_pending_error
    conn,           \* the connection: open, the COPY, whether the block failed
    written,        \* the rows that were written without an exception
    table,          \* what the server has of them
    opens,
    seen,           \* of the last reader: rows delivered or refused, and
                    \* whether it reported the end of the data
    told            \* an exception of a stream has reached the program

vars == <<streams, focus, tx, conn, written, table, opens, seen, told>>

Nothing == [class |-> "none", alive |-> FALSE, finished |-> TRUE, registered |-> FALSE]
New(class) == [class |-> class, alive |-> TRUE, finished |-> FALSE, registered |-> TRUE]
NotSeen == [rows |-> <<>>, ended |-> FALSE]
Idle == [mode |-> "none", left |-> <<>>, fails |-> FALSE]

Init ==
    /\ streams = [o \in Objects |-> Nothing]
    /\ focus = NoObject
    /\ tx \in [kind : Kinds, status : {"active"}, pending : {FALSE}]
    /\ conn = [open |-> TRUE, copy |-> Idle, failed |-> FALSE]
    /\ written = <<>> /\ table = <<>>
    /\ opens = 0
    /\ seen = NotSeen
    /\ told = FALSE

Active == tx.status = "active"
Live(o) == streams[o].alive
Is(o, class) == Live(o) /\ streams[o].class = class
Reader(o) == Is(o, "stream_from") \/ Is(o, "stream_query")

\* An error fails the block of a work transaction.
Failing(c) == [c EXCEPT !.copy = Idle, !.failed = tx.kind = "work"]

-----------------------------------------------------------------------------
(* Starting a stream: a command, so the focus must be free.  PQexec drops  *)
(* what is left of an abandoned COPY TO.                                   *)

MayExec == Active /\ focus = NoObject /\ conn.open

\* The COPY out of the server: it sends the rows, or fails on the way.
CopyOuts ==
    {[mode |-> "out", left |-> [i \in 1 .. n |-> i], fails |-> n < Rows] : n \in 0 .. Rows}
    \cup {[mode |-> "out", left |-> [i \in 1 .. Rows |-> i], fails |-> TRUE]}

Opens(o, class) ==
    /\ streams' = [streams EXCEPT ![o] = New(class)]
    /\ focus' = o
    /\ opens' = opens + 1
    /\ UNCHANGED <<tx, written, table, told>>

OpenFrom(o, class) ==
    /\ MayExec /\ ~conn.failed /\ ~Live(o) /\ opens < MaxOpens
    /\ conn' \in {[conn EXCEPT !.copy = c] : c \in CopyOuts}
    /\ seen' = NotSeen
    /\ Opens(o, class)

OpenTo(o) ==
    /\ MayExec /\ ~conn.failed /\ ~Live(o) /\ opens < MaxOpens
    /\ conn' = [conn EXCEPT !.copy = [Idle EXCEPT !.mode = "in"]]
    /\ seen' = seen
    /\ Opens(o, "stream_to")

\* The query has another number of columns: the constructor of stream_query
\* throws when the COPY is under way, before it registers.
WrongColumns ==
    /\ MayExec /\ ~conn.failed /\ opens < MaxOpens
    /\ conn' \in {[conn EXCEPT !.copy = c] : c \in CopyOuts}
    /\ opens' = opens + 1 /\ told' = TRUE
    /\ UNCHANGED <<streams, focus, tx, written, table, seen>>

\* Any constructor, and any command, while another stream is active, or after
\* an error in the block.
OpenRefused ==
    /\ Active /\ opens < MaxOpens
    /\ focus # NoObject \/ conn.failed
    /\ opens' = opens + 1 /\ told' = TRUE
    /\ conn' = IF focus = NoObject THEN [conn EXCEPT !.copy = Idle] ELSE conn
    /\ UNCHANGED <<streams, focus, tx, written, table, seen>>

-----------------------------------------------------------------------------
(* Reading.                                                                *)

\* close(): the stream lets go of the transaction, and leaves the COPY alone.
Closed(o) == [streams EXCEPT ![o].finished = TRUE, ![o].registered = FALSE]
FocusWithout(o) == IF streams[o].registered THEN NoObject ELSE focus

\* read_copy_line() that does not look at the result after the last line.
read_copy_line_Unchecked ==
    IF conn.open /\ conn.copy.left # <<>>
    THEN [line |-> <<Head(conn.copy.left)>>, ok |-> TRUE, conn |-> [conn EXCEPT !.copy.left = Tail(@)]]
    ELSE [line |-> <<>>, ok |-> TRUE, conn |-> [conn EXCEPT !.copy = Idle]]

\* The next line; none at the end of the data.  There the result of the COPY
\* is fetched, and an error in it thrown, as the loss of the connection is.
read_copy_line ==
    IF conn.open /\ conn.copy.left # <<>>
    THEN [line |-> <<Head(conn.copy.left)>>, ok |-> TRUE, conn |-> [conn EXCEPT !.copy.left = Tail(@)]]
    ELSE IF conn.open /\ conn.copy.mode = "out" /\ ~conn.copy.fails
    THEN [line |-> <<>>, ok |-> TRUE, conn |-> [conn EXCEPT !.copy = Idle]]
    ELSE [line |-> <<>>, ok |-> FALSE, conn |-> IF conn.open THEN Failing(conn) ELSE conn]

\* operator>>: the fields fit the program's tuple, in number and in type, or an
\* exception says that they do not.
Extracted == {told, TRUE}

\* get_raw_line() of a stream that is not finished, and the line made a row.
Read(o) ==
    LET r == read_copy_line
    IN  /\ Reader(o) /\ ~streams[o].finished
        /\ conn' = r.conn
        /\ IF r.line = <<>>
           THEN streams' = Closed(o) /\ focus' = FocusWithout(o)
           ELSE UNCHANGED <<streams, focus>>
        /\ seen' = [rows |-> seen.rows \o r.line, ended |-> r.line = <<>> /\ r.ok]
        /\ told' \in IF ~r.ok THEN {TRUE} ELSE IF r.line = <<>> THEN {told} ELSE Extracted
        /\ UNCHANGED <<tx, written, table, opens>>

\* stream_from::complete() drains the stream.  An error becomes the
\* transaction's pending error, unless it is a broken_connection: that one is
\* thrown.  Either may report a lost connection, or a failed COPY.
CompleteFrom(o) ==
    /\ Is(o, "stream_from") /\ ~streams[o].finished
    /\ streams' = Closed(o) /\ focus' = FocusWithout(o)
    /\ IF conn.open /\ conn.copy.mode = "out" /\ ~conn.copy.fails
       THEN conn' = [conn EXCEPT !.copy = Idle] /\ UNCHANGED <<tx, told>>
       ELSE /\ conn' = IF conn.open THEN Failing(conn) ELSE conn
            /\ \/ tx' = [tx EXCEPT !.pending = TRUE] /\ UNCHANGED told
               \/ told' = TRUE /\ UNCHANGED tx
    /\ UNCHANGED <<written, table, opens, seen>>

-----------------------------------------------------------------------------
(* Writing.                                                                *)

\* Nobody asks whether the stream has finished: the line goes into the COPY
\* that is under way.
Write(o) ==
    /\ Is(o, "stream_to") /\ Len(written) < MaxWrites
    /\ IF conn.open /\ conn.copy.mode = "in"
       THEN \E bad \in BOOLEAN :
            /\ conn' = [conn EXCEPT !.copy.fails = @ \/ bad,
                                    !.copy.left = Append(@, Len(written) + 1)]
            /\ written' = Append(written, Len(written) + 1)
            /\ UNCHANGED told
       ELSE told' = TRUE /\ UNCHANGED <<conn, written>>
    /\ UNCHANGED <<streams, focus, tx, table, opens, seen>>

\* operator<<: the lines of a stream_from of another connection, which may
\* fail on the way.
Transfer(o) ==
    /\ Is(o, "stream_to") /\ conn.open /\ conn.copy.mode = "in"
    /\ \E n \in 1 .. MaxWrites - Len(written), broken \in BOOLEAN :
        LET new == [i \in 1 .. n |-> Len(written) + i]
        IN  /\ written' = written \o new
            /\ conn' = [conn EXCEPT !.copy.left = @ \o new]
            /\ told' = (told \/ broken)
    /\ UNCHANGED <<streams, focus, tx, table, opens, seen>>

\* PQputCopyEnd, and the result: all rows are stored, or none.
end_copy_write ==
    IF conn.open /\ conn.copy.mode = "in"
    THEN [ok |-> ~conn.copy.fails, stored |-> IF conn.copy.fails THEN <<>> ELSE conn.copy.left,
          conn |-> IF conn.copy.fails THEN Failing(conn) ELSE [conn EXCEPT !.copy = Idle]]
    ELSE [ok |-> FALSE, stored |-> <<>>, conn |-> conn]

CompleteTo(o) ==
    /\ Is(o, "stream_to") /\ ~streams[o].finished
    /\ streams' = Closed(o) /\ focus' = FocusWithout(o)
    /\ conn' = end_copy_write.conn
    /\ table' = table \o end_copy_write.stored
    /\ told' = (told \/ ~end_copy_write.ok)
    /\ UNCHANGED <<tx, written, opens, seen>>

\* The move constructor that leaves the source unfinished.
Move_Shares(o, p) ==
    /\ Is(o, "stream_to") /\ ~Live(p)
    /\ streams' = [streams EXCEPT ![p] = streams[o], ![o].registered = FALSE]
    /\ focus' = IF streams[o].registered THEN p ELSE focus
    /\ UNCHANGED <<tx, conn, written, table, opens, seen, told>>

\* The move constructor: registration and COPY go to the new object.
Move(o, p) ==
    /\ Is(o, "stream_to") /\ ~Live(p)
    /\ streams' = [streams EXCEPT ![p] = streams[o],
                                  ![o].registered = FALSE, ![o].finished = TRUE]
    /\ focus' = IF streams[o].registered THEN p ELSE focus
    /\ UNCHANGED <<tx, conn, written, table, opens, seen, told>>

-----------------------------------------------------------------------------
(* The destructors.                                                        *)

DestroyFrom(o) ==
    /\ Reader(o) /\ (Careful => streams[o].finished)
    /\ streams' = [streams EXCEPT ![o] = Nothing]
    /\ focus' = FocusWithout(o)
    /\ UNCHANGED <<tx, conn, written, table, opens, seen, told>>

\* A destructor that closes as those of the readers do.
DestroyTo_Closes(o) ==
    /\ Is(o, "stream_to")
    /\ streams' = [streams EXCEPT ![o] = Nothing]
    /\ focus' = FocusWithout(o)
    /\ UNCHANGED <<tx, conn, written, table, opens, seen, told>>

\* A destructor that drops the exception of complete().
DestroyTo_Silent(o) ==
    /\ Is(o, "stream_to")
    /\ streams' = [streams EXCEPT ![o] = Nothing]
    /\ focus' = FocusWithout(o)
    /\ IF streams[o].finished
       THEN UNCHANGED <<conn, table>>
       ELSE conn' = end_copy_write.conn /\ table' = table \o end_copy_write.stored
    /\ UNCHANGED <<tx, written, opens, seen, told>>

\* A destructor cannot throw: the error of complete() becomes pending.
DestroyTo(o) ==
    /\ Is(o, "stream_to")
    /\ streams' = [streams EXCEPT ![o] = Nothing]
    /\ focus' = FocusWithout(o)
    /\ IF streams[o].finished
       THEN UNCHANGED <<conn, table, tx>>
       ELSE /\ conn' = end_copy_write.conn
            /\ table' = table \o end_copy_write.stored
            /\ tx' = [tx EXCEPT !.pending = @ \/ ~end_copy_write.ok]
    /\ UNCHANGED <<written, opens, seen, told>>

-----------------------------------------------------------------------------
(* The transaction, as far as the streams are concerned.                   *)

\* PQexec drops the rest of an abandoned COPY, with its error if it has one.
BlockFails == conn.failed \/ (tx.kind = "work" /\ conn.copy.fails)

Exec ==
    /\ MayExec /\ conn.copy.mode # "none"
    /\ conn' = [conn EXCEPT !.copy = Idle, !.failed = BlockFails]
    /\ told' = (told \/ BlockFails)
    /\ UNCHANGED <<streams, focus, tx, written, table, opens, seen>>

\* COMMIT in a failed block rolls back, and reports no error.
Commit ==
    /\ MayExec /\ ~tx.pending
    /\ tx' = [tx EXCEPT !.status = "committed"]
    /\ table' = IF BlockFails THEN <<>> ELSE table
    /\ conn' = [conn EXCEPT !.copy = Idle, !.failed = FALSE]
    /\ UNCHANGED <<streams, focus, written, opens, seen, told>>

\* commit() throws: for a pending error, which it forgets, or an open focus.
CommitRefused ==
    /\ Active
    /\ tx.pending \/ focus # NoObject
    /\ tx' = [tx EXCEPT !.pending = FALSE]
    /\ told' = TRUE
    /\ UNCHANGED <<streams, focus, conn, written, table, opens, seen>>

\* abort() asks no stream.  ROLLBACK ends the COPY; the streams find out.
Abort ==
    /\ Active
    /\ tx' = [tx EXCEPT !.status = "aborted"]
    /\ IF conn.open
       THEN /\ conn' = [conn EXCEPT !.copy = Idle, !.failed = FALSE]
            /\ table' = IF tx.kind = "work" THEN <<>> ELSE table
       ELSE UNCHANGED <<conn, table>>
    /\ UNCHANGED <<streams, focus, written, opens, seen, told>>

LoseConnection ==
    /\ conn.open
    /\ conn' = [open |-> FALSE, copy |-> Idle, failed |-> FALSE]
    /\ table' = IF tx.kind = "work" /\ Active THEN <<>> ELSE table
    /\ UNCHANGED <<streams, focus, tx, written, opens, seen, told>>

Next ==
    \/ \E o \in Objects, class \in {"stream_from", "stream_query"} : OpenFrom(o, class)
    \/ \E o \in Objects : OpenTo(o)
    \/ WrongColumns
    \/ OpenRefused
    \/ \E o \in Objects : Read(o)
    \/ \E o \in Objects : CompleteFrom(o)
    \/ \E o \in Objects : Write(o)
    \/ \E o \in Objects : Transfer(o)
    \/ \E o \in Objects : CompleteTo(o)
    \/ \E o, p \in Objects : Move(o, p)
    \/ \E o \in Objects : DestroyFrom(o)
    \/ \E o \in Objects : DestroyTo(o)
    \/ Exec
    \/ Commit
    \/ CommitRefused
    \/ Abort
    \/ LoseConnection

Spec == Init /\ [][Next]_vars

-----------------------------------------------------------------------------
(* Properties.                                                             *)

\* A reader that reports the end of the data has handed out every row, in
\* order: a COPY that the server broke off is never taken for a short one.
EndIsTheEnd == seen.ended => seen.rows = [i \in 1 .. Rows |-> i]

\* A program that has seen no exception and whose commit() returned has
\* stored every row that it wrote, also when the stream's verdict came only in
\* a destructor.
CommitMeansStored == tx.status = "committed" /\ ~told => table = written

\* The transaction's focus is the one stream that is alive and not finished,
\* through moves, exceptions and destructors.
FocusExact ==
    /\ \A o \in Objects : streams[o].registered <=> Live(o) /\ ~streams[o].finished
    /\ \A o \in Objects : streams[o].registered <=> focus = o

\* A COPY FROM is never left to the connection without a stream that will end
\* it: the next command would be taken as the end of it, and fail.
CopyInOwned ==
    conn.copy.mode = "in" => focus # NoObject /\ streams[focus].class = "stream_to"
=============================================================================
