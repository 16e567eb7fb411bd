----------------------------- MODULE MCSession ------------------------------
(***************************************************************************)
(* A program and its session with the server: transactions, retries,       *)
(* subscriptions, the stock table without its constraint, cursors, COPY    *)
(* streams, large objects, ways into and through a result, ranges; and the *)
(* menus.  None of these parts shares state with another; each is run by   *)
(* itself.  All that the parts are parameterised by is a parameter here.   *)
(***************************************************************************)
EXTENDS Transaction, Parts, TLC

CONSTANTS
    SqlStates, MaxAttempts,                             \* perform()
    Channels, HandlerChannels, Receivers, ChannelOf, MaxSent,
    Terminals, t1, Code, Version, Id,                   \* the stock table
    MaxRows, MaxCols, Strides, Indices, Arities,        \* results and cursors
    Streams, MaxWrites, MaxOpens,                       \* COPY
    Blobs, Oids, MaxSize,                               \* large objects
    Bytes, Start, BufSize, MaxLength,                   \* streams on them
    Value, Point, Length, Width,                        \* ranges
    Texts, Numbers, Default,                            \* settings
    o1, o2, o3, p1, p2

\* Objects are only names.
Symmetric == Permutations({o1, o2, o3}) \cup Permutations({p1, p2})

\* Every SQLSTATE that throw_sql_error tells apart, one of each class that it
\* treats as a whole, and some that it does not know.
Classes == INSTANCE Failures
ServerStates ==
    {<<k[1], k[2]>> : k \in Classes!ByCode}
    \cup {<<c, "999">> : c \in DOMAIN Classes!BySqlClass}
    \cup {<<"40", "002">>, <<"42", "P02">>, <<"57", "014">>}

MCChannelOf == <<1, 1, 2>>
MCStrides == -2 .. 2

\* A large object.
Contents == <<"a", "b", "a", "b", "a">>

\* Ranges over four values, with points between, below and above them.  6 is
\* the value with the longest text, as -2147483648 is for int.
MCPoint == -1 .. 7
MCLength == 0 :> 1 @@ 2 :> 1 @@ 4 :> 2 @@ 6 :> 3

Retry == INSTANCE Transactor WITH
    phase <- v1, attempts <- v2, failed <- v3, committed <- v4, thrown <- v5

Subs == INSTANCE Notification WITH
    handlers <- v1, receivers <- v2, trans <- v3, listening <- v4, pending <- v5, queue <-
    v6, call <- v7, sent <- v8, inside <- v9,
    Kinds <- {"nontransaction"}, Careful <- TRUE, Throws <- FALSE

SubsInBlocks == INSTANCE Notification WITH
    handlers <- v1, receivers <- v2, trans <- v3, listening <- v4, pending <- v5, queue <-
    v6, call <- v7, sent <- v8, inside <- v9,
    HandlerChannels <- Channels, Receivers <- {}, ChannelOf <- <<>>, Kinds <- {"work",
    "nontransaction"}, Careful <- TRUE, Throws <- FALSE

Free == INSTANCE Stock WITH
    rows <- v1, lock <- v2, pending <- v3, pc <- v4, edit <- v5, target <- v6, read <- v7,
    copied <- v8,
    UniqueCode <- FALSE, NoRow <- NoObject, NoOne <- NoObject

Alone == INSTANCE Stock WITH
    rows <- v1, lock <- v2, pending <- v3, pc <- v4, edit <- v5, target <- v6, read <- v7,
    copied <- v8,
    Terminals <- {t1}, UniqueCode <- FALSE, NoRow <- NoObject, NoOne <- NoObject

Curs == INSTANCE Cursor WITH
    rows <- v1, tx <- v2, srv <- v3, cur <- v4, out <- v5,
    OwnsHeld <- FALSE, LooseUnheld <- FALSE, BeginAtEnd <- FALSE

Stream == INSTANCE CopyStream WITH
    streams <- v1, focus <- v2, tx <- v3, conn <- v4, written <- v5, table <- v6, opens <-
    v7, seen <- v8, told <- v9,
    Objects <- Streams, Rows <- MaxRows, Careful <- TRUE, Kinds <- {"work",
    "nontransaction"}

Lo == INSTANCE LargeObject WITH
    tx <- v1, size <- v2, stored <- v3, known <- v4, fds <- v5, blob <- v6, opens <- v7, buf
    <- v8, stray <- v9,
    Outlives <- FALSE, HugeAnyId <- FALSE, ReadFails <- FALSE

Los == INSTANCE LargeObjectStream WITH
    mode <- v1, obj <- v2, pos <- v3, get <- v4, gptr <- v5, put <- v6, data <- v7, at <-
    v8, last <- v9, state <- v10,
    Modes <- {"in", "out"}, Seeks <- FALSE

Acc == INSTANCE ResultAccess WITH
    home <- v1, own <- v2, out <- v3

Iter == INSTANCE ResultIterators WITH
    size <- v1, it <- v2, rit <- v3, back <- v4, loop <- v5, source <- v6, seen <- v7,
    MaxSize <- MaxRows, Over <- "fields"

Rng == INSTANCE Range WITH
    r <- v1, said <- v2, stage <- v3, text <- v4

Menus == INSTANCE Menu WITH
    stack <- v1, at <- v2, texts <- v3, numbers <- v4, prefix <- v5, opened <- v6

ASSUME SessionAssumption ==
    /\ TransactionAssumption /\ Retry!TransactorAssumption
    /\ Subs!NotificationAssumption /\ SubsInBlocks!NotificationAssumption
    /\ Free!StockAssumption /\ Alone!StockAssumption
    /\ Curs!CursorAssumption /\ Stream!CopyStreamAssumption
    /\ Lo!LargeObjectAssumption /\ Los!LargeObjectStreamAssumption
    /\ Acc!ResultAccessAssumption /\ Iter!ResultIteratorsAssumption
    /\ Rng!RangeAssumption /\ Menus!SettingsAssumption

-----------------------------------------------------------------------------
runVars == <<vars, partVars>>

RunInit ==
    /\ Init
    /\ \/ part = "transaction" /\ Unused(0)
       \/ part = "transactor" /\ Retry!Init /\ Unused(5)
       \/ part = "subscribers" /\ Subs!Init /\ Unused(9)
       \/ part = "blocks" /\ SubsInBlocks!Init /\ Unused(9)
       \/ part = "free" /\ Free!Init /\ Unused(8)
       \/ part = "alone" /\ Alone!Init /\ Unused(8)
       \/ part = "cursor" /\ Curs!Init /\ Unused(5)
       \/ part = "copy_stream" /\ Stream!Init /\ Unused(9)
       \/ part = "large_object" /\ Lo!Init /\ Unused(9)
       \/ part = "large_object_stream" /\ Los!Init /\ Unused(10)
       \/ part = "access" /\ Acc!Init /\ Unused(3)
       \/ part = "iterators" /\ Iter!Init /\ Unused(7)
       \/ part = "range" /\ Rng!Init /\ Unused(4)
       \/ part = "menu" /\ Menus!Init /\ Unused(6)

RunNext ==
    \/ part = "transaction" /\ Next /\ Keep(0)
    \/ part = "transactor" /\ Retry!Next /\ Keep(5) /\ UNCHANGED vars
    \/ part = "subscribers" /\ Subs!Next /\ Keep(9) /\ UNCHANGED vars
    \/ part = "blocks" /\ SubsInBlocks!Next /\ Keep(9) /\ UNCHANGED vars
    \/ part = "free" /\ Free!Next /\ Keep(8) /\ UNCHANGED vars
    \/ part = "alone" /\ Alone!Next /\ Keep(8) /\ UNCHANGED vars
    \/ part = "cursor" /\ Curs!Next /\ Keep(5) /\ UNCHANGED vars
    \/ part = "copy_stream" /\ Stream!Next /\ Keep(9) /\ UNCHANGED vars
    \/ part = "large_object" /\ Lo!Next /\ Keep(9) /\ UNCHANGED vars
    \/ part = "large_object_stream" /\ Los!Next /\ Keep(10) /\ UNCHANGED vars
    \/ part = "access" /\ Acc!Next /\ Keep(3) /\ UNCHANGED vars
    \/ part = "iterators" /\ Iter!Next /\ Keep(7) /\ UNCHANGED vars
    \/ part = "range" /\ Rng!Next /\ Keep(4) /\ UNCHANGED vars
    \/ part = "menu" /\ Menus!Next /\ Keep(6) /\ UNCHANGED vars

RunSpec == RunInit /\ [][RunNext]_runVars

-----------------------------------------------------------------------------
(* Properties of the parts.                                                *)

\* However often perform() runs its callback again, it commits the work of one
\* run when it returns, and of none when it throws, unless it says that it does
\* not know; and never the work of two.
OneOutcome ==
    part = "transactor" => Retry!AtMostOnce /\ Retry!ReturnMeansCommitted /\ Retry!ThrowMeansNothing

\* Between calls, no handler or receiver waits on a channel that the server
\* does not send; and no handler is called between BEGIN and the end of its
\* block, whenever the notification was sent.
SubscribersListen ==
    /\ part = "subscribers" => Subs!SubscribersListen
    /\ part = "blocks" => SubsInBlocks!SubscribersListen /\ SubsInBlocks!NotInTransaction

\* Without a unique constraint on code, update_stock() still leaves a code with
\* at most one row for each terminal: with one, if there is only one terminal.
CopiesBounded ==
    /\ part = "free" => Free!TypeOK /\ Free!CopiesBounded
    /\ part = "alone" => Alone!CodesUnique

\* A cursor object's position is that of the server's cursor, and retrieve()
\* returns the rows between two positions; a cursor that its object owns is
\* closed with it, unless it was declared to outlive its transaction; no range
\* starts at the end of the result.
CursorsExact ==
    part = "cursor" =>
        /\ Curs!PositionExact /\ Curs!UnknownOnlyAdopted
        /\ Curs!RetrieveExact /\ Curs!OwnedClosed

\* A reader that says it is at the end has given every row; a commit() without
\* an exception has stored every row written, if readers are read to their end.
\* The transaction's focus is the stream in use, and the server is in a COPY
\* FROM only while a stream is there to end it.
CopyStreamsExact ==
    part = "copy_stream" =>
        Stream!EndIsTheEnd /\ Stream!CommitMeansStored /\ Stream!FocusExact /\ Stream!CopyInOwned

\* A blob object never uses a descriptor that was opened for another, and every
\* open descriptor has one object that will close it, if the objects do not
\* outlive their transaction; a function that fails leaves no large object
\* behind; a buffer gets what was read and no more. A stream that is not
\* repositioned writes and reads the bytes of the large object in order, each
\* once.
LargeObjectsExact ==
    /\ part = "large_object" =>
        Lo!OwnDescriptor /\ Lo!DescriptorsOwned /\ Lo!NoLeftovers /\ Lo!BufferExact
    /\ part = "large_object_stream" => Los!WrittenExact /\ Los!ReadExact

\* No access by a number from 0 that returns goes outside the rows and columns
\* of the result, and the query functions that check the shape of their result
\* return one of that shape only.
AccessInside == part = "access" => Acc!AccessInside /\ Acc!ColumnsInside /\ Acc!QueriesChecked

\* A reverse iterator, however it was moved, shows the element that the program
\* counted back to, and its distances, order and subscripts are those of steps.
\* A loop hands over every row once and in order.
IteratorsExact ==
    part = "iterators" =>
        Iter!ReverseMirrors /\ Iter!ReverseOrder /\ Iter!SubscriptIsStep /\ Iter!LoopExact

\* After any intersections and conversions to text and back, a range contains
\* the values that are in all the ranges that went into it; contains() and
\* empty() tell the same of it; and every range can be converted to text whose
\* bounds are of a type that counts a terminating zero in its size_buffer().
RangesExact ==
    part = "range" => Rng!PointsExact /\ Rng!EmptyExact /\ Rng!ContainsExact /\ Rng!Renders

\* The line above a menu is the way to it, whatever was opened and left before
\* (run_menu erases labels at end()), and every setting keeps a value that the
\* code reading it can use.
LabelsAreThePath == part = "menu" => Menus!LabelsAreThePath /\ Menus!SettingsOK
=============================================================================
