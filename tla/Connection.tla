----------------------------- MODULE Connection -----------------------------
(***************************************************************************)
(* pqxx::connection as an owner: which C++ object owns which libpq handle, *)
(* the notice_waiters that the handle's notice processor points to, the    *)
(* errorhandler objects that point back to their connection, and the       *)
(* counter behind adorn_name(), through blocking and nonblocking connects, *)
(* move construction, move assignment, close() and destruction.            *)
(*                                                                         *)
(* A slot is the storage of one connection object; the connection inside a *)
(* pqxx::connecting is one as well.  A handle is a PGconn; the             *)
(* notice_waiters allocated for it have its name.                          *)
(***************************************************************************)
EXTENDS Naturals, FiniteSets

CONSTANTS
    Slots, Handles, Handlers,
    MaxNames,   \* how many names are made per session
    Rules,      \* what the program avoids, of {"transaction", "errorhandler"}
    Null

ConnectionAssumption ==
    /\ MaxNames \in Nat
    /\ Rules \subseteq {"transaction", "errorhandler"}
    /\ Null \notin Slots \cup Handles
    /\ {"unmade", "gone"} \cap (Slots \cup {Null}) = {}

VARIABLES
    slot,       \* the connection objects, see Dead
    handle,     \* the PGconn objects, see Init: "unused", "starting", "open",
                \* "bad" or "finished"
    list,       \* errorhandlers, per notice_waiters
    home,       \* errorhandler::m_home; "unmade" before, "gone" after its life
    results,    \* notice_waiters kept by a result
    wild        \* an access through a dangling or null pointer has happened

vars == <<slot, handle, list, home, results, wild>>

Dead == [live |-> FALSE, conn |-> Null, waiters |-> Null, trans |-> FALSE,
         receivers |-> FALSE, connecting |-> FALSE, wait |-> "none", unique_id |-> 0]

Init ==
    /\ slot = [s \in Slots |-> Dead]
    /\ handle = [h \in Handles |-> [state |-> "unused", supported |-> TRUE, names |-> {}]]
    /\ list = [h \in Handles |-> {}]
    /\ home = [e \in Handlers |-> "unmade"]
    /\ results = {}
    /\ wild = FALSE

-----------------------------------------------------------------------------
(* Connecting.                                                             *)

Connection(h) ==
    [Dead EXCEPT !.live = TRUE, !.conn = h, !.waiters = h]

Started(h, state, supported) ==
    [handle EXCEPT ![h].state = state, ![h].supported = supported]

\* The connection that libpq made is good enough for complete_connection().
Acceptable(state, supported) == state = "open" /\ supported

\* A blocking connect; a failure finishes the handle and the constructor
\* throws.
Connect(s, h) ==
    /\ ~slot[s].live /\ handle[h].state = "unused"
    /\ \E state \in {"open", "bad"}, supported \in BOOLEAN :
          IF Acceptable(state, supported)
          THEN /\ handle' = Started(h, state, supported)
               /\ slot' = [slot EXCEPT ![s] = Connection(h)]
          ELSE /\ handle' = Started(h, "finished", supported)
               /\ UNCHANGED slot
    /\ UNCHANGED <<list, home, results, wild>>

\* connecting{}: PQconnectStart; it waits to write first.
StartConnecting(s, h) ==
    /\ ~slot[s].live /\ handle[h].state = "unused"
    /\ \E ok \in BOOLEAN :
          IF ok
          THEN /\ handle' = Started(h, "starting", TRUE)
               /\ slot' = [slot EXCEPT ![s] =
                              [Connection(h) EXCEPT !.connecting = TRUE, !.wait = "write"]]
          ELSE /\ handle' = Started(h, "finished", TRUE)
               /\ UNCHANGED slot
    /\ UNCHANGED <<list, home, results, wild>>

\* connecting::process(): PQconnectPoll; a failure throws and changes nothing
\* else.
Process(s) ==
    LET h == slot[s].conn
    IN  /\ slot[s].live /\ slot[s].connecting /\ slot[s].wait # "none" /\ h # Null
        /\ \/ /\ handle[h].state = "starting"
              /\ \E wait \in {"read", "write"} : slot' = [slot EXCEPT ![s].wait = wait]
              /\ UNCHANGED handle
           \/ /\ handle[h].state = "starting"
              /\ \E supported \in BOOLEAN : handle' = Started(h, "open", supported)
              /\ slot' = [slot EXCEPT ![s].wait = "none"]
           \/ /\ handle' = [handle EXCEPT ![h].state = "bad"]
              /\ UNCHANGED slot
        /\ UNCHANGED <<list, home, results, wild>>

-----------------------------------------------------------------------------
(* Moving.                                                                 *)

\* check_movable and check_overwritable.
Settled(s) == ~slot[s].trans /\ ~slot[s].receivers

\* The program's own rules about the source of a move.
Movable(s) ==
    /\ "transaction" \in Rules => Settled(s)
    /\ "errorhandler" \in Rules =>
          (slot[s].waiters # Null => list[slot[s].waiters] = {})

MovedFrom(s) == [slot[s] EXCEPT !.conn = Null, !.waiters = Null]

\* A move constructor that leaves the handle with its source as well.
MoveConstructed_Shared(t, s) ==
    [slot EXCEPT ![t] = [Connection(slot[s].conn) EXCEPT
                            !.waiters = slot[s].waiters, !.unique_id = slot[s].unique_id],
                 ![s] = [slot[s] EXCEPT !.waiters = Null]]

\* A move constructor that leaves the notice_waiters with its source.
MoveConstructed_NoWaiters(t, s) ==
    [slot EXCEPT ![t] = [Connection(slot[s].conn) EXCEPT
                            !.waiters = Null, !.unique_id = slot[s].unique_id],
                 ![s] = [slot[s] EXCEPT !.conn = Null]]

\* A move constructor that starts the counter for names again.
MoveConstructed_NewNames(t, s) ==
    [slot EXCEPT ![t] = [Connection(slot[s].conn) EXCEPT !.waiters = slot[s].waiters],
                 ![s] = MovedFrom(s)]

MoveConstructed(t, s) ==
    [slot EXCEPT ![t] = [Connection(slot[s].conn) EXCEPT
                            !.waiters = slot[s].waiters, !.unique_id = slot[s].unique_id],
                 ![s] = MovedFrom(s)]

\* connection(connection &&): the members are moved before check_movable
\* throws; the moved members are then destroyed with the new object.
MoveConstruct(t, s) ==
    /\ slot[s].live /\ ~slot[s].connecting /\ ~slot[t].live /\ Movable(s)
    /\ slot' = IF Settled(s)
               THEN MoveConstructed(t, s)
               ELSE [slot EXCEPT ![s].waiters = Null]
    /\ UNCHANGED <<handle, list, home, results, wild>>

\* connecting::produce(): complete_connection(), then a move; usage_error
\* before the connect is done.
Produce(t, s) ==
    LET h == slot[s].conn
    IN  /\ slot[s].live /\ slot[s].connecting /\ ~slot[t].live
        /\ slot[s].wait = "none" /\ h # Null
        /\ IF Acceptable(handle[h].state, handle[h].supported)
           THEN slot' = MoveConstructed(t, s) /\ UNCHANGED handle
           ELSE /\ handle' = [handle EXCEPT ![h].state = "finished"]
                /\ slot' = [slot EXCEPT ![s].conn = Null]
        /\ UNCHANGED <<list, home, results, wild>>

-----------------------------------------------------------------------------
(* Closing.  unregister() of every errorhandler goes through its m_home.   *)

Unreachable(e) == LET s == home[e] IN ~slot[s].live \/ slot[s].waiters = Null

Unregister(gone) ==
    [w \in Handles |-> list[w] \ {e \in gone :
                                     ~Unreachable(e) /\ slot[home[e]].waiters = w}]

\* A close() that leaves the errorhandlers alone.
Listed_None(s) == {}

Listed(s) ==
    IF slot[s].waiters = Null \/ slot[s].conn = Null THEN {}
    ELSE {e \in list[slot[s].waiters] : home[e] \in Slots}

\* PQfinish, for a connection that has a handle.
Finished(s) ==
    IF slot[s].conn = Null THEN handle ELSE [handle EXCEPT ![slot[s].conn].state = "finished"]

\* The part of close() that changes other objects.
CloseHandle(s) ==
    /\ handle' = Finished(s)
    /\ list' = Unregister(Listed(s))
    /\ home' = [e \in Handlers |-> IF e \in Listed(s) THEN Null ELSE home[e]]
    /\ wild' = (wild \/ \E e \in Listed(s) : Unreachable(e))
    /\ UNCHANGED results

Closed(s) ==
    IF slot[s].conn = Null THEN slot[s]
    ELSE [slot[s] EXCEPT !.conn = Null, !.receivers = FALSE]

Close(s) ==
    /\ slot[s].live /\ ~slot[s].connecting
    /\ CloseHandle(s)
    /\ slot' = [slot EXCEPT ![s] = Closed(s)]

\* The destructor; nothing that refers to the object may outlive it.
Destroy(s) ==
    /\ slot[s].live /\ ~slot[s].trans /\ ~slot[s].receivers
    /\ CloseHandle(s)
    /\ slot' = [slot EXCEPT ![s] = Dead]

\* connection &operator=(connection &&): both are checked first.
MoveAssign(t, s) ==
    /\ s # t /\ slot[s].live /\ slot[t].live
    /\ ~slot[s].connecting /\ ~slot[t].connecting
    /\ Settled(s) /\ Settled(t) /\ Movable(s) /\ Movable(t)
    /\ CloseHandle(t)
    /\ slot' = [slot EXCEPT ![t] = [slot[s] EXCEPT !.live = TRUE], ![s] = MovedFrom(s)]

-----------------------------------------------------------------------------
(* Objects that refer to a connection, and the server's notices.           *)

Usable(s) ==
    /\ slot[s].live /\ ~slot[s].connecting /\ slot[s].conn # Null
    /\ handle[slot[s].conn].state = "open"

BeginTransaction(s) ==
    /\ Usable(s) /\ ~slot[s].trans
    /\ slot' = [slot EXCEPT ![s].trans = TRUE]
    /\ UNCHANGED <<handle, list, home, results, wild>>

EndTransaction(s) ==
    /\ slot[s].trans
    /\ slot' = [slot EXCEPT ![s].trans = FALSE]
    /\ UNCHANGED <<handle, list, home, results, wild>>

AddReceiver(s) ==
    /\ Usable(s) /\ ~slot[s].receivers
    /\ slot' = [slot EXCEPT ![s].receivers = TRUE]
    /\ UNCHANGED <<handle, list, home, results, wild>>

RemoveReceiver(s) ==
    /\ slot[s].receivers
    /\ slot' = [slot EXCEPT ![s].receivers = FALSE]
    /\ UNCHANGED <<handle, list, home, results, wild>>

AddErrorhandler(e, s) ==
    /\ Usable(s) /\ slot[s].waiters # Null /\ home[e] = "unmade"
    /\ list' = [list EXCEPT ![slot[s].waiters] = @ \cup {e}]
    /\ home' = [home EXCEPT ![e] = s]
    /\ UNCHANGED <<slot, handle, results, wild>>

DestroyErrorhandler(e) ==
    /\ home[e] \in Slots \cup {Null}
    /\ IF home[e] = Null
       THEN UNCHANGED <<list, wild>>
       ELSE /\ list' = Unregister({e})
            /\ wild' = (wild \/ Unreachable(e))
    /\ home' = [home EXCEPT ![e] = "gone"]
    /\ UNCHANGED <<slot, handle, results>>

\* make_result(): the result shares the connection's notice_waiters.
MakeResult(s) ==
    /\ Usable(s) /\ slot[s].waiters # Null
    /\ results' = results \cup {slot[s].waiters}
    /\ UNCHANGED <<slot, handle, list, home, wild>>

DropResult(w) ==
    /\ w \in results
    /\ results' = results \ {w}
    /\ UNCHANGED <<slot, handle, list, home, wild>>

\* A notice from the server: the notice processor calls the errorhandlers.
Notice(s) ==
    /\ Usable(s)
    /\ wild' = (wild \/ \E e \in list[slot[s].conn] : home[e] = "gone")
    /\ UNCHANGED <<slot, handle, list, home, results>>

\* adorn_name(), for a cursor, a savepoint or a prepared statement.
AdornName(s) ==
    /\ Usable(s) /\ slot[s].unique_id < MaxNames
    /\ slot' = [slot EXCEPT ![s].unique_id = @ + 1]
    /\ handle' = [handle EXCEPT ![slot[s].conn].names = @ \cup {slot[s].unique_id + 1}]
    /\ UNCHANGED <<list, home, results, wild>>

ConnectionBreaks(s) ==
    /\ Usable(s)
    /\ handle' = [handle EXCEPT ![slot[s].conn].state = "bad"]
    /\ UNCHANGED <<slot, list, home, results, wild>>

Next ==
    \/ \E s \in Slots :
          \/ \E h \in Handles : Connect(s, h) \/ StartConnecting(s, h)
          \/ \E t \in Slots : MoveConstruct(t, s) \/ Produce(t, s) \/ MoveAssign(t, s)
          \/ \E e \in Handlers : AddErrorhandler(e, s)
          \/ Process(s) \/ Close(s) \/ Destroy(s)
          \/ BeginTransaction(s) \/ EndTransaction(s)
          \/ AddReceiver(s) \/ RemoveReceiver(s)
          \/ MakeResult(s) \/ Notice(s) \/ AdornName(s) \/ ConnectionBreaks(s)
    \/ \E e \in Handlers : DestroyErrorhandler(e)
    \/ \E w \in Handles : DropResult(w)

Spec == Init /\ [][Next]_vars

-----------------------------------------------------------------------------
(* Properties.                                                             *)

\* A libpq handle that is not finished belongs to exactly one connection, and
\* none belongs to a finished one: every handle is closed exactly once,
\* whatever is moved, whichever connect fails.
OwnedOnce ==
    \A h \in Handles :
        Cardinality({s \in Slots : slot[s].live /\ slot[s].conn = h}) =
            IF handle[h].state \in {"starting", "open", "bad"} THEN 1 ELSE 0

\* The notice processor of a handle points to notice_waiters that still
\* exist, in a connection or in a result.
NoticeTargetAlive ==
    \A h \in Handles :
        handle[h].state \in {"starting", "open", "bad"} =>
            h \in results \/ \E s \in Slots : slot[s].live /\ slot[s].waiters = h

\* No errorhandler is reached through a connection that is gone or was moved
\* from, and none is called after its life.
NoWildAccess == ~wild

\* Every handle of libpq that is not finished belongs to exactly one connection,
\* whatever is moved and whichever connect fails; its notice processor points to
\* notice_waiters that exist; and no errorhandler is reached through a connection
\* that is gone, or called after its life; provided that, as documented, no
\* connection is moved that has a transaction or error handlers.
HandlesOwned == OwnedOnce /\ NoticeTargetAlive /\ NoWildAccess

NewName ==
    \A s \in Slots : AdornName(s) => slot[s].unique_id + 1 \notin handle[slot[s].conn].names

\* adorn_name() never gives the same name twice in one session, through moves
\* as well: two cursors or savepoints would collide.
NamesAreNew == [][NewName]_vars
=============================================================================
