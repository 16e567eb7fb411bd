---------------------------- MODULE Transaction ----------------------------
(***************************************************************************)
(* libpqxx's transaction classes on one connection: work (pqxx::work and   *)
(* the other instances of pqxx::transaction), nontransaction, robust       *)
(* (robusttransaction) and sub (subtransaction).  The program is single-   *)
(* threaded, so a call is one step, save robusttransaction's commit: it    *)
(* waits for the server between its questions.                             *)
(*                                                                         *)
(* The server is part of the state: the block that is open on the          *)
(* connection with its savepoints, whether it has failed, and what became  *)
(* of each transaction's writes.  Run gives the server's possible answers  *)
(* to a command as a set of pairs of its next state and the outcome        *)
(* libpqxx sees:                                                           *)
(*   "ok"       a result,              "error"  an SQL error,              *)
(*   "class08"  a connection exception reported over a live connection,    *)
(*   "unknown"  statement_completion_unknown,                              *)
(*   "lost"     broken_connection: the connection is gone.                 *)
(***************************************************************************)
EXTENDS Naturals, Sequences

CONSTANTS
    Objects,    \* the transaction objects a program makes, one after another
    Kinds,      \* the classes it makes them of
    Faults,     \* how many commands may fail
    Attempts,   \* max_attempts of robusttransaction
    Careful,    \* the program follows the documented rules, see Allowed
    NoObject

TransactionAssumption ==
    /\ Kinds \subseteq {"work", "nontransaction", "robust", "sub"}
    /\ Faults \in Nat
    /\ Attempts \in Nat \ {0}
    /\ Careful \in BOOLEAN
    /\ NoObject \notin Objects

VARIABLES
    tx,         \* the C++ objects
    current,    \* connection::m_trans
    server      \* the connection and the session behind it

vars == <<tx, current, server>>

Statuses == {"active", "committed", "aborted", "in_doubt"}
Fates == {"none", "open", "deciding", "done", "undone"}

-----------------------------------------------------------------------------
(* The server.                                                             *)

Level(o) == [name |-> o, holds |-> {o}]
HeldBy(block) == UNION {block[i].holds : i \in DOMAIN block}
SetFate(sv, objects, fate) ==
    [sv EXCEPT !.fate = [o \in Objects |-> IF o \in objects THEN fate ELSE @[o]]]

\* The block ends and its writes meet that fate.
Settle(sv, fate) ==
    [SetFate(sv, HeldBy(sv.block), fate) EXCEPT !.block = <<>>, !.failed = FALSE]

Reply(sv, out) == [sv |-> sv, out |-> out]
Refuse(sv) == {Reply([sv EXCEPT !.failed = sv.block # <<>>], "error")}
Hold(sv, o) ==
    [SetFate(sv, {o}, "open") EXCEPT !.block[Len(sv.block)].holds = @ \cup {o}]

\* The position of o's savepoint; 0 when there is none.
Savepoint(sv, o) ==
    LET at == {i \in DOMAIN sv.block : i > 1 /\ sv.block[i].name = o}
    IN  IF at = {} THEN 0 ELSE CHOOSE i \in at : TRUE

Begin(sv, o) ==
    CASE sv.block = <<>> -> {Reply([SetFate(sv, {o}, "open") EXCEPT !.block = <<Level(o)>>], "ok")}
      [] sv.block # <<>> /\ sv.failed -> Refuse(sv)
      [] OTHER -> {Reply(Hold(sv, o), "ok")}            \* only a warning

\* A query that changes nothing is only refused or answered.
Read(sv, o) == IF sv.failed THEN Refuse(sv) ELSE {Reply(sv, "ok")}

Write(sv, o) ==
    CASE sv.block = <<>> -> {Reply(SetFate(sv, {o}, "done"), "ok")}   \* autocommit
      [] sv.block # <<>> /\ sv.failed -> Refuse(sv)
      [] OTHER -> {Reply(Hold(sv, o), "ok")}

SetSavepoint(sv, o) ==
    IF sv.block = <<>> \/ sv.failed
    THEN Refuse(sv)
    ELSE {Reply([SetFate(sv, {o}, "open") EXCEPT !.block = Append(@, Level(o))], "ok")}

Release(sv, o) ==
    LET at   == Savepoint(sv, o)
        kept == SubSeq(sv.block, 1, at - 1)
        held == HeldBy(SubSeq(sv.block, at, Len(sv.block)))
    IN  IF at = 0 \/ sv.failed
        THEN Refuse(sv)
        ELSE {Reply([sv EXCEPT !.block = [kept EXCEPT ![at - 1].holds = @ \cup held]], "ok")}

RollbackTo(sv, o) ==
    LET at     == Savepoint(sv, o)
        kept   == SubSeq(sv.block, 1, at - 1)
        undone == HeldBy(SubSeq(sv.block, at, Len(sv.block))) \ HeldBy(kept)
    IN  IF at = 0
        THEN Refuse(sv)
        ELSE {Reply([SetFate(sv, undone, "undone") EXCEPT
                        !.block = Append(kept, [name |-> o, holds |-> {}]),
                        !.failed = FALSE], "ok")}

\* COMMIT of a failed block rolls it back, and says so only in its tag.
CommitBlock(sv, o) == {Reply(Settle(sv, IF sv.failed THEN "undone" ELSE "done"), "ok")}
Rollback(sv, o) == {Reply(Settle(sv, "undone"), "ok")}

Answers(sv, cmd, o) ==
    CASE cmd = "BEGIN" -> Begin(sv, o)
      [] cmd = "READ" -> Read(sv, o)
      [] cmd = "WRITE" -> Write(sv, o)
      [] cmd = "SAVEPOINT" -> SetSavepoint(sv, o)
      [] cmd = "RELEASE" -> Release(sv, o)
      [] cmd = "ROLLBACK_TO" -> RollbackTo(sv, o)
      [] cmd = "COMMIT" -> CommitBlock(sv, o)
      [] cmd = "ROLLBACK" -> Rollback(sv, o)

\* A command that goes wrong for a reason of its own: a rollback never does.
Errors(sv, cmd, o) ==
    CASE cmd \in {"ROLLBACK", "ROLLBACK_TO"} -> {}
      [] cmd = "COMMIT" ->
            {Reply(Settle(sv, "undone"), out) : out \in {"error", "class08"}}
            \cup {Reply(Settle(sv, fate), "unknown") : fate \in {"done", "undone"}}
      [] OTHER -> Refuse(sv)

\* The connection breaks: the server rolls back, unless it was committing.
Losses(sv, cmd) ==
    {Reply([Settle(sv, fate) EXCEPT !.open = FALSE], "lost") :
        fate \in IF cmd = "COMMIT" /\ ~sv.failed
                 THEN {"undone", "done", "deciding"} ELSE {"undone"}}

Run(sv, cmd, o) ==
    IF ~sv.open
    THEN {Reply(sv, "lost")}
    ELSE Answers(sv, cmd, o) \cup
         {[r EXCEPT !.sv.faults = @ - 1] :
            r \in IF sv.faults > 0 THEN Errors(sv, cmd, o) \cup Losses(sv, cmd) ELSE {}}

\* A commit that was under way when the connection broke comes to its end.
ServerDecides ==
    \E fate \in {"done", "undone"}, o \in Objects :
        /\ server.fate[o] = "deciding"
        /\ server' = SetFate(server, {p \in Objects : server.fate[p] = "deciding"}, fate)
        /\ UNCHANGED <<tx, current>>

-----------------------------------------------------------------------------
(* The objects.                                                            *)

Unborn == [kind |-> "none", parent |-> NoObject, status |-> "active", alive |-> FALSE,
           registered |-> FALSE, focus |-> FALSE, pending |-> FALSE, asked |-> 0]

Init ==
    /\ tx = [o \in Objects |-> Unborn]
    /\ current = NoObject
    /\ server = [open |-> TRUE, block |-> <<>>, failed |-> FALSE,
                 fate |-> [o \in Objects |-> "none"], faults |-> Faults]

Alive == {o \in Objects : tx[o].alive}
Live(o) == tx[o].alive /\ \A p \in Objects : tx[p].asked = 0
Children(o) == {c \in Alive : tx[c].parent = o}

\* The rules of the documentation: work on the innermost transaction that is
\* active, and after an error do nothing more than abort.
Allowed(o) ==
    Careful => /\ tx[o].status = "active" /\ ~server.failed
               /\ \A c \in Children(o) : tx[c].status # "active"

\* The objects of these kinds register with the connection; robust ones do
\* not.
Registers(k) == k \in {"work", "nontransaction"}
New(k) == [Unborn EXCEPT !.kind = k, !.alive = TRUE, !.registered = Registers(k)]

\* An object whose constructor threw.
Failed(k) == [Unborn EXCEPT !.kind = k]

Constructs(o, k) ==
    /\ tx[o] = Unborn /\ k \in Kinds
    /\ \A p \in Objects : tx[p].asked = 0

\* check_unique_register: usage_error while another one is registered.
Refused(o, k) ==
    /\ Constructs(o, k) /\ Registers(k) /\ current # NoObject
    /\ tx' = [tx EXCEPT ![o] = Failed(k)]
    /\ UNCHANGED <<current, server>>

ConstructNontransaction(o) ==
    /\ Constructs(o, "nontransaction") /\ current = NoObject
    /\ tx' = [tx EXCEPT ![o] = New("nontransaction")]
    /\ current' = o
    /\ UNCHANGED server

\* basic_transaction: it registers, then BEGIN; when that throws, the
\* destructor of transaction_base takes the registration back.
ConstructWork(o) ==
    /\ Constructs(o, "work") /\ current = NoObject
    /\ \E r \in Run(server, "BEGIN", o) :
          /\ tx' = [tx EXCEPT ![o] = IF r.out = "ok" THEN New("work") ELSE Failed("work")]
          /\ current' = IF r.out = "ok" THEN o ELSE NoObject
          /\ server' = r.sv

\* basic_robusttransaction::init: BEGIN, then the transaction's number.
ConstructRobust(o) ==
    /\ Constructs(o, "robust")
    /\ \E r \in Run(server, "BEGIN", o) :
       \E q \in IF r.out = "ok" THEN Run(r.sv, "READ", o) ELSE {r} :
          /\ tx' = [tx EXCEPT ![o] = IF q.out = "ok" THEN New("robust") ELSE Failed("robust")]
          /\ server' = q.sv
    /\ UNCHANGED current

\* A subtransaction of p: SAVEPOINT, whatever p is doing.
Nest(o, p) ==
    /\ Constructs(o, "sub")
    /\ Live(p) /\ tx[p].kind # "nontransaction" /\ Allowed(p)
    /\ \E r \in Run(server, "SAVEPOINT", o) :
          /\ tx' = [tx EXCEPT ![o] = IF r.out = "ok"
                        THEN [New("sub") EXCEPT !.parent = p] ELSE Failed("sub")]
          /\ server' = r.sv
    /\ UNCHANGED current

\* exec(text) and what is built on it: a pending error first, then the focus
\* and the status, then the command.
Exec(o) ==
    /\ Live(o) /\ Allowed(o)
    /\ IF tx[o].pending \/ tx[o].focus \/ tx[o].status # "active"
       THEN /\ tx' = [tx EXCEPT ![o].pending = FALSE]
            /\ UNCHANGED server
       ELSE /\ \E r \in Run(server, "WRITE", o) : server' = r.sv
            /\ UNCHANGED tx
    /\ UNCHANGED current

\* exec with parameters or of a prepared statement: only the focus is looked
\* at, and a transaction that is over, or has an error pending, executes it.
ExecParams(o) ==
    /\ Live(o) /\ Allowed(o)
    /\ IF tx[o].focus
       THEN UNCHANGED server
       ELSE \E r \in Run(server, "WRITE", o) : server' = r.sv
    /\ UNCHANGED <<tx, current>>

\* A stream or a pipeline takes the transaction's focus.
OpenFocus(o) ==
    /\ Live(o) /\ Allowed(o)
    /\ ~tx[o].focus /\ tx[o].status = "active" /\ ~tx[o].pending
    /\ tx' = [tx EXCEPT ![o].focus = TRUE]
    /\ UNCHANGED <<current, server>>

\* It ends; when the transaction ended before it, the server knows nothing of
\* it any more.  Its destructor cannot throw and leaves an error pending,
\* while complete() throws it.
CloseFocus(o) ==
    /\ Live(o) /\ tx[o].focus
    /\ \E r \in IF tx[o].status = "active" THEN Run(server, "WRITE", o)
                 ELSE {Reply(server, "error")} :
          /\ server' = r.sv
          /\ tx' = [tx EXCEPT ![o].focus = FALSE, ![o].pending = r.out # "ok" /\ ~Careful]
    /\ UNCHANGED current

-----------------------------------------------------------------------------
(* Ending a transaction.                                                   *)

RollbackCommand(o) == IF tx[o].kind = "sub" THEN "ROLLBACK_TO" ELSE "ROLLBACK"

\* do_abort that leaves the block to itself.
DoAbort_Nothing(o, sv, pending) == {Reply(sv, "ok")}

\* do_abort: nothing is sent when an error is pending, direct_exec throws it.
DoAbort(o, sv, pending) ==
    IF tx[o].kind = "nontransaction" \/ pending
    THEN {Reply(sv, "ok")}
    ELSE Run(sv, RollbackCommand(o), o)

\* close() of an object whose status is settled.
Closed(o, status) ==
    [tx EXCEPT ![o].status = status, ![o].registered = FALSE, ![o].pending = FALSE]

\* unregister_transaction that leaves the pointer of the connection alone.
Unregistered_Kept(o) == current

\* unregister_transaction, for an object that registered.
Unregistered(o) == IF tx[o].registered THEN NoObject ELSE current

Finish(o, status) ==
    /\ tx' = Closed(o, status)
    /\ current' = Unregistered(o)

\* An exception leaves commit(): the object stays registered.
Threw(o, status) ==
    /\ tx' = [tx EXCEPT ![o].status = status, ![o].asked = 0]
    /\ UNCHANGED current

\* do_commit without the test whether the connection is still there.
DoCommit_NeverInDoubt(o, r) ==
    /\ server' = r.sv
    /\ IF r.out = "ok" THEN Finish(o, "committed") ELSE Threw(o, "aborted")

\* do_commit that takes every exception for one after the fact.
DoCommit_Optimistic(o, r) == server' = r.sv /\ Finish(o, "committed")

\* basic_transaction, subtransaction and nontransaction.
DoCommit(o, r) ==
    LET in_doubt == tx[o].kind = "work" /\ (r.out = "unknown" \/ ~r.sv.open)
    IN  /\ server' = r.sv
        /\ CASE r.out = "ok" -> Finish(o, "committed")
             [] r.out # "ok" /\ in_doubt -> Threw(o, "in_doubt")
             [] OTHER -> Threw(o, "aborted")

\* basic_robusttransaction: the constraints, then COMMIT; a lost connection
\* at that point starts the questions.
DoRobustCommit(o) ==
    \E c \in Run(server, "READ", o) :
        IF c.out # "ok"
        THEN \E a \in DoAbort(o, c.sv, FALSE) : server' = a.sv /\ Threw(o, "aborted")
        ELSE \E r \in Run(c.sv, "COMMIT", o) :
                CASE r.out = "ok" ->
                        server' = r.sv /\ Finish(o, "committed")
                  [] r.out \in {"error", "unknown"} ->
                        \E a \in DoAbort(o, r.sv, FALSE) : server' = a.sv /\ Threw(o, "aborted")
                  [] r.out \in {"class08", "lost"} ->
                        /\ server' = r.sv
                        /\ tx' = [tx EXCEPT ![o].asked = 1]
                        /\ UNCHANGED current

CommitCommand(o) == IF tx[o].kind = "sub" THEN "RELEASE" ELSE "COMMIT"

Commit(o) ==
    /\ Live(o) /\ Allowed(o)
    /\ IF tx[o].pending
       THEN tx' = [tx EXCEPT ![o].pending = FALSE] /\ UNCHANGED <<current, server>>
       ELSE /\ tx[o].status = "active" /\ ~tx[o].focus /\ server.open
            /\ CASE tx[o].kind = "robust" -> DoRobustCommit(o)
                 [] tx[o].kind = "nontransaction" -> DoCommit(o, Reply(server, "ok"))
                 [] OTHER -> \E r \in Run(server, CommitCommand(o), o) : DoCommit(o, r)

\* One question of robusttransaction, over a connection of its own.
Attempt(o) ==
    /\ tx' = [tx EXCEPT ![o].asked = @ + 1]
    /\ UNCHANGED current

Ask(o) ==
    /\ tx[o].asked \in 1 .. Attempts
    /\ \/ /\ server.faults > 0                      \* cannot connect
          /\ server' = [server EXCEPT !.faults = @ - 1]
          /\ Attempt(o)
       \/ /\ server.fate[o] = "deciding"            \* in progress
          /\ Attempt(o) /\ UNCHANGED server
       \/ /\ server.fate[o] = "done"
          /\ tx' = [Closed(o, "committed") EXCEPT ![o].asked = 0]
          /\ current' = Unregistered(o)
          /\ UNCHANGED server
       \/ /\ server.fate[o] = "undone"
          /\ \E a \in DoAbort(o, server, FALSE) :
                /\ server' = a.sv
                /\ IF a.out = "lost"
                   THEN Attempt(o)
                   ELSE /\ tx' = [Closed(o, "committed") EXCEPT ![o].asked = 0]
                        /\ current' = Unregistered(o)
       \/ /\ server.faults > 0                      \* the question itself fails
          /\ server' = [server EXCEPT !.faults = @ - 1]
          /\ Threw(o, "aborted")

\* The questions without a limit on their number.
GiveUp_Never(o) ==
    /\ tx[o].asked > Attempts
    /\ tx' = [tx EXCEPT ![o].asked = 1]
    /\ UNCHANGED <<current, server>>

GiveUp(o) ==
    /\ tx[o].asked > Attempts
    /\ Threw(o, "in_doubt")
    /\ UNCHANGED server

Abort(o) ==
    /\ Live(o)
    /\ tx[o].status = "active"
    /\ Careful => \A c \in Children(o) : tx[c].status # "active"
    /\ \E r \in DoAbort(o, server, tx[o].pending) : server' = r.sv
    /\ Finish(o, "aborted")

\* The destructors: close(), which drops a pending error first, and aborts
\* what is still active.  Inner objects go before outer ones.
Destroy(o) ==
    /\ Live(o) /\ ~tx[o].focus /\ Children(o) = {}
    /\ \E r \in IF tx[o].status = "active" THEN DoAbort(o, server, FALSE) ELSE {Reply(server, "ok")} :
          server' = r.sv
    /\ tx' = [Closed(o, IF tx[o].status = "active" THEN "aborted" ELSE tx[o].status)
                EXCEPT ![o].alive = FALSE]
    /\ current' = Unregistered(o)

Done == (\A o \in Objects : tx[o] # Unborn /\ ~tx[o].alive) /\ UNCHANGED vars

Next ==
    \/ \E o \in Objects :
          \/ \E k \in Kinds : Refused(o, k)
          \/ ConstructNontransaction(o)
          \/ ConstructWork(o)
          \/ ConstructRobust(o)
          \/ \E p \in Objects : Nest(o, p)
          \/ Exec(o)
          \/ ExecParams(o)
          \/ OpenFocus(o)
          \/ CloseFocus(o)
          \/ Commit(o)
          \/ Ask(o)
          \/ GiveUp(o)
          \/ Abort(o)
          \/ Destroy(o)
    \/ ServerDecides
    \/ Done

\* commit() of a robusttransaction keeps running.
Spec == Init /\ [][Next]_vars /\ \A o \in Objects : WF_vars(Ask(o) \/ GiveUp(o))

-----------------------------------------------------------------------------
(* Properties.                                                             *)

\* The connection's pointer names the one live object that registered, and
\* never one that is gone: the next transaction is neither refused for a
\* dead one nor let in next to a live one.
RegistrationExact ==
    \A o \in Objects : (current = o) <=> (tx[o].alive /\ tx[o].registered)

\* A commit() that returned has made its effects definite.
CommittedIsDone ==
    \A o \in Objects :
        tx[o].status = "committed" /\ tx[o].kind \in {"work", "robust"} => server.fate[o] = "done"

\* Nothing of a transaction that was aborted, by abort(), by a failed
\* commit() or by the destructor, is ever committed: not by its parent
\* either, nor by the next transaction on the connection.
AbortedIsUndone ==
    \A o \in Objects :
        tx[o].status = "aborted" /\ tx[o].kind \in {"work", "sub"} => server.fate[o] # "done"

\* The status of a transaction means what its documentation says, whatever
\* failed on the way: what commit() returned for is in the database, and what
\* was aborted is not, also when a parent or a successor commits.
CommitIsDefinite == CommittedIsDone /\ AbortedIsUndone

\* A transaction that is over leaves the connection ready for the next: no
\* block stays open behind it.
NoBlockLeft ==
    (\A o \in Alive : tx[o].status # "active" /\ tx[o].asked = 0) /\ server.open
        => server.block = <<>>

\* "There can be only one main transaction going on on a connection at any
\* given time": registration is what keeps a second one out.
OneMainTransaction ==
    \A o, p \in Alive :
        /\ tx[o].kind # "sub" /\ tx[o].status = "active"
        /\ tx[p].kind # "sub" /\ tx[p].status = "active"
        => o = p

\* "While the subtransaction is live, you cannot execute queries [...] on its
\* parent transaction": such a call sends nothing.
ParentWaits ==
    [][\A o \in Objects :
          Exec(o) /\ (\E c \in Children(o) : tx[c].status = "active") => UNCHANGED server]_vars

Asking(o) == tx[o].asked > 0

\* commit() of a robusttransaction that lost its connection comes to an end.
RobustCommitEnds == \A o \in Objects : Asking(o) ~> ~Asking(o)
=============================================================================
