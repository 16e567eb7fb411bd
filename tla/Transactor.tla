----------------------------- MODULE Transactor -----------------------------
(***************************************************************************)
(* pqxx::perform(): it runs a callback, which opens its own connection and *)
(* transaction, executes statements and commits, and runs it again after   *)
(* some exceptions.  The callback does what the documentation of           *)
(* failure::poisons_transaction() allows: it goes on after an exception    *)
(* that does not poison the transaction, and lets every other one out.     *)
(***************************************************************************)
EXTENDS Failures, Sequences

CONSTANTS
    SqlStates,      \* the SQLSTATEs a command may fail with
    MaxAttempts     \* the argument of perform

TransactorAssumption ==
    /\ MaxAttempts \in Nat \ {0}
    /\ \A s \in SqlStates : throw_sql_error(s) \in Classes

VARIABLES
    phase,      \* "running" the callback, "returned" or "threw"
    attempts,   \* the loop variable of perform
    failed,     \* the block of the callback's transaction has failed
    committed,  \* how often the work was committed
    thrown      \* the exception perform let out

vars == <<phase, attempts, failed, committed, thrown>>

Init ==
    /\ phase = "running"
    /\ attempts = MaxAttempts
    /\ failed = FALSE
    /\ committed = 0
    /\ thrown = NoBase

\* The catch clauses of perform, in order: the exceptions it passes on, then
\* those it runs the callback again for.
PassedOn == <<"in_doubt_error", "statement_completion_unknown", "protocol_violation">>
Retried == {"broken_connection", "transaction_rollback"}

\* A perform without its first three catch clauses.
Retries_Always(c) == \E b \in Retried \cup {"in_doubt_error"} : IsA(c, b)

Retries(c) ==
    /\ \A i \in DOMAIN PassedOn : ~IsA(c, PassedOn[i])
    /\ \E b \in Retried : IsA(c, b)

\* An exception leaves the callback; its transaction is destroyed.
Escapes(c) ==
    /\ failed' = FALSE
    /\ IF Retries(c) /\ attempts > 1
       THEN attempts' = attempts - 1 /\ UNCHANGED <<phase, thrown>>
       ELSE phase' = "threw" /\ thrown' = c /\ UNCHANGED attempts

\* A statement fails: the server marks the block as failed.
StatementFails(state) ==
    /\ phase = "running"
    /\ LET c == throw_sql_error(state)
       IN  IF poisons_transaction(c)
           THEN Escapes(c)
           ELSE failed' = TRUE /\ UNCHANGED <<phase, attempts, thrown>>
    /\ UNCHANGED committed

\* The connection breaks during a statement.
StatementLost ==
    /\ phase = "running"
    /\ Escapes("broken_connection")
    /\ UNCHANGED committed

\* COMMIT succeeds; a failed block is rolled back by it all the same.
CommitReturns ==
    /\ phase = "running"
    /\ committed' = IF failed THEN committed ELSE committed + 1
    /\ phase' = "returned"
    /\ UNCHANGED <<attempts, failed, thrown>>

\* What basic_transaction::do_commit makes of an exception from COMMIT.
CommitException(c, open) ==
    IF IsA(c, "statement_completion_unknown") \/ ~open THEN "in_doubt_error" ELSE c

\* COMMIT reports an error over a live connection.  The server has rolled
\* back, unless it says, or cannot say, that it does not know.
CommitFails(state) ==
    /\ phase = "running"
    /\ \E done \in IF state \in {NoState, <<"40", "003">>} THEN {0, 1} ELSE {0} :
          committed' = committed + done
    /\ Escapes(CommitException(throw_sql_error(state), TRUE))

\* The connection breaks during COMMIT.
CommitLost ==
    /\ phase = "running"
    /\ \E done \in {0, 1} : committed' = committed + done
    /\ Escapes(CommitException("broken_connection", FALSE))

Done == phase # "running" /\ UNCHANGED vars

Next ==
    \/ \E s \in SqlStates : StatementFails(s) \/ CommitFails(s)
    \/ StatementLost
    \/ CommitReturns
    \/ CommitLost
    \/ Done

Spec == Init /\ [][Next]_vars

-----------------------------------------------------------------------------
(* Properties.                                                             *)

\* The work of the callback is committed at most once, however often it was
\* run: perform stops "when there's an error that leaves the database in an
\* unknown state".
AtMostOnce == committed <= 1

\* perform returns exactly when the work is in the database: a callback that
\* goes on only after exceptions that do not poison its transaction never
\* commits a block that the server is going to roll back.
ReturnMeansCommitted == phase = "returned" => committed = 1

\* An exception from perform that does not announce doubt means that nothing
\* was committed.
ThrowMeansNothing ==
    phase = "threw" /\ thrown # "in_doubt_error" => committed = 0
=============================================================================
