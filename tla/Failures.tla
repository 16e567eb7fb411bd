------------------------------ MODULE Failures ------------------------------
(***************************************************************************)
(* libpqxx's exceptions: the class hierarchy, what each class says about   *)
(* the connection and the transaction it happened in, and the class that   *)
(* result::throw_sql_error chooses for an SQLSTATE.  An SQLSTATE is the    *)
(* pair of its class and the rest of it; the empty one is what libpq       *)
(* reports for an error the server knows nothing of.                       *)
(***************************************************************************)
EXTENDS Naturals

NoBase == "exception"

\* The direct base of each class.
GeneralErrors == [
    failure                        |-> NoBase,
    broken_connection              |-> "failure",
    version_mismatch               |-> "broken_connection",
    variable_set_to_null           |-> "failure",
    sql_error                      |-> "failure",
    protocol_violation             |-> "sql_error",
    in_doubt_error                 |-> "failure"]

RollbackErrors == [
    transaction_rollback           |-> "sql_error",
    serialization_failure          |-> "transaction_rollback",
    statement_completion_unknown   |-> "transaction_rollback",
    deadlock_detected              |-> "transaction_rollback"]

ClientErrors == [
    internal_error                 |-> "failure",
    usage_error                    |-> "failure",
    argument_error                 |-> "failure",
    conversion_error               |-> "failure",
    unexpected_null                |-> "conversion_error",
    conversion_overrun             |-> "conversion_error",
    range_error                    |-> "failure",
    unexpected_rows                |-> "range_error"]

ConstraintErrors == [
    feature_not_supported          |-> "sql_error",
    data_exception                 |-> "sql_error",
    integrity_constraint_violation |-> "sql_error",
    restrict_violation             |-> "integrity_constraint_violation",
    not_null_violation             |-> "integrity_constraint_violation",
    foreign_key_violation          |-> "integrity_constraint_violation",
    unique_violation               |-> "integrity_constraint_violation",
    check_violation                |-> "integrity_constraint_violation"]

StatementErrors == [
    invalid_cursor_state           |-> "sql_error",
    invalid_sql_statement_name     |-> "sql_error",
    invalid_cursor_name            |-> "sql_error",
    syntax_error                   |-> "sql_error",
    undefined_column               |-> "syntax_error",
    undefined_function             |-> "syntax_error",
    undefined_table                |-> "syntax_error",
    insufficient_privilege         |-> "sql_error"]

ServerErrors == [
    insufficient_resources         |-> "sql_error",
    disk_full                      |-> "insufficient_resources",
    server_out_of_memory           |-> "insufficient_resources",
    too_many_connections           |-> "broken_connection",
    plpgsql_error                  |-> "sql_error",
    plpgsql_raise                  |-> "plpgsql_error",
    plpgsql_no_data_found          |-> "plpgsql_error",
    plpgsql_too_many_rows          |-> "plpgsql_error"]

Classes ==
    DOMAIN GeneralErrors \cup DOMAIN RollbackErrors \cup DOMAIN ClientErrors
    \cup DOMAIN ConstraintErrors \cup DOMAIN StatementErrors \cup DOMAIN ServerErrors

Base == [c \in Classes |->
    CASE c \in DOMAIN GeneralErrors    -> GeneralErrors[c]
      [] c \in DOMAIN RollbackErrors   -> RollbackErrors[c]
      [] c \in DOMAIN ClientErrors     -> ClientErrors[c]
      [] c \in DOMAIN ConstraintErrors -> ConstraintErrors[c]
      [] c \in DOMAIN StatementErrors  -> StatementErrors[c]
      [] c \in DOMAIN ServerErrors     -> ServerErrors[c]]

\* A class and the classes it derives from, itself first.
Ancestry[c \in Classes] ==
    {c} \cup IF Base[c] = NoBase THEN {} ELSE Ancestry[Base[c]]

\* catch (b const &) takes an exception of class c.
IsA(c, b) == b \in Ancestry[c]

\* The classes that override poisons_connection() and
\* poisons_transaction(); all of them do so to return true.
PoisonsConnectionHere ==
    {"broken_connection", "protocol_violation", "in_doubt_error",
     "statement_completion_unknown", "internal_error", "feature_not_supported"}

PoisonsTransactionHere ==
    {"broken_connection", "sql_error", "protocol_violation", "in_doubt_error",
     "transaction_rollback", "serialization_failure", "internal_error",
     "usage_error", "feature_not_supported"}

poisons_connection(c) == Ancestry[c] \cap PoisonsConnectionHere # {}

poisons_transaction(c) == Ancestry[c] \cap PoisonsTransactionHere # {}

\* The classes that throw_sql_error knows by the first two characters, and
\* those it knows by the whole code.
BySqlClass == [c \in {"0A", "08", "0L", "0P", "22", "23", "24", "26", "34", "53", "P0"} |->
    CASE c = "0A" -> "feature_not_supported"
      [] c = "08" -> "broken_connection"
      [] c \in {"0L", "0P"} -> "insufficient_privilege"
      [] c = "22" -> "data_exception"
      [] c = "23" -> "integrity_constraint_violation"
      [] c = "24" -> "invalid_cursor_state"
      [] c = "26" -> "invalid_sql_statement_name"
      [] c = "34" -> "invalid_cursor_name"
      [] c = "53" -> "insufficient_resources"
      [] c = "P0" -> "plpgsql_error"]

ByCode ==
    {<<"08", "P01", "protocol_violation">>,
     <<"23", "001", "restrict_violation">>,
     <<"23", "502", "not_null_violation">>,
     <<"23", "503", "foreign_key_violation">>,
     <<"23", "505", "unique_violation">>,
     <<"23", "514", "check_violation">>,
     <<"40", "000", "transaction_rollback">>,
     <<"40", "001", "serialization_failure">>,
     <<"40", "003", "statement_completion_unknown">>,
     <<"40", "P01", "deadlock_detected">>,
     <<"42", "501", "insufficient_privilege">>,
     <<"42", "601", "syntax_error">>,
     <<"42", "703", "undefined_column">>,
     <<"42", "883", "undefined_function">>,
     <<"42", "P01", "undefined_table">>,
     <<"53", "100", "disk_full">>,
     <<"53", "200", "server_out_of_memory">>,
     <<"53", "300", "too_many_connections">>,
     <<"P0", "001", "plpgsql_raise">>,
     <<"P0", "002", "plpgsql_no_data_found">>,
     <<"P0", "003", "plpgsql_too_many_rows">>}

NoState == <<"", "">>

throw_sql_error(state) ==
    LET exact == {k \in ByCode : <<k[1], k[2]>> = state}
    IN  CASE state = NoState -> "broken_connection"
          [] exact # {} -> (CHOOSE k \in exact : TRUE)[3]
          [] exact = {} /\ state[1] \in DOMAIN BySqlClass -> BySqlClass[state[1]]
          [] OTHER -> "sql_error"
=============================================================================
