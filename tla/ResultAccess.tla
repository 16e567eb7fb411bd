---------------------------- MODULE ResultAccess ----------------------------
(***************************************************************************)
(* The checked ways into a result: indexing by number and by name, the     *)
(* questions about columns, the checks on the shape of a result, and the   *)
(* query functions of transaction_base that chain them (query_value(),     *)
(* query1(), query01(), query(), for_query() and the exec variants).       *)
(*                                                                         *)
(* A call ends in a value, in no value (an empty optional), or in an       *)
(* exception; the exception is named by its class.  home is the client's   *)
(* result object, which it may clear; own is the copy inside a row that    *)
(* the client took from it before; a row_ref still points to home.         *)
(***************************************************************************)
EXTENDS Integers

CONSTANTS
    MaxRows, MaxCols,
    Indices,          \* the row and column numbers the client asks for
    Arities           \* the numbers of fields the client asks for

ResultAccessAssumption ==
    /\ MaxRows \in Nat
    /\ MaxCols \in Nat
    /\ Indices \subseteq Int
    /\ Arities \subseteq Nat

VARIABLES
    home,   \* the result: is there data, its rows, its columns, and the
            \* columns that come straight from a table
    own,    \* the same, inside a row
    out     \* the last call, how it ended, and whether home had data then

vars == <<home, own, out>>

Cleared == [data |-> FALSE, rows |-> 0, cols |-> 0, plain |-> {}]

NoCall == [call |-> "none", arg |-> 0, end |-> "none", there |-> FALSE]

Init ==
    /\ home \in {[data |-> TRUE, rows |-> m, cols |-> n, plain |-> p] :
                    m \in 0 .. MaxRows, n \in 0 .. MaxCols,
                    p \in SUBSET (0 .. MaxCols - 1)}
    /\ home.plain \subseteq 0 .. home.cols - 1
    /\ own = home
    /\ out = NoCall

(* clear() in the middle.                                                  *)
Clear ==
    /\ home.data
    /\ home' = Cleared
    /\ UNCHANGED <<own, out>>

-----------------------------------------------------------------------------
(* What libpq answers about a column: nothing when there is no such one.   *)
Knows(r, j) == r.data /\ j \in 0 .. r.cols - 1

(* Indexing.                                                               *)
result_at(r, i) ==
    IF i < 0 \/ i >= r.rows THEN "range_error" ELSE "value"

result_at_field(r, i, j) ==
    IF i < 0 \/ i >= r.rows \/ j < 0 \/ j >= r.cols
    THEN "range_error" ELSE "value"

row_ref_at_loose(r, j) ==
    CASE j < 0       -> "usage_error"
      [] j > r.cols  -> "range_error"
      [] OTHER       -> "value"

row_ref_at(r, j) ==
    CASE j < 0       -> "usage_error"
      [] j >= r.cols -> "range_error"
      [] OTHER       -> "value"

row_at(r, j) == IF j >= r.cols THEN "range_error" ELSE "value"

(* Indexing by the name of column j: looked up first, and then unchecked.  *)
column_number(r, j) == IF Knows(r, j) THEN "value" ELSE "argument_error"

(* Questions about columns.                                                *)
column_name(r, j) ==
    CASE Knows(r, j) -> "value"
      [] ~r.data     -> "usage_error"
      [] OTHER       -> "range_error"

column_type(r, j) == IF Knows(r, j) THEN "value" ELSE "argument_error"

column_table(r, j) == IF j >= r.cols THEN "argument_error" ELSE "value"

table_column(r, j) ==
    CASE Knows(r, j) /\ j \in r.plain -> "value"
      [] j > r.cols                   -> "range_error"
      [] OTHER                        -> "usage_error"

column_storage(r, j) ==
    IF Knows(r, j) THEN "value"
    ELSE IF j < 0 \/ j >= r.rows THEN "argument_error" ELSE "failure"

(* Checks on the shape, and what they are chained into.                    *)
expect_rows(r, n) == IF r.rows # n THEN "unexpected_rows" ELSE "value"

check_one_row(r) == IF r.rows # 1 THEN "unexpected_rows" ELSE "value"

expect_columns(r, n) == IF r.cols # n THEN "usage_error" ELSE "value"

opt_row(r) ==
    CASE r.rows > 1 -> "unexpected_rows"
      [] r.rows = 1 -> "value"
      [] OTHER      -> "none"

Then(a, b) == IF a = "value" THEN b ELSE a

one_field(r) == Then(expect_columns(r, 1), check_one_row(r))

(* row_ref::as() checks the number of fields.                              *)
as_tuple(r, n) == expect_columns(r, n)

query_value(r) == Then(expect_columns(r, 1), one_field(r))

query1(r, n) == Then(check_one_row(r), as_tuple(r, n))

query1_checked(r, n) ==
    Then(expect_columns(r, n), Then(check_one_row(r), as_tuple(r, n)))

query01_any(r, n) == opt_row(r)

query01(r, n) == Then(opt_row(r), as_tuple(r, n))

for_query(r, n) == expect_columns(r, n)

query_n(r, m, n) == Then(expect_rows(r, m), expect_columns(r, n))

-----------------------------------------------------------------------------
Ends(call, arg, end) ==
    /\ out' = [call |-> call, arg |-> arg, end |-> end, there |-> home.data]
    /\ UNCHANGED <<home, own>>

(* at() on a result, through a row_ref to it and on a row of its own.      *)
Index ==
    \/ \E i \in Indices : Ends("result_at", i, result_at(home, i))
    \/ \E i, j \in Indices :
            Ends("result_at_field", <<i, j>>, result_at_field(home, i, j))
    \/ \E j \in Indices : Ends("row_ref_at", j, row_ref_at(home, j))
    \/ \E j \in Indices : Ends("row_at", j, row_at(own, j))
    \/ \E j \in Indices : Ends("row_ref_at", j, column_number(home, j))
    \/ \E j \in Indices : Ends("row_at", j, column_number(own, j))

Ask ==
    \E j \in Indices :
        \/ Ends("column_name", j, column_name(home, j))
        \/ Ends("column_type", j, column_type(home, j))
        \/ Ends("column_table", j, column_table(home, j))
        \/ Ends("table_column", j, table_column(home, j))
        \/ Ends("column_storage", j, column_storage(home, j))

(* A query and the checks on its result, which nobody else holds: as text, *)
(* with parameters, and as a prepared statement.                           *)
Query ==
    \/ \E m \in Arities : Ends("exec_n", m, expect_rows(own, m))
    \/ Ends("exec1", 1, check_one_row(own))
    \/ Ends("query_value", 1, one_field(own))
    \/ \E n \in Arities : Ends("query1", n, query1_checked(own, n))
    \/ \E n \in Arities : Ends("query01", n, query01(own, n))
    \/ \E n \in Arities : Ends("for_query", n, for_query(own, n))
    \/ \E m, n \in Arities : Ends("query_n", <<m, n>>, query_n(own, m, n))

QueryParams ==
    \/ \E m \in Arities : Ends("exec_n", m, expect_rows(own, m))
    \/ Ends("exec1", 1, check_one_row(own))
    \/ Ends("query_value", 1, query_value(own))
    \/ \E n \in Arities : Ends("query1", n, query1(own, n))
    \/ \E n \in Arities : Ends("query01", n, query01(own, n))
    \/ \E n \in Arities : Ends("for_query", n, for_query(own, n))
    \/ \E m, n \in Arities : Ends("query_n", <<m, n>>, query_n(own, m, n))

QueryPrepared ==
    \/ \E m \in Arities : Ends("exec_n", m, expect_rows(own, m))
    \/ Ends("exec1", 1, check_one_row(own))
    \/ Ends("query_value", 1, query_value(own))
    \/ \E n \in Arities : Ends("for_query", n, for_query(own, n))

Next ==
    \/ Clear
    \/ Index
    \/ Ask
    \/ Query
    \/ QueryParams
    \/ QueryPrepared

Spec == Init /\ [][Next]_vars

-----------------------------------------------------------------------------
(* row.hxx:159 and 542: "Address a field by number, but check that the     *)
(* number is in range".  A checked access that gives a value gives one     *)
(* that is in the result it reads, also after the client cleared its       *)
(* result.                                                                 *)
AccessInside ==
    out.end = "value" =>
        /\ out.call \in {"row_at", "row_ref_at"} =>
                out.arg \in 0 .. own.cols - 1
        /\ out.call = "result_at" => out.arg \in 0 .. own.rows - 1
        /\ out.call = "result_at_field" =>
                out.arg \in (0 .. own.rows - 1) \X (0 .. own.cols - 1)
        /\ out.call \in {"row_ref_at", "result_at", "result_at_field"} =>
                out.there

(* Metadata is only given of a column that the result has, and of none     *)
(* when it was cleared.                                                    *)
ColumnsInside ==
    (out.call \in {"column_name", "column_type", "column_table",
                   "table_column", "column_storage"} /\ out.end = "value") =>
        out.there /\ out.arg \in 0 .. own.cols - 1

(* Every path from a query to converted data has checked both the rows     *)
(* and the columns: a value is only produced from a result of the shape    *)
(* that the call stands for, and an exception names what was wrong.        *)
QueriesChecked ==
    LET wantsCols == out.call \in {"query_value", "query1", "query01",
                                   "for_query"}
        wantsOne  == out.call \in {"exec1", "query_value", "query1",
                                   "query01"} IN
    /\ (wantsCols /\ out.end = "value") => own.cols = out.arg
    /\ (wantsCols /\ out.end = "usage_error") => own.cols # out.arg
    /\ (wantsOne /\ out.end = "value") => own.rows = 1
    /\ (wantsOne /\ out.end = "unexpected_rows") => own.rows # 1
    /\ (out.call = "query01" /\ out.end = "none") => own.rows = 0
    /\ (out.call = "query_n" /\ out.end = "value") =>
            out.arg = <<own.rows, own.cols>>

(* transaction_base.hxx:518: query01() throws "usage_error If the number   *)
(* of columns in the result does not match the number of fields in the     *)
(* tuple".                                                                 *)
Query01Columns ==
    (out.call = "query01" /\ own.cols # out.arg) =>
        out.end \in {"usage_error", "unexpected_rows"}
=============================================================================
