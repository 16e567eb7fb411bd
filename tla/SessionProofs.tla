--------------------------- MODULE SessionProofs ----------------------------
(***************************************************************************)
(* The parts of a session, one section each: for every value of the        *)
(* constants, what MCSession states of them on a small instance.  Large    *)
(* objects are in TransactionProofs.                                       *)
(*                                                                         *)
(* A section has the invariant of its part, the lemma that the part's      *)
(* steps keep it, and the theorem, which says the same of every behaviour  *)
(* of the run.  A step of the run in one part is a step of that part or    *)
(* leaves its variables alone.                                             *)
(***************************************************************************)
EXTENDS MCSession, FiniteSetTheorems, SequenceTheorems, TLAPS

\* The part that a behaviour of MCSession belongs to never changes.
LEMMA PartStays == [RunNext]_runVars => part' = part
  BY DEF RunNext, runVars, partVars, Keep

-----------------------------------------------------------------------------
(***************************************************************************)
(* Ways into a result.  The row's own result is as it was made, and the    *)
(* program's is the same or has been cleared.                              *)
(***************************************************************************)
Results == [data : {TRUE}, rows : Nat, cols : Nat, plain : SUBSET Nat]

AccHomes ==
  /\ v2 \in Results
  /\ v2.plain \subseteq 0 .. v2.cols - 1
  /\ v1 = v2 \/ v1 = Acc!Cleared

AccInv == AccHomes /\ Acc!AccessInside /\ Acc!ColumnsInside /\ Acc!QueriesChecked

ColumnCalls ==
  {"column_name", "column_type", "column_table", "table_column", "column_storage"}

\* What a call c about a that ends in e tells of the results as they are.
Truthful(c, a, e) ==
  /\ e = "value" =>
        /\ c = "row_at" => a \in 0 .. v2.cols - 1
        /\ c = "row_ref_at" => v1.data = TRUE /\ a \in 0 .. v2.cols - 1
        /\ c = "result_at" => v1.data = TRUE /\ a \in 0 .. v2.rows - 1
        /\ c = "result_at_field" => v1.data = TRUE /\ a \in (0 .. v2.rows - 1) \X (0 .. v2.cols - 1)
        /\ c \in ColumnCalls => v1.data = TRUE /\ a \in 0 .. v2.cols - 1
        /\ c \in {"query_value", "query1", "query01", "for_query"} => v2.cols = a
        /\ c \in {"exec1", "query_value", "query1", "query01"} => v2.rows = 1
        /\ c = "query_n" => a = <<v2.rows, v2.cols>>
  /\ e = "usage_error" =>
        (c \in {"query_value", "query1", "query01", "for_query"} => v2.cols # a)
  /\ e = "unexpected_rows" =>
        (c \in {"exec1", "query_value", "query1", "query01"} => v2.rows # 1)
  /\ e = "none" => (c = "query01" => v2.rows = 0)

LEMMA AccEnds ==
  ASSUME AccHomes, NEW c, NEW a, NEW e, Acc!Ends(c, a, e), Truthful(c, a, e)
  PROVE  AccInv'
<1>1. v1' = v1 /\ v2' = v2 /\ v3' = [call |-> c, arg |-> a, end |-> e, there |-> v1.data]
  BY DEF Acc!Ends
<1>2. v3'.call = c /\ v3'.arg = a /\ v3'.end = e /\ v3'.there = v1.data
  BY <1>1
<1>3. AccHomes'
  BY <1>1 DEF AccHomes, Acc!Cleared
<1>4. Acc!AccessInside'
  BY <1>1, <1>2 DEF Acc!AccessInside, Truthful
<1>5. Acc!ColumnsInside'
  BY <1>1, <1>2 DEF Acc!ColumnsInside, Truthful, ColumnCalls
<1>6. Acc!QueriesChecked'
  BY <1>1, <1>2 DEF Acc!QueriesChecked, Truthful
<1> QED
  BY <1>3, <1>4, <1>5, <1>6 DEF AccInv

\* A cleared result has neither data nor rows nor columns.
LEMMA AccFacts ==
  ASSUME AccHomes
  PROVE  /\ v1.rows \in Nat /\ v1.cols \in Nat /\ v2.rows \in Nat /\ v2.cols \in Nat
         /\ v1.rows > 0 \/ v1.cols > 0 => v1.data = TRUE
         /\ v1.data = TRUE => v1.rows = v2.rows /\ v1.cols = v2.cols
         /\ v1.data = FALSE => v1.rows = 0 /\ v1.cols = 0
<1>1. CASE v1 = v2
  BY <1>1 DEF AccHomes, Results
<1>2. CASE v1 = Acc!Cleared
  BY <1>2 DEF AccHomes, Results, Acc!Cleared
<1> QED
  BY <1>1, <1>2 DEF AccHomes

\* Every checked way in tells the truth.
LEMMA AccIndex ==
  ASSUME AccHomes, NEW i \in Nat, NEW j \in Nat
  PROVE  /\ Truthful("result_at", i, Acc!result_at(v1, i))
         /\ Truthful("result_at_field", <<i, j>>, Acc!result_at_field(v1, i, j))
         /\ Truthful("row_ref_at", j, Acc!row_ref_at(v1, j))
         /\ Truthful("row_at", j, Acc!row_at(v2, j))
         /\ Truthful("row_ref_at", j, Acc!column_number(v1, j))
         /\ Truthful("row_at", j, Acc!column_number(v2, j))
<1>f. /\ v1.rows \in Nat /\ v1.cols \in Nat /\ v2.rows \in Nat /\ v2.cols \in Nat
      /\ v1.rows > 0 \/ v1.cols > 0 => v1.data = TRUE
      /\ v1.data = TRUE => v1.rows = v2.rows /\ v1.cols = v2.cols
  BY AccFacts
<1> USE <1>f DEF Truthful, ColumnCalls
<1>1. Truthful("result_at", i, Acc!result_at(v1, i))
  BY DEF Acc!result_at
<1>2. Truthful("result_at_field", <<i, j>>, Acc!result_at_field(v1, i, j))
  BY DEF Acc!result_at_field
<1>3. Truthful("row_ref_at", j, Acc!row_ref_at(v1, j))
  BY DEF Acc!row_ref_at
<1>4. Truthful("row_at", j, Acc!row_at(v2, j))
  BY DEF Acc!row_at
<1>5. Truthful("row_ref_at", j, Acc!column_number(v1, j))
  BY DEF Acc!column_number, Acc!Knows
<1>6. Truthful("row_at", j, Acc!column_number(v2, j))
  BY DEF Acc!column_number, Acc!Knows
<1> QED
  BY <1>1, <1>2, <1>3, <1>4, <1>5, <1>6

LEMMA AccAsk ==
  ASSUME AccHomes, NEW j \in Nat
  PROVE  /\ Truthful("column_name", j, Acc!column_name(v1, j))
         /\ Truthful("column_type", j, Acc!column_type(v1, j))
         /\ Truthful("column_table", j, Acc!column_table(v1, j))
         /\ Truthful("table_column", j, Acc!table_column(v1, j))
         /\ Truthful("column_storage", j, Acc!column_storage(v1, j))
<1>f. /\ v1.rows \in Nat /\ v1.cols \in Nat /\ v2.rows \in Nat /\ v2.cols \in Nat
      /\ v1.rows > 0 \/ v1.cols > 0 => v1.data = TRUE
      /\ v1.data = TRUE => v1.rows = v2.rows /\ v1.cols = v2.cols
  BY AccFacts
<1> USE <1>f DEF Truthful, ColumnCalls, Acc!Knows
<1>1. Truthful("column_name", j, Acc!column_name(v1, j))
  BY DEF Acc!column_name
<1>2. Truthful("column_type", j, Acc!column_type(v1, j))
  BY DEF Acc!column_type
<1>3. Truthful("column_table", j, Acc!column_table(v1, j))
  BY DEF Acc!column_table
<1>4. Truthful("table_column", j, Acc!table_column(v1, j))
  BY DEF Acc!table_column
<1>5. Truthful("column_storage", j, Acc!column_storage(v1, j))
  BY DEF Acc!column_storage
<1> QED
  BY <1>1, <1>2, <1>3, <1>4, <1>5

LEMMA AccQueries ==
  ASSUME AccHomes, NEW m \in Nat, NEW n \in Nat
  PROVE  /\ Truthful("exec_n", m, Acc!expect_rows(v2, m))
         /\ Truthful("exec1", 1, Acc!check_one_row(v2))
         /\ Truthful("query_value", 1, Acc!one_field(v2))
         /\ Truthful("query_value", 1, Acc!query_value(v2))
         /\ Truthful("query1", n, Acc!query1_checked(v2, n))
         /\ Truthful("query1", n, Acc!query1(v2, n))
         /\ Truthful("query01", n, Acc!query01(v2, n))
         /\ Truthful("for_query", n, Acc!for_query(v2, n))
         /\ Truthful("query_n", <<m, n>>, Acc!query_n(v2, m, n))
<1>f. /\ v1.rows \in Nat /\ v1.cols \in Nat /\ v2.rows \in Nat /\ v2.cols \in Nat
      /\ v1.rows > 0 \/ v1.cols > 0 => v1.data = TRUE
      /\ v1.data = TRUE => v1.rows = v2.rows /\ v1.cols = v2.cols
  BY AccFacts
<1> USE <1>f DEF Truthful, ColumnCalls, Acc!Then, Acc!expect_columns,
        Acc!expect_rows, Acc!check_one_row
<1>1. Truthful("exec_n", m, Acc!expect_rows(v2, m)) /\ Truthful("exec1", 1, Acc!check_one_row(v2))
  OBVIOUS
<1>2. Truthful("query_value", 1, Acc!one_field(v2))
  BY DEF Acc!one_field
<1>3. Truthful("query_value", 1, Acc!query_value(v2))
  BY DEF Acc!query_value, Acc!one_field
<1>4. Truthful("query1", n, Acc!query1_checked(v2, n))
  BY DEF Acc!query1_checked, Acc!as_tuple
<1>5. Truthful("query1", n, Acc!query1(v2, n))
  BY DEF Acc!query1, Acc!as_tuple
<1>6. Truthful("query01", n, Acc!query01(v2, n))
  BY DEF Acc!query01, Acc!opt_row, Acc!as_tuple
<1>7. Truthful("for_query", n, Acc!for_query(v2, n))
  BY DEF Acc!for_query
<1>8. Truthful("query_n", <<m, n>>, Acc!query_n(v2, m, n))
  BY DEF Acc!query_n
<1> QED
  BY <1>1, <1>2, <1>3, <1>4, <1>5, <1>6, <1>7, <1>8

LEMMA AccStep ==
  ASSUME Indices \subseteq Nat, Arities \subseteq Nat, AccInv, [Acc!Next]_(Acc!vars)
  PROVE  AccInv'
<1>1. CASE Acc!Clear
  BY <1>1 DEF Acc!Clear, AccInv, AccHomes, Acc!AccessInside, Acc!ColumnsInside,
     Acc!QueriesChecked
<1>2. ASSUME UNCHANGED Acc!vars
      PROVE  AccInv'
  BY <1>2 DEF Acc!vars, AccInv, AccHomes, Acc!Cleared, Acc!AccessInside, Acc!ColumnsInside,
     Acc!QueriesChecked
<1>3. AccHomes /\ Indices \subseteq Nat /\ Arities \subseteq Nat
  BY DEF AccInv
<1>4. CASE Acc!Index
  BY <1>3, <1>4, AccEnds, AccIndex DEF Acc!Index
<1>5. CASE Acc!Ask
  BY <1>3, <1>5, AccEnds, AccAsk DEF Acc!Ask
<1>6. CASE Acc!Query
  BY <1>3, <1>6, AccEnds, AccQueries DEF Acc!Query
<1>7. CASE Acc!QueryParams
  BY <1>3, <1>7, AccEnds, AccQueries DEF Acc!QueryParams
<1>8. CASE Acc!QueryPrepared
  BY <1>3, <1>8, AccEnds, AccQueries DEF Acc!QueryPrepared
<1> QED
  BY <1>1, <1>2, <1>4, <1>5, <1>6, <1>7, <1>8 DEF Acc!Next

\* row.hxx:159 and result.hxx:284: at() "check[s] that the number is in range".
\* A checked access to a result that returns, by a number from 0, is inside of
\* it; metadata is given of existing columns only, and the query functions
\* return only results of the shape they stand for, whatever the size of the
\* result and whenever it is cleared.
THEOREM SessionAccessInside ==
  ASSUME Indices \subseteq Nat, Arities \subseteq Nat
  PROVE  RunSpec => []AccessInside
<1> DEFINE Inv == part = "access" => AccInv
<1>1. RunInit => Inv
  <2> SUFFICES ASSUME Acc!Init
               PROVE  AccInv
    BY DEF RunInit
  <2>1. MaxRows \in Nat /\ MaxCols \in Nat
    BY SessionAssumption DEF Acc!ResultAccessAssumption
  <2>2. PICK m \in 0 .. MaxRows, n \in 0 .. MaxCols, p \in SUBSET (0 .. MaxCols - 1) :
           v1 = [data |-> TRUE, rows |-> m, cols |-> n, plain |-> p]
    BY DEF Acc!Init
  <2>3. AccHomes
    BY <2>1, <2>2 DEF Acc!Init, AccHomes, Results
  <2>4. v3.call = "none" /\ v3.end = "none"
    BY DEF Acc!Init, Acc!NoCall
  <2> QED
    BY <2>3, <2>4 DEF AccInv, Acc!AccessInside, Acc!ColumnsInside, Acc!QueriesChecked
<1>2. Inv /\ [RunNext]_runVars => Inv'
  <2>1. part = "access" /\ [RunNext]_runVars => [Acc!Next]_(Acc!vars)
    BY DEF RunNext, runVars, partVars, Acc!vars
  <2> QED
    BY <2>1, PartStays, AccStep
<1>3. Inv => AccessInside
  BY DEF AccInv, AccessInside
<1> QED
  BY <1>1, <1>2, <1>3, PTL DEF RunSpec


-----------------------------------------------------------------------------
(***************************************************************************)
(* Iterators and loops.                                                    *)
(***************************************************************************)

\* The forward iterator is within the result, and the reverse one is where the
\* client counts it to be.
Position ==
  /\ v1 \in Nat
  /\ v2 \in 0 .. v1 /\ v4 \in 0 .. v1
  /\ v3 = v1 - 1 - v4

\* A loop on its way has shown the rows up to its own; one that is over has
\* shown them all.  What it shows of a result that was cleared is not counted.
LoopSoFar ==
  /\ v5 \in [kind : {"none", "iter", "for_each"}, index : Nat, home : BOOLEAN]
  /\ v6 \in BOOLEAN /\ v7 \in Seq(Int)
  /\ v6 \/ v5.kind # "for_each" => \A k \in 1 .. Len(v7) : v7[k] = k - 1
  /\ v5.kind = "none" => v5 = Iter!NoLoop /\ v7 = <<>>
  /\ v5.home => v5.index < v1 /\ Len(v7) = v5.index + 1
  /\ v5.kind # "none" /\ ~v5.home => Len(v7) = v1

IterInv == Position /\ LoopSoFar

LEMMA IterInit == Iter!Init => IterInv
<1> SUFFICES ASSUME Iter!Init
             PROVE  IterInv
  OBVIOUS
<1>1. v1 \in Nat /\ v2 = 0 /\ v4 = 0 /\ v3 = v1 - 1
  BY SessionAssumption DEF Iter!Init, Iter!ResultIteratorsAssumption
<1>2. v5 = Iter!NoLoop /\ v6 = TRUE /\ v7 = <<>>
  BY DEF Iter!Init
<1>3. Iter!NoLoop \in [kind : {"none", "iter", "for_each"}, index : Nat, home : BOOLEAN]
      /\ Iter!NoLoop.kind = "none" /\ ~Iter!NoLoop.home
  BY DEF Iter!NoLoop
<1> QED
  BY <1>1, <1>2, <1>3 DEF IterInv, Position, LoopSoFar

\* A loop shows one row more.
LEMMA OneRowMore ==
  ASSUME NEW rows_shown \in Seq(Int), NEW x \in Int,
         \A k \in 1 .. Len(rows_shown) : rows_shown[k] = k - 1
  PROVE  /\ Append(rows_shown, x) \in Seq(Int)
         /\ Len(Append(rows_shown, x)) = Len(rows_shown) + 1
         /\ x = Len(rows_shown) =>
              \A k \in 1 .. Len(Append(rows_shown, x)) : Append(rows_shown, x)[k] = k - 1
  OBVIOUS

LEMMA IterStep ==
  ASSUME IterInv, Iter!Next \/ UNCHANGED partVars
  PROVE  IterInv'
<1>0. -MaxRows .. MaxRows \subseteq Int
  BY SessionAssumption DEF Iter!ResultIteratorsAssumption
<1> USE DEF IterInv
<1>1. ASSUME NEW n \in -MaxRows .. MaxRows, Iter!Forward(n)
      PROVE  IterInv'
  <2>1. v2' \in 0 .. v1 /\ v1' = v1 /\ v3' = v3 /\ v4' = v4 /\ v5' = v5 /\ v6' = v6 /\ v7' = v7
    BY <1>1 DEF Iter!Forward, Iter!Plus, Iter!begin, Iter!end
  <2> QED
    BY <2>1 DEF Position, LoopSoFar
<1>2. ASSUME NEW n \in -MaxRows .. MaxRows, Iter!Backward(n)
      PROVE  IterInv'
  <2>1. /\ v4 + n \in 0 .. v1 /\ v4' = v4 + n /\ v3' = v3 - n
        /\ v1' = v1 /\ v2' = v2 /\ v5' = v5 /\ v6' = v6 /\ v7' = v7
    BY <1>2 DEF Iter!Backward, Iter!RStep, Iter!Minus
  <2>2. v3' = v1' - 1 - v4'
    BY <1>0, <2>1 DEF Position
  <2> QED
    BY <2>1, <2>2 DEF Position, LoopSoFar
<1>3. CASE Iter!Turn
  <2>1. v3' = v2 - 1 /\ v4' = v1 - v2 /\ v1' = v1 /\ v2' = v2 /\ v5' = v5 /\ v6' = v6 /\ v7' = v7
    BY <1>3 DEF Iter!Turn, Iter!Reversed, Iter!Minus, Iter!end
  <2> QED
    BY <2>1 DEF Position, LoopSoFar
<1>4. CASE Iter!TurnBack
  <2>1. v2' = v3 + 1 /\ v1' = v1 /\ v3' = v3 /\ v4' = v4 /\ v5' = v5 /\ v6' = v6 /\ v7' = v7
    BY <1>4 DEF Iter!TurnBack, Iter!base, Iter!Plus
  <2> QED
    BY <2>1 DEF Position, LoopSoFar
<1>5. ASSUME NEW kind \in {"iter", "for_each"}, Iter!BeginIter(kind)
      PROVE  IterInv'
  <2>1. /\ v7 = <<>> /\ v6
        /\ v5' = [kind |-> kind, index |-> 0, home |-> v1 # 0]
        /\ v7' = IF v1 = 0 THEN v7 ELSE <<0>>
        /\ v1' = v1 /\ v2' = v2 /\ v3' = v3 /\ v4' = v4 /\ v6' = v6
    BY <1>5 DEF Iter!BeginIter, Iter!Shown
  <2>2. /\ v5' \in [kind : {"none", "iter", "for_each"}, index : Nat, home : BOOLEAN]
        /\ v5'.kind # "none" /\ v5'.index = 0 /\ (v5'.home <=> v1 # 0)
    BY <2>1
  <2>3. v7' \in Seq(Int) /\ Len(v7') = (IF v1 = 0 THEN 0 ELSE 1) /\ (v1 # 0 => v7'[1] = 0)
    BY <2>1
  <2>4. v1 # 0 => 0 < v1
    BY DEF Position
  <2> QED
    BY <2>1, <2>2, <2>3, <2>4 DEF Position, LoopSoFar
<1>6. CASE Iter!Advance
  <2>1. v5.home /\ v1' = v1 /\ v2' = v2 /\ v3' = v3 /\ v4' = v4 /\ v6' = v6
    BY <1>6 DEF Iter!Advance
  <2>2. /\ v5.kind \in {"none", "iter", "for_each"} /\ v5.index \in Nat /\ v5.kind # "none"
        /\ v5.index < v1 /\ Len(v7) = v5.index + 1 /\ v7 \in Seq(Int) /\ v6 \in BOOLEAN
        /\ v1 \in Nat
    BY <2>1 DEF LoopSoFar, Position, Iter!NoLoop
  <2>3. Position'
    BY <2>1 DEF Position
  <2>4. CASE v5.index + 1 >= v1
    <3>1. v5' = [v5 EXCEPT !.index = v5.index + 1, !.home = FALSE] /\ v7' = v7
      BY <1>6, <2>4 DEF Iter!Advance, Iter!Past
    <3>2. /\ v5' \in [kind : {"none", "iter", "for_each"}, index : Nat, home : BOOLEAN]
          /\ v5'.kind = v5.kind /\ ~v5'.home
      <4>1. v5 = [kind |-> v5.kind, index |-> v5.index, home |-> v5.home]
        BY DEF LoopSoFar
      <4>2. v5' = [kind |-> v5.kind, index |-> v5.index + 1, home |-> FALSE]
        BY <3>1, <4>1
      <4> QED
        BY <2>2, <4>2
    <3>3. Len(v7) = v1
      BY <2>2, <2>4
    <3> QED
      BY <2>1, <2>2, <2>3, <3>1, <3>2, <3>3 DEF LoopSoFar
  <2>5. CASE ~(v5.index + 1 >= v1)
    <3> DEFINE x == Iter!Shown(v5.index + 1, v6 \/ ~Iter!SharesSource(v5.kind))
    <3>1. v5' = [v5 EXCEPT !.index = v5.index + 1] /\ v7' = Append(v7, x)
      BY <1>6, <2>5 DEF Iter!Advance, Iter!Past
    <3>2. /\ v5' \in [kind : {"none", "iter", "for_each"}, index : Nat, home : BOOLEAN]
          /\ v5'.kind = v5.kind /\ v5'.home /\ v5'.index = v5.index + 1
      BY <2>1, <2>2, <3>1 DEF LoopSoFar
    <3>3. x \in Int /\ (v6 \/ v5.kind # "for_each" => x = Len(v7))
      <4>1. CASE v6 \/ v5.kind # "for_each"
        <5>1. x = v5.index + 1
          BY <4>1 DEF Iter!Shown, Iter!SharesSource
        <5> QED
          BY <2>2, <5>1
      <4>2. CASE ~(v6 \/ v5.kind # "for_each")
        <5>1. x = -1
          BY <4>2 DEF Iter!Shown, Iter!SharesSource, Iter!Null
        <5> QED
          BY <4>2, <5>1
      <4> QED
        BY <4>1, <4>2
    <3> HIDE DEF x
    <3>4. v7' \in Seq(Int) /\ Len(v7') = Len(v7) + 1
      BY <2>2, <3>1, <3>3
    <3>5. v6' \/ v5'.kind # "for_each" => \A k \in 1 .. Len(v7') : v7'[k] = k - 1
      BY <2>1, <2>2, <3>1, <3>2, <3>3, OneRowMore DEF LoopSoFar
    <3>6. v5'.index < v1
      BY <2>2, <2>5, <3>2
    <3> QED
      BY <2>1, <2>2, <2>3, <3>2, <3>4, <3>5, <3>6 DEF LoopSoFar
  <2> QED
    BY <2>4, <2>5
<1>7. CASE Iter!ClearSource
  <2>1. /\ v5.home /\ v6' = FALSE
        /\ v1' = v1 /\ v2' = v2 /\ v3' = v3 /\ v4' = v4 /\ v5' = v5 /\ v7' = v7
    BY <1>7 DEF Iter!ClearSource
  <2> QED
    BY <2>1 DEF Position, LoopSoFar
<1>8. CASE UNCHANGED partVars
  BY <1>8 DEF partVars, Position, LoopSoFar
<1> QED
  BY <1>1, <1>2, <1>3, <1>4, <1>5, <1>6, <1>7, <1>8 DEF Iter!Next

\* However a reverse iterator was moved, made or turned, it shows the element
\* that the client counted back to, and so does every iterator computed from
\* it, a subscript included; a loop hands over every row once and in order.
THEOREM SessionIteratorsExact == RunSpec => []IteratorsExact
<1> DEFINE Good == part = "iterators" => IterInv
<1>1. RunInit => Good
  BY IterInit DEF RunInit
<1>2. Good /\ [RunNext]_runVars => Good'
  <2> SUFFICES ASSUME IterInv, part = "iterators", [RunNext]_runVars
               PROVE  IterInv'
    BY PartStays
  <2>1. Iter!Next \/ UNCHANGED partVars
    BY DEF RunNext, runVars, partVars
  <2> QED
    BY <2>1, IterStep
<1>3. Good => IteratorsExact
  <2> SUFFICES ASSUME IterInv
               PROVE  /\ Iter!ReverseMirrors /\ Iter!ReverseOrder
                      /\ Iter!SubscriptIsStep /\ Iter!LoopExact
    BY DEF IteratorsExact
  <2>1. v1 \in Nat /\ v2 \in Int /\ v4 \in Int /\ v3 = v1 - 1 - v4
    BY DEF IterInv, Position
  <2>2. \A n \in Iter!Ahead : n \in Int
    BY SessionAssumption DEF Iter!Ahead, Iter!Steps, Iter!ResultIteratorsAssumption
  <2>3. Iter!ReverseMirrors
    BY <2>1, <2>2 DEF Iter!ReverseMirrors, Iter!RPlus, Iter!RMinus, Iter!base, Iter!Reversed,
       Iter!Plus, Iter!Minus
  <2>4. Iter!ReverseOrder
    BY <2>1, <2>2 DEF Iter!ReverseOrder, Iter!RDistance, Iter!Distance, Iter!RLess,
       Iter!RPlus, Iter!base, Iter!Reversed, Iter!Plus, Iter!Minus, Iter!rbegin, Iter!rend,
       Iter!begin, Iter!end
  <2>5. Iter!SubscriptIsStep
    BY DEF Iter!SubscriptIsStep, Iter!RAt
  <2>6. Iter!LoopExact
    BY DEF IterInv, LoopSoFar, Iter!LoopExact, Iter!SharesSource
  <2> QED
    BY <2>3, <2>4, <2>5, <2>6
<1> QED
  BY <1>1, <1>2, <1>3, PTL DEF RunSpec
-----------------------------------------------------------------------------
(***************************************************************************)
(* perform() and the exceptions it tells apart.                            *)
(***************************************************************************)

\* What Ancestry is defined to be a fixed point of.
UpFrom(f) ==
  [c \in Retry!Classes |->
     {c} \cup IF Retry!Base[c] = Retry!NoBase THEN {} ELSE f[Retry!Base[c]]]

\* The classes with at most one, two and three others above them.
Low1 == {c \in Retry!Classes : Retry!Base[c] = Retry!NoBase}
Low2 == Low1 \cup {c \in Retry!Classes : Retry!Base[c] \in Low1}
Low3 == Low2 \cup {c \in Retry!Classes : Retry!Base[c] \in Low2}

\* The hierarchy is four classes deep.
LEMMA FourDeep == \A c \in Retry!Classes : c \in Low3 \/ Retry!Base[c] \in Low3
<1> USE DEF Retry!Classes, Retry!Base, Retry!GeneralErrors, Retry!RollbackErrors,
        Retry!ClientErrors, Retry!ConstraintErrors, Retry!StatementErrors, Retry!ServerErrors
<1>1. "failure" \in Low1
  BY DEF Low1, Retry!NoBase
<1>2. {"broken_connection", "variable_set_to_null", "sql_error", "in_doubt_error",
       "internal_error", "usage_error", "argument_error", "conversion_error", "range_error"}
      \subseteq Low2
  BY <1>1 DEF Low2
<1>3. {"version_mismatch", "protocol_violation", "transaction_rollback", "unexpected_null",
       "conversion_overrun", "unexpected_rows", "feature_not_supported", "data_exception",
       "integrity_constraint_violation", "syntax_error", "insufficient_resources",
       "plpgsql_error"}
      \subseteq Low3
  BY <1>2 DEF Low3
<1>4. Low1 \subseteq Low2 /\ Low2 \subseteq Low3
  BY DEF Low2, Low3
<1> QED
  BY <1>1, <1>2, <1>3, <1>4

LEMMA AncestryIs == Retry!Ancestry = UpFrom(Retry!Ancestry)
<1> DEFINE A0 == [c \in Retry!Classes |-> {}]
           A1 == UpFrom(A0)
           A2 == UpFrom(A1)
           A3 == UpFrom(A2)
           A4 == UpFrom(A3)
<1> HIDE DEF A0, A1, A2, A3, A4
<1>1. \A c \in Low1 : A2[c] = A1[c]
  BY DEF A1, A2, Low1, UpFrom
<1>2. \A c \in Low2 : A3[c] = A2[c]
  BY <1>1 DEF A1, A2, A3, Low1, Low2, UpFrom
<1>3. \A c \in Low3 : A4[c] = A3[c]
  BY <1>1, <1>2 DEF A2, A3, A4, Low1, Low2, Low3, UpFrom
<1>4. \A c \in Retry!Classes : UpFrom(A4)[c] = A4[c]
  <2>1. \A c \in Retry!Classes :
           Retry!Base[c] = Retry!NoBase \/ A4[Retry!Base[c]] = A3[Retry!Base[c]]
    BY <1>3, FourDeep DEF Low1, Low2, Low3
  <2> QED
    BY <2>1 DEF A4, UpFrom
<1>5. A4 = UpFrom(A4)
  <2>1. A4 = [c \in Retry!Classes |-> A4[c]]
    BY DEF A4, UpFrom
  <2>2. UpFrom(A4) = [c \in Retry!Classes |-> UpFrom(A4)[c]]
    BY DEF UpFrom
  <2> QED
    BY <1>4, <2>1, <2>2, Zenon
<1>6. Retry!Ancestry = CHOOSE f : f = UpFrom(f)
  BY DEF Retry!Ancestry, UpFrom
<1> QED
  BY <1>5, <1>6

\* An exception is of its own class and of every class above it.
LEMMA IsAUp ==
  ASSUME NEW c \in Retry!Classes
  PROVE  /\ Retry!IsA(c, c)
         /\ Retry!Base[c] # Retry!NoBase =>
              \A b : Retry!IsA(Retry!Base[c], b) => Retry!IsA(c, b)
<1>1. Retry!Ancestry[c] =
        {c} \cup IF Retry!Base[c] = Retry!NoBase THEN {} ELSE Retry!Ancestry[Retry!Base[c]]
  BY AncestryIs DEF UpFrom
<1> QED
  BY <1>1 DEF Retry!IsA

\* Whatever class throw_sql_error chooses, it poisons the transaction.
LEMMA SqlErrorsPoison ==
  ASSUME NEW s \in SqlStates
  PROVE  Retry!poisons_transaction(Retry!throw_sql_error(s))
<1> DEFINE Poison == {c \in Retry!Classes : Retry!poisons_transaction(c)}
<1>1. \A c \in Retry!Classes : c \in Retry!PoisonsTransactionHere => c \in Poison
  BY IsAUp DEF Retry!poisons_transaction, Retry!IsA
<1>2. \A c \in Retry!Classes :
         Retry!Base[c] \in Poison /\ Retry!Base[c] # Retry!NoBase => c \in Poison
  BY IsAUp DEF Retry!poisons_transaction, Retry!IsA
<1> HIDE DEF Poison
<1> DEFINE Chosen ==
      {"broken_connection", "sql_error"} \cup {k[3] : k \in Retry!ByCode}
      \cup {Retry!BySqlClass[c] : c \in DOMAIN Retry!BySqlClass}
<1>3. Retry!throw_sql_error(s) \in Chosen
  BY DEF Retry!throw_sql_error
<1>4. Chosen \subseteq
        {"broken_connection", "sql_error", "feature_not_supported", "insufficient_privilege",
         "data_exception", "integrity_constraint_violation", "invalid_cursor_state",
         "invalid_sql_statement_name", "invalid_cursor_name", "insufficient_resources",
         "plpgsql_error", "protocol_violation", "restrict_violation", "not_null_violation",
         "foreign_key_violation", "unique_violation", "check_violation",
         "transaction_rollback", "serialization_failure", "statement_completion_unknown",
         "deadlock_detected", "syntax_error", "undefined_column", "undefined_function",
         "undefined_table", "disk_full", "server_out_of_memory", "too_many_connections",
         "plpgsql_raise", "plpgsql_no_data_found", "plpgsql_too_many_rows"}
  BY DEF Retry!ByCode, Retry!BySqlClass
<1> HIDE DEF Chosen
<1> USE DEF Retry!Classes, Retry!Base, Retry!GeneralErrors, Retry!RollbackErrors, Retry!NoBase,
        Retry!ClientErrors, Retry!ConstraintErrors, Retry!StatementErrors, Retry!ServerErrors
<1>5. {"broken_connection", "sql_error", "feature_not_supported", "protocol_violation",
       "transaction_rollback", "serialization_failure"} \subseteq Poison
  BY <1>1 DEF Retry!PoisonsTransactionHere
<1>6. {"insufficient_privilege", "data_exception", "integrity_constraint_violation",
       "invalid_cursor_state", "invalid_sql_statement_name", "invalid_cursor_name",
       "insufficient_resources", "plpgsql_error", "statement_completion_unknown",
       "deadlock_detected", "syntax_error", "too_many_connections"} \subseteq Poison
  BY <1>2, <1>5
<1>7. {"restrict_violation", "not_null_violation", "foreign_key_violation", "unique_violation",
       "check_violation", "undefined_column", "undefined_function", "undefined_table",
       "disk_full", "server_out_of_memory", "plpgsql_raise", "plpgsql_no_data_found",
       "plpgsql_too_many_rows"} \subseteq Poison
  BY <1>2, <1>6
<1> QED
  BY <1>3, <1>4, <1>5, <1>6, <1>7 DEF Poison

\* What says that nobody knows becomes in_doubt_error, and is passed on.
LEMMA DoubtPassedOn ==
  /\ Retry!CommitException(Retry!throw_sql_error(<<"40", "003">>), TRUE) = "in_doubt_error"
  /\ Retry!CommitException("broken_connection", FALSE) = "in_doubt_error"
  /\ ~Retry!Retries("in_doubt_error")
<1>1. {"in_doubt_error", "statement_completion_unknown"} \subseteq Retry!Classes
  BY DEF Retry!Classes, Retry!GeneralErrors, Retry!RollbackErrors
<1>2. Retry!throw_sql_error(<<"40", "003">>) = "statement_completion_unknown"
  <2> DEFINE exact == {k \in Retry!ByCode : <<k[1], k[2]>> = <<"40", "003">>}
  <2>1. exact = {<<"40", "003", "statement_completion_unknown">>}
    BY DEF Retry!ByCode
  <2>2. Retry!NoState # <<"40", "003">>
    BY DEF Retry!NoState
  <2>3. exact # {} /\ \A k \in exact : k[3] = "statement_completion_unknown"
    <3> DEFINE unknown == <<"40", "003", "statement_completion_unknown">>
    <3>1. unknown[3] = "statement_completion_unknown"
      OBVIOUS
    <3> HIDE DEF unknown, exact
    <3>2. exact = {unknown}
      BY <2>1 DEF unknown
    <3> QED
      BY <3>1, <3>2
  <2>4. (CHOOSE k \in exact : TRUE)[3] = "statement_completion_unknown"
    <3> HIDE DEF exact
    <3>1. (CHOOSE k \in exact : TRUE) \in exact
      BY <2>3
    <3> QED
      BY <2>3, <3>1
  <2>5. ASSUME NEW st, st # Retry!NoState, {k \in Retry!ByCode : <<k[1], k[2]>> = st} # {}
        PROVE  Retry!throw_sql_error(st)
                 = (CHOOSE k \in {k \in Retry!ByCode : <<k[1], k[2]>> = st} : TRUE)[3]
    BY <2>5 DEF Retry!throw_sql_error
  <2>6. Retry!throw_sql_error(<<"40", "003">>) = (CHOOSE k \in exact : TRUE)[3]
    BY <2>2, <2>3, <2>5, Zenon
  <2> QED
    BY <2>4, <2>6, Zenon
<1>3. ~Retry!Retries("in_doubt_error")
  <2>1. Retry!IsA("in_doubt_error", Retry!PassedOn[1]) /\ 1 \in DOMAIN Retry!PassedOn
    BY <1>1, IsAUp DEF Retry!PassedOn
  <2> QED
    BY <2>1 DEF Retry!Retries
<1> QED
  BY <1>1, <1>2, <1>3, IsAUp DEF Retry!CommitException

\* No block has failed, since every error of a statement leaves the callback;
\* and nothing is committed while perform() may still run the callback again.
RetryInv ==
  /\ v1 \in {"running", "returned", "threw"}
  /\ v3 = FALSE
  /\ v4 \in {0, 1}
  /\ v1 = "running" => v4 = 0
  /\ v1 = "returned" => v4 = 1
  /\ v1 = "threw" /\ v5 # "in_doubt_error" => v4 = 0

LEMMA RetryStep ==
  ASSUME Retry!NoState \notin SqlStates, RetryInv, [Retry!Next]_(Retry!vars)
  PROVE  RetryInv'
<1>1. ASSUME NEW c, Retry!Escapes(c), v1 = "running", v4' = v4 \/ c = "in_doubt_error",
             v4' \in {0, 1}
      PROVE  RetryInv'
  <2>1. CASE Retry!Retries(c)
    BY <1>1, <2>1, DoubtPassedOn DEF Retry!Escapes, RetryInv
  <2>2. CASE ~Retry!Retries(c)
    BY <1>1, <2>2 DEF Retry!Escapes, RetryInv
  <2> QED
    BY <2>1, <2>2
<1>2. ASSUME NEW s \in SqlStates, Retry!StatementFails(s)
      PROVE  RetryInv'
  BY <1>1, <1>2, SqlErrorsPoison DEF Retry!StatementFails, RetryInv
<1>3. CASE Retry!StatementLost
  BY <1>1, <1>3 DEF Retry!StatementLost, RetryInv
<1>4. CASE Retry!CommitReturns
  BY <1>4 DEF Retry!CommitReturns, RetryInv
<1>5. ASSUME NEW s \in SqlStates, Retry!CommitFails(s)
      PROVE  RetryInv'
  <2> DEFINE c == Retry!CommitException(Retry!throw_sql_error(s), TRUE)
  <2>1. Retry!Escapes(c) /\ v1 = "running" /\ v4 = 0
    BY <1>5 DEF Retry!CommitFails, RetryInv
  <2>2. v4' = v4 \/ s = <<"40", "003">>
    BY <1>5, <2>1 DEF Retry!CommitFails
  <2>3. v4' \in {0, 1}
    BY <1>5, <2>1 DEF Retry!CommitFails
  <2>4. s = <<"40", "003">> => c = "in_doubt_error"
    BY DoubtPassedOn
  <2> HIDE DEF c
  <2> QED
    BY <1>1, <2>1, <2>2, <2>3, <2>4
<1>6. CASE Retry!CommitLost
  <2>1. /\ Retry!Escapes("in_doubt_error") /\ v1 = "running"
        /\ \E done \in {0, 1} : v4' = v4 + done
    BY <1>6, DoubtPassedOn DEF Retry!CommitLost
  <2>2. v4' \in {0, 1}
    BY <2>1 DEF RetryInv
  <2> QED
    BY <1>1, <2>1, <2>2
<1>7. CASE UNCHANGED Retry!vars
  BY <1>7 DEF Retry!vars, RetryInv
<1> QED
  BY <1>2, <1>3, <1>4, <1>5, <1>6, <1>7 DEF Retry!Next, Retry!Done

\* transactor.hxx:57: perform() stops "when there's an error that leaves the
\* database in an unknown state".  However many attempts it has, and whichever
\* SQLSTATEs the server reports, it commits the work of one run when it
\* returns, and of none when it throws, unless it throws in_doubt_error; and
\* never of two.  Every error that comes over a live connection is supposed to
\* have an SQLSTATE.
THEOREM SessionOneOutcome ==
  ASSUME Retry!NoState \notin SqlStates
  PROVE  RunSpec => []OneOutcome
<1> DEFINE Inv == part = "transactor" => RetryInv
<1>1. RunInit => Inv
  BY DEF RunInit, Retry!Init, RetryInv
<1>2. Inv /\ [RunNext]_runVars => Inv'
  <2>1. part = "transactor" /\ [RunNext]_runVars => [Retry!Next]_(Retry!vars)
    BY DEF RunNext, runVars, partVars, Retry!vars
  <2> QED
    BY <2>1, PartStays, RetryStep
<1>3. Inv => OneOutcome
  BY DEF RetryInv, OneOutcome, Retry!AtMostOnce, Retry!ReturnMeansCommitted,
     Retry!ThrowMeansNothing
<1> QED
  BY <1>1, <1>2, <1>3, PTL DEF RunSpec

-----------------------------------------------------------------------------
(***************************************************************************)
(* Ranges, over values that have points between them, below and above.     *)
(***************************************************************************)
Dense ==
  /\ \A a, b \in Value : a < b => \E p \in Point : a < p /\ p < b
  /\ \A a \in Value : \E p, q \in Point : p < a /\ a < q

\* The kind and the value of a bound, and what it lets in.
LEMMA Bounds ==
  ASSUME NEW b \in Rng!Bound
  PROVE  /\ b.kind \in {"none", "inclusive", "exclusive"}
         /\ b.value \in Value /\ b.value \in Int /\ b.value \in Point
         /\ b.kind = "none" => b = Rng!no_bound
<1>1. CASE b = Rng!no_bound
  BY <1>1, SessionAssumption DEF Rng!no_bound, Rng!RangeAssumption
<1>2. CASE b \in [kind : {"inclusive", "exclusive"}, value : Value]
  BY <1>2, SessionAssumption DEF Rng!RangeAssumption
<1> QED
  BY <1>1, <1>2 DEF Rng!Bound

LEMMA LetsIn ==
  ASSUME NEW b \in Rng!Bound, NEW p \in Point
  PROVE  /\ p \in Int
         /\ Rng!extends_down_to(b, p) <=> \/ b.kind = "none"
                                          \/ b.kind = "inclusive" /\ b.value <= p
                                          \/ b.kind = "exclusive" /\ b.value < p
         /\ Rng!extends_up_to(b, p) <=> \/ b.kind = "none"
                                        \/ b.kind = "inclusive" /\ p <= b.value
                                        \/ b.kind = "exclusive" /\ p < b.value
<1>1. p \in Int
  BY SessionAssumption DEF Rng!RangeAssumption
<1>2. b.kind \in {"none", "inclusive", "exclusive"} /\ b.value \in Int
  BY Bounds
<1>3. CASE b.kind = "none"
  BY <1>3, <1>1 DEF Rng!extends_down_to, Rng!extends_up_to
<1>4. CASE b.kind = "inclusive"
  BY <1>4, <1>1, <1>2 DEF Rng!extends_down_to, Rng!extends_up_to
<1>5. CASE b.kind = "exclusive"
  BY <1>5, <1>1, <1>2 DEF Rng!extends_down_to, Rng!extends_up_to
<1> QED
  BY <1>2, <1>3, <1>4, <1>5

\* Two bounds that are not the same are told apart by a point that is not above
\* what both let in, when they are lower bounds,
LEMMA LowerTold ==
  ASSUME Dense, NEW a \in Rng!Bound, NEW b \in Rng!Bound, ~Rng!same_bound(a, b)
  PROVE  \E q \in Point :
            /\ ~(Rng!extends_down_to(a, q) <=> Rng!extends_down_to(b, q))
            /\ \A p \in Point : Rng!extends_down_to(a, p) /\ Rng!extends_down_to(b, p) => q <= p
<1>0. /\ a.kind \in {"none", "inclusive", "exclusive"} /\ a.value \in Int
      /\ b.kind \in {"none", "inclusive", "exclusive"} /\ b.value \in Int
      /\ a.value \in Value /\ b.value \in Value /\ a.value \in Point
  BY Bounds
<1>1. \A p \in Point :
         /\ p \in Int
         /\ Rng!extends_down_to(a, p) <=> \/ a.kind = "none"
                                          \/ a.kind = "inclusive" /\ a.value <= p
                                          \/ a.kind = "exclusive" /\ a.value < p
         /\ Rng!extends_down_to(b, p) <=> \/ b.kind = "none"
                                          \/ b.kind = "inclusive" /\ b.value <= p
                                          \/ b.kind = "exclusive" /\ b.value < p
  BY LetsIn
<1> USE <1>0, <1>1
<1>2. CASE a.kind = "none"
  <2>1. b.kind # "none"
    BY <1>2 DEF Rng!same_bound, Rng!is_limited
  <2>2. PICK q \in Point : q < b.value
    BY DEF Dense
  <2> QED
    BY <1>2, <2>1, <2>2
<1>3. CASE b.kind = "none"
  <2>1. a.kind # "none"
    BY <1>3 DEF Rng!same_bound, Rng!is_limited
  <2>2. PICK q \in Point : q < a.value
    BY DEF Dense
  <2> QED
    BY <1>3, <2>1, <2>2
<1>4. CASE a.kind # "none" /\ b.kind # "none" /\ a.value < b.value
  <2>1. PICK q \in Point : a.value < q /\ q < b.value
    BY <1>4 DEF Dense
  <2> QED
    BY <1>4, <2>1
<1>5. CASE a.kind # "none" /\ b.kind # "none" /\ b.value < a.value
  <2>1. PICK q \in Point : b.value < q /\ q < a.value
    BY <1>5 DEF Dense
  <2> QED
    BY <1>5, <2>1
<1>6. CASE a.kind # "none" /\ b.kind # "none" /\ b.value = a.value
  <2>1. a.kind # b.kind
    BY <1>6 DEF Rng!same_bound, Rng!is_limited, Rng!is_inclusive
  <2>2. ~(Rng!extends_down_to(a, a.value) <=> Rng!extends_down_to(b, a.value))
    BY <1>6, <2>1
  <2>3. \A p \in Point : Rng!extends_down_to(a, p) => a.value <= p
    BY <1>6
  <2> QED
    BY <2>2, <2>3
<1> QED
  BY <1>2, <1>3, <1>4, <1>5, <1>6

\* and by one that is not below, when they are upper bounds.
LEMMA UpperTold ==
  ASSUME Dense, NEW a \in Rng!Bound, NEW b \in Rng!Bound, ~Rng!same_bound(a, b)
  PROVE  \E q \in Point :
            /\ ~(Rng!extends_up_to(a, q) <=> Rng!extends_up_to(b, q))
            /\ \A p \in Point : Rng!extends_up_to(a, p) /\ Rng!extends_up_to(b, p) => p <= q
<1>0. /\ a.kind \in {"none", "inclusive", "exclusive"} /\ a.value \in Int
      /\ b.kind \in {"none", "inclusive", "exclusive"} /\ b.value \in Int
      /\ a.value \in Value /\ b.value \in Value /\ a.value \in Point
  BY Bounds
<1>1. \A p \in Point :
         /\ p \in Int
         /\ Rng!extends_up_to(a, p) <=> \/ a.kind = "none"
                                        \/ a.kind = "inclusive" /\ p <= a.value
                                        \/ a.kind = "exclusive" /\ p < a.value
         /\ Rng!extends_up_to(b, p) <=> \/ b.kind = "none"
                                        \/ b.kind = "inclusive" /\ p <= b.value
                                        \/ b.kind = "exclusive" /\ p < b.value
  BY LetsIn
<1> USE <1>0, <1>1
<1>2. CASE a.kind = "none"
  <2>1. b.kind # "none"
    BY <1>2 DEF Rng!same_bound, Rng!is_limited
  <2>2. PICK q \in Point : b.value < q
    BY DEF Dense
  <2> QED
    BY <1>2, <2>1, <2>2
<1>3. CASE b.kind = "none"
  <2>1. a.kind # "none"
    BY <1>3 DEF Rng!same_bound, Rng!is_limited
  <2>2. PICK q \in Point : a.value < q
    BY DEF Dense
  <2> QED
    BY <1>3, <2>1, <2>2
<1>4. CASE a.kind # "none" /\ b.kind # "none" /\ a.value < b.value
  <2>1. PICK q \in Point : a.value < q /\ q < b.value
    BY <1>4 DEF Dense
  <2> QED
    BY <1>4, <2>1
<1>5. CASE a.kind # "none" /\ b.kind # "none" /\ b.value < a.value
  <2>1. PICK q \in Point : b.value < q /\ q < a.value
    BY <1>5 DEF Dense
  <2> QED
    BY <1>5, <2>1
<1>6. CASE a.kind # "none" /\ b.kind # "none" /\ b.value = a.value
  <2>1. a.kind # b.kind
    BY <1>6 DEF Rng!same_bound, Rng!is_limited, Rng!is_inclusive
  <2>2. ~(Rng!extends_up_to(a, a.value) <=> Rng!extends_up_to(b, a.value))
    BY <1>6, <2>1
  <2>3. \A p \in Point : Rng!extends_up_to(a, p) => p <= a.value
    BY <1>6
  <2> QED
    BY <2>2, <2>3
<1> QED
  BY <1>2, <1>3, <1>4, <1>5, <1>6

\* Bounds let in everything above or below what they let in.
LEMMA Monotone ==
  ASSUME NEW b \in Rng!Bound, NEW p \in Point, NEW q \in Point, p <= q
  PROVE  /\ Rng!extends_down_to(b, p) => Rng!extends_down_to(b, q)
         /\ Rng!extends_up_to(b, q) => Rng!extends_up_to(b, p)
<1>1. b.kind \in {"none", "inclusive", "exclusive"} /\ b.value \in Int
  BY Bounds
<1>2. p \in Int /\ q \in Int
  BY LetsIn
<1> QED
  BY <1>1, <1>2, LetsIn

\* empty() tells whether a range has no points.
LEMMA EmptyTells ==
  ASSUME Dense, NEW x \in Rng!Ranges
  PROVE  Rng!empty(x) <=> Rng!Points(x) = {}
<1> DEFINE lo == x.lower
           up == x.upper
<1>1. lo \in Rng!Bound /\ up \in Rng!Bound /\ ~Rng!Inverted(lo, up)
  BY DEF Rng!Ranges
<1>2. /\ lo.kind \in {"none", "inclusive", "exclusive"} /\ lo.value \in Int
      /\ up.kind \in {"none", "inclusive", "exclusive"} /\ up.value \in Int
      /\ lo.value \in Value /\ up.value \in Value /\ lo.value \in Point
  BY <1>1, Bounds
<1>3. \A p \in Point :
         /\ p \in Int
         /\ p \in Rng!Points(x) <=> /\ \/ lo.kind = "none"
                                       \/ lo.kind = "inclusive" /\ lo.value <= p
                                       \/ lo.kind = "exclusive" /\ lo.value < p
                                    /\ \/ up.kind = "none"
                                       \/ up.kind = "inclusive" /\ p <= up.value
                                       \/ up.kind = "exclusive" /\ p < up.value
  BY <1>1, LetsIn DEF Rng!Points, Rng!contains_value
<1>4. Rng!empty(x) <=> /\ lo.kind = "exclusive" \/ up.kind = "exclusive"
                       /\ lo.kind # "none" /\ up.kind # "none"
                       /\ ~(lo.value < up.value)
  BY DEF Rng!empty, Rng!is_exclusive, Rng!is_limited
<1>5. lo.kind # "none" /\ up.kind # "none" => lo.value <= up.value
  BY <1>1, <1>2 DEF Rng!Inverted, Rng!is_limited
<1>6. Rng!Points(x) \subseteq Point
  BY DEF Rng!Points
<1> HIDE DEF lo, up
<1> USE <1>2, <1>3
<1>7. CASE Rng!empty(x)
  BY <1>4, <1>5, <1>6, <1>7
<1>8. CASE ~Rng!empty(x)
  <2>1. \E q \in Point : q \in Rng!Points(x)
    <3>1. CASE lo.kind = "none"
      <4>1. PICK q \in Point : q < up.value
        BY DEF Dense
      <4> QED
        BY <3>1, <4>1
    <3>2. CASE up.kind = "none"
      <4>1. PICK q \in Point : lo.value < q
        BY DEF Dense
      <4> QED
        BY <3>2, <4>1
    <3>3. CASE lo.kind # "none" /\ up.kind # "none" /\ lo.value < up.value
      <4>1. PICK q \in Point : lo.value < q /\ q < up.value
        BY <3>3 DEF Dense
      <4> QED
        BY <3>3, <4>1
    <3>4. CASE lo.kind = "inclusive" /\ up.kind = "inclusive" /\ lo.value = up.value
      BY <3>4
    <3> QED
      BY <1>4, <1>5, <1>8, <3>1, <3>2, <3>3, <3>4
  <2> QED
    BY <1>8, <2>1
<1> QED
  BY <1>7, <1>8

\* Ranges are compared by their points.
LEMMA SameTells ==
  ASSUME Dense, NEW x \in Rng!Ranges, NEW y \in Rng!Ranges
  PROVE  Rng!same_range(x, y) <=> Rng!Points(x) = Rng!Points(y)
<1>1. /\ x.lower \in Rng!Bound /\ x.upper \in Rng!Bound
      /\ y.lower \in Rng!Bound /\ y.upper \in Rng!Bound
  BY DEF Rng!Ranges
<1>2. /\ \A p \in Point : p \in Rng!Points(x) <=>
             Rng!extends_down_to(x.lower, p) /\ Rng!extends_up_to(x.upper, p)
      /\ \A p \in Point : p \in Rng!Points(y) <=>
             Rng!extends_down_to(y.lower, p) /\ Rng!extends_up_to(y.upper, p)
      /\ Rng!Points(x) \subseteq Point /\ Rng!Points(y) \subseteq Point
  BY DEF Rng!Points, Rng!contains_value
<1>3. ASSUME NEW a \in Rng!Bound, NEW b \in Rng!Bound, Rng!same_bound(a, b), NEW p \in Point
      PROVE  /\ Rng!extends_down_to(a, p) <=> Rng!extends_down_to(b, p)
             /\ Rng!extends_up_to(a, p) <=> Rng!extends_up_to(b, p)
  BY <1>3, Bounds, LetsIn DEF Rng!same_bound, Rng!is_limited, Rng!is_inclusive
<1>4. CASE Rng!empty(x) \/ Rng!empty(y)
  <2>1. Rng!same_bound(x.lower, y.lower) /\ Rng!same_bound(x.upper, y.upper)
        => Rng!Points(x) = Rng!Points(y)
    BY <1>1, <1>2, <1>3
  <2> QED
    BY <1>4, <2>1, EmptyTells DEF Rng!same_range
<1>5. CASE ~Rng!empty(x) /\ ~Rng!empty(y)
  <2>1. Rng!same_bound(x.lower, y.lower) /\ Rng!same_bound(x.upper, y.upper)
        => Rng!Points(x) = Rng!Points(y)
    BY <1>1, <1>2, <1>3
  <2>2. ASSUME Rng!Points(x) = Rng!Points(y)
        PROVE  Rng!same_bound(x.lower, y.lower) /\ Rng!same_bound(x.upper, y.upper)
    <3>1. PICK p \in Point : p \in Rng!Points(x) /\ p \in Rng!Points(y)
      BY <1>2, <1>5, <2>2, EmptyTells
    <3>2. ASSUME ~Rng!same_bound(x.lower, y.lower)
          PROVE  FALSE
      <4>1. PICK q \in Point :
              /\ ~(Rng!extends_down_to(x.lower, q) <=> Rng!extends_down_to(y.lower, q))
              /\ q <= p
        BY <1>1, <1>2, <3>1, <3>2, LowerTold
      <4>2. Rng!extends_up_to(x.upper, q) /\ Rng!extends_up_to(y.upper, q)
        BY <1>1, <1>2, <3>1, <4>1, Monotone
      <4> QED
        BY <1>2, <2>2, <4>1, <4>2
    <3>3. ASSUME ~Rng!same_bound(x.upper, y.upper)
          PROVE  FALSE
      <4>1. PICK q \in Point :
              /\ ~(Rng!extends_up_to(x.upper, q) <=> Rng!extends_up_to(y.upper, q))
              /\ p <= q
        BY <1>1, <1>2, <3>1, <3>3, UpperTold
      <4>2. Rng!extends_down_to(x.lower, q) /\ Rng!extends_down_to(y.lower, q)
        BY <1>1, <1>2, <3>1, <4>1, Monotone
      <4> QED
        BY <1>2, <2>2, <4>1, <4>2
    <3> QED
      BY <3>2, <3>3
  <2> QED
    BY <1>5, <2>1, <2>2 DEF Rng!same_range
<1> QED
  BY <1>4, <1>5

\* The range that stands for all that are empty.
LEMMA EmptyRangeIs ==
  /\ Rng!EmptyRange \in Rng!Ranges
  /\ Rng!Points(Rng!EmptyRange) = {}
<1> DEFINE zero == [kind |-> "exclusive", value |-> 0]
<1>1. zero \in Rng!Bound
  BY SessionAssumption DEF Rng!RangeAssumption, Rng!Bound
<1>2. Rng!EmptyRange = [lower |-> zero, upper |-> zero]
  BY DEF Rng!EmptyRange
<1>3. ~Rng!Inverted(zero, zero)
  BY DEF Rng!Inverted
<1>4. \A p \in Point : ~(Rng!extends_down_to(zero, p) /\ Rng!extends_up_to(zero, p))
  <2>1. zero.kind = "exclusive" /\ zero.value = 0
    OBVIOUS
  <2> HIDE DEF zero
  <2> QED
    BY <1>1, <2>1, LetsIn
<1> QED
  BY <1>1, <1>2, <1>3, <1>4 DEF Rng!Ranges, Rng!Points, Rng!contains_value

\* An intersection is a range, and has the points of both.
LEMMA IntersectionTells ==
  ASSUME NEW x \in Rng!Ranges, NEW y \in Rng!Ranges
  PROVE  /\ Rng!intersection(x, y) \in Rng!Ranges
         /\ Rng!Points(Rng!intersection(x, y)) = Rng!Points(x) \cap Rng!Points(y)
<1> DEFINE lo == Rng!HigherOf(x.lower, y.lower)
           up == Rng!LowerOf(x.upper, y.upper)
<1>0. Point \subseteq Int
  BY SessionAssumption DEF Rng!RangeAssumption
<1>1. /\ x.lower \in Rng!Bound /\ x.upper \in Rng!Bound
      /\ y.lower \in Rng!Bound /\ y.upper \in Rng!Bound
  BY DEF Rng!Ranges
<1>2. lo \in Rng!Bound /\ up \in Rng!Bound
  BY <1>1 DEF Rng!HigherOf, Rng!LowerOf
<1>3. ASSUME NEW a \in Rng!Bound, NEW b \in Rng!Bound, NEW p \in Point
      PROVE  /\ Rng!extends_down_to(Rng!HigherOf(a, b), p) <=>
                  Rng!extends_down_to(a, p) /\ Rng!extends_down_to(b, p)
             /\ Rng!extends_up_to(Rng!LowerOf(a, b), p) <=>
                  Rng!extends_up_to(a, p) /\ Rng!extends_up_to(b, p)
  <2>1. /\ a.kind \in {"none", "inclusive", "exclusive"} /\ a.value \in Int
        /\ b.kind \in {"none", "inclusive", "exclusive"} /\ b.value \in Int /\ p \in Int
    BY <1>0, Bounds
  <2>4. /\ Rng!extends_down_to(a, p) <=> \/ a.kind = "none"
                                         \/ a.kind = "inclusive" /\ a.value <= p
                                         \/ a.kind = "exclusive" /\ a.value < p
        /\ Rng!extends_down_to(b, p) <=> \/ b.kind = "none"
                                         \/ b.kind = "inclusive" /\ b.value <= p
                                         \/ b.kind = "exclusive" /\ b.value < p
        /\ Rng!extends_up_to(a, p) <=> \/ a.kind = "none"
                                       \/ a.kind = "inclusive" /\ p <= a.value
                                       \/ a.kind = "exclusive" /\ p < a.value
        /\ Rng!extends_up_to(b, p) <=> \/ b.kind = "none"
                                       \/ b.kind = "inclusive" /\ p <= b.value
                                       \/ b.kind = "exclusive" /\ p < b.value
    BY LetsIn
  <2> USE <2>1, <2>4
  <2>2. Rng!extends_down_to(Rng!HigherOf(a, b), p) <=>
           Rng!extends_down_to(a, p) /\ Rng!extends_down_to(b, p)
    <3>1. CASE a.kind = "none"
      <4>1. Rng!HigherOf(a, b) = b
        BY <3>1 DEF Rng!HigherOf, Rng!is_limited
      <4> QED
        BY <3>1, <4>1
    <3>2. CASE b.kind = "none"
      <4>1. Rng!HigherOf(a, b) = IF a.kind = "none" THEN b ELSE a
        BY <3>2 DEF Rng!HigherOf, Rng!is_limited
      <4> QED
        BY <3>2, <4>1
    <3>3. CASE a.kind # "none" /\ b.kind # "none" /\ a.value < b.value
      <4>1. Rng!HigherOf(a, b) = b
        BY <3>3 DEF Rng!HigherOf, Rng!is_limited
      <4> QED
        BY <3>3, <4>1
    <3>4. CASE a.kind # "none" /\ b.kind # "none" /\ b.value < a.value
      <4>1. Rng!HigherOf(a, b) = a
        BY <3>4 DEF Rng!HigherOf, Rng!is_limited
      <4> QED
        BY <3>4, <4>1
    <3>5. CASE a.kind # "none" /\ b.kind # "none" /\ a.value = b.value
      <4>1. Rng!HigherOf(a, b) = IF a.kind = "exclusive" THEN a ELSE b
        BY <3>5 DEF Rng!HigherOf, Rng!is_limited, Rng!is_exclusive
      <4> QED
        BY <3>5, <4>1
    <3> QED
      BY <3>1, <3>2, <3>3, <3>4, <3>5
  <2>3. Rng!extends_up_to(Rng!LowerOf(a, b), p) <=>
           Rng!extends_up_to(a, p) /\ Rng!extends_up_to(b, p)
    <3>1. CASE a.kind = "none"
      <4>1. Rng!LowerOf(a, b) = b
        BY <3>1 DEF Rng!LowerOf, Rng!is_limited
      <4> QED
        BY <3>1, <4>1
    <3>2. CASE b.kind = "none"
      <4>1. Rng!LowerOf(a, b) = IF a.kind = "none" THEN b ELSE a
        BY <3>2 DEF Rng!LowerOf, Rng!is_limited
      <4> QED
        BY <3>2, <4>1
    <3>3. CASE a.kind # "none" /\ b.kind # "none" /\ a.value < b.value
      <4>1. Rng!LowerOf(a, b) = a
        BY <3>3 DEF Rng!LowerOf, Rng!is_limited
      <4> QED
        BY <3>3, <4>1
    <3>4. CASE a.kind # "none" /\ b.kind # "none" /\ b.value < a.value
      <4>1. Rng!LowerOf(a, b) = b
        BY <3>4 DEF Rng!LowerOf, Rng!is_limited
      <4> QED
        BY <3>4, <4>1
    <3>5. CASE a.kind # "none" /\ b.kind # "none" /\ a.value = b.value
      <4>1. Rng!LowerOf(a, b) = IF a.kind = "exclusive" THEN a ELSE b
        BY <3>5 DEF Rng!LowerOf, Rng!is_limited, Rng!is_exclusive
      <4> QED
        BY <3>5, <4>1
    <3> QED
      BY <3>1, <3>2, <3>3, <3>4, <3>5
  <2> QED
    BY <2>2, <2>3
<1>4. \A p \in Point : p \in Rng!Points(x) \cap Rng!Points(y) <=>
                         Rng!extends_down_to(lo, p) /\ Rng!extends_up_to(up, p)
  <2> SUFFICES ASSUME NEW p \in Point
               PROVE  p \in Rng!Points(x) \cap Rng!Points(y) <=>
                        Rng!extends_down_to(lo, p) /\ Rng!extends_up_to(up, p)
    OBVIOUS
  <2>1. p \in Rng!Points(x) \cap Rng!Points(y) <=>
          /\ Rng!extends_down_to(x.lower, p) /\ Rng!extends_up_to(x.upper, p)
          /\ Rng!extends_down_to(y.lower, p) /\ Rng!extends_up_to(y.upper, p)
    BY DEF Rng!Points, Rng!contains_value
  <2>2. Rng!extends_down_to(lo, p) <=>
          Rng!extends_down_to(x.lower, p) /\ Rng!extends_down_to(y.lower, p)
    BY <1>1, <1>3
  <2>3. Rng!extends_up_to(up, p) <=>
          Rng!extends_up_to(x.upper, p) /\ Rng!extends_up_to(y.upper, p)
    BY <1>1, <1>3
  <2> QED
    BY <2>1, <2>2, <2>3
<1>5. Rng!Points(x) \cap Rng!Points(y) \subseteq Point
  BY DEF Rng!Points
<1> HIDE DEF lo, up
<1>6. CASE Rng!Inverted(lo, up)
  <2>1. Rng!intersection(x, y) = Rng!EmptyRange
    BY <1>6 DEF Rng!intersection, lo, up
  <2>4. \A p \in Point : ~(Rng!extends_down_to(lo, p) /\ Rng!extends_up_to(up, p))
    <3>1. /\ lo.kind # "none" /\ up.kind # "none" /\ up.value < lo.value
          /\ lo.value \in Int /\ up.value \in Int
      BY <1>2, <1>6, Bounds DEF Rng!Inverted, Rng!is_limited
    <3>2. \A p \in Point : /\ p \in Int
                           /\ Rng!extends_down_to(lo, p) => lo.value <= p
                           /\ Rng!extends_up_to(up, p) => p <= up.value
      BY <1>2, <3>1, LetsIn
    <3> QED
      BY <3>1, <3>2
  <2> QED
    BY <1>4, <1>5, <2>1, <2>4, EmptyRangeIs
<1>7. CASE ~Rng!Inverted(lo, up)
  <2>1. Rng!intersection(x, y) = [lower |-> lo, upper |-> up]
    BY <1>7 DEF Rng!intersection, lo, up
  <2>2. [lower |-> lo, upper |-> up] \in Rng!Ranges
    BY <1>2, <1>7 DEF Rng!Ranges
  <2>3. \A p \in Point : p \in Rng!Points([lower |-> lo, upper |-> up]) <=>
                           Rng!extends_down_to(lo, p) /\ Rng!extends_up_to(up, p)
    BY DEF Rng!Points, Rng!contains_value
  <2>4. Rng!Points([lower |-> lo, upper |-> up]) \subseteq Point
    BY DEF Rng!Points
  <2> QED
    BY <1>4, <1>5, <2>1, <2>2, <2>3, <2>4
<1> QED
  BY <1>6, <1>7


\* The text of a range is read back as the same range, or an empty one.
LEMMA TextTells ==
  ASSUME NEW x \in Rng!Ranges
  PROVE  Rng!from_string(Rng!Rendered(x)) = IF Rng!empty(x) THEN Rng!EmptyRange ELSE x
<1> DEFINE part_of(b) == IF Rng!is_limited(b) THEN <<b.value>> ELSE <<>>
           bound(field, inclusive) ==
             IF field = <<>> THEN Rng!no_bound
             ELSE [kind |-> IF inclusive THEN "inclusive" ELSE "exclusive", value |-> field[1]]
           open == IF Rng!is_inclusive(x.lower) THEN "[" ELSE "("
           closing == IF Rng!is_inclusive(x.upper) THEN "]" ELSE ")"
<1>1. x.lower \in Rng!Bound /\ x.upper \in Rng!Bound /\ x = [lower |-> x.lower, upper |-> x.upper]
  BY DEF Rng!Ranges
<1>2. ASSUME NEW b \in Rng!Bound
      PROVE  bound(part_of(b), Rng!is_inclusive(b)) = b
  <2>1. CASE b = Rng!no_bound
    BY <2>1 DEF Rng!no_bound, Rng!is_limited
  <2>2. CASE b \in [kind : {"inclusive", "exclusive"}, value : Value]
    <3>1. /\ b = [kind |-> b.kind, value |-> b.value] /\ b.kind \in {"inclusive", "exclusive"}
      BY <2>2
    <3>2. part_of(b) = <<b.value>> /\ <<b.value>> # <<>> /\ <<b.value>>[1] = b.value
      BY <3>1 DEF Rng!is_limited
    <3>3. bound(part_of(b), Rng!is_inclusive(b)) =
            [kind |-> IF Rng!is_inclusive(b) THEN "inclusive" ELSE "exclusive", value |-> b.value]
      BY <3>2
    <3>4. b.kind = IF Rng!is_inclusive(b) THEN "inclusive" ELSE "exclusive"
      BY <3>1 DEF Rng!is_inclusive
    <3> QED
      BY <3>1, <3>3, <3>4
  <2> QED
    BY <2>1, <2>2 DEF Rng!Bound
<1>3. CASE Rng!empty(x)
  BY <1>3 DEF Rng!Rendered, Rng!from_string
<1>4. CASE ~Rng!empty(x)
  <2>1. Rng!Rendered(x) = [open |-> open, fields |-> <<part_of(x.lower), part_of(x.upper)>>,
                           closing |-> closing]
    BY <1>4 DEF Rng!Rendered
  <2>2. open # "empty" /\ (open = "[" <=> Rng!is_inclusive(x.lower))
        /\ (closing = "]" <=> Rng!is_inclusive(x.upper))
    OBVIOUS
  <2> HIDE DEF part_of, open, closing
  <2>3. Rng!from_string(Rng!Rendered(x)) = [lower |-> bound(part_of(x.lower), open = "["),
                                            upper |-> bound(part_of(x.upper), closing = "]")]
    BY <2>1, <2>2 DEF Rng!from_string
  <2>4. /\ bound(part_of(x.lower), open = "[") = bound(part_of(x.lower), Rng!is_inclusive(x.lower))
        /\ bound(part_of(x.upper), closing = "]") = bound(part_of(x.upper), Rng!is_inclusive(x.upper))
    BY <2>2
  <2> HIDE DEF bound
  <2> QED
    BY <1>1, <1>2, <1>4, <2>3, <2>4
<1> QED
  BY <1>3, <1>4

\* The buffer that a range asks for is enough for its text, if a bound's is
\* enough for its text and a terminating zero.
LEMMA RangeFits ==
  ASSUME \A v \in Value : Length[v] < Width, NEW x \in Rng!Ranges
  PROVE  Rng!Fits(x)
<1> DEFINE size(b) == IF Rng!is_limited(b) THEN Width - 1 ELSE 0
<1>1. x.lower \in Rng!Bound /\ x.upper \in Rng!Bound
  BY DEF Rng!Ranges
<1>2. /\ Width \in Int /\ Width >= 1
      /\ \A v \in Value : Length[v] \in Int /\ Length[v] <= Width - 1
  <2>1. 0 \in Value /\ \A v \in Value : Length[v] \in 1 .. Width
    BY SessionAssumption DEF Rng!RangeAssumption
  <2>2. Width \in Nat
    BY SessionAssumption DEF Rng!RangeAssumption
  <2> QED
    BY <2>1, <2>2
<1>3. ASSUME NEW b \in Rng!Bound
      PROVE  /\ size(b) \in Int /\ size(b) >= 0
             /\ Rng!LengthOf(b) \in Int /\ Rng!LengthOf(b) <= size(b)
             /\ Rng!is_limited(b) => size(b) = Width - 1
  BY <1>2, Bounds DEF Rng!LengthOf
<1>4. CASE Rng!empty(x)
  BY <1>4 DEF Rng!Fits
<1>5. CASE ~Rng!empty(x)
  <2>1. Rng!size_buffer(x) = 1 + size(x.lower) + 1 + size(x.upper) + 2
    BY <1>5 DEF Rng!size_buffer
  <2> HIDE DEF size
  <2>2. /\ size(x.lower) \in Int /\ size(x.lower) >= 0
        /\ Rng!LengthOf(x.lower) \in Int /\ Rng!LengthOf(x.lower) <= size(x.lower)
        /\ Rng!is_limited(x.lower) => size(x.lower) = Width - 1
        /\ size(x.upper) \in Int /\ size(x.upper) >= 0
        /\ Rng!LengthOf(x.upper) \in Int /\ Rng!LengthOf(x.upper) <= size(x.upper)
        /\ Rng!is_limited(x.upper) => size(x.upper) = Width - 1
    BY <1>1, <1>3
  <2> QED
    BY <1>2, <2>1, <2>2 DEF Rng!Fits, Rng!BeforeUpper, Rng!BeforeBracket
<1> QED
  BY <1>4, <1>5

\* The range is one that the constructor does not refuse, with the points of
\* all that went into it; its text is its own.
RngInv ==
  /\ v1 \in Rng!Ranges
  /\ v2 = Rng!Points(v1)
  /\ v3 \in {"range", "text"}
  /\ v3 = "text" => v4 = Rng!Rendered(v1)

LEMMA RngStep ==
  ASSUME Dense, \A v \in Value : Length[v] < Width, RngInv, Rng!Next \/ UNCHANGED partVars
  PROVE  RngInv'
<1> USE DEF RngInv
<1>1. ASSUME NEW other \in Rng!Ranges, Rng!Intersect(other)
      PROVE  RngInv'
  <2>1. /\ v1' = Rng!intersection(v1, other) /\ v3' = "range"
        /\ v2' = Rng!Points(v1) \cap Rng!Points(other)
    BY <1>1 DEF Rng!Intersect
  <2>2. v1' \in Rng!Ranges /\ v2' = Rng!Points(Rng!intersection(v1, other))
    BY <2>1, IntersectionTells
  <2>3. v2' = Rng!Points(v1)'
    BY <2>1, <2>2 DEF Rng!Points, Rng!contains_value, Rng!extends_down_to, Rng!extends_up_to
  <2> QED
    BY <2>1, <2>2, <2>3
<1>2. CASE Rng!ToText
  <2>1. v1' = v1 /\ v2' = v2 /\ v3' = "text" /\ v4' = Rng!Rendered(v1)
    BY <1>2 DEF Rng!ToText
  <2> QED
    BY <2>1
<1>3. CASE Rng!Overrun
  BY <1>3, RangeFits DEF Rng!Overrun
<1>4. CASE Rng!FromText
  <2>1. v1' = Rng!from_string(Rng!Rendered(v1)) /\ v2' = v2 /\ v3' = "range"
    BY <1>4 DEF Rng!FromText
  <2>2. v1' = IF Rng!empty(v1) THEN Rng!EmptyRange ELSE v1
    BY <2>1, TextTells
  <2>3. v1' \in Rng!Ranges /\ Rng!Points(v1') = Rng!Points(v1)
    BY <2>2, EmptyRangeIs, EmptyTells
  <2>4. Rng!Points(v1') = Rng!Points(v1)'
    BY DEF Rng!Points, Rng!contains_value, Rng!extends_down_to, Rng!extends_up_to
  <2> QED
    BY <2>1, <2>3, <2>4
<1>5. CASE UNCHANGED partVars
  BY <1>5 DEF partVars
<1> QED
  BY <1>1, <1>2, <1>3, <1>4, <1>5 DEF Rng!Next

\* Over values that have others between, below and above them, and whose texts
\* leave room for a terminating zero in their buffers: after any intersections
\* and conversions to text and back, a range has the points that all the
\* ranges had that went into it, empty() and contains() tell the same of it,
\* and it can be converted to text.
THEOREM SessionRangesExact ==
  ASSUME Dense, \A v \in Value : Length[v] < Width
  PROVE  RunSpec => []RangesExact
<1> DEFINE Good == part = "range" => RngInv
<1>1. RunInit => Good
  BY DEF RunInit, Rng!Init, RngInv
<1>2. Good /\ [RunNext]_runVars => Good'
  <2> SUFFICES ASSUME RngInv, part = "range", [RunNext]_runVars
               PROVE  RngInv'
    BY PartStays
  <2>1. Rng!Next \/ UNCHANGED partVars
    BY DEF RunNext, runVars, partVars
  <2> QED
    BY <2>1, RngStep
<1>3. Good => RangesExact
  <2> SUFFICES ASSUME RngInv
               PROVE  Rng!PointsExact /\ Rng!EmptyExact /\ Rng!ContainsExact /\ Rng!Renders
    BY DEF RangesExact
  <2>1. Rng!PointsExact /\ Rng!EmptyExact /\ Rng!Renders
    BY EmptyTells DEF RngInv, Rng!PointsExact, Rng!EmptyExact, Rng!Renders
  <2>2. ASSUME NEW other \in Rng!Ranges
        PROVE  Rng!contains(v1, other) <=> Rng!Points(other) \subseteq v2
    <3>1. Rng!intersection(v1, other) \in Rng!Ranges
          /\ Rng!Points(Rng!intersection(v1, other)) = v2 \cap Rng!Points(other)
      BY IntersectionTells DEF RngInv
    <3>2. Rng!contains(v1, other) <=> v2 \cap Rng!Points(other) = Rng!Points(other)
      BY <3>1, SameTells DEF Rng!contains
    <3> QED
      BY <3>2
  <2> QED
    BY <2>1, <2>2 DEF Rng!ContainsExact
<1> QED
  BY <1>1, <1>2, <1>3, PTL DEF RunSpec

-----------------------------------------------------------------------------
(***************************************************************************)
(* Menus.                                                                  *)
(***************************************************************************)
MenuNames == {"main_menu", "settings", "shop_settings", "peripherals", "printer_settings",
              "barcode_scanner", "submenu"}

\* What the line above a menu is made of.
Labels == {""} \cup UNION {{Menus!Options[m][i].label : i \in DOMAIN Menus!Options[m]} : m \in MenuNames}
Frame == [menu : MenuNames, selection : Nat, labels : Seq(Labels), exit : BOOLEAN]

\* A menu has a first item, and its submenus are menus.
Laid(items) ==
  /\ 1 \in DOMAIN items /\ DOMAIN items \subseteq Nat
  /\ \A s \in DOMAIN items : items[s].kind = "submenu" => items[s].of \in MenuNames

LEMMA MenusLaidOut == \A m \in MenuNames : Laid(Menus!Options[m])
<1>1. Laid(Menus!Options["main_menu"])
  <2> DEFINE x1 == Menus!Item("Products", "exit", "")
             x2 == Menus!Item("Settings", "submenu", "settings")
  <2>1. Menus!Options["main_menu"] = <<x1, x2>>
    BY DEF Menus!Options
  <2>2. /\ x1.kind = "exit"
        /\ x2.kind = "submenu" /\ x2.of = "settings"
    BY DEF Menus!Item
  <2> HIDE DEF x1, x2
  <2> QED
    BY <2>1, <2>2 DEF Laid, MenuNames
<1>2. Laid(Menus!Options["settings"])
  <2> DEFINE x1 == Menus!Item("Shop", "submenu", "shop_settings")
             x2 == Menus!Item("Peripherals", "submenu", "peripherals")
             x3 == Menus!Item("Colorschem", "submenu", "submenu")
             x4 == Menus!Item("Users", "submenu", "submenu")
  <2>1. Menus!Options["settings"] = <<x1, x2, x3, x4>>
    BY DEF Menus!Options
  <2>2. /\ x1.kind = "submenu" /\ x1.of = "shop_settings"
        /\ x2.kind = "submenu" /\ x2.of = "peripherals"
        /\ x3.kind = "submenu" /\ x3.of = "submenu"
        /\ x4.kind = "submenu" /\ x4.of = "submenu"
    BY DEF Menus!Item
  <2> HIDE DEF x1, x2, x3, x4
  <2> QED
    BY <2>1, <2>2 DEF Laid, MenuNames
<1>3. Laid(Menus!Options["shop_settings"])
  <2> DEFINE x1 == Menus!Item("Name", "string", "name")
             x2 == Menus!Item("Code", "string", "code")
             x3 == Menus!Item("Addres", "string", "addres")
  <2>1. Menus!Options["shop_settings"] = <<x1, x2, x3>>
    BY DEF Menus!Options
  <2>2. /\ x1.kind = "string"
        /\ x2.kind = "string"
        /\ x3.kind = "string"
    BY DEF Menus!Item
  <2> HIDE DEF x1, x2, x3
  <2> QED
    BY <2>1, <2>2 DEF Laid, MenuNames
<1>4. Laid(Menus!Options["peripherals"])
  <2> DEFINE x1 == Menus!Item("Receipt_printer", "submenu", "printer_settings")
             x2 == Menus!Item("Barcode_scanner", "submenu", "barcode_scanner")
  <2>1. Menus!Options["peripherals"] = <<x1, x2>>
    BY DEF Menus!Options
  <2>2. /\ x1.kind = "submenu" /\ x1.of = "printer_settings"
        /\ x2.kind = "submenu" /\ x2.of = "barcode_scanner"
    BY DEF Menus!Item
  <2> HIDE DEF x1, x2
  <2> QED
    BY <2>1, <2>2 DEF Laid, MenuNames
<1>5. Laid(Menus!Options["printer_settings"])
  <2> DEFINE x1 == Menus!Item("Printer_file_location", "string", "printer_device_file")
             x2 == Menus!Item("Characters_per_line", "int", "max_name_length")
             x3 == Menus!Item("Nr_of_newlines", "int", "nr_of_newlines")
  <2>1. Menus!Options["printer_settings"] = <<x1, x2, x3>>
    BY DEF Menus!Options
  <2>2. /\ x1.kind = "string"
        /\ x2.kind = "int"
        /\ x3.kind = "int"
    BY DEF Menus!Item
  <2> HIDE DEF x1, x2, x3
  <2> QED
    BY <2>1, <2>2 DEF Laid, MenuNames
<1>6. Laid(Menus!Options["barcode_scanner"])
  <2> DEFINE x1 == Menus!Item("Barcode_prefix", "funct", "barcode_prefix")
  <2>1. Menus!Options["barcode_scanner"] = <<x1>>
    BY DEF Menus!Options
  <2>2. x1.kind = "funct"
    BY DEF Menus!Item
  <2> HIDE DEF x1
  <2> QED
    BY <2>1, <2>2 DEF Laid, MenuNames
<1>7. Laid(Menus!Options["submenu"])
  <2> DEFINE x1 == Menus!Item("exit", "exit", "")
  <2>1. Menus!Options["submenu"] = <<x1>>
    BY DEF Menus!Options
  <2>2. x1.kind = "exit"
    BY DEF Menus!Item
  <2> HIDE DEF x1
  <2> QED
    BY <2>1, <2>2 DEF Laid, MenuNames
<1> QED
  BY <1>1, <1>2, <1>3, <1>4, <1>5, <1>6, <1>7 DEF MenuNames

\* A frame's choice is an item of its menu.
ChoiceOK(f) == f \in Frame /\ f.selection \in DOMAIN Menus!Options[f.menu]

LEMMA ChosenItem ==
  ASSUME NEW f, ChoiceOK(f)
  PROVE  /\ Menus!Chosen(f).label \in Labels
         /\ Menus!Chosen(f).kind = "submenu" => Menus!Chosen(f).of \in MenuNames
<1>1. f.menu \in MenuNames /\ f.selection \in DOMAIN Menus!Options[f.menu]
  BY DEF ChoiceOK, Frame
<1>2. Laid(Menus!Options[f.menu])
  BY <1>1, MenusLaidOut
<1>3. Menus!Chosen(f) = Menus!Options[f.menu][f.selection]
  BY DEF Menus!Chosen
<1>4. Menus!Options[f.menu][f.selection].label \in
        {Menus!Options[f.menu][i].label : i \in DOMAIN Menus!Options[f.menu]}
  BY <1>1
<1>5. Menus!Options[f.menu][f.selection].label \in Labels
  BY <1>1, <1>4, Zenon DEF Labels
<1> QED
  BY <1>1, <1>2, <1>3, <1>5 DEF Laid

\* The labels of frame i: an empty one, and the items chosen on the way, with
\* its own choice when a submenu is open on top of it.
Way(s, k) == IF k = 1 THEN "" ELSE Menus!Chosen(s[k - 1]).label
HowMany(i, n) == IF i < n THEN i + 1 ELSE i
PathTo(s, i, n) ==
  /\ Len(s[i].labels) = HowMany(i, n)
  /\ \A k \in 1 .. HowMany(i, n) : s[i].labels[k] = Way(s, k)

CallsOK(s) ==
  /\ s \in Seq(Frame)
  /\ \A i \in 1 .. Len(s) : ChoiceOK(s[i]) /\ PathTo(s, i, Len(s))

LEMMA CallsFacts ==
  ASSUME NEW s, CallsOK(s), s # <<>>,
         NEW n, n = Len(s), NEW top, top = s[n]
  PROVE  /\ s \in Seq(Frame) /\ n \in Nat \ {0} /\ n \in 1 .. n
         /\ \A i \in 1 .. n : s[i] \in Frame /\ ChoiceOK(s[i]) /\ PathTo(s, i, n)
         /\ top \in Frame /\ ChoiceOK(top) /\ top.labels \in Seq(Labels)
         /\ Len(top.labels) = n
         /\ \A k \in 1 .. n : top.labels[k] = Way(s, k)
<1>1. /\ s \in Seq(Frame) /\ n \in Nat \ {0} /\ n \in 1 .. n
      /\ \A i \in 1 .. n : s[i] \in Frame /\ ChoiceOK(s[i]) /\ PathTo(s, i, n)
  BY DEF CallsOK, ChoiceOK
<1>2. top \in Frame /\ ChoiceOK(top) /\ PathTo(s, n, n)
  BY <1>1
<1>3. top.labels \in Seq(Labels)
  BY <1>2 DEF Frame
<1>4. HowMany(n, n) = n
  BY <1>1 DEF HowMany
<1> QED
  BY <1>1, <1>2, <1>3, <1>4 DEF PathTo

\* The way to a frame is that of the same choices on it.
LEMMA SameWay ==
  ASSUME NEW s, NEW t, NEW n \in Nat, NEW i \in 1 .. n, PathTo(s, i, n), t[i].labels = s[i].labels,
         \A k \in 1 .. HowMany(i, n) : Way(t, k) = Way(s, k)
  PROVE  PathTo(t, i, n)
  BY DEF PathTo

\* The innermost call moves its selection, or is told to exit.
LEMMA TopMoves ==
  ASSUME NEW s, CallsOK(s), s # <<>>, NEW f, ChoiceOK(f), f.labels = s[Len(s)].labels
  PROVE  CallsOK([s EXCEPT ![Len(s)] = f])
<1>1. PICK n : n = Len(s)
  OBVIOUS
<1>2. PICK t : t = [s EXCEPT ![n] = f]
  OBVIOUS
<1>3. /\ s \in Seq(Frame) /\ n \in Nat \ {0} /\ n \in 1 .. n
      /\ \A i \in 1 .. n : s[i] \in Frame /\ ChoiceOK(s[i]) /\ PathTo(s, i, n)
  BY <1>1, CallsFacts
<1>4. f \in Frame
  BY DEF ChoiceOK
<1>5. t \in Seq(Frame) /\ Len(t) = n /\ \A i \in 1 .. n : t[i] = IF i = n THEN f ELSE s[i]
  BY <1>1, <1>2, <1>3, <1>4
<1>6. \A i \in 1 .. n : ChoiceOK(t[i])
  BY <1>3, <1>5
<1>7. \A k \in 1 .. n : Way(t, k) = Way(s, k)
  <2>1. \A k \in 1 .. n : k = 1 \/ (k - 1 \in 1 .. n /\ k - 1 # n)
    BY <1>3
  <2>2. \A i \in 1 .. n : i # n => t[i] = s[i]
    BY <1>5
  <2> QED
    BY <2>1, <2>2 DEF Way
<1>8. ASSUME NEW i \in 1 .. n
      PROVE  PathTo(t, i, n)
  <2>1. t[i].labels = s[i].labels
    BY <1>1, <1>5
  <2>2. \A k \in 1 .. HowMany(i, n) : Way(t, k) = Way(s, k)
    BY <1>3, <1>7 DEF HowMany
  <2> QED
    BY <1>3, <2>1, <2>2, SameWay
<1>9. CallsOK(t)
  BY <1>5, <1>6, <1>8 DEF CallsOK
<1> QED
  BY <1>1, <1>2, <1>9

\* A submenu is opened: its way is the caller's, with the label chosen.
LEMMA SubmenuOpens ==
  ASSUME NEW s, CallsOK(s), s # <<>>, NEW n, n = Len(s), NEW top, top = s[n],
         Menus!Chosen(top).kind = "submenu",
         NEW labels, labels = Append(top.labels, Menus!Chosen(top).label),
         NEW f, f = [top EXCEPT !.labels = labels],
         NEW g, g = Menus!Call(Menus!Chosen(top).of, labels)
  PROVE  CallsOK(Append([s EXCEPT ![n] = f], g))
<1>1. /\ s \in Seq(Frame) /\ n \in Nat \ {0} /\ n \in 1 .. n
      /\ \A i \in 1 .. n : s[i] \in Frame /\ ChoiceOK(s[i]) /\ PathTo(s, i, n)
  BY CallsFacts
<1>2. /\ top \in Frame /\ ChoiceOK(top) /\ top.labels \in Seq(Labels)
      /\ Len(top.labels) = n
      /\ \A k \in 1 .. n : top.labels[k] = Way(s, k)
  BY CallsFacts
<1>3. Menus!Chosen(top).label \in Labels /\ Menus!Chosen(top).of \in MenuNames
  BY <1>2, ChosenItem
<1>4. /\ labels \in Seq(Labels) /\ Len(labels) = n + 1
      /\ \A k \in 1 .. n : labels[k] = top.labels[k]
      /\ labels[n + 1] = Menus!Chosen(top).label
  BY <1>1, <1>2, <1>3, AppendProperties
<1>5. \A k \in 1 .. n + 1 : labels[k] = Way(s, k)
  <2>1. labels[n + 1] = Way(s, n + 1)
    <3>1. n + 1 # 1 /\ n + 1 - 1 = n
      BY <1>1
    <3> QED
      BY <1>4, <3>1 DEF Way
  <2>2. \A k \in 1 .. n + 1 : k \in 1 .. n \/ k = n + 1
    BY <1>1
  <2> QED
    BY <1>2, <1>4, <2>1, <2>2
<1>6. f \in Frame /\ f.labels = labels /\ f.menu = top.menu /\ f.selection = top.selection
  BY <1>2, <1>4 DEF Frame
<1>7. ChoiceOK(f) /\ Menus!Chosen(f) = Menus!Chosen(top)
  BY <1>2, <1>6 DEF ChoiceOK, Menus!Chosen
<1>8. g \in Frame /\ g.labels = labels /\ ChoiceOK(g)
  <2>1. g = [menu |-> Menus!Chosen(top).of, selection |-> 1, labels |-> labels, exit |-> FALSE]
    BY DEF Menus!Call
  <2>2. g.menu \in MenuNames /\ g.selection = 1 /\ g.labels = labels /\ g \in Frame
    BY <1>3, <1>4, <2>1 DEF Frame
  <2>3. Laid(Menus!Options[g.menu])
    BY <2>2, MenusLaidOut
  <2> QED
    BY <2>2, <2>3 DEF ChoiceOK, Laid
<1>9. PICK u : u = [s EXCEPT ![n] = f]
  OBVIOUS
<1>10. u \in Seq(Frame) /\ Len(u) = n /\ \A i \in 1 .. n : u[i] = IF i = n THEN f ELSE s[i]
  BY <1>1, <1>6, <1>9
<1>11. PICK t : t = Append(u, g)
  OBVIOUS
<1>12. /\ t \in Seq(Frame) /\ Len(t) = n + 1 /\ t[n + 1] = g
       /\ \A i \in 1 .. n : t[i] = IF i = n THEN f ELSE s[i]
  <2>1. /\ t \in Seq(Frame) /\ Len(t) = n + 1 /\ t[n + 1] = g
        /\ \A i \in 1 .. n : t[i] = u[i]
    BY <1>1, <1>8, <1>10, <1>11, AppendProperties
  <2> QED
    BY <1>10, <2>1
<1>13. \A k \in 1 .. n + 1 : Way(t, k) = Way(s, k)
  <2>1. \A i \in 1 .. n : Menus!Chosen(t[i]) = Menus!Chosen(s[i])
    BY <1>7, <1>12
  <2>2. \A k \in 1 .. n + 1 : k = 1 \/ k - 1 \in 1 .. n
    BY <1>1
  <2> QED
    BY <2>1, <2>2 DEF Way
<1>14. \A i \in 1 .. n + 1 : i = n + 1 \/ i \in 1 .. n
  BY <1>1
<1>15. \A i \in 1 .. n + 1 : ChoiceOK(t[i])
  BY <1>1, <1>7, <1>8, <1>12, <1>14
<1>16. ASSUME NEW i \in 1 .. n + 1
       PROVE  PathTo(t, i, n + 1)
  <2>1. CASE i = n \/ i = n + 1
    <3>1. t[i].labels = labels
      BY <1>1, <1>6, <1>8, <1>12, <2>1
    <3>2. HowMany(i, n + 1) = n + 1
      BY <1>1, <2>1 DEF HowMany
    <3> QED
      BY <1>4, <1>5, <1>13, <3>1, <3>2 DEF PathTo
  <2>2. CASE i # n /\ i # n + 1
    <3>1. i \in 1 .. n /\ t[i] = s[i] /\ PathTo(s, i, n)
      BY <1>1, <1>12, <1>14, <2>2
    <3>2. HowMany(i, n + 1) = i + 1 /\ HowMany(i, n) = i + 1
      BY <1>1, <2>2 DEF HowMany
    <3>3. \A k \in 1 .. i + 1 : k \in 1 .. n + 1
      BY <1>1, <3>1
    <3> QED
      BY <1>13, <3>1, <3>2, <3>3 DEF PathTo
  <2> QED
    BY <2>1, <2>2
<1>17. CallsOK(t)
  BY <1>12, <1>15, <1>16 DEF CallsOK
<1> QED
  BY <1>9, <1>11, <1>17

LEMMA AllButLast ==
  ASSUME NEW S, NEW q \in Seq(S), NEW m \in Nat, Len(q) = m + 1
  PROVE  /\ SubSeq(q, 1, m) \in Seq(S) /\ Len(SubSeq(q, 1, m)) = m
         /\ \A k \in 1 .. m : SubSeq(q, 1, m)[k] = q[k]
  OBVIOUS

LEMMA OneReplaced ==
  ASSUME NEW S, NEW q \in Seq(S), NEW m \in 1 .. Len(q), NEW e \in S
  PROVE  /\ [q EXCEPT ![m] = e] \in Seq(S) /\ Len([q EXCEPT ![m] = e]) = Len(q)
         /\ \A i \in 1 .. Len(q) : [q EXCEPT ![m] = e][i] = IF i = m THEN e ELSE q[i]
  OBVIOUS

\* A call returns, and its caller drops the label.
LEMMA CallReturns ==
  ASSUME NEW s, CallsOK(s), NEW m \in Nat \ {0}, Len(s) = m + 1,
         NEW c \in Seq(Frame), Len(c) = m, \A i \in 1 .. m : c[i] = s[i],
         NEW low, low = s[m], NEW f \in Frame, f.menu = low.menu, f.selection = low.selection,
         f.labels = SubSeq(low.labels, 1, Len(low.labels) - 1)
  PROVE  CallsOK([c EXCEPT ![m] = f])
<1> DEFINE n == m + 1
<1>1. \A i \in 1 .. n : ChoiceOK(s[i]) /\ PathTo(s, i, n)
  BY DEF CallsOK
<1>2. m \in 1 .. m /\ m \in 1 .. n
  OBVIOUS
<1>3. low \in Frame /\ ChoiceOK(low) /\ PathTo(s, m, n)
  BY <1>1, <1>2 DEF ChoiceOK
<1>4. low.labels \in Seq(Labels)
  BY <1>3 DEF Frame
<1>5. Len(low.labels) = m + 1 /\ \A k \in 1 .. m + 1 : low.labels[k] = Way(s, k)
  <2>1. HowMany(m, n) = m + 1
    BY <1>1, <1>2 DEF HowMany
  <2> QED
    BY <1>3, <2>1 DEF PathTo
<1>6. PICK labels : labels = SubSeq(low.labels, 1, m)
  OBVIOUS
<1>7. /\ labels \in Seq(Labels) /\ Len(labels) = m
      /\ \A k \in 1 .. m : labels[k] = low.labels[k]
  BY <1>4, <1>5, <1>6, AllButLast
<1>8. /\ f.labels = labels
      /\ \A k \in 1 .. m : labels[k] = Way(s, k)
  <2>1. \A k \in 1 .. m : k \in 1 .. m + 1
    OBVIOUS
  <2>2. Len(low.labels) - 1 = m
    BY <1>5
  <2> QED
    BY <1>5, <1>6, <1>7, <2>1, <2>2
<1>9. ChoiceOK(f) /\ Menus!Chosen(f) = Menus!Chosen(low)
  BY <1>3 DEF ChoiceOK, Menus!Chosen
<1>10. PICK t : t = [c EXCEPT ![m] = f]
  OBVIOUS
<1>11. t \in Seq(Frame) /\ Len(t) = m /\ \A i \in 1 .. m : t[i] = IF i = m THEN f ELSE c[i]
  BY <1>2, <1>10, OneReplaced
<1>12. \A k \in 1 .. m : Way(t, k) = Way(s, k)
  <2>1. \A i \in 1 .. m : Menus!Chosen(t[i]) = Menus!Chosen(s[i])
    BY <1>2, <1>3, <1>9, <1>11
  <2>2. \A k \in 1 .. m : k = 1 \/ k - 1 \in 1 .. m
    BY <1>2
  <2> QED
    BY <2>1, <2>2 DEF Way
<1>13. ASSUME NEW i \in 1 .. m
       PROVE  PathTo(t, i, m)
  <2>1. CASE i = m
    <3>1. t[i].labels = labels
      BY <1>8, <1>11, <2>1
    <3>2. HowMany(i, m) = m
      BY <1>2, <2>1 DEF HowMany
    <3> QED
      BY <1>7, <1>8, <1>12, <3>1, <3>2 DEF PathTo
  <2>2. CASE i # m
    <3>1. t[i] = s[i] /\ PathTo(s, i, n)
      BY <1>1, <1>2, <1>11, <2>2
    <3>2. HowMany(i, m) = i + 1 /\ HowMany(i, n) = i + 1
      BY <1>1, <1>2, <2>2 DEF HowMany
    <3>3. \A k \in 1 .. i + 1 : k \in 1 .. m
      BY <1>2, <2>2
    <3> QED
      BY <1>12, <3>1, <3>2, <3>3 DEF PathTo
  <2> QED
    BY <2>1, <2>2
<1>14. \A i \in 1 .. m : ChoiceOK(t[i])
  BY <1>1, <1>2, <1>9, <1>11
<1>15. CallsOK(t)
  BY <1>11, <1>13, <1>14 DEF CallsOK
<1> QED
  BY <1>10, <1>15

LEMMA OneBefore ==
  ASSUME NEW S, NEW e \in S, NEW q \in Seq(S)
  PROVE  /\ <<e>> \o q \in Seq(S) /\ Len(<<e>> \o q) = 1 + Len(q)
         /\ \A k \in 1 .. 1 + Len(q) : (<<e>> \o q)[k] = IF k = 1 THEN e ELSE q[k - 1]
  OBVIOUS

\* What the labels are, as one sequence.
LEMMA WayIs ==
  ASSUME NEW s, CallsOK(s), NEW i \in 1 .. Len(s),
         NEW path \in Seq(Labels), Len(path) = i - 1,
         \A k \in 1 .. i - 1 : path[k] = Menus!Chosen(s[k]).label,
         NEW open \in Seq(Labels), Len(open) = (IF i < Len(s) THEN 1 ELSE 0),
         i < Len(s) => open[1] = Menus!Chosen(s[i]).label
  PROVE  s[i].labels = <<"">> \o path \o open
<1>1. /\ s \in Seq(Frame) /\ ChoiceOK(s[i]) /\ PathTo(s, i, Len(s)) /\ s[i] \in Frame
      /\ \A k \in 1 .. Len(s) : ChoiceOK(s[k])
  BY DEF CallsOK, ChoiceOK
<1>2. s[i].labels \in Seq(Labels) /\ i \in Nat /\ i >= 1 /\ Len(s) \in Nat
  BY <1>1 DEF Frame
<1>4. "" \in Labels
  BY DEF Labels
<1>6. PICK empty : empty = ""
  OBVIOUS
<1>7. PICK front : front = <<empty>> \o path
  OBVIOUS
<1>8. /\ front \in Seq(Labels) /\ Len(front) = i
      /\ \A k \in 1 .. i : front[k] = Way(s, k)
  <2>1. empty \in Labels
    BY <1>4, <1>6
  <2>2. /\ front \in Seq(Labels) /\ Len(front) = 1 + Len(path)
        /\ \A k \in 1 .. 1 + Len(path) : front[k] = IF k = 1 THEN empty ELSE path[k - 1]
    <3>1. /\ <<empty>> \o path \in Seq(Labels) /\ Len(<<empty>> \o path) = 1 + Len(path)
          /\ \A k \in 1 .. 1 + Len(path) :
               (<<empty>> \o path)[k] = IF k = 1 THEN empty ELSE path[k - 1]
      BY <2>1, OneBefore
    <3> QED
      BY <1>7, <3>1
  <2>3. \A k \in 1 .. i : k \in 1 .. 1 + (i - 1) /\ (k = 1 \/ k - 1 \in 1 .. i - 1)
    BY <1>2
  <2>4. 1 + Len(path) = i
    BY <1>2
  <2> QED
    BY <1>6, <2>2, <2>3, <2>4 DEF Way
<1>9. PICK whole : whole = front \o open
  OBVIOUS
<1>10. /\ whole \in Seq(Labels) /\ Len(whole) = HowMany(i, Len(s))
       /\ \A k \in 1 .. HowMany(i, Len(s)) : whole[k] = Way(s, k)
  <2>1. /\ whole \in Seq(Labels) /\ Len(whole) = i + Len(open)
        /\ \A k \in 1 .. i + Len(open) : whole[k] = IF k <= i THEN front[k] ELSE open[k - i]
    BY <1>8, <1>9, ConcatProperties
  <2>2. CASE i < Len(s)
    <3>1. HowMany(i, Len(s)) = i + 1 /\ Len(open) = 1
      BY <2>2 DEF HowMany
    <3>2. \A k \in 1 .. i : k \in 1 .. i + 1 /\ k <= i
      OBVIOUS
    <3>3. i + 1 \in 1 .. i + 1 /\ ~(i + 1 <= i) /\ i + 1 - i = 1 /\ i + 1 - 1 = i /\ i + 1 # 1
      BY <1>2
    <3>4. whole[i + 1] = Way(s, i + 1)
      BY <2>1, <2>2, <3>1, <3>3 DEF Way
    <3>5. \A k \in 1 .. i : whole[k] = Way(s, k)
      BY <1>8, <2>1, <3>1, <3>2
    <3>6. \A k \in 1 .. i + 1 : k = i + 1 \/ k \in 1 .. i
      BY <1>2
    <3> QED
      BY <2>1, <3>1, <3>4, <3>5, <3>6
  <2>3. CASE ~(i < Len(s))
    <3>1. HowMany(i, Len(s)) = i /\ Len(open) = 0 /\ i + 0 = i
      BY <1>2, <2>3 DEF HowMany
    <3> QED
      BY <1>8, <2>1, <3>1
  <2> QED
    BY <2>2, <2>3
<1>11. Len(s[i].labels) = Len(whole) /\ \A k \in 1 .. Len(whole) : s[i].labels[k] = whole[k]
  BY <1>1, <1>10 DEF PathTo
<1>12. s[i].labels = whole
  BY <1>2, <1>10, <1>11, SeqEqual
<1> QED
  BY <1>6, <1>7, <1>9, <1>12

\* The calls are as above, there are some unless the menu is closed, and a
\* setting is what the code reading it expects.
MenuInv ==
  /\ CallsOK(v1)
  /\ v2 \in {"closed", "menu", "input", "dead"}
  /\ v2 = "closed" <=> v1 = <<>>
  /\ v3 \in [Menus!Strings -> Texts]
  /\ v4 \in [Menus!Ints -> Nat \ {0}]

LEMMA MenuInit == Menus!Init => MenuInv
<1> SUFFICES ASSUME Menus!Init
             PROVE  MenuInv
  OBVIOUS
<1>1. Default \in Texts /\ Numbers \subseteq Nat
  BY SessionAssumption DEF Menus!SettingsAssumption
<1>2. CallsOK(<<>>)
  BY DEF CallsOK
<1> QED
  BY <1>1, <1>2 DEF MenuInv, Menus!Init

\* A call returns: the menu is closed, or its caller is back.
LEMMA MenuReturns ==
  ASSUME CallsOK(v1), v1 # <<>>, NEW e \in BOOLEAN, Menus!Return(e)
  PROVE  CallsOK(v1') /\ v2' \in {"closed", "menu"} /\ (v2' = "closed" <=> v1' = <<>>)
<1>1. PICK c : c = Menus!Front(v1)
  OBVIOUS
<1>2. PICK m : m = Len(v1) - 1
  OBVIOUS
<1>3. v1 \in Seq(Frame) /\ m \in Nat /\ Len(v1) = m + 1
  BY <1>2 DEF CallsOK
<1>4. c \in Seq(Frame) /\ Len(c) = m /\ \A i \in 1 .. m : c[i] = v1[i]
  <2>1. c = SubSeq(v1, 1, m)
    BY <1>1, <1>2 DEF Menus!Front
  <2> QED
    BY <1>3, <2>1, AllButLast
<1>5. CASE c = <<>>
  <2>1. v1' = <<>> /\ v2' = "closed"
    BY <1>1, <1>5 DEF Menus!Return
  <2> QED
    BY <2>1 DEF CallsOK
<1>6. CASE c # <<>>
  <2>1. m \in Nat \ {0} /\ m \in 1 .. m
    BY <1>3, <1>4, <1>6
  <2>2. PICK low : low = v1[m]
    OBVIOUS
  <2>3. c[m] = low /\ low \in Frame
    BY <1>3, <1>4, <2>1, <2>2
  <2>4. PICK f : f = [low EXCEPT !.exit = e, !.labels = Menus!Front(low.labels)]
    OBVIOUS
  <2>5. v1' = [c EXCEPT ![m] = f] /\ v2' = "menu"
    BY <1>1, <1>4, <1>6, <2>3, <2>4 DEF Menus!Return
  <2>6. Len(low.labels) \in Nat \ {0} /\ low.labels \in Seq(Labels)
    <3>1. m \in 1 .. Len(v1) /\ m < Len(v1)
      BY <1>3, <2>1
    <3>2. PathTo(v1, m, Len(v1)) /\ HowMany(m, Len(v1)) = m + 1
      BY <3>1 DEF CallsOK, HowMany
    <3> QED
      BY <1>3, <2>2, <2>3, <3>2 DEF PathTo, Frame
  <2>7. Menus!Front(low.labels) = SubSeq(low.labels, 1, Len(low.labels) - 1)
    BY DEF Menus!Front
  <2>8. Menus!Front(low.labels) \in Seq(Labels)
    BY <2>6, <2>7
  <2>9. f \in Frame /\ f.menu = low.menu /\ f.selection = low.selection
        /\ f.labels = Menus!Front(low.labels)
    BY <2>3, <2>4, <2>8 DEF Frame
  <2>10. CallsOK(v1')
    BY <1>3, <1>4, <2>1, <2>2, <2>5, <2>7, <2>9, CallReturns
  <2>11. v1' # <<>>
    BY <1>4, <2>1, <2>5, <2>9
  <2> QED
    BY <2>5, <2>10, <2>11
<1> QED
  BY <1>5, <1>6

LEMMA OneElement ==
  ASSUME NEW S, NEW e \in S
  PROVE  <<e>> \in Seq(S) /\ Len(<<e>>) = 1 /\ <<e>>[1] = e /\ <<e>> # <<>>
  OBVIOUS

\* The first call: its one label is empty.
LEMMA FirstCall ==
  ASSUME NEW s \in Seq(Frame), Len(s) = 1, ChoiceOK(s[1]), Len(s[1].labels) = 1,
         s[1].labels[1] = Way(s, 1)
  PROVE  CallsOK(s)
<1>1. \A i \in 1 .. 1 : i = 1
  OBVIOUS
<1>2. PathTo(s, 1, 1)
  BY <1>1 DEF PathTo, HowMany
<1> QED
  BY <1>1, <1>2 DEF CallsOK

LEMMA MenuStep ==
  ASSUME MenuInv, Menus!Next \/ UNCHANGED partVars
  PROVE  MenuInv'
<1>1. ASSUME CallsOK(v1'), v2' \in {"closed", "menu", "input", "dead"},
             v2' = "closed" <=> v1' = <<>>, v3' = v3, v4' = v4
      PROVE  MenuInv'
  <2>1. CallsOK(v1)'
    BY <1>1 DEF CallsOK, ChoiceOK, PathTo, Way, Menus!Chosen
  <2> QED
    BY <1>1, <2>1 DEF MenuInv
<1>2. ASSUME v1 # <<>>
      PROVE  /\ Menus!Top = v1[Len(v1)] /\ ChoiceOK(v1[Len(v1)]) /\ v1[Len(v1)] \in Frame
             /\ v2 \in {"menu", "input", "dead"}
  BY <1>2, CallsFacts DEF MenuInv, Menus!Top
\* The innermost call is changed in its selection or its exit.
<1>3. ASSUME v1 # <<>>, v2 # "closed", NEW f, ChoiceOK(f), f.labels = v1[Len(v1)].labels,
             v1' = Menus!WithTop(f), UNCHANGED <<v2, v3, v4, v5, v6>>
      PROVE  MenuInv'
  <2>1. v1' = [v1 EXCEPT ![Len(v1)] = f]
    BY <1>3 DEF Menus!WithTop
  <2>0. CallsOK(v1)
    BY DEF MenuInv
  <2>2. CallsOK(v1')
    <3>1. CallsOK([v1 EXCEPT ![Len(v1)] = f])
      BY <1>3, <2>0, TopMoves
    <3> QED
      BY <2>1, <3>1
  <2>3. v1' # <<>>
    <3>1. v1 \in Seq(Frame)
      BY DEF MenuInv, CallsOK
    <3> QED
      BY <1>3, <2>1, <3>1
  <2> QED
    BY <1>1, <1>3, <2>2, <2>3 DEF MenuInv
<1>4. CASE Menus!start_main_menu
  <2>1. PICK f : f = Menus!Call("main_menu", <<"">>)
    OBVIOUS
  <2>2. v1' = <<f>> /\ v2' = "menu" /\ v3' = v3 /\ v4' = v4
    BY <1>4, <2>1 DEF Menus!start_main_menu, Menus!Settings
  <2>3. /\ f \in Frame /\ Len(f.labels) = 1 /\ f.labels[1] = "" /\ f.menu = "main_menu"
        /\ f.selection = 1
    <3>1. PICK empty : empty = ""
      OBVIOUS
    <3>2. empty \in Labels
      BY <3>1 DEF Labels
    <3>3. f = [menu |-> "main_menu", selection |-> 1, labels |-> <<empty>>, exit |-> FALSE]
      BY <2>1, <3>1 DEF Menus!Call
    <3>4. <<empty>> \in Seq(Labels) /\ Len(<<empty>>) = 1 /\ <<empty>>[1] = empty
      BY <3>2
    <3> QED
      BY <3>1, <3>3, <3>4 DEF Frame, MenuNames
  <2>4. ChoiceOK(f)
    <3>1. Laid(Menus!Options["main_menu"])
      BY MenusLaidOut DEF MenuNames
    <3> QED
      BY <2>3, <3>1 DEF ChoiceOK, Laid
  <2>5. PICK calls : calls = <<f>>
    OBVIOUS
  <2>6. calls \in Seq(Frame) /\ Len(calls) = 1 /\ calls[1] = f /\ calls # <<>>
    <3>1. <<f>> \in Seq(Frame) /\ Len(<<f>>) = 1 /\ <<f>>[1] = f /\ <<f>> # <<>>
      BY <2>3, OneElement
    <3> QED
      BY <2>5, <3>1, Zenon
  <2>7. Way(calls, 1) = ""
    BY DEF Way
  <2>8. CallsOK(calls)
    BY <2>3, <2>4, <2>6, <2>7, FirstCall
  <2> QED
    BY <1>1, <2>2, <2>5, <2>6, <2>8
<1>5. CASE Menus!print_receipt
  <2>1. v1' = v1 /\ v2' = v2 /\ v3' = v3 /\ v4' = v4
    BY <1>5 DEF Menus!print_receipt, Menus!Settings
  <2> QED
    BY <1>1, <2>1 DEF MenuInv
<1>6. ASSUME NEW step \in {-1, 1}, Menus!Move(step)
      PROVE  MenuInv'
  <2>1. v1 # <<>> /\ v2 = "menu"
    BY <1>6 DEF Menus!Move, Menus!Listing
  <2>2. PICK top : top = v1[Len(v1)]
    OBVIOUS
  <2>3. PICK f : f = [top EXCEPT !.selection = top.selection + step]
    OBVIOUS
  <2>4. /\ v1' = Menus!WithTop(f) /\ UNCHANGED <<v2, v3, v4, v5, v6>>
        /\ top.selection + step \in DOMAIN Menus!Options[top.menu]
    BY <1>2, <1>6, <2>1, <2>2, <2>3 DEF Menus!Move, Menus!Settings
  <2>5. top \in Frame
    BY <1>2, <2>1, <2>2
  <2>6. top.selection + step \in Nat
    BY <2>4, <2>5, MenusLaidOut DEF Laid, Frame
  <2>7. ChoiceOK(f) /\ f.labels = top.labels
    BY <2>3, <2>4, <2>5, <2>6 DEF ChoiceOK, Frame
  <2> QED
    BY <1>3, <2>1, <2>2, <2>4, <2>7
<1>7. ASSUME NEW e \in BOOLEAN, v1 # <<>>, Menus!Return(e), v3' = v3, v4' = v4
      PROVE  MenuInv'
  BY <1>1, <1>7, MenuReturns DEF MenuInv
<1>8. CASE Menus!Escape
  BY <1>7, <1>8 DEF Menus!Escape, Menus!Listing, Menus!Settings
<1>9. CASE Menus!Unwind
  BY <1>7, <1>9 DEF Menus!Unwind, Menus!Settings
<1>10. CASE Menus!OpenSubmenu
  <2>1. v1 # <<>> /\ v2 = "menu" /\ Menus!Chosen(Menus!Top).kind = "submenu"
    BY <1>10 DEF Menus!OpenSubmenu, Menus!Enter, Menus!Listing
  <2>2. PICK n : n = Len(v1)
    OBVIOUS
  <2>3. PICK top : top = v1[n]
    OBVIOUS
  <2>4. PICK labels : labels = Append(top.labels, Menus!Chosen(top).label)
    OBVIOUS
  <2>5. PICK f : f = [top EXCEPT !.labels = labels]
    OBVIOUS
  <2>6. PICK g : g = Menus!Call(Menus!Chosen(top).of, labels)
    OBVIOUS
  <2>7. Menus!Top = top
    BY <1>2, <2>1, <2>2, <2>3
  <2>8. v1' = Append([v1 EXCEPT ![n] = f], g) /\ v2' = v2 /\ v3' = v3 /\ v4' = v4
    BY <1>10, <2>2, <2>4, <2>5, <2>6, <2>7 DEF Menus!OpenSubmenu, Menus!WithTop, Menus!Settings
  <2>9. CallsOK(v1)
    BY DEF MenuInv
  <2>10. CallsOK(v1')
    BY <2>1, <2>2, <2>3, <2>4, <2>5, <2>6, <2>7, <2>8, <2>9, SubmenuOpens
  <2>11. v1' # <<>>
    BY <2>8
  <2> QED
    BY <1>1, <2>1, <2>8, <2>10, <2>11
<1>11. CASE Menus!ChooseExit
  <2>1. v1 # <<>> /\ v2 = "menu"
    BY <1>11 DEF Menus!ChooseExit, Menus!Enter, Menus!Listing
  <2>2. PICK top : top = v1[Len(v1)]
    OBVIOUS
  <2>3. PICK f : f = [top EXCEPT !.exit = TRUE]
    OBVIOUS
  <2>4. v1' = Menus!WithTop(f) /\ UNCHANGED <<v2, v3, v4, v5, v6>>
    BY <1>2, <1>11, <2>1, <2>2, <2>3 DEF Menus!ChooseExit, Menus!Settings
  <2>5. top \in Frame /\ ChoiceOK(top)
    BY <1>2, <2>1, <2>2
  <2>6. ChoiceOK(f) /\ f.labels = top.labels
    BY <2>3, <2>5 DEF ChoiceOK, Frame
  <2> QED
    BY <1>3, <2>1, <2>2, <2>4, <2>6
<1>12. CASE Menus!AskValue
  <2>1. v1 # <<>> /\ v1' = v1 /\ v2' = "input" /\ v3' = v3 /\ v4' = v4
    BY <1>12 DEF Menus!AskValue, Menus!Enter, Menus!Listing, Menus!Settings
  <2> QED
    BY <1>1, <2>1 DEF MenuInv
<1>13. ASSUME v2 = "input", v1' = v1, v2' \in {"menu", "dead"}, v3' = v3, v4' = v4
       PROVE  MenuInv'
  BY <1>1, <1>13 DEF MenuInv
<1>14. CASE Menus!CancelInput
  BY <1>13, <1>14 DEF Menus!CancelInput, Menus!Settings
<1>15. CASE Menus!AnswerIntThrows
  BY <1>13, <1>15 DEF Menus!AnswerIntThrows, Menus!Answering, Menus!Settings
<1>16. CASE \E text \in Texts \cup {Menus!NoKey} : Menus!get_barcode_prefix(text)
  BY <1>13, <1>16 DEF Menus!get_barcode_prefix, Menus!Answering
<1>17. ASSUME v2 = "input", v1' = v1, v2' = "menu", v3' \in [Menus!Strings -> Texts],
              v4' \in [Menus!Ints -> Nat \ {0}]
       PROVE  MenuInv'
  <2>1. CallsOK(v1)'
    BY <1>17 DEF MenuInv, CallsOK, ChoiceOK, PathTo, Way, Menus!Chosen
  <2> QED
    BY <1>17, <2>1 DEF MenuInv
<1>18. ASSUME NEW text \in Texts, Menus!AnswerString(text)
       PROVE  MenuInv'
  <2>1. /\ v2 = "input" /\ v1' = v1 /\ v2' = "menu" /\ v4' = v4
        /\ v3' = [v3 EXCEPT ![Menus!Chosen(Menus!Top).of] = text]
    BY <1>18 DEF Menus!AnswerString, Menus!Answering
  <2>2. v3' \in [Menus!Strings -> Texts]
    BY <2>1 DEF MenuInv
  <2> QED
    BY <1>17, <2>1, <2>2 DEF MenuInv
<1>19. ASSUME NEW k \in Numbers, Menus!AnswerInt(k)
       PROVE  MenuInv'
  <2>1. PICK x : x = Menus!Chosen(Menus!Top).of
    OBVIOUS
  <2>2. /\ v2 = "input" /\ v1' = v1 /\ v2' = "menu" /\ v3' = v3
        /\ v4' = [v4 EXCEPT ![x] = IF k = 0 THEN v4[x] ELSE k]
    BY <1>19, <2>1 DEF Menus!AnswerInt, Menus!Answering
  <2>3. k \in Nat
    BY SessionAssumption DEF Menus!SettingsAssumption
  <2>4. v4' \in [Menus!Ints -> Nat \ {0}]
    BY <2>2, <2>3 DEF MenuInv
  <2> QED
    BY <1>17, <2>2, <2>4 DEF MenuInv
<1>20. CASE Menus!Dead
  <2>1. v1' = v1 /\ v2' = v2 /\ v3' = v3 /\ v4' = v4
    BY <1>20 DEF Menus!Dead, Menus!vars
  <2> QED
    BY <1>1, <2>1 DEF MenuInv
<1>21. CASE UNCHANGED partVars
  <2>1. v1' = v1 /\ v2' = v2 /\ v3' = v3 /\ v4' = v4
    BY <1>21 DEF partVars
  <2> QED
    BY <1>1, <2>1 DEF MenuInv
<1> QED
  BY <1>4, <1>5, <1>6, <1>8, <1>9, <1>10, <1>11, <1>12, <1>14, <1>15, <1>16, <1>18, <1>19,
     <1>20, <1>21 DEF Menus!Next, Menus!User

\* Whatever was opened and left before, the line above a menu is the way to it,
\* and every setting is one that the code reading it can use.
THEOREM SessionLabelsAreThePath == RunSpec => []LabelsAreThePath
<1> DEFINE Good == part = "menu" => MenuInv
<1>1. RunInit => Good
  BY MenuInit DEF RunInit
<1>2. Good /\ [RunNext]_runVars => Good'
  <2> SUFFICES ASSUME MenuInv, part = "menu", [RunNext]_runVars
               PROVE  MenuInv'
    BY PartStays
  <2>1. Menus!Next \/ UNCHANGED partVars
    BY DEF RunNext, runVars, partVars
  <2> QED
    BY <2>1, MenuStep
<1>3. Good => LabelsAreThePath
  <2> SUFFICES ASSUME MenuInv
               PROVE  Menus!LabelsAreThePath /\ Menus!SettingsOK
    BY DEF LabelsAreThePath
  <2>1. Menus!SettingsOK
    BY DEF MenuInv, Menus!SettingsOK
  <2>2. CallsOK(v1) /\ v1 \in Seq(Frame) /\ DOMAIN v1 = 1 .. Len(v1)
    BY DEF MenuInv, CallsOK
  <2> DEFINE path(i) == [k \in 1 .. i - 1 |-> Menus!Chosen(v1[k]).label]
             open(i) == IF i < Len(v1) THEN <<Menus!Chosen(v1[i]).label>> ELSE <<>>
  <2>3. ASSUME NEW i \in 1 .. Len(v1)
        PROVE  v1[i].labels = <<"">> \o path(i) \o open(i)
    <3>1. \A k \in 1 .. Len(v1) : Menus!Chosen(v1[k]).label \in Labels
      BY <2>2, ChosenItem DEF CallsOK
    <3>2. i - 1 \in Nat /\ \A k \in 1 .. i - 1 : k \in 1 .. Len(v1)
      OBVIOUS
    <3>3. PICK way : way = path(i)
      OBVIOUS
    <3>4. PICK end : end = open(i)
      OBVIOUS
    <3>5. way \in [1 .. i - 1 -> Labels] /\ DOMAIN way = 1 .. i - 1
      BY <3>1, <3>2, <3>3
    <3>6. way \in Seq(Labels) /\ Len(way) = i - 1
      BY <3>2, <3>5
    <3>7. \A k \in 1 .. i - 1 : way[k] = Menus!Chosen(v1[k]).label
      BY <3>3
    <3>8. end \in Seq(Labels) /\ Len(end) = (IF i < Len(v1) THEN 1 ELSE 0)
          /\ (i < Len(v1) => end[1] = Menus!Chosen(v1[i]).label)
      BY <3>1, <3>4
    <3>9. v1[i].labels = <<"">> \o way \o end
      BY <2>2, <3>6, <3>7, <3>8, WayIs
    <3> QED
      BY <3>3, <3>4, <3>9, Zenon
  <2>4. Menus!LabelsAreThePath
    BY <2>2, <2>3 DEF Menus!LabelsAreThePath
  <2> QED
    BY <2>1, <2>4
<1> QED
  BY <1>1, <1>2, <1>3, PTL DEF RunSpec

-----------------------------------------------------------------------------
(***************************************************************************)
(* COPY streams: the objects ss, the focus f, the transaction t, the       *)
(* connection c, the rows written w, the rows stored b, what the last      *)
(* reader has seen s, and whether an exception was seen g.                 *)
(***************************************************************************)
StreamClasses == {"none", "stream_from", "stream_query", "stream_to"}
StreamObject ==
  [class : StreamClasses, alive : BOOLEAN, finished : BOOLEAN, registered : BOOLEAN]
Copying == [mode : {"none", "out", "in"}, left : Seq(Nat), fails : BOOLEAN]

CopyTypes(t, c, w, b, s, g) ==
  /\ t \in [kind : {"work", "nontransaction"}, status : {"active", "committed", "aborted"},
            pending : BOOLEAN]
  /\ c \in [open : BOOLEAN, copy : Copying, failed : BOOLEAN]
  /\ w \in Seq(Nat) /\ b \in Seq(Nat) /\ s \in [rows : Seq(Nat), ended : BOOLEAN]
  /\ g \in BOOLEAN

Focused(ss, f) ==
  /\ ss \in [Streams -> StreamObject] /\ f \in Streams \cup {NoObject}
  /\ \A o \in Streams : ss[o].registered <=> ss[o].alive /\ ~ss[o].finished
  /\ \A o \in Streams : ss[o].registered <=> f = o

\* A COPY FROM has its stream, and no other COPY has a stream_to.  No COPY is
\* left on a connection that is lost, or that is done with the transaction; and
\* one that has no stream has been abandoned by a constructor that threw.
Attended(ss, f, t, c, g) ==
  /\ c.copy.mode = "in" => f # NoObject /\ ss[f].class = "stream_to"
  /\ c.copy.mode = "out" => f = NoObject \/ ss[f].class # "stream_to"
  /\ c.copy.mode = "none" => c.copy = Stream!Idle
  /\ ~c.open \/ t.status # "active" => c.copy.mode = "none"
  /\ f = NoObject /\ c.copy.mode # "none" => g

\* A block fails with an error that the program has seen or that commit() will
\* throw.
Blamed(t, c, g) == c.failed => g \/ t.pending

\* As long as there was no error, the rows in the table and those in the COPY
\* are the rows that were written.
Books(t, c, w, b, g) ==
  /\ t.status = "committed" /\ ~g => b = w
  /\ t.status = "active" /\ ~g /\ ~t.pending /\ c.open =>
        IF c.copy.mode = "in" THEN b \o c.copy.left = w ELSE b = w

\* The rows read and the rows to come are the first of the table, and all of
\* them unless the COPY is going to fail.
Progress(rows, left, fails) ==
  /\ \A i \in 1 .. Len(rows) : rows[i] = i
  /\ \A i \in 1 .. Len(left) : left[i] = Len(rows) + i
  /\ ~fails => Len(rows) + Len(left) = MaxRows

Reading(ss, f, c, s) ==
  /\ f # NoObject /\ ss[f].class # "stream_to" /\ c.copy.mode = "out" =>
        Progress(s.rows, c.copy.left, c.copy.fails)
  /\ s.ended => s.rows = [i \in 1 .. MaxRows |-> i]

CopyInv ==
  /\ CopyTypes(v3, v4, v5, v6, v8, v9)
  /\ Focused(v1, v2) /\ Attended(v1, v2, v3, v4, v9) /\ Blamed(v3, v4, v9)
  /\ Books(v3, v4, v5, v6, v9) /\ Reading(v1, v2, v4, v8)

LEMMA CopyPrimed ==
  ASSUME CopyTypes(v3', v4', v5', v6', v8', v9'), Focused(v1', v2'),
         Attended(v1', v2', v3', v4', v9'), Blamed(v3', v4', v9'),
         Books(v3', v4', v5', v6', v9'), Reading(v1', v2', v4', v8')
  PROVE  CopyInv'
<1>1. CopyTypes(v3, v4, v5, v6, v8, v9)'
  BY DEF CopyTypes
<1>2. Focused(v1, v2)'
  BY DEF Focused
<1>3. Attended(v1, v2, v3, v4, v9)'
  BY DEF Attended, Stream!Idle
<1>4. Blamed(v3, v4, v9)'
  BY DEF Blamed
<1>5. Books(v3, v4, v5, v6, v9)'
  BY DEF Books
<1>6. Reading(v1, v2, v4, v8)'
  BY DEF Reading, Progress
<1> QED
  BY <1>1, <1>2, <1>3, <1>4, <1>5, <1>6 DEF CopyInv

LEMMA CopyAssumed ==
  MaxRows \in Nat /\ MaxWrites \in Nat /\ NoObject \notin Streams
  BY SessionAssumption DEF Stream!CopyStreamAssumption

LEMMA CopyInit ==
  ASSUME Stream!Init
  PROVE  CopyInv
<1>1. /\ v1 = [o \in Streams |-> Stream!Nothing] /\ v2 = NoObject
      /\ v3 \in [kind : {"work", "nontransaction"}, status : {"active"}, pending : {FALSE}]
      /\ v4 = [open |-> TRUE, copy |-> Stream!Idle, failed |-> FALSE]
      /\ v5 = <<>> /\ v6 = <<>> /\ v8 = Stream!NotSeen /\ v9 = FALSE
  BY DEF Stream!Init
<1>2. /\ Stream!Idle \in Copying /\ Stream!Idle.mode = "none"
      /\ Stream!NotSeen \in [rows : Seq(Nat), ended : BOOLEAN] /\ Stream!NotSeen.ended = FALSE
  BY DEF Stream!Idle, Copying, Stream!NotSeen
<1>3. /\ v4.open = TRUE /\ v4.copy = Stream!Idle /\ v4.failed = FALSE
      /\ v4 \in [open : BOOLEAN, copy : Copying, failed : BOOLEAN]
  BY <1>1, <1>2
<1>4. <<>> \in Seq(Nat)
  OBVIOUS
<1>5. CopyTypes(v3, v4, v5, v6, v8, v9)
  BY <1>1, <1>2, <1>3, <1>4 DEF CopyTypes
<1>6. Focused(v1, v2)
  BY <1>1, CopyAssumed DEF Focused, Stream!Nothing, StreamObject, StreamClasses
<1>7. Attended(v1, v2, v3, v4, v9) /\ Blamed(v3, v4, v9)
  BY <1>1, <1>2, <1>3 DEF Attended, Blamed
<1>8. Books(v3, v4, v5, v6, v9) /\ Reading(v1, v2, v4, v8)
  BY <1>1, <1>2, <1>3 DEF Books, Reading
<1> QED
  BY <1>5, <1>6, <1>7, <1>8 DEF CopyInv

-----------------------------------------------------------------------------
(* What happens to the focus.                                              *)

LEMMA FocusTaken ==
  ASSUME NEW ss, Focused(ss, NoObject), NEW o \in Streams, NEW class \in StreamClasses
  PROVE  Focused([ss EXCEPT ![o] = Stream!New(class)], o)
  BY CopyAssumed DEF Focused, Stream!New, StreamObject

LEMMA FocusIs ==
  ASSUME NEW ss, NEW f, Focused(ss, f), NEW o \in Streams, ss[o].alive, ~ss[o].finished
  PROVE  f = o /\ ss[o].registered /\ ss[o].class \in StreamClasses /\ o # NoObject
  BY CopyAssumed DEF Focused, StreamObject

LEMMA FocusClosed ==
  ASSUME NEW ss, NEW f, Focused(ss, f), NEW o \in Streams, ss[o].alive, ~ss[o].finished
  PROVE  Focused([ss EXCEPT ![o].finished = TRUE, ![o].registered = FALSE], NoObject)
  BY CopyAssumed DEF Focused, StreamObject

LEMMA FocusDestroyed ==
  ASSUME NEW ss, NEW f, Focused(ss, f), NEW o \in Streams
  PROVE  Focused([ss EXCEPT ![o] = Stream!Nothing], IF ss[o].registered THEN NoObject ELSE f)
  BY CopyAssumed DEF Focused, Stream!Nothing, StreamObject, StreamClasses

LEMMA FocusMoved ==
  ASSUME NEW ss, NEW f, Focused(ss, f), NEW o \in Streams, NEW p \in Streams,
         ss[o].alive, ~ss[p].alive
  PROVE  /\ p # o /\ f # p
         /\ Focused([ss EXCEPT ![p] = ss[o], ![o].registered = FALSE, ![o].finished = TRUE],
                    IF ss[o].registered THEN p ELSE f)
  BY CopyAssumed DEF Focused, StreamObject

-----------------------------------------------------------------------------
(* What happens to the COPY.                                               *)

LEMMA IdleIs ==
  /\ Stream!Idle \in Copying /\ Stream!Idle.mode = "none" /\ Stream!Idle.left = <<>>
  /\ Stream!Idle.fails = FALSE
  BY DEF Stream!Idle, Copying

LEMMA NumbersFrom ==
  ASSUME NEW n \in Nat, NEW k \in Nat
  PROVE  /\ [i \in 1 .. n |-> k + i] \in Seq(Nat) /\ Len([i \in 1 .. n |-> k + i]) = n
         /\ [i \in 1 .. n |-> i] \in Seq(Nat) /\ Len([i \in 1 .. n |-> i]) = n
  OBVIOUS

LEMMA CopyOutsAre ==
  ASSUME NEW k \in Stream!CopyOuts
  PROVE  k \in Copying /\ k.mode = "out" /\ Progress(<<>>, k.left, k.fails)
<1>1. PICK n \in 0 .. MaxRows, fails \in BOOLEAN :
        k = [mode |-> "out", left |-> [i \in 1 .. n |-> i], fails |-> fails] /\ (~fails => n = MaxRows)
  <2>1. CASE k \in {[mode |-> "out", left |-> [i \in 1 .. n |-> i], fails |-> n < MaxRows] :
                      n \in 0 .. MaxRows}
    <3>1. PICK n \in 0 .. MaxRows :
            k = [mode |-> "out", left |-> [i \in 1 .. n |-> i], fails |-> n < MaxRows]
      BY <2>1
    <3>2. (n < MaxRows) \in BOOLEAN /\ (~(n < MaxRows) => n = MaxRows)
      BY CopyAssumed
    <3> QED
      BY <3>1, <3>2
  <2>2. CASE k = [mode |-> "out", left |-> [i \in 1 .. MaxRows |-> i], fails |-> TRUE]
    <3>1. MaxRows \in 0 .. MaxRows /\ TRUE \in BOOLEAN
      BY CopyAssumed
    <3> QED
      BY <2>2, <3>1, Zenon
  <2> QED
    BY <2>1, <2>2 DEF Stream!CopyOuts
<1>2. PICK left : left = [i \in 1 .. n |-> i]
  OBVIOUS
<1>3. n \in Nat
  BY CopyAssumed
<1>4. left \in Seq(Nat) /\ Len(left) = n /\ \A i \in 1 .. n : left[i] = i
  BY <1>2, <1>3, NumbersFrom
<1>5. k.mode = "out" /\ k.left = left /\ k.fails = fails /\ k \in Copying
  BY <1>1, <1>2, <1>4 DEF Copying
<1>6. Len(<<>>) = 0 /\ (\A i \in 1 .. 0 : FALSE) /\ \A i \in 1 .. n : 0 + i = i
  OBVIOUS
<1> QED
  BY <1>1, <1>3, <1>4, <1>5, <1>6 DEF Progress

LEMMA OneMoreRow ==
  ASSUME NEW rows \in Seq(Nat), NEW left \in Seq(Nat), left # <<>>, NEW fails,
         Progress(rows, left, fails)
  PROVE  /\ rows \o <<Head(left)>> \in Seq(Nat) /\ Tail(left) \in Seq(Nat)
         /\ Progress(rows \o <<Head(left)>>, Tail(left), fails)
<1>1. PICK new : new = rows \o <<Head(left)>>
  OBVIOUS
<1>2. PICK rest : rest = Tail(left)
  OBVIOUS
<1>3. Len(left) \in Nat \ {0} /\ Head(left) = left[1] /\ left[1] \in Nat
  OBVIOUS
<1>4. left[1] = Len(rows) + 1
  BY <1>3 DEF Progress
<1>5. /\ new \in Seq(Nat) /\ Len(new) = Len(rows) + 1
      /\ \A i \in 1 .. Len(rows) : new[i] = rows[i]
      /\ new[Len(rows) + 1] = Head(left)
  BY <1>1, <1>3
<1>6. /\ rest \in Seq(Nat) /\ Len(rest) = Len(left) - 1
      /\ \A i \in 1 .. Len(left) - 1 : rest[i] = left[i + 1] /\ i + 1 \in 1 .. Len(left)
  BY <1>2, <1>3
<1>7. \A i \in 1 .. Len(new) : new[i] = i
  <2>1. \A i \in 1 .. Len(new) : i = Len(rows) + 1 \/ i \in 1 .. Len(rows)
    BY <1>5
  <2>2. \A i \in 1 .. Len(rows) : rows[i] = i
    BY DEF Progress
  <2> QED
    BY <1>3, <1>4, <1>5, <2>1, <2>2
<1>8. \A i \in 1 .. Len(rest) : rest[i] = Len(new) + i
  BY <1>3, <1>5, <1>6 DEF Progress
<1>9. ~fails => Len(new) + Len(rest) = MaxRows
  BY <1>3, <1>5, <1>6 DEF Progress
<1> QED
  BY <1>1, <1>2, <1>5, <1>6, <1>7, <1>8, <1>9 DEF Progress

LEMMA AllRows ==
  ASSUME NEW rows \in Seq(Nat), Progress(rows, <<>>, FALSE)
  PROVE  rows = [i \in 1 .. MaxRows |-> i]
<1>1. Len(rows) = MaxRows /\ \A i \in 1 .. MaxRows : rows[i] = i
  BY CopyAssumed DEF Progress
<1>2. DOMAIN rows = 1 .. MaxRows /\ rows \in [1 .. MaxRows -> Nat]
  BY <1>1
<1> QED
  BY <1>1, <1>2

-----------------------------------------------------------------------------
(* The transaction with no COPY left on it.                                *)

\* The COPY ends: what remains is to account for the rows.
LEMMA CopyEnded ==
  ASSUME NEW ss, NEW f, NEW t, NEW c, NEW s, NEW g, c.copy = Stream!Idle,
         c.failed => g \/ t.pending, s.ended => s.rows = [i \in 1 .. MaxRows |-> i]
  PROVE  Attended(ss, f, t, c, g) /\ Blamed(t, c, g) /\ Reading(ss, f, c, s)
  BY IdleIs DEF Attended, Blamed, Reading

\* The records of a connection after a step.
LEMMA ConnCopy ==
  ASSUME NEW c \in [open : BOOLEAN, copy : Copying, failed : BOOLEAN], NEW k \in Copying,
         NEW x \in BOOLEAN
  PROVE  /\ [c EXCEPT !.copy = k] \in [open : BOOLEAN, copy : Copying, failed : BOOLEAN]
         /\ [c EXCEPT !.copy = k].open = c.open /\ [c EXCEPT !.copy = k].copy = k
         /\ [c EXCEPT !.copy = k].failed = c.failed
         /\ [c EXCEPT !.copy = k, !.failed = x] \in
               [open : BOOLEAN, copy : Copying, failed : BOOLEAN]
         /\ [c EXCEPT !.copy = k, !.failed = x].open = c.open
         /\ [c EXCEPT !.copy = k, !.failed = x].copy = k
         /\ [c EXCEPT !.copy = k, !.failed = x].failed = x
  OBVIOUS

LEMMA CopyFacts ==
  ASSUME CopyInv
  PROVE  /\ CopyTypes(v3, v4, v5, v6, v8, v9) /\ Focused(v1, v2)
         /\ Attended(v1, v2, v3, v4, v9) /\ Blamed(v3, v4, v9)
         /\ Books(v3, v4, v5, v6, v9) /\ Reading(v1, v2, v4, v8)
         /\ v4 \in [open : BOOLEAN, copy : Copying, failed : BOOLEAN]
         /\ v4.copy \in Copying /\ v4.copy.left \in Seq(Nat) /\ v4.open \in BOOLEAN
         /\ v4.failed \in BOOLEAN /\ v4.copy.fails \in BOOLEAN
         /\ v4.copy.mode \in {"none", "out", "in"}
         /\ v5 \in Seq(Nat) /\ v6 \in Seq(Nat) /\ v8.rows \in Seq(Nat) /\ v9 \in BOOLEAN
         /\ v3.status \in {"active", "committed", "aborted"} /\ v3.pending \in BOOLEAN
         /\ v8 \in [rows : Seq(Nat), ended : BOOLEAN] /\ v8.ended \in BOOLEAN
         /\ v3 \in [kind : {"work", "nontransaction"},
                    status : {"active", "committed", "aborted"}, pending : BOOLEAN]
<1>1. CopyTypes(v3, v4, v5, v6, v8, v9)
  BY DEF CopyInv
<1> QED
  BY <1>1 DEF CopyInv, CopyTypes, Copying

\* A step that ends the COPY, or leaves the connection without one: the rows
\* written stay the same.
LEMMA CopyEnds ==
  ASSUME CopyInv, Focused(v1', v2'), v4'.copy = Stream!Idle,
         v4' \in [open : BOOLEAN, copy : Copying, failed : BOOLEAN],
         v3' \in [kind : {"work", "nontransaction"},
                  status : {"active", "committed", "aborted"}, pending : BOOLEAN],
         v6' \in Seq(Nat), v9' \in BOOLEAN, v5' = v5, v8' = v8,
         v4'.failed => v9' \/ v3'.pending,
         v3'.status = "committed" /\ ~v9' => v6' = v5,
         v3'.status = "active" /\ ~v9' /\ ~v3'.pending /\ v4'.open => v6' = v5
  PROVE  CopyInv'
<1>1. CopyTypes(v3', v4', v5', v6', v8', v9')
  BY CopyFacts DEF CopyTypes
<1>2. v8.ended => v8.rows = [i \in 1 .. MaxRows |-> i]
  BY CopyFacts DEF Reading
<1>3. Attended(v1', v2', v3', v4', v9') /\ Blamed(v3', v4', v9') /\ Reading(v1', v2', v4', v8')
  BY <1>2, CopyEnded
<1>4. Books(v3', v4', v5', v6', v9')
  BY IdleIs DEF Books
<1> QED
  BY <1>1, <1>3, <1>4, CopyPrimed

LEMMA FailingIs ==
  ASSUME CopyInv, NEW c, c = Stream!Failing(v4)
  PROVE  /\ c \in [open : BOOLEAN, copy : Copying, failed : BOOLEAN]
         /\ c.copy = Stream!Idle /\ c.open = v4.open
<1>1. PICK x \in BOOLEAN : x = (v3.kind = "work")
  OBVIOUS
<1>2. c = [v4 EXCEPT !.copy = Stream!Idle, !.failed = x]
  BY <1>1 DEF Stream!Failing
<1> QED
  <2>1. v4 \in [open : BOOLEAN, copy : Copying, failed : BOOLEAN] /\ Stream!Idle \in Copying
    BY CopyFacts, IdleIs
  <2>2. PICK k \in Copying : k = Stream!Idle
    BY <2>1
  <2>3. c = [v4 EXCEPT !.copy = k, !.failed = x]
    BY <1>2, <2>2
  <2> QED
    BY <2>1, <2>2, <2>3

\* A constructor starts a COPY out of the server.
LEMMA CopyOpensOut ==
  ASSUME CopyInv, Stream!MayExec, NEW k \in Stream!CopyOuts, v4' = [v4 EXCEPT !.copy = k],
         v3' = v3, v5' = v5, v6' = v6, v9' \in BOOLEAN, v9 => v9', Focused(v1', v2'),
         \/ v2' \in Streams /\ v1'[v2'].class # "stream_to" /\ v8' = Stream!NotSeen
         \/ v2' = NoObject /\ v9' /\ v8' = v8
  PROVE  CopyInv'
<1>1. v3.status = "active" /\ v2 = NoObject /\ v4.open
  BY DEF Stream!MayExec, Stream!Active
<1>2. k \in Copying /\ k.mode = "out" /\ Progress(<<>>, k.left, k.fails)
  BY CopyOutsAre
<1>3. /\ v4' \in [open : BOOLEAN, copy : Copying, failed : BOOLEAN]
      /\ v4'.open = v4.open /\ v4'.copy = k /\ v4'.failed = v4.failed
  BY <1>2, CopyFacts, ConnCopy
<1>4. /\ Stream!NotSeen \in [rows : Seq(Nat), ended : BOOLEAN]
      /\ Stream!NotSeen.rows = <<>> /\ Stream!NotSeen.ended = FALSE
  BY DEF Stream!NotSeen
<1>5. v8' \in [rows : Seq(Nat), ended : BOOLEAN]
  BY <1>4, CopyFacts
<1>6. CopyTypes(v3', v4', v5', v6', v8', v9')
  BY <1>3, <1>5, CopyFacts DEF CopyTypes
<1>7. Attended(v1', v2', v3', v4', v9')
  BY <1>1, <1>2, <1>3, CopyAssumed DEF Attended
<1>8. Blamed(v3', v4', v9')
  BY <1>3, CopyFacts DEF Blamed
<1>9. v4.copy.mode # "in"
  BY <1>1, CopyFacts DEF Attended
<1>10. Books(v3', v4', v5', v6', v9')
  BY <1>1, <1>2, <1>3, <1>9, CopyFacts DEF Books
<1>11. v8.ended => v8.rows = [i \in 1 .. MaxRows |-> i]
  BY CopyFacts DEF Reading
<1>12. Reading(v1', v2', v4', v8')
  <2>1. CASE v8' = Stream!NotSeen
    BY <1>2, <1>3, <1>4, <2>1 DEF Reading
  <2>2. CASE v2' = NoObject /\ v8' = v8
    BY <1>11, <2>2 DEF Reading
  <2> QED
    BY <2>1, <2>2
<1> QED
  BY <1>6, <1>7, <1>8, <1>10, <1>12, CopyPrimed

LEMMA CopyOpensTo ==
  ASSUME CopyInv, NEW o \in Streams, Stream!OpenTo(o)
  PROVE  CopyInv'
<1>1. PICK k : k = [Stream!Idle EXCEPT !.mode = "in"]
  OBVIOUS
<1>2. k \in Copying /\ k.mode = "in" /\ k.left = <<>> /\ k.fails = FALSE
  BY <1>1, IdleIs DEF Copying
<1>3. /\ v3.status = "active" /\ v2 = NoObject /\ v4.open
      /\ v4' = [v4 EXCEPT !.copy = k] /\ v8' = v8 /\ v2' = o
      /\ v1' = [v1 EXCEPT ![o] = Stream!New("stream_to")]
      /\ v3' = v3 /\ v5' = v5 /\ v6' = v6 /\ v9' = v9
  BY <1>1 DEF Stream!OpenTo, Stream!MayExec, Stream!Active, Stream!Opens
<1>4. Focused(v1', v2')
  BY <1>3, CopyFacts, FocusTaken DEF StreamClasses
<1>5. v1'[o].class = "stream_to" /\ o # NoObject
  BY <1>3, CopyFacts, CopyAssumed DEF Focused, Stream!New
<1>6. /\ v4' \in [open : BOOLEAN, copy : Copying, failed : BOOLEAN]
      /\ v4'.open = v4.open /\ v4'.copy = k /\ v4'.failed = v4.failed
  BY <1>2, <1>3, CopyFacts, ConnCopy
<1>7. CopyTypes(v3', v4', v5', v6', v8', v9')
  BY <1>3, <1>6, CopyFacts DEF CopyTypes
<1>8. Attended(v1', v2', v3', v4', v9') /\ Blamed(v3', v4', v9')
  BY <1>2, <1>3, <1>5, <1>6, CopyFacts DEF Attended, Blamed
<1>9. v4.copy.mode # "in"
  BY <1>3, CopyFacts DEF Attended
<1>10. v6 \o <<>> = v6
  BY CopyFacts
<1>11. Books(v3', v4', v5', v6', v9')
  BY <1>2, <1>3, <1>6, <1>9, <1>10, CopyFacts DEF Books
<1>12. Reading(v1', v2', v4', v8')
  BY <1>2, <1>3, <1>5, <1>6, CopyFacts DEF Reading
<1> QED
  BY <1>4, <1>7, <1>8, <1>11, <1>12, CopyPrimed

-----------------------------------------------------------------------------
(* Readers.                                                                *)

\* The COPY of a reader that has not finished is a COPY out of the server, or
\* there is none any more.
LEMMA ReaderReads ==
  ASSUME CopyInv, NEW o \in Streams, Stream!Reader(o), ~v1[o].finished
  PROVE  /\ v2 = o /\ o # NoObject /\ v1[o].alive /\ v1[o].registered
         /\ v1[o].class # "stream_to" /\ v4.copy.mode # "in"
         /\ v4.copy.left # <<>> => v4.copy.mode = "out"
         /\ v4.copy.mode = "out" => Progress(v8.rows, v4.copy.left, v4.copy.fails)
<1>1. v1[o].alive /\ v1[o].class \in {"stream_from", "stream_query"}
  BY DEF Stream!Reader, Stream!Is, Stream!Live
<1>2. v2 = o /\ v1[o].registered /\ o # NoObject
  BY <1>1, CopyFacts, FocusIs
<1>3. v4.copy.mode # "in"
  BY <1>1, <1>2, CopyFacts DEF Attended
<1>4. v4.copy.left # <<>> => v4.copy.mode = "out"
  BY <1>3, CopyFacts, IdleIs DEF Attended
<1>5. v4.copy.mode = "out" => Progress(v8.rows, v4.copy.left, v4.copy.fails)
  BY <1>1, <1>2, CopyFacts DEF Reading
<1> QED
  BY <1>1, <1>2, <1>3, <1>4, <1>5

LEMMA StreamCloses ==
  ASSUME CopyInv, NEW o \in Streams, v1[o].alive, ~v1[o].finished,
         v1' = Stream!Closed(o), v2' = Stream!FocusWithout(o)
  PROVE  Focused(v1', v2') /\ v2' = NoObject
<1>1. Focused(v1, v2)
  BY CopyFacts
<1>2. Focused([v1 EXCEPT ![o].finished = TRUE, ![o].registered = FALSE], NoObject)
  BY <1>1, FocusClosed
<1>3. v1[o].registered
  BY <1>1, FocusIs
<1>4. v1' = [v1 EXCEPT ![o].finished = TRUE, ![o].registered = FALSE] /\ v2' = NoObject
  BY <1>3 DEF Stream!Closed, Stream!FocusWithout
<1> QED
  BY <1>2, <1>4

LEMMA CopyReads ==
  ASSUME CopyInv, NEW o \in Streams, Stream!Read(o)
  PROVE  CopyInv'
<1>1. Stream!Reader(o) /\ ~v1[o].finished
  BY DEF Stream!Read
<1>2. PICK r : r = Stream!read_copy_line
  OBVIOUS
<1>3. /\ v4' = r.conn
      /\ r.line = <<>> => v1' = Stream!Closed(o) /\ v2' = Stream!FocusWithout(o)
      /\ r.line # <<>> => v1' = v1 /\ v2' = v2
      /\ v8' = [rows |-> v8.rows \o r.line, ended |-> r.line = <<>> /\ r.ok]
      /\ ~r.ok => v9' = TRUE
      /\ r.ok /\ r.line = <<>> => v9' = v9
      /\ r.ok /\ r.line # <<>> => v9' \in {v9, TRUE}
      /\ v3' = v3 /\ v5' = v5 /\ v6' = v6
  BY <1>2 DEF Stream!Read, Stream!Extracted
<1>4. /\ v2 = o /\ o # NoObject /\ v1[o].alive /\ v1[o].registered
      /\ v1[o].class # "stream_to" /\ v4.copy.mode # "in"
      /\ v4.copy.left # <<>> => v4.copy.mode = "out"
      /\ v4.copy.mode = "out" => Progress(v8.rows, v4.copy.left, v4.copy.fails)
  BY <1>1, ReaderReads
\* There is a line.
<1>5. CASE v4.open /\ v4.copy.left # <<>>
  <2>1. PICK left : left = v4.copy.left
    OBVIOUS
  <2>2. PICK k : k = [v4.copy EXCEPT !.left = Tail(left)]
    OBVIOUS
  <2>3. r = [line |-> <<Head(left)>>, ok |-> TRUE, conn |-> [v4 EXCEPT !.copy.left = Tail(left)]]
    BY <1>2, <1>5, <2>1 DEF Stream!read_copy_line
  <2>4. left \in Seq(Nat) /\ left # <<>> /\ v4.copy.mode = "out" /\ v8.rows \in Seq(Nat)
        /\ Progress(v8.rows, left, v4.copy.fails) /\ v4.copy \in Copying
    BY <1>4, <1>5, <2>1, CopyFacts
  <2>5. PICK rows : rows = v8.rows \o <<Head(left)>>
    OBVIOUS
  <2>6. rows \in Seq(Nat) /\ Tail(left) \in Seq(Nat) /\ Progress(rows, Tail(left), v4.copy.fails)
    BY <2>4, <2>5, OneMoreRow
  <2>7. k \in Copying /\ k.mode = "out" /\ k.left = Tail(left) /\ k.fails = v4.copy.fails
    BY <2>2, <2>4, <2>6 DEF Copying
  <2>8. [v4 EXCEPT !.copy.left = Tail(left)] = [v4 EXCEPT !.copy = k]
    BY <2>2, CopyFacts
  <2>9. r.line = <<Head(left)>> /\ r.line # <<>> /\ r.ok = TRUE /\ r.conn = [v4 EXCEPT !.copy = k]
    BY <2>3, <2>8
  <2>10. /\ v4' \in [open : BOOLEAN, copy : Copying, failed : BOOLEAN]
         /\ v4'.open = v4.open /\ v4'.copy = k /\ v4'.failed = v4.failed
    <3>1. v4' = [v4 EXCEPT !.copy = k]
      BY <1>3, <2>9
    <3>2. v4 \in [open : BOOLEAN, copy : Copying, failed : BOOLEAN] /\ k \in Copying
      BY <2>7, CopyFacts
    <3> QED
      BY <3>1, <3>2
  <2>11. v8' = [rows |-> rows, ended |-> FALSE]
    BY <1>3, <2>5, <2>9
  <2>12. /\ v8'.rows = rows /\ v8'.ended = FALSE /\ v8' \in [rows : Seq(Nat), ended : BOOLEAN]
         /\ v1' = v1 /\ v2' = v2 /\ v9' \in BOOLEAN /\ (v9 => v9')
    <3>1. v8'.rows = rows /\ v8'.ended = FALSE /\ v8' \in [rows : Seq(Nat), ended : BOOLEAN]
      BY <2>6, <2>11
    <3>2. v1' = v1 /\ v2' = v2
      BY <1>3, <2>9
    <3>3. v9' \in {v9, TRUE} /\ v9 \in BOOLEAN
      BY <1>3, <2>9, CopyFacts
    <3>4. v9' \in BOOLEAN /\ (v9 => v9')
      <4>1. CASE v9' = v9
        BY <3>3, <4>1
      <4>2. CASE v9' = TRUE
        BY <4>2
      <4> QED
        BY <3>3, <4>1, <4>2
    <3> QED
      BY <3>1, <3>2, <3>4
  <2>13. CopyTypes(v3', v4', v5', v6', v8', v9')
    BY <1>3, <2>10, <2>12, CopyFacts DEF CopyTypes
  <2>14. Focused(v1', v2')
    BY <2>12, CopyFacts
  <2>15. Attended(v1', v2', v3', v4', v9') /\ Blamed(v3', v4', v9')
    BY <1>3, <1>4, <2>4, <2>7, <2>10, <2>12, CopyFacts DEF Attended, Blamed
  <2>16. Books(v3', v4', v5', v6', v9')
    BY <1>3, <2>4, <2>7, <2>10, <2>12, CopyFacts DEF Books
  <2>17. Reading(v1', v2', v4', v8')
    BY <2>6, <2>7, <2>10, <2>12 DEF Reading
  <2> QED
    BY <2>13, <2>14, <2>15, <2>16, <2>17, CopyPrimed
<1>6. ASSUME r.line = <<>>
      PROVE  Focused(v1', v2') /\ v2' = NoObject
  BY <1>1, <1>3, <1>4, <1>6, StreamCloses
\* The COPY has come to its end.
<1>7. CASE v4.open /\ v4.copy.left = <<>> /\ v4.copy.mode = "out" /\ ~v4.copy.fails
  <2>1. PICK c : c = [v4 EXCEPT !.copy = Stream!Idle]
    OBVIOUS
  <2>2. r = [line |-> <<>>, ok |-> TRUE, conn |-> c]
    BY <1>2, <1>7, <2>1 DEF Stream!read_copy_line
  <2>3. r.line = <<>> /\ r.ok = TRUE /\ r.conn = c
    BY <2>2
  <2>4. /\ c \in [open : BOOLEAN, copy : Copying, failed : BOOLEAN]
        /\ c.open = v4.open /\ c.copy = Stream!Idle /\ c.failed = v4.failed
    BY <2>1, CopyFacts, IdleIs
  <2>5. v4' = c /\ v8' = [rows |-> v8.rows, ended |-> TRUE] /\ v9' = v9
    <3>1. v8.rows \o <<>> = v8.rows
      BY CopyFacts
    <3> QED
      BY <1>3, <2>3, <3>1
  <2>6. Progress(v8.rows, <<>>, FALSE)
    BY <1>4, <1>7, CopyFacts
  <2>7. v8.rows = [i \in 1 .. MaxRows |-> i]
    BY <2>6, CopyFacts, AllRows
  <2>8. v8' \in [rows : Seq(Nat), ended : BOOLEAN] /\ v8'.rows = v8.rows /\ v8'.ended = TRUE
    BY <2>5, CopyFacts
  <2>9. CopyTypes(v3', v4', v5', v6', v8', v9')
    BY <1>3, <2>4, <2>5, <2>8, CopyFacts DEF CopyTypes
  <2>10. c.failed => v9' \/ v3'.pending
    BY <1>3, <2>4, <2>5, CopyFacts DEF Blamed
  <2>11. Attended(v1', v2', v3', v4', v9') /\ Blamed(v3', v4', v9') /\ Reading(v1', v2', v4', v8')
    BY <2>4, <2>5, <2>7, <2>8, <2>10, CopyEnded
  <2>12. Books(v3', v4', v5', v6', v9')
    BY <1>3, <1>7, <2>4, <2>5, CopyFacts, IdleIs DEF Books
  <2> QED
    BY <1>6, <2>3, <2>9, <2>11, <2>12, CopyPrimed
\* The COPY, or the connection, has failed.
<1>8. CASE /\ ~(v4.open /\ v4.copy.left # <<>>)
           /\ ~(v4.open /\ v4.copy.mode = "out" /\ ~v4.copy.fails)
  <2>1. PICK c : c = IF v4.open THEN Stream!Failing(v4) ELSE v4
    OBVIOUS
  <2>2. r = [line |-> <<>>, ok |-> FALSE, conn |-> c]
    BY <1>2, <1>8, <2>1 DEF Stream!read_copy_line
  <2>3. r.line = <<>> /\ r.ok = FALSE /\ r.conn = c
    BY <2>2
  <2>4. c \in [open : BOOLEAN, copy : Copying, failed : BOOLEAN] /\ c.copy = Stream!Idle
    <3>1. CASE v4.open
      BY <2>1, <3>1, FailingIs
    <3>2. CASE ~v4.open
      BY <2>1, <3>2, CopyFacts DEF Attended
    <3> QED
      BY <3>1, <3>2
  <2>5. v8' = [rows |-> v8.rows, ended |-> FALSE] /\ v4' = c /\ v9' = TRUE
    <3>1. v8.rows \o <<>> = v8.rows
      BY CopyFacts
    <3> QED
      BY <1>3, <2>3, <3>1
  <2>6. v8' \in [rows : Seq(Nat), ended : BOOLEAN] /\ v8'.ended = FALSE
    BY <2>5, CopyFacts
  <2>7. CopyTypes(v3', v4', v5', v6', v8', v9')
    BY <1>3, <2>4, <2>5, <2>6, CopyFacts DEF CopyTypes
  <2>8. Attended(v1', v2', v3', v4', v9') /\ Blamed(v3', v4', v9') /\ Reading(v1', v2', v4', v8')
    BY <2>4, <2>5, <2>6, CopyEnded
  <2>9. Books(v3', v4', v5', v6', v9')
    BY <2>5 DEF Books
  <2> QED
    BY <1>6, <2>3, <2>7, <2>8, <2>9, CopyPrimed
<1> QED
  BY <1>5, <1>7, <1>8, CopyFacts

LEMMA CopyCompletesFrom ==
  ASSUME CopyInv, NEW o \in Streams, Stream!CompleteFrom(o)
  PROVE  CopyInv'
<1>1. Stream!Reader(o) /\ ~v1[o].finished
  BY DEF Stream!CompleteFrom, Stream!Reader
<1>2. v2 = o /\ v1[o].alive /\ v1[o].registered /\ v4.copy.mode # "in"
  BY <1>1, ReaderReads
<1>3. Focused(v1', v2')
  BY <1>1, <1>2, StreamCloses DEF Stream!CompleteFrom
<1>4. v5' = v5 /\ v6' = v6 /\ v8' = v8
  BY DEF Stream!CompleteFrom
<1>5. CASE v4.open /\ v4.copy.mode = "out" /\ ~v4.copy.fails
  <2>1. v4' = [v4 EXCEPT !.copy = Stream!Idle] /\ v3' = v3 /\ v9' = v9
    BY <1>5 DEF Stream!CompleteFrom
  <2>2. /\ v4' \in [open : BOOLEAN, copy : Copying, failed : BOOLEAN]
        /\ v4'.open = v4.open /\ v4'.copy = Stream!Idle /\ v4'.failed = v4.failed
    BY <2>1, CopyFacts, IdleIs
  <2>3. /\ v3.status = "committed" /\ ~v9 => v6 = v5
        /\ v3.status = "active" /\ ~v9 /\ ~v3.pending /\ v4.open => v6 = v5
    BY <1>2, CopyFacts DEF Books
  <2>4. v4.failed => v9 \/ v3.pending
    BY CopyFacts DEF Blamed
  <2> QED
    BY <1>3, <1>4, <2>1, <2>2, <2>3, <2>4, CopyFacts, CopyEnds
<1>6. CASE ~(v4.open /\ v4.copy.mode = "out" /\ ~v4.copy.fails)
  <2>1. v4' = (IF v4.open THEN Stream!Failing(v4) ELSE v4)
    BY <1>6 DEF Stream!CompleteFrom
  <2>a. \/ v3' = [v3 EXCEPT !.pending = TRUE] /\ v9' = v9
        \/ v9' = TRUE /\ v3' = v3
    BY <1>6 DEF Stream!CompleteFrom
  <2>2. v4' \in [open : BOOLEAN, copy : Copying, failed : BOOLEAN] /\ v4'.copy = Stream!Idle
    <3>1. CASE v4.open
      BY <2>1, <3>1, FailingIs
    <3>2. CASE ~v4.open
      BY <2>1, <3>2, CopyFacts DEF Attended
    <3> QED
      BY <3>1, <3>2
  <2>3. /\ (v3'.pending = TRUE /\ v9' = v9) \/ v9' = TRUE
        /\ v3'.status = v3.status /\ v9' \in BOOLEAN
        /\ v3' \in [kind : {"work", "nontransaction"},
                    status : {"active", "committed", "aborted"}, pending : BOOLEAN]
    BY <2>a, CopyFacts
  <2>4. v3.status = "committed" /\ ~v9 => v6 = v5
    BY CopyFacts DEF Books
  <2> QED
    BY <1>3, <1>4, <2>2, <2>3, <2>4, CopyFacts, CopyEnds
<1> QED
  BY <1>5, <1>6

-----------------------------------------------------------------------------
(* Writers.                                                                *)

LEMMA ThreeParts ==
  ASSUME NEW a \in Seq(Nat), NEW b \in Seq(Nat), NEW c \in Seq(Nat)
  PROVE  a \o (b \o c) = (a \o b) \o c
<1>1. PICK x : x = a \o (b \o c)
  OBVIOUS
<1>2. PICK y : y = (a \o b) \o c
  OBVIOUS
<1>3. x \in Seq(Nat) /\ y \in Seq(Nat) /\ Len(x) = Len(y)
  BY <1>1, <1>2
<1>4. \A i \in 1 .. Len(x) : x[i] = y[i]
  BY <1>1, <1>2
<1> QED
  BY <1>1, <1>2, <1>3, <1>4, SeqEqual

\* A COPY FROM gets more rows: they are written, and are not stored yet.
LEMMA CopyGrows ==
  ASSUME CopyInv, v4.open, v4.copy.mode = "in", NEW new \in Seq(Nat), NEW fails \in BOOLEAN,
         v4' = [v4 EXCEPT !.copy.fails = fails, !.copy.left = v4.copy.left \o new],
         v5' = v5 \o new, v9' \in BOOLEAN, v9 => v9',
         v1' = v1, v2' = v2, v3' = v3, v6' = v6, v8' = v8
  PROVE  CopyInv'
<1>1. PICK left : left = v4.copy.left \o new
  OBVIOUS
<1>2. left \in Seq(Nat) /\ v5' \in Seq(Nat)
  BY <1>1, CopyFacts
<1>3. /\ v4' \in [open : BOOLEAN, copy : Copying, failed : BOOLEAN]
      /\ v4'.open = v4.open /\ v4'.failed = v4.failed
      /\ v4'.copy.mode = "in" /\ v4'.copy.left = left /\ v4'.copy.fails = fails
  BY <1>1, <1>2, CopyFacts DEF Copying
<1>4. CopyTypes(v3', v4', v5', v6', v8', v9')
  BY <1>2, <1>3, CopyFacts DEF CopyTypes
<1>5. Focused(v1', v2')
  BY CopyFacts
<1>6. v2 # NoObject /\ v1[v2].class = "stream_to" /\ v3.status = "active"
  BY CopyFacts DEF Attended
<1>7. Attended(v1', v2', v3', v4', v9') /\ Blamed(v3', v4', v9')
  BY <1>3, <1>6, CopyFacts DEF Attended, Blamed
<1>8. v6 \o (v4.copy.left \o new) = (v6 \o v4.copy.left) \o new
  <2>1. v6 \in Seq(Nat) /\ v4.copy.left \in Seq(Nat)
    BY CopyFacts
  <2> QED
    BY <2>1, ThreeParts
<1>9. Books(v3', v4', v5', v6', v9')
  BY <1>1, <1>3, <1>6, <1>8, CopyFacts DEF Books
<1>10. Reading(v1', v2', v4', v8')
  BY <1>3, CopyFacts DEF Reading
<1> QED
  BY <1>4, <1>5, <1>7, <1>9, <1>10, CopyPrimed

\* The program sees an exception, and nothing else happens.
LEMMA CopyTells ==
  ASSUME CopyInv, v9' = TRUE, v1' = v1, v2' = v2, v4' = v4, v5' = v5, v6' = v6, v8' = v8,
         v3' \in [kind : {"work", "nontransaction"},
                  status : {"active", "committed", "aborted"}, pending : BOOLEAN],
         v3'.status = v3.status
  PROVE  CopyInv'
<1>1. CopyTypes(v3', v4', v5', v6', v8', v9')
  BY CopyFacts DEF CopyTypes
<1>2. Focused(v1', v2') /\ Reading(v1', v2', v4', v8')
  BY CopyFacts
<1>3. Attended(v1', v2', v3', v4', v9') /\ Blamed(v3', v4', v9') /\ Books(v3', v4', v5', v6', v9')
  BY CopyFacts DEF Attended, Blamed, Books
<1> QED
  BY <1>1, <1>2, <1>3, CopyPrimed

LEMMA OneMore ==
  ASSUME NEW S, NEW q \in Seq(S), NEW e \in S
  PROVE  <<e>> \in Seq(S) /\ Append(q, e) = q \o <<e>>
  OBVIOUS

LEMMA CopyWrites ==
  ASSUME CopyInv, NEW o \in Streams, Stream!Write(o)
  PROVE  CopyInv'
<1>1. v1' = v1 /\ v2' = v2 /\ v3' = v3 /\ v6' = v6 /\ v8' = v8
  BY DEF Stream!Write
<1>2. CASE v4.open /\ v4.copy.mode = "in"
  <2>1. PICK bad \in BOOLEAN :
          /\ v4' = [v4 EXCEPT !.copy.fails = v4.copy.fails \/ bad,
                              !.copy.left = Append(v4.copy.left, Len(v5) + 1)]
          /\ v5' = Append(v5, Len(v5) + 1) /\ v9' = v9
    BY <1>2 DEF Stream!Write
  <2>2. PICK new : new = <<Len(v5) + 1>>
    OBVIOUS
  <2>3. /\ new \in Seq(Nat) /\ Append(v5, Len(v5) + 1) = v5 \o new
        /\ Append(v4.copy.left, Len(v5) + 1) = v4.copy.left \o new
    <3>1. v5 \in Seq(Nat) /\ v4.copy.left \in Seq(Nat) /\ Len(v5) + 1 \in Nat
      BY CopyFacts
    <3> QED
      BY <2>2, <3>1, OneMore
  <2>4. PICK fails \in BOOLEAN : fails = (v4.copy.fails \/ bad)
    OBVIOUS
  <2>5. v4' = [v4 EXCEPT !.copy.fails = fails, !.copy.left = v4.copy.left \o new]
    BY <2>1, <2>3, <2>4
  <2> QED
    BY <1>1, <1>2, <2>1, <2>3, <2>5, CopyFacts, CopyGrows
<1>3. CASE ~(v4.open /\ v4.copy.mode = "in")
  <2>1. v9' = TRUE /\ v4' = v4 /\ v5' = v5
    BY <1>3 DEF Stream!Write
  <2> QED
    BY <1>1, <2>1, CopyFacts, CopyTells
<1> QED
  BY <1>2, <1>3

LEMMA CopyTransfers ==
  ASSUME CopyInv, NEW o \in Streams, Stream!Transfer(o)
  PROVE  CopyInv'
<1>1. /\ v1' = v1 /\ v2' = v2 /\ v3' = v3 /\ v6' = v6 /\ v8' = v8
      /\ v4.open /\ v4.copy.mode = "in"
  BY DEF Stream!Transfer
<1>2. PICK n \in 1 .. MaxWrites - Len(v5), broken \in BOOLEAN :
        /\ v5' = v5 \o [i \in 1 .. n |-> Len(v5) + i]
        /\ v4' = [v4 EXCEPT !.copy.left = v4.copy.left \o [i \in 1 .. n |-> Len(v5) + i]]
        /\ v9' = (v9 \/ broken)
  BY DEF Stream!Transfer
<1>3. PICK new : new = [i \in 1 .. n |-> Len(v5) + i]
  OBVIOUS
<1>4. new \in Seq(Nat)
  <2>1. n \in Nat /\ Len(v5) \in Nat
    BY CopyAssumed, CopyFacts
  <2> QED
    BY <1>3, <2>1, NumbersFrom
<1>5. PICK fails \in BOOLEAN : fails = v4.copy.fails
  BY CopyFacts
<1>6. v4' = [v4 EXCEPT !.copy.fails = fails, !.copy.left = v4.copy.left \o new]
  <2>1. v4' = [v4 EXCEPT !.copy.left = v4.copy.left \o new]
    BY <1>2, <1>3
  <2> QED
    BY <1>5, <2>1, CopyFacts DEF Copying
<1>7. v9' \in BOOLEAN /\ (v9 => v9')
  BY <1>2, CopyFacts
<1>8. v5' = v5 \o new
  BY <1>2, <1>3
<1> QED
  BY <1>1, <1>4, <1>6, <1>7, <1>8, CopyGrows

\* What ending a COPY FROM leaves: no COPY, and every row or an error.
LEMMA CopyInEnds ==
  ASSUME CopyInv, NEW o \in Streams, Stream!Is(o, "stream_to"), ~v1[o].finished,
         NEW e, e = Stream!end_copy_write
  PROVE  /\ v2 = o /\ o # NoObject /\ v1[o].registered
         /\ e.ok \in BOOLEAN /\ e.stored \in Seq(Nat)
         /\ e.conn \in [open : BOOLEAN, copy : Copying, failed : BOOLEAN]
         /\ e.ok => /\ e.conn.failed = v4.failed
                    /\ e.conn.open = v4.open /\ v4.copy.mode = "in" /\ e.stored = v4.copy.left
         /\ e.conn.copy = Stream!Idle
         /\ v3.status # "active" => e.stored = <<>> /\ ~e.ok
<1>1. v1[o].alive
  BY DEF Stream!Is, Stream!Live
<1>2. v2 = o /\ o # NoObject /\ v1[o].registered
  BY <1>1, CopyFacts, FocusIs
<1>3. v3.status # "active" => v4.copy.mode = "none"
  BY CopyFacts DEF Attended
<1>4. CASE v4.open /\ v4.copy.mode = "in" /\ ~v4.copy.fails
  <2>1. PICK c : c = [v4 EXCEPT !.copy = Stream!Idle]
    OBVIOUS
  <2>2. /\ c \in [open : BOOLEAN, copy : Copying, failed : BOOLEAN]
        /\ c.copy = Stream!Idle /\ c.failed = v4.failed /\ c.open = v4.open
    BY <2>1, CopyFacts, IdleIs
  <2>3. e.ok = ~v4.copy.fails /\ e.stored = v4.copy.left /\ e.conn = c
    BY <1>4, <2>1 DEF Stream!end_copy_write
  <2> QED
    BY <1>2, <1>3, <1>4, <2>2, <2>3, CopyFacts
<1>5. CASE v4.open /\ v4.copy.mode = "in" /\ v4.copy.fails
  <2>1. PICK c : c = Stream!Failing(v4)
    OBVIOUS
  <2>2. c \in [open : BOOLEAN, copy : Copying, failed : BOOLEAN] /\ c.copy = Stream!Idle
    BY <2>1, FailingIs
  <2>3. e.ok = ~v4.copy.fails /\ e.stored = <<>> /\ e.conn = c
    BY <1>5, <2>1 DEF Stream!end_copy_write
  <2>4. <<>> \in Seq(Nat) /\ (~v4.copy.fails) \in BOOLEAN /\ ~(~v4.copy.fails)
    BY <1>5
  <2> QED
    BY <1>2, <1>3, <1>5, <2>2, <2>3, <2>4
<1>6. CASE ~(v4.open /\ v4.copy.mode = "in")
  <2>1. e.ok = FALSE /\ e.stored = <<>> /\ e.conn = v4
    BY <1>6 DEF Stream!end_copy_write
  <2>2. v4.copy = Stream!Idle
    BY <1>2, <1>6, CopyFacts DEF Attended, Stream!Is
  <2>3. <<>> \in Seq(Nat)
    OBVIOUS
  <2> QED
    BY <1>2, <2>1, <2>2, <2>3, CopyFacts
<1> QED
  BY <1>4, <1>5, <1>6, CopyFacts

\* The rows after the end of a COPY FROM, if nobody has to be told.
LEMMA StoredAll ==
  ASSUME CopyInv, NEW o \in Streams, Stream!Is(o, "stream_to"), ~v1[o].finished,
         NEW e, e = Stream!end_copy_write
  PROVE  /\ v6 \o e.stored \in Seq(Nat)
         /\ v3.status = "committed" /\ ~v9 => v6 \o e.stored = v5
         /\ v3.status = "active" /\ ~v9 /\ ~v3.pending /\ e.conn.open /\ e.ok =>
              v6 \o e.stored = v5
         /\ e.conn.failed /\ e.ok => v9 \/ v3.pending
<1>1. /\ e.ok \in BOOLEAN /\ e.stored \in Seq(Nat)
      /\ e.ok => /\ e.conn.failed = v4.failed /\ e.conn.open = v4.open
                 /\ v4.copy.mode = "in" /\ e.stored = v4.copy.left
      /\ v3.status # "active" => e.stored = <<>> /\ ~e.ok
  BY CopyInEnds
<1>2. v6 \o e.stored \in Seq(Nat) /\ v6 \o <<>> = v6
  BY <1>1, CopyFacts
<1>3. v3.status = "committed" /\ ~v9 => v6 \o e.stored = v5
  BY <1>1, <1>2, CopyFacts DEF Books
<1>4. v3.status = "active" /\ ~v9 /\ ~v3.pending /\ e.conn.open /\ e.ok => v6 \o e.stored = v5
  BY <1>1, CopyFacts DEF Books
<1>5. e.conn.failed /\ e.ok => v9 \/ v3.pending
  BY <1>1, CopyFacts DEF Blamed
<1> QED
  BY <1>2, <1>3, <1>4, <1>5

LEMMA CopyCompletesTo ==
  ASSUME CopyInv, NEW o \in Streams, Stream!CompleteTo(o)
  PROVE  CopyInv'
<1>1. PICK e : e = Stream!end_copy_write
  OBVIOUS
<1>2. /\ Stream!Is(o, "stream_to") /\ ~v1[o].finished
      /\ v1' = Stream!Closed(o) /\ v2' = Stream!FocusWithout(o)
      /\ v4' = e.conn /\ v6' = v6 \o e.stored /\ v9' = (v9 \/ ~e.ok)
      /\ v3' = v3 /\ v5' = v5 /\ v8' = v8
  BY <1>1 DEF Stream!CompleteTo
<1>3. Focused(v1', v2')
  BY <1>2, StreamCloses DEF Stream!Is, Stream!Live
<1>4. /\ e.conn \in [open : BOOLEAN, copy : Copying, failed : BOOLEAN]
      /\ e.conn.copy = Stream!Idle /\ e.ok \in BOOLEAN
  BY <1>1, <1>2, CopyInEnds
<1>5. v9' \in BOOLEAN /\ (~v9' => ~v9 /\ e.ok)
  BY <1>2, <1>4, CopyFacts
<1>6. v6' \in Seq(Nat)
  BY <1>1, <1>2, StoredAll
<1>7. v4'.failed => v9' \/ v3'.pending
  BY <1>1, <1>2, <1>5, StoredAll
<1>8. v3'.status = "committed" /\ ~v9' => v6' = v5
  BY <1>1, <1>2, <1>5, StoredAll
<1>9. v3'.status = "active" /\ ~v9' /\ ~v3'.pending /\ v4'.open => v6' = v5
  BY <1>1, <1>2, <1>5, StoredAll
<1> QED
  BY <1>2, <1>3, <1>4, <1>5, <1>6, <1>7, <1>8, <1>9, CopyFacts, CopyEnds

\* The focus when an object is destroyed, or moved from.
LEMMA DestroyFocus ==
  ASSUME CopyInv, NEW o \in Streams, v1' = [v1 EXCEPT ![o] = Stream!Nothing],
         v2' = Stream!FocusWithout(o)
  PROVE  Focused(v1', v2')
<1>1. v2' = IF v1[o].registered THEN NoObject ELSE v2
  BY DEF Stream!FocusWithout
<1>2. Focused([v1 EXCEPT ![o] = Stream!Nothing], IF v1[o].registered THEN NoObject ELSE v2)
  BY CopyFacts, FocusDestroyed
<1> QED
  BY <1>1, <1>2

\* A stream that has finished is not the focus: its end changes nothing.
LEMMA CopyDropped ==
  ASSUME CopyInv, NEW o \in Streams, v1[o].finished, v1' = [v1 EXCEPT ![o] = Stream!Nothing],
         v2' = Stream!FocusWithout(o), UNCHANGED <<v3, v4, v5, v6, v8, v9>>
  PROVE  CopyInv'
<1>1. Focused(v1', v2')
  BY DestroyFocus
<1>2. v2 # o /\ ~v1[o].registered
  BY CopyFacts DEF Focused
<1>3. v2' = v2 /\ (v2 # NoObject => v1'[v2] = v1[v2])
  BY <1>2, CopyFacts DEF Stream!FocusWithout, Focused
<1>4. CopyTypes(v3', v4', v5', v6', v8', v9') /\ Blamed(v3', v4', v9') /\ Books(v3', v4', v5', v6', v9')
  BY CopyFacts
<1>5. Attended(v1', v2', v3', v4', v9')
  BY <1>3, CopyFacts DEF Attended
<1>6. Reading(v1', v2', v4', v8')
  BY <1>3, CopyFacts DEF Reading
<1> QED
  BY <1>1, <1>4, <1>5, <1>6, CopyPrimed

LEMMA CopyDestroysTo ==
  ASSUME CopyInv, NEW o \in Streams, Stream!DestroyTo(o)
  PROVE  CopyInv'
<1>1. /\ Stream!Is(o, "stream_to") /\ v1' = [v1 EXCEPT ![o] = Stream!Nothing]
      /\ v2' = Stream!FocusWithout(o) /\ v5' = v5 /\ v8' = v8 /\ v9' = v9
  BY DEF Stream!DestroyTo
<1>2. CASE v1[o].finished
  <2>1. v3' = v3 /\ v4' = v4 /\ v6' = v6
    BY <1>2 DEF Stream!DestroyTo
  <2> QED
    BY <1>1, <1>2, <2>1, CopyDropped
<1>3. CASE ~v1[o].finished
  <2>1. PICK e : e = Stream!end_copy_write
    OBVIOUS
  <2>2. /\ v4' = e.conn /\ v6' = v6 \o e.stored
        /\ v3' = [v3 EXCEPT !.pending = v3.pending \/ ~e.ok]
    BY <1>3, <2>1 DEF Stream!DestroyTo
  <2>3. Focused(v1', v2')
    BY <1>1, DestroyFocus
  <2>4. /\ e.conn \in [open : BOOLEAN, copy : Copying, failed : BOOLEAN]
        /\ e.conn.copy = Stream!Idle /\ e.ok \in BOOLEAN
    BY <1>1, <1>3, <2>1, CopyInEnds
  <2>5. PICK x \in BOOLEAN : x = (v3.pending \/ ~e.ok)
    OBVIOUS
  <2>6. /\ v3' \in [kind : {"work", "nontransaction"},
                    status : {"active", "committed", "aborted"}, pending : BOOLEAN]
        /\ v3'.status = v3.status /\ v3'.pending = x
    <3>1. v3' = [v3 EXCEPT !.pending = x]
      BY <2>2, <2>5
    <3> QED
      BY <3>1, CopyFacts
  <2>7. ~x => ~v3.pending /\ e.ok
    BY <2>4, <2>5, CopyFacts
  <2>8. /\ v6' \in Seq(Nat)
        /\ v4'.failed => v9 \/ x
        /\ v3.status = "committed" /\ ~v9 => v6' = v5
        /\ v3.status = "active" /\ ~v9 /\ ~x /\ v4'.open => v6' = v5
    BY <1>1, <1>3, <2>1, <2>2, <2>4, <2>7, StoredAll
  <2> QED
    BY <1>1, <2>2, <2>3, <2>4, <2>6, <2>8, CopyFacts, CopyEnds
<1> QED
  BY <1>2, <1>3

LEMMA CopyMoves ==
  ASSUME CopyInv, NEW o \in Streams, NEW p \in Streams, Stream!Move(o, p)
  PROVE  CopyInv'
<1>1. /\ v1[o].alive /\ v1[o].class = "stream_to" /\ ~v1[p].alive
      /\ v1' = [v1 EXCEPT ![p] = v1[o], ![o].registered = FALSE, ![o].finished = TRUE]
      /\ v2' = IF v1[o].registered THEN p ELSE v2
      /\ v3' = v3 /\ v4' = v4 /\ v5' = v5 /\ v6' = v6 /\ v8' = v8 /\ v9' = v9
  BY DEF Stream!Move, Stream!Is, Stream!Live
<1>2. Focused(v1, v2)
  BY CopyFacts
<1>3. /\ p # o /\ v2 # p
      /\ Focused([v1 EXCEPT ![p] = v1[o], ![o].registered = FALSE, ![o].finished = TRUE],
                 IF v1[o].registered THEN p ELSE v2)
  BY <1>1, <1>2, FocusMoved
<1>4. Focused(v1', v2')
  BY <1>1, <1>3
<1>5. CopyTypes(v3', v4', v5', v6', v8', v9') /\ Blamed(v3', v4', v9') /\ Books(v3', v4', v5', v6', v9')
  BY <1>1, CopyFacts
<1>6. /\ v2' = NoObject <=> v2 = NoObject
      /\ v2 # NoObject => v1'[v2'].class = v1[v2].class
  <2>1. CASE v1[o].registered
    <3>1. v2 = o /\ v2' = p /\ o # NoObject /\ p # NoObject
      BY <1>1, <1>2, <2>1, CopyAssumed DEF Focused
    <3>2. v1'[p] = v1[o]
      BY <1>1, <1>2, <1>3 DEF Focused
    <3> QED
      BY <3>1, <3>2
  <2>2. CASE ~v1[o].registered
    <3>1. v2' = v2 /\ v2 # o
      BY <1>1, <1>2, <2>2 DEF Focused
    <3>2. v2 # NoObject => v1'[v2] = v1[v2]
      BY <1>1, <1>2, <1>3, <3>1 DEF Focused
    <3> QED
      BY <3>1, <3>2
  <2> QED
    BY <2>1, <2>2
<1>7. Attended(v1', v2', v3', v4', v9')
  BY <1>1, <1>6, CopyFacts DEF Attended
<1>8. Reading(v1', v2', v4', v8')
  BY <1>1, <1>6, CopyFacts DEF Reading
<1> QED
  BY <1>4, <1>5, <1>7, <1>8, CopyPrimed

-----------------------------------------------------------------------------
(* The transaction.                                                        *)

\* The rows, as commit() and the commands that end a COPY find them.
LEMMA QuietBooks ==
  ASSUME CopyInv, v2 = NoObject
  PROVE  /\ v4.copy.mode # "in"
         /\ v3.status = "committed" /\ ~v9 => v6 = v5
         /\ v3.status = "active" /\ ~v9 /\ ~v3.pending /\ v4.open => v6 = v5
         /\ v4.failed => v9 \/ v3.pending
         /\ ~v9 => v4.copy = Stream!Idle
  BY CopyFacts DEF Attended, Books, Blamed

LEMMA CopyExecs ==
  ASSUME CopyInv, Stream!Exec
  PROVE  CopyInv'
<1>1. PICK x \in BOOLEAN : x = Stream!BlockFails
  BY DEF Stream!BlockFails
<1>2. /\ v2 = NoObject /\ v4' = [v4 EXCEPT !.copy = Stream!Idle, !.failed = x]
      /\ v9' = (v9 \/ x) /\ v1' = v1 /\ v2' = v2 /\ v3' = v3 /\ v5' = v5 /\ v6' = v6 /\ v8' = v8
  BY <1>1 DEF Stream!Exec, Stream!MayExec
<1>3. /\ v4' \in [open : BOOLEAN, copy : Copying, failed : BOOLEAN]
      /\ v4'.copy = Stream!Idle /\ v4'.failed = x /\ v4'.open = v4.open
  BY <1>2, CopyFacts, IdleIs
<1>4. v9' \in BOOLEAN /\ (x => v9') /\ (~v9' => ~v9)
  BY <1>2, CopyFacts
<1>5. Focused(v1', v2')
  BY <1>2, CopyFacts
<1> QED
  BY <1>2, <1>3, <1>4, <1>5, QuietBooks, CopyFacts, CopyEnds

LEMMA CopyCommits ==
  ASSUME CopyInv, Stream!Commit
  PROVE  CopyInv'
<1>1. /\ v3.status = "active" /\ v2 = NoObject /\ v4.open /\ ~v3.pending
      /\ v3' = [v3 EXCEPT !.status = "committed"]
      /\ v6' = IF Stream!BlockFails THEN <<>> ELSE v6
      /\ v4' = [v4 EXCEPT !.copy = Stream!Idle, !.failed = FALSE]
      /\ v1' = v1 /\ v2' = v2 /\ v5' = v5 /\ v8' = v8 /\ v9' = v9
  BY DEF Stream!Commit, Stream!MayExec, Stream!Active
<1>2. /\ v4' \in [open : BOOLEAN, copy : Copying, failed : BOOLEAN]
      /\ v4'.copy = Stream!Idle /\ v4'.failed = FALSE
  BY <1>1, CopyFacts, IdleIs
<1>3. /\ v3' \in [kind : {"work", "nontransaction"},
                  status : {"active", "committed", "aborted"}, pending : BOOLEAN]
      /\ v3'.status = "committed"
  BY <1>1, CopyFacts
<1>4. ~v9 => ~Stream!BlockFails
  BY <1>1, QuietBooks, IdleIs DEF Stream!BlockFails
<1>5. ~v9 => v6' = v5
  BY <1>1, <1>4, QuietBooks
<1>6. v6' \in Seq(Nat)
  BY <1>1, CopyFacts
<1>7. Focused(v1', v2')
  BY <1>1, CopyFacts
<1> QED
  BY <1>1, <1>2, <1>3, <1>5, <1>6, <1>7, CopyFacts, CopyEnds

LEMMA CopyAborts ==
  ASSUME CopyInv, Stream!Abort
  PROVE  CopyInv'
<1>1. /\ v3' = [v3 EXCEPT !.status = "aborted"]
      /\ v1' = v1 /\ v2' = v2 /\ v5' = v5 /\ v8' = v8 /\ v9' = v9
  BY DEF Stream!Abort
<1>2. /\ v3' \in [kind : {"work", "nontransaction"},
                  status : {"active", "committed", "aborted"}, pending : BOOLEAN]
      /\ v3'.status = "aborted" /\ v3'.pending = v3.pending
  BY <1>1, CopyFacts
<1>3. /\ v4' \in [open : BOOLEAN, copy : Copying, failed : BOOLEAN] /\ v4'.copy = Stream!Idle
      /\ v4'.failed => v9 \/ v3.pending
      /\ v6' \in Seq(Nat)
  <2>1. CASE v4.open
    <3>1. /\ v4' = [v4 EXCEPT !.copy = Stream!Idle, !.failed = FALSE]
          /\ v6' = IF v3.kind = "work" THEN <<>> ELSE v6
      BY <2>1 DEF Stream!Abort
    <3>2. v6' \in Seq(Nat)
      BY <3>1, CopyFacts
    <3>3. /\ v4' \in [open : BOOLEAN, copy : Copying, failed : BOOLEAN]
          /\ v4'.copy = Stream!Idle /\ v4'.failed = FALSE
      BY <3>1, CopyFacts, IdleIs
    <3> QED
      BY <3>2, <3>3
  <2>2. CASE ~v4.open
    <3>1. v4' = v4 /\ v6' = v6
      BY <2>2 DEF Stream!Abort
    <3> QED
      BY <2>2, <3>1, CopyFacts DEF Attended, Blamed
  <2> QED
    BY <2>1, <2>2
<1>4. Focused(v1', v2')
  BY <1>1, CopyFacts
<1> QED
  BY <1>1, <1>2, <1>3, <1>4, CopyFacts, CopyEnds

LEMMA CopyLoses ==
  ASSUME CopyInv, Stream!LoseConnection
  PROVE  CopyInv'
<1>1. /\ v4' = [open |-> FALSE, copy |-> Stream!Idle, failed |-> FALSE]
      /\ v6' = IF v3.kind = "work" /\ v3.status = "active" THEN <<>> ELSE v6
      /\ v1' = v1 /\ v2' = v2 /\ v3' = v3 /\ v5' = v5 /\ v8' = v8 /\ v9' = v9
  BY DEF Stream!LoseConnection, Stream!Active
<1>2. /\ v4' \in [open : BOOLEAN, copy : Copying, failed : BOOLEAN]
      /\ v4'.copy = Stream!Idle /\ v4'.failed = FALSE /\ v4'.open = FALSE
  BY <1>1, IdleIs
<1>3. v6' \in Seq(Nat) /\ (v3.status = "committed" /\ ~v9 => v6' = v5)
  BY <1>1, CopyFacts DEF Books
<1>4. Focused(v1', v2')
  BY <1>1, CopyFacts
<1> QED
  BY <1>1, <1>2, <1>3, <1>4, CopyFacts, CopyEnds

LEMMA CopyRefuses ==
  ASSUME CopyInv, Stream!OpenRefused
  PROVE  CopyInv'
<1>1. v9' = TRUE /\ v1' = v1 /\ v2' = v2 /\ v3' = v3 /\ v5' = v5 /\ v6' = v6 /\ v8' = v8
  BY DEF Stream!OpenRefused
<1>2. CASE v2 = NoObject
  <2>1. v4' = [v4 EXCEPT !.copy = Stream!Idle]
    BY <1>2 DEF Stream!OpenRefused
  <2>2. v4' \in [open : BOOLEAN, copy : Copying, failed : BOOLEAN] /\ v4'.copy = Stream!Idle
    BY <2>1, CopyFacts, IdleIs
  <2>3. Focused(v1', v2')
    BY <1>1, CopyFacts
  <2> QED
    BY <1>1, <2>2, <2>3, CopyFacts, CopyEnds
<1>3. CASE v2 # NoObject
  <2>1. v4' = v4
    BY <1>3 DEF Stream!OpenRefused
  <2> QED
    BY <1>1, <2>1, CopyFacts, CopyTells
<1> QED
  BY <1>2, <1>3

LEMMA CopyCommitRefused ==
  ASSUME CopyInv, Stream!CommitRefused
  PROVE  CopyInv'
<1>1. /\ v3' = [v3 EXCEPT !.pending = FALSE] /\ v9' = TRUE
      /\ v1' = v1 /\ v2' = v2 /\ v4' = v4 /\ v5' = v5 /\ v6' = v6 /\ v8' = v8
  BY DEF Stream!CommitRefused
<1>2. /\ v3' \in [kind : {"work", "nontransaction"},
                  status : {"active", "committed", "aborted"}, pending : BOOLEAN]
      /\ v3'.status = v3.status
  BY <1>1, CopyFacts
<1> QED
  BY <1>1, <1>2, CopyTells

LEMMA CopyStep ==
  ASSUME CopyInv, Stream!Next \/ UNCHANGED partVars
  PROVE  CopyInv'
<1>1. ASSUME NEW o \in Streams, NEW class \in {"stream_from", "stream_query"},
             Stream!OpenFrom(o, class)
      PROVE  CopyInv'
  <2>1. PICK k \in Stream!CopyOuts : v4' = [v4 EXCEPT !.copy = k]
    BY <1>1 DEF Stream!OpenFrom
  <2>2. /\ Stream!MayExec /\ v2 = NoObject /\ v8' = Stream!NotSeen /\ v2' = o
        /\ v1' = [v1 EXCEPT ![o] = Stream!New(class)]
        /\ v3' = v3 /\ v5' = v5 /\ v6' = v6 /\ v9' = v9
    BY <1>1 DEF Stream!OpenFrom, Stream!Opens, Stream!MayExec
  <2>3. Focused(v1, NoObject) /\ class \in StreamClasses
    BY <2>2, CopyFacts DEF StreamClasses
  <2>4. Focused(v1', v2')
    BY <2>2, <2>3, FocusTaken
  <2>5. v1'[o].class # "stream_to"
    BY <2>2, <2>3 DEF Focused, Stream!New
  <2> QED
    BY <2>1, <2>2, <2>4, <2>5, CopyFacts, CopyOpensOut
<1>2. CASE Stream!WrongColumns
  <2>1. PICK k \in Stream!CopyOuts : v4' = [v4 EXCEPT !.copy = k]
    BY <1>2 DEF Stream!WrongColumns
  <2>2. /\ Stream!MayExec /\ v2 = NoObject /\ v2' = v2 /\ v1' = v1 /\ v8' = v8
        /\ v3' = v3 /\ v5' = v5 /\ v6' = v6 /\ v9' = TRUE
    BY <1>2 DEF Stream!WrongColumns, Stream!MayExec
  <2>3. Focused(v1', v2')
    BY <2>2, CopyFacts
  <2> QED
    BY <2>1, <2>2, <2>3, CopyOpensOut
<1>3. ASSUME NEW o \in Streams, Stream!DestroyFrom(o)
      PROVE  CopyInv'
  BY <1>3, CopyDropped DEF Stream!DestroyFrom
<1>4. CASE UNCHANGED partVars
  <2>1. v1' = v1 /\ v2' = v2 /\ v3' = v3 /\ v4' = v4 /\ v5' = v5 /\ v6' = v6 /\ v8' = v8 /\ v9' = v9
    BY <1>4 DEF partVars
  <2> QED
    BY <2>1, CopyFacts, CopyPrimed
<1> QED
  BY <1>1, <1>2, <1>3, <1>4, CopyOpensTo, CopyRefuses, CopyReads, CopyCompletesFrom, CopyWrites,
     CopyTransfers, CopyCompletesTo, CopyMoves, CopyDestroysTo, CopyExecs, CopyCommits,
     CopyCommitRefused, CopyAborts, CopyLoses DEF Stream!Next

\* However streams are opened, moved, refused and destroyed, and whenever the
\* server fails or the connection goes: a reader at its end has given every row,
\* commit() without an exception has stored every row, the focus is the stream
\* in use, and a COPY FROM has a stream to end it.
THEOREM SessionCopyStreamsExact == RunSpec => []CopyStreamsExact
<1> DEFINE Good == part = "copy_stream" => CopyInv
<1>1. RunInit => Good
  BY CopyInit DEF RunInit
<1>2. Good /\ [RunNext]_runVars => Good'
  <2> SUFFICES ASSUME CopyInv, part = "copy_stream", [RunNext]_runVars
               PROVE  CopyInv'
    BY PartStays
  <2>1. Stream!Next \/ UNCHANGED partVars
    BY DEF RunNext, runVars, partVars
  <2> QED
    BY <2>1, CopyStep
<1>3. Good => CopyStreamsExact
  <2> SUFFICES ASSUME CopyInv
               PROVE  /\ Stream!EndIsTheEnd /\ Stream!CommitMeansStored
                      /\ Stream!FocusExact /\ Stream!CopyInOwned
    BY DEF CopyStreamsExact
  <2>1. Stream!EndIsTheEnd
    BY CopyFacts DEF Reading, Stream!EndIsTheEnd
  <2>2. Stream!CommitMeansStored
    BY CopyFacts DEF Books, Stream!CommitMeansStored
  <2>3. Stream!FocusExact
    BY CopyFacts DEF Focused, Stream!FocusExact, Stream!Live
  <2>4. Stream!CopyInOwned
    BY CopyFacts DEF Attended, Stream!CopyInOwned
  <2> QED
    BY <2>1, <2>2, <2>3, <2>4
<1> QED
  BY <1>1, <1>2, <1>3, PTL DEF RunSpec

-----------------------------------------------------------------------------
(***************************************************************************)
(* Cursors.                                                                *)
(***************************************************************************)
ServerCursor ==
  [state : {"none", "open", "closed", "committed", "rolled_back"}, pos : Nat, hold : BOOLEAN,
   scroll : BOOLEAN, old : BOOLEAN, loose : BOOLEAN]

CursorObject ==
  [kind : {"none", "sql", "stateless"}, live : BOOLEAN, own : {"owned", "loose"},
   at_end : {-1, 0, 1}, pos : Nat \cup {-1}, endpos : Nat \cup {-1}, adopted : BOOLEAN,
   start_hit : BOOLEAN, bad : BOOLEAN]

\* What the object c believes of the SQL cursor s.  at_end is what adjust()
\* needs: it says on which side of the rows the cursor is, except that an
\* adopted cursor which has not moved may be anywhere.
Mirrors(s, c) ==
  /\ s \in ServerCursor /\ c \in CursorObject
  /\ s.pos <= v1 + 1 /\ ~c.bad
  /\ c.pos # -1 => c.pos = s.pos
  /\ c.pos = -1 => c.endpos = -1
  /\ c.pos = -1 <=> c.adopted /\ ~c.start_hit
  /\ c.endpos # -1 => c.endpos = v1 + 1
  /\ c.at_end = -1 => s.pos = 0
  /\ c.at_end = 1 => s.pos = v1 + 1
  /\ c.at_end = 0 /\ c.pos # -1 => s.pos \in 1 .. v1

CurInv ==
  /\ v1 \in 0 .. MaxRows /\ v2 \in {"open", "failed", "none"}
  /\ v3 \in ServerCursor /\ v4 \in CursorObject /\ ~v4.bad /\ v3.pos <= v1 + 1
  /\ v4.live => Mirrors(v3, v4) /\ (v4.kind = "stateless" => v4.pos # -1)
  /\ v4.own = "owned" => ~v3.hold
  /\ v3.old => v3.hold
  /\ Curs!OwnedClosed /\ Curs!RetrieveExact

LEMMA CursAssumed == MaxRows \in Nat /\ Strides \subseteq Int
  BY SessionAssumption DEF Curs!CursorAssumption

LEMMA MaxOfTwo ==
  ASSUME NEW a \in Int, NEW b \in Int
  PROVE  Curs!Max({a, b}) = IF a >= b THEN a ELSE b
<1>1. \E x \in {a, b} : \A y \in {a, b} : x >= y
  OBVIOUS
<1>2. PICK m : m = CHOOSE x \in {a, b} : \A y \in {a, b} : x >= y
  OBVIOUS
<1>3. m \in {a, b} /\ \A y \in {a, b} : m >= y
  BY <1>1, <1>2
<1> QED
  BY <1>2, <1>3 DEF Curs!Max

LEMMA MinOfTwo ==
  ASSUME NEW a \in Int, NEW b \in Int
  PROVE  Curs!Min({a, b}) = IF a <= b THEN a ELSE b
<1>1. \E x \in {a, b} : \A y \in {a, b} : x <= y
  OBVIOUS
<1>2. PICK m : m = CHOOSE x \in {a, b} : \A y \in {a, b} : x <= y
  OBVIOUS
<1>3. m \in {a, b} /\ \A y \in {a, b} : m <= y
  BY <1>1, <1>2
<1> QED
  BY <1>2, <1>3 DEF Curs!Min

\* How many rows a move of n from p passes.
HowFar(p, n) ==
  IF n > 0 THEN IF v1 - p <= 0 THEN 0 ELSE IF n <= v1 - p THEN n ELSE v1 - p
  ELSE IF p - 1 <= 0 THEN 0 ELSE IF -n <= p - 1 THEN -n ELSE p - 1

LEMMA PassedRows ==
  ASSUME v1 \in Nat, NEW p \in Nat, p <= v1 + 1, NEW n \in Int, n # 0
  PROVE  /\ HowFar(p, n) \in Nat
         /\ Curs!Passed(p, n) \in Seq(Nat) /\ Len(Curs!Passed(p, n)) = HowFar(p, n)
         /\ \A i \in 1 .. HowFar(p, n) : Curs!Passed(p, n)[i] = IF n > 0 THEN p + i ELSE p - i
<1>1. PICK k : k = IF n > 0 THEN Curs!Max({0, Curs!Min({n, v1 - p})})
                   ELSE Curs!Max({0, Curs!Min({-n, p - 1})})
  OBVIOUS
<1>2. k = HowFar(p, n) /\ k \in Nat
  <2>1. CASE n > 0
    <3>1. PICK m : m = Curs!Min({n, v1 - p})
      OBVIOUS
    <3>2. m = (IF n <= v1 - p THEN n ELSE v1 - p) /\ m \in Int
      BY <3>1, MinOfTwo
    <3>3. k = IF 0 >= m THEN 0 ELSE m
      <4>1. k = Curs!Max({0, m})
        BY <1>1, <2>1, <3>1
      <4> QED
        BY <3>2, <4>1, MaxOfTwo
    <3> QED
      BY <2>1, <3>2, <3>3 DEF HowFar
  <2>2. CASE n < 0
    <3>1. PICK m : m = Curs!Min({-n, p - 1})
      OBVIOUS
    <3>2. m = (IF -n <= p - 1 THEN -n ELSE p - 1) /\ m \in Int
      BY <3>1, MinOfTwo
    <3>3. k = IF 0 >= m THEN 0 ELSE m
      <4>1. k = Curs!Max({0, m})
        BY <1>1, <2>2, <3>1
      <4> QED
        BY <3>2, <4>1, MaxOfTwo
    <3> QED
      BY <2>2, <3>2, <3>3 DEF HowFar
  <2> QED
    BY <2>1, <2>2
<1>3. Curs!Passed(p, n) = [i \in 1 .. k |-> IF n > 0 THEN p + i ELSE p - i]
  BY <1>1 DEF Curs!Passed
<1>4. \A i \in 1 .. k : (IF n > 0 THEN p + i ELSE p - i) \in Nat
  BY <1>2 DEF HowFar
<1> QED
  BY <1>2, <1>3, <1>4

LEMMA LandedAt ==
  ASSUME v1 \in Nat, NEW p \in Nat, p <= v1 + 1, NEW n \in Int, n # 0
  PROVE  /\ n > 0 /\ HowFar(p, n) # n => Curs!Landed(p, n) = v1 + 1
         /\ n < 0 /\ HowFar(p, n) # -n => Curs!Landed(p, n) = 0
         /\ n > 0 /\ HowFar(p, n) = n => Curs!Landed(p, n) = p + n /\ p + n \in 1 .. v1
         /\ n < 0 /\ HowFar(p, n) = -n => Curs!Landed(p, n) = p + n /\ p + n \in 1 .. v1
         /\ Curs!Landed(p, n) \in Nat /\ Curs!Landed(p, n) <= v1 + 1
<1>1. PICK k : k = Len(Curs!Passed(p, n))
  OBVIOUS
<1>2. k = HowFar(p, n)
  BY <1>1, PassedRows
<1>3. Curs!Landed(p, n) = CASE n > 0 /\ k < n -> v1 + 1
                            [] n < 0 /\ k < -n -> 0
                            [] OTHER -> p + n
  BY <1>1 DEF Curs!Landed
<1>4. CASE n > 0
  BY <1>2, <1>3, <1>4 DEF HowFar
<1>5. CASE n < 0
  BY <1>2, <1>3, <1>5 DEF HowFar
<1> QED
  BY <1>4, <1>5

\* The object c after a step of n != 0 from the position p of the server that
\* passed k rows.
Adjusted(c, n, k) ==
  [c EXCEPT !.at_end = (IF n > 0 THEN IF k = n THEN 0 ELSE 1 ELSE IF k = -n THEN 0 ELSE -1),
            !.pos = (IF n > 0
                     THEN IF c.pos = -1 THEN -1
                          ELSE IF k = n THEN c.pos + n ELSE v1 + 1
                     ELSE IF k = -n THEN IF c.pos = -1 THEN -1 ELSE c.pos + n ELSE 0),
            !.endpos = (IF n > 0 /\ k # n
                        THEN IF c.pos = -1 THEN -1 ELSE v1 + 1
                        ELSE c.endpos)]

\* adjust() finds the displacement, and no contradiction.
LEMMA AdjustIs ==
  ASSUME v1 \in Nat, NEW s, NEW c, Mirrors(s, c), NEW n \in Int, n # 0,
         NEW k, k = HowFar(s.pos, n)
  PROVE  Curs!adjust(c, n, k) = Adjusted(c, n, k)
<1>1. /\ c \in CursorObject /\ s.pos \in Nat /\ s.pos <= v1 + 1 /\ c.bad = FALSE
      /\ c.pos \in Nat \cup {-1} /\ c.endpos \in Nat \cup {-1} /\ c.at_end \in {-1, 0, 1}
      /\ c.pos # -1 => c.pos = s.pos
      /\ c.pos = -1 => c.endpos = -1
      /\ c.endpos # -1 => c.endpos = v1 + 1
      /\ c.at_end = -1 => s.pos = 0
      /\ c.at_end = 1 => s.pos = v1 + 1
      /\ c.at_end = 0 /\ c.pos # -1 => s.pos \in 1 .. v1
  BY DEF Mirrors, CursorObject, ServerCursor
<1>2. k \in Nat
  BY <1>1 DEF HowFar
<1> DEFINE direction == IF n < 0 THEN -1 ELSE 1
           short == k # (IF n < 0 THEN -n ELSE n)
           real == IF short /\ c.at_end # direction THEN k + 1 ELSE k
           known == IF short /\ direction < 0 /\ c.pos = -1 THEN real ELSE c.pos
           pos == IF known = -1 THEN -1 ELSE known + direction * real
           wrong == \/ short /\ direction < 0 /\ known # real
                    \/ short /\ direction > 0 /\ c.endpos # -1 /\ pos # c.endpos
<1>3. Curs!adjust(c, n, k) =
        [c EXCEPT !.at_end = IF short THEN direction ELSE 0,
                  !.bad = c.bad \/ wrong,
                  !.pos = IF wrong THEN c.pos ELSE pos,
                  !.endpos = IF short /\ direction > 0 /\ ~wrong THEN pos ELSE c.endpos]
  BY DEF Curs!adjust, Curs!Sign, Curs!Abs, Curs!Unknown
<1>4. /\ ~wrong
      /\ (IF short THEN direction ELSE 0) =
           (IF n > 0 THEN IF k = n THEN 0 ELSE 1 ELSE IF k = -n THEN 0 ELSE -1)
      /\ pos = (IF n > 0
                THEN IF c.pos = -1 THEN -1
                     ELSE IF k = n THEN c.pos + n ELSE v1 + 1
                ELSE IF k = -n THEN IF c.pos = -1 THEN -1 ELSE c.pos + n ELSE 0)
      /\ short /\ direction > 0 <=> n > 0 /\ k # n
  <2>1. CASE n > 0 /\ k = n
    <3>1. ~short /\ direction = 1
      BY <2>1
    <3>2. real = n /\ known = c.pos
      BY <2>1, <3>1
    <3>3. pos = IF c.pos = -1 THEN -1 ELSE c.pos + n
      BY <3>1, <3>2
    <3> HIDE DEF direction, short, pos, known, real
    <3> QED
      BY <2>1, <3>1, <3>2, <3>3
  <2>2. CASE n > 0 /\ k # n
    <3>1. short /\ direction = 1
      BY <2>2
    <3>2. known = c.pos
      BY <3>1
    <3>3. c.pos # -1 => s.pos + real = v1 + 1
      BY <1>1, <1>2, <2>2, <3>1 DEF HowFar
    <3>4. real \in Nat
      BY <1>2
    <3>5. pos = IF c.pos = -1 THEN -1 ELSE v1 + 1
      <4> HIDE DEF real, known, direction
      <4> QED
        BY <1>1, <3>1, <3>2, <3>3, <3>4
    <3>6. c.endpos # -1 => pos = c.endpos
      <4> HIDE DEF pos
      <4> QED
        BY <1>1, <3>5
    <3> HIDE DEF direction, short, pos, known, real
    <3> QED
      BY <2>2, <3>1, <3>2, <3>5, <3>6
  <2>3. CASE n < 0 /\ k = -n
    <3>1. ~short /\ direction = -1
      BY <2>3
    <3>2. real = -n /\ known = c.pos
      BY <2>3, <3>1
    <3>3. pos = IF c.pos = -1 THEN -1 ELSE c.pos + n
      <4> HIDE DEF real, known, direction
      <4> QED
        BY <1>1, <3>1, <3>2
    <3> HIDE DEF direction, short, pos, known, real
    <3> QED
      BY <2>3, <3>1, <3>2, <3>3
  <2>4. CASE n < 0 /\ k # -n
    <3>1. short /\ direction = -1
      BY <2>4
    <3>2. real \in Nat /\ (c.pos # -1 => real = c.pos)
      BY <1>1, <1>2, <2>4, <3>1 DEF HowFar
    <3>3. known = real
      <4> HIDE DEF real, direction, short
      <4> QED
        BY <3>1, <3>2
    <3>4. pos = 0
      <4> HIDE DEF real, known, direction
      <4> QED
        BY <3>1, <3>2, <3>3
    <3> HIDE DEF direction, short, pos, known, real
    <3> QED
      BY <2>4, <3>1, <3>3, <3>4
  <2> QED
    BY <2>1, <2>2, <2>3, <2>4
<1>5. (c.bad \/ wrong) = c.bad /\ (IF wrong THEN c.pos ELSE pos) = pos
  <2> HIDE DEF wrong, pos
  <2> QED
    BY <1>1, <1>4
<1> HIDE DEF direction, short, pos, known, real, wrong
<1>6. Curs!adjust(c, n, k) =
        [c EXCEPT !.at_end = IF short THEN direction ELSE 0, !.pos = pos,
                  !.endpos = IF short /\ direction > 0 THEN pos ELSE c.endpos]
  <2>1. (IF short /\ direction > 0 /\ ~wrong THEN pos ELSE c.endpos) =
          (IF short /\ direction > 0 THEN pos ELSE c.endpos)
    BY <1>4
  <2>2. Curs!adjust(c, n, k) =
          [c EXCEPT !.at_end = IF short THEN direction ELSE 0, !.bad = c.bad, !.pos = pos,
                    !.endpos = IF short /\ direction > 0 THEN pos ELSE c.endpos]
    BY <1>3, <1>5, <2>1
  <2> QED
    BY <1>1, <2>2 DEF CursorObject
<1>7. (IF short /\ direction > 0 THEN pos ELSE c.endpos) =
        (IF n > 0 /\ k # n THEN IF c.pos = -1 THEN -1 ELSE v1 + 1 ELSE c.endpos)
  BY <1>4
<1> QED
  BY <1>4, <1>6, <1>7 DEF Adjusted

\* What a step of a cursor leaves alone.
CursorKept(s, c, t, e) ==
  /\ t.state = s.state /\ t.hold = s.hold /\ t.old = s.old /\ t.scroll = s.scroll
  /\ e.kind = c.kind /\ e.live = c.live /\ e.own = c.own /\ e.adopted = c.adopted

\* A step of n from s and c, by k rows, to t and e.
Stride(s, c, n, k, land, d, t, e) ==
  /\ k = HowFar(s.pos, n) /\ land = Curs!Landed(s.pos, n)
  /\ d = Adjusted(c, n, k) /\ t = [s EXCEPT !.pos = land]
  /\ e = [d EXCEPT !.start_hit = d.start_hit \/ land = 0]

LEMMA StepMirrors ==
  ASSUME v1 \in Nat, NEW s, NEW c, Mirrors(s, c), NEW n \in Int, n # 0,
         NEW k, NEW land, NEW d, NEW t, NEW e, Stride(s, c, n, k, land, d, t, e)
  PROVE  /\ Mirrors(t, e) /\ CursorKept(s, c, t, e) /\ t.pos = land
         /\ c.pos # -1 => e.pos # -1
         /\ c.endpos # -1 => e.endpos # -1
         /\ n > 0 /\ k # n /\ c.pos # -1 => e.endpos = v1 + 1
         /\ n < 0 /\ k # -n => e.pos # -1
<1>0. /\ k = HowFar(s.pos, n) /\ land = Curs!Landed(s.pos, n)
      /\ d = Adjusted(c, n, k) /\ t = [s EXCEPT !.pos = land]
      /\ e = [d EXCEPT !.start_hit = d.start_hit \/ land = 0]
  BY DEF Stride
<1>1. /\ c \in CursorObject /\ s \in ServerCursor /\ s.pos \in Nat /\ s.pos <= v1 + 1
      /\ c.bad = FALSE
      /\ c.pos \in Nat \cup {-1} /\ c.endpos \in Nat \cup {-1} /\ c.at_end \in {-1, 0, 1}
      /\ c.pos # -1 => c.pos = s.pos
      /\ c.pos = -1 => c.endpos = -1
      /\ c.pos = -1 <=> c.adopted /\ ~c.start_hit
      /\ c.endpos # -1 => c.endpos = v1 + 1
      /\ c.start_hit \in BOOLEAN /\ c.adopted \in BOOLEAN
  BY DEF Mirrors, CursorObject, ServerCursor
<1>2. /\ n > 0 /\ k # n => land = v1 + 1
      /\ n < 0 /\ k # -n => land = 0
      /\ n > 0 /\ k = n => land = s.pos + n /\ land \in 1 .. v1
      /\ n < 0 /\ k = -n => land = s.pos + n /\ land \in 1 .. v1
      /\ land \in Nat /\ land <= v1 + 1
  BY <1>0, <1>1, LandedAt
<1>3. t \in ServerCursor /\ t.pos = land /\ t.state = s.state /\ t.hold = s.hold /\ t.old = s.old
      /\ t.scroll = s.scroll
  BY <1>0, <1>1, <1>2 DEF ServerCursor
<1>4. PICK hit \in BOOLEAN : hit = (c.start_hit \/ land = 0)
  OBVIOUS
<1>5. PICK at : at = IF n > 0 THEN IF k = n THEN 0 ELSE 1 ELSE IF k = -n THEN 0 ELSE -1
  OBVIOUS
<1>6. PICK pos : pos = IF n > 0
                       THEN IF c.pos = -1 THEN -1 ELSE IF k = n THEN c.pos + n ELSE v1 + 1
                       ELSE IF k = -n THEN IF c.pos = -1 THEN -1 ELSE c.pos + n ELSE 0
  OBVIOUS
<1>7. PICK endpos : endpos = IF n > 0 /\ k # n THEN IF c.pos = -1 THEN -1 ELSE v1 + 1
                             ELSE c.endpos
  OBVIOUS
<1>8. d = [c EXCEPT !.at_end = at, !.pos = pos, !.endpos = endpos]
  BY <1>0, <1>5, <1>6, <1>7 DEF Adjusted
<1>9. /\ e.at_end = at /\ e.pos = pos /\ e.endpos = endpos /\ e.start_hit = hit
      /\ e.kind = c.kind /\ e.live = c.live /\ e.own = c.own /\ e.adopted = c.adopted
      /\ e.bad = c.bad
      /\ e = [kind |-> c.kind, live |-> c.live, own |-> c.own, at_end |-> at, pos |-> pos,
              endpos |-> endpos, adopted |-> c.adopted, start_hit |-> hit, bad |-> c.bad]
  <2>1. d.start_hit = c.start_hit
    BY <1>1, <1>8 DEF CursorObject
  <2>2. e = [d EXCEPT !.start_hit = hit]
    BY <1>0, <1>4, <2>1
  <2>3. d = [kind |-> c.kind, live |-> c.live, own |-> c.own, at_end |-> at, pos |-> pos,
             endpos |-> endpos, adopted |-> c.adopted, start_hit |-> c.start_hit, bad |-> c.bad]
    BY <1>1, <1>8 DEF CursorObject
  <2>4. e = [kind |-> c.kind, live |-> c.live, own |-> c.own, at_end |-> at, pos |-> pos,
             endpos |-> endpos, adopted |-> c.adopted, start_hit |-> hit, bad |-> c.bad]
    BY <2>2, <2>3
  <2> QED
    BY <2>4
<1>10. pos \in Nat \cup {-1} /\ endpos \in Nat \cup {-1} /\ at \in {-1, 0, 1}
  BY <1>1, <1>2, <1>5, <1>6, <1>7
<1>11. e \in CursorObject
  BY <1>1, <1>9, <1>10 DEF CursorObject
<1>12. pos # -1 => pos = land
  BY <1>1, <1>2, <1>6
<1>13. /\ pos = -1 => c.pos = -1
       /\ pos = -1 => endpos = -1
       /\ endpos # -1 => endpos = v1 + 1
  BY <1>1, <1>2, <1>6, <1>7
<1>14. pos = -1 <=> c.adopted /\ ~hit
  <2>1. c.pos = -1 => (pos = -1 <=> land # 0)
    BY <1>1, <1>2, <1>6
  <2>2. c.pos # -1 => pos # -1
    BY <1>13
  <2>3. hit <=> c.start_hit \/ land = 0
    BY <1>4
  <2> QED
    BY <1>1, <2>1, <2>2, <2>3
<1>15. /\ at = -1 => land = 0
       /\ at = 1 => land = v1 + 1
       /\ at = 0 => land \in 1 .. v1
  BY <1>2, <1>5
<1>16. /\ c.endpos # -1 => endpos # -1
       /\ n > 0 /\ k # n /\ c.pos # -1 => endpos = v1 + 1
       /\ n < 0 /\ k # -n => pos # -1
  BY <1>1, <1>6, <1>7
<1>17. Mirrors(t, e)
  BY <1>1, <1>2, <1>3, <1>9, <1>11, <1>12, <1>13, <1>14, <1>15 DEF Mirrors
<1>18. CursorKept(s, c, t, e)
  BY <1>3, <1>9 DEF CursorKept
<1> QED
  BY <1>3, <1>9, <1>13, <1>16, <1>17, <1>18

\* Calls of the object.
Calls == [s : ServerCursor, c : CursorObject, got : Seq(Nat), threw : BOOLEAN]

\* What a step of n that began as call and ended as f has done.
Stepped(call, n, f) ==
  /\ f \in Calls /\ Mirrors(f.s, f.c) /\ CursorKept(call.s, call.c, f.s, f.c)
  /\ call.c.pos # -1 => f.c.pos # -1
  /\ call.c.endpos # -1 => f.c.endpos # -1
  /\ ~f.threw => ~call.threw /\ f.s.pos = IF n = 0 THEN call.s.pos ELSE Curs!Landed(call.s.pos, n)
  /\ ~f.threw /\ n > 0 /\ HowFar(call.s.pos, n) # n /\ call.c.pos # -1 => f.c.endpos = v1 + 1
  /\ ~f.threw /\ n < 0 /\ HowFar(call.s.pos, n) # -n => f.c.pos # -1
  /\ ~call.threw /\ Curs!Works(call.s, n) => ~f.threw

LEMMA FetchIs ==
  ASSUME v1 \in Nat, NEW call \in Calls, Mirrors(call.s, call.c), NEW n \in Int,
         NEW f, f = Curs!fetch(call, n)
  PROVE  /\ Stepped(call, n, f)
         /\ ~f.threw => f.got = IF n = 0 THEN <<>> ELSE Curs!Passed(call.s.pos, n)
<1>0. /\ call.s \in ServerCursor /\ call.c \in CursorObject /\ call.got \in Seq(Nat)
      /\ call.threw \in BOOLEAN /\ <<>> \in Seq(Nat) /\ call.s.pos \in Nat /\ call.s.pos <= v1 + 1
  BY DEF Calls, Mirrors, ServerCursor
<1>1. CASE call.threw
  <2>1. f = call
    BY <1>1 DEF Curs!fetch
  <2> QED
    BY <1>0, <1>1, <2>1 DEF Stepped, CursorKept
<1>2. CASE ~call.threw /\ n = 0
  <2>1. f = [call EXCEPT !.got = <<>>]
    BY <1>2 DEF Curs!fetch
  <2>2. f \in Calls /\ f.s = call.s /\ f.c = call.c /\ f.got = <<>> /\ f.threw = FALSE
    BY <1>0, <1>2, <2>1 DEF Calls
  <2> QED
    BY <1>2, <2>2 DEF Stepped, CursorKept
<1>3. CASE ~call.threw /\ n # 0 /\ ~Curs!Works(call.s, n)
  <2>1. f = [call EXCEPT !.threw = TRUE]
    BY <1>3 DEF Curs!fetch
  <2>2. f \in Calls /\ f.s = call.s /\ f.c = call.c /\ f.threw = TRUE
    BY <1>0, <2>1 DEF Calls
  <2> QED
    BY <1>3, <2>2 DEF Stepped, CursorKept
<1>4. CASE ~call.threw /\ n # 0 /\ Curs!Works(call.s, n)
  <2>1. PICK passed : passed = Curs!Passed(call.s.pos, n)
    OBVIOUS
  <2>2. PICK land : land = Curs!Landed(call.s.pos, n)
    OBVIOUS
  <2>3. PICK d : d = Curs!adjust(call.c, n, Len(passed))
    OBVIOUS
  <2>4. PICK t : t = [call.s EXCEPT !.pos = land]
    OBVIOUS
  <2>5. PICK e : e = [d EXCEPT !.start_hit = d.start_hit \/ land = 0]
    OBVIOUS
  <2>6. PICK k : k = HowFar(call.s.pos, n)
    OBVIOUS
  <2>7. f = [call EXCEPT !.s.pos = land, !.c = e, !.got = passed]
    BY <1>4, <2>1, <2>2, <2>3, <2>5 DEF Curs!fetch
  <2>8. passed \in Seq(Nat) /\ Len(passed) = k
    BY <1>0, <1>4, <2>1, <2>6, PassedRows
  <2>9. d = Adjusted(call.c, n, k)
    BY <1>4, <2>3, <2>6, <2>8, AdjustIs
  <2>10. /\ Mirrors(t, e) /\ CursorKept(call.s, call.c, t, e) /\ t.pos = land
         /\ call.c.pos # -1 => e.pos # -1
         /\ call.c.endpos # -1 => e.endpos # -1
         /\ n > 0 /\ k # n /\ call.c.pos # -1 => e.endpos = v1 + 1
         /\ n < 0 /\ k # -n => e.pos # -1
    <3>1. Stride(call.s, call.c, n, k, land, d, t, e)
      BY <2>2, <2>4, <2>5, <2>6, <2>9 DEF Stride
    <3> QED
      BY <1>4, <3>1, StepMirrors
  <2>11. t \in ServerCursor /\ e \in CursorObject
    BY <2>10 DEF Mirrors
  <2>12. f = [call EXCEPT !.s = t, !.c = e, !.got = passed]
    BY <1>0, <2>4, <2>7 DEF Calls
  <2>13. f \in Calls /\ f.s = t /\ f.c = e /\ f.got = passed /\ f.threw = FALSE
    BY <1>0, <1>4, <2>8, <2>11, <2>12 DEF Calls
  <2>14. Stepped(call, n, f)
    BY <1>4, <2>2, <2>6, <2>10, <2>13 DEF Stepped
  <2> QED
    BY <1>4, <2>1, <2>13, <2>14
<1> QED
  BY <1>1, <1>2, <1>3, <1>4

LEMMA MoveIs ==
  ASSUME v1 \in Nat, NEW call \in Calls, Mirrors(call.s, call.c), NEW n \in Int,
         NEW m, m = Curs!move(call, n)
  PROVE  Stepped(call, n, m) /\ m.got = call.got
<1>1. PICK f : f = Curs!fetch(call, n)
  OBVIOUS
<1>2. Stepped(call, n, f)
  BY <1>1, FetchIs
<1>3. m = [f EXCEPT !.got = call.got]
  BY <1>1 DEF Curs!move
<1>4. f \in Calls /\ call.got \in Seq(Nat)
  BY <1>2 DEF Stepped, Calls
<1>5. m \in Calls /\ m.s = f.s /\ m.c = f.c /\ m.got = call.got /\ m.threw = f.threw
  BY <1>3, <1>4 DEF Calls
<1> QED
  BY <1>2, <1>5 DEF Stepped

-----------------------------------------------------------------------------
(* Ranges of rows.                                                         *)

\* Where a move to a row, or to the place after the last one, arrives.
LEMMA ArrivesAt ==
  ASSUME v1 \in Nat, NEW p \in Nat, p <= v1 + 1, NEW q \in Nat, q <= v1 + 1, q # p
  PROVE  Curs!Landed(p, q - p) = q
<1>1. PICK n \in Int : n = q - p
  OBVIOUS
<1>2. n # 0 /\ p + n = q
  BY <1>1
<1>3. /\ n > 0 /\ HowFar(p, n) # n => Curs!Landed(p, n) = v1 + 1
      /\ n < 0 /\ HowFar(p, n) # -n => Curs!Landed(p, n) = 0
      /\ n > 0 /\ HowFar(p, n) = n => Curs!Landed(p, n) = p + n
      /\ n < 0 /\ HowFar(p, n) = -n => Curs!Landed(p, n) = p + n
  BY <1>2, LandedAt
<1>4. /\ n > 0 => (HowFar(p, n) # n <=> q = v1 + 1)
      /\ n < 0 => (HowFar(p, n) # -n <=> q = 0)
  BY <1>1 DEF HowFar
<1>5. Curs!Landed(p, n) = q
  BY <1>2, <1>3, <1>4
<1> QED
  BY <1>1, <1>5

\* What retrieve(begin, end) is to give: the rows between, in that order.
Between(begin, end, got) ==
  LET wanted == {x \in 0 .. v1 - 1 : (begin <= x /\ x < end) \/ (end < x /\ x <= begin)}
  IN  /\ {got[i] - 1 : i \in DOMAIN got} = wanted
      /\ \A i, j \in DOMAIN got : i < j => IF begin < end THEN got[i] < got[j] ELSE got[i] > got[j]

LEMMA NothingBetween ==
  ASSUME v1 \in Nat, NEW begin \in Int, NEW end \in Int, begin = end \/ (begin = v1 /\ end >= v1)
  PROVE  Between(begin, end, <<>>)
<1>1. {x \in 0 .. v1 - 1 : (begin <= x /\ x < end) \/ (end < x /\ x <= begin)} = {}
  OBVIOUS
<1>2. DOMAIN <<>> = {}
  OBVIOUS
<1> QED
  BY <1>1, <1>2 DEF Between

LEMMA ForwardBetween ==
  ASSUME v1 \in Nat, NEW begin \in Nat, NEW end \in Int, NEW stop \in Int, begin < stop,
         stop <= v1, stop = end \/ (stop = v1 /\ v1 <= end),
         NEW got \in Seq(Nat), Len(got) = stop - begin,
         \A i \in 1 .. stop - begin : got[i] = begin + i
  PROVE  Between(begin, end, got)
<1>1. DOMAIN got = 1 .. stop - begin
  OBVIOUS
<1>2. ASSUME NEW x \in {got[i] - 1 : i \in DOMAIN got}
      PROVE  x \in 0 .. v1 - 1 /\ begin <= x /\ x < end
  <2>1. PICK i \in 1 .. stop - begin : x = got[i] - 1
    BY <1>1, <1>2
  <2>2. x = begin + i - 1 /\ i \in Int /\ 1 <= i /\ i <= stop - begin
    BY <2>1
  <2>3. x \in Int /\ begin <= x /\ x < stop
    BY <2>2
  <2>4. stop <= end
    OBVIOUS
  <2>5. x <= v1 - 1 /\ 0 <= x /\ x < end
    BY <2>3, <2>4
  <2> QED
    BY <2>3, <2>5
<1>3. ASSUME NEW x \in 0 .. v1 - 1, (begin <= x /\ x < end) \/ (end < x /\ x <= begin)
      PROVE  x \in {got[i] - 1 : i \in DOMAIN got}
  <2>1. x + 1 - begin \in 1 .. stop - begin
    BY <1>3
  <2>2. got[x + 1 - begin] = begin + (x + 1 - begin)
    BY <2>1
  <2>3. got[x + 1 - begin] - 1 = x
    BY <2>2
  <2> QED
    BY <1>1, <2>1, <2>3
<1>4. {got[i] - 1 : i \in DOMAIN got} =
        {x \in 0 .. v1 - 1 : (begin <= x /\ x < end) \/ (end < x /\ x <= begin)}
  BY <1>2, <1>3
<1>5. \A i, j \in DOMAIN got : i < j => got[i] < got[j]
  BY <1>1
<1>6. begin < end
  OBVIOUS
<1> QED
  BY <1>4, <1>5, <1>6 DEF Between

LEMMA BackwardBetween ==
  ASSUME v1 \in Nat, NEW begin \in Nat, begin < v1, NEW end \in Int, end >= -1, end < begin,
         NEW got \in Seq(Nat), Len(got) = begin - end,
         \A i \in 1 .. begin - end : got[i] = begin + 2 - i
  PROVE  Between(begin, end, got)
<1>1. DOMAIN got = 1 .. begin - end
  OBVIOUS
<1>2. ASSUME NEW x \in {got[i] - 1 : i \in DOMAIN got}
      PROVE  x \in 0 .. v1 - 1 /\ end < x /\ x <= begin
  <2>1. PICK i \in 1 .. begin - end : x = got[i] - 1
    BY <1>1, <1>2
  <2>2. x = begin + 2 - i - 1
    BY <2>1
  <2> QED
    BY <2>2
<1>3. ASSUME NEW x \in 0 .. v1 - 1, (begin <= x /\ x < end) \/ (end < x /\ x <= begin)
      PROVE  x \in {got[i] - 1 : i \in DOMAIN got}
  <2>1. begin + 1 - x \in 1 .. begin - end
    BY <1>3
  <2>2. got[begin + 1 - x] = begin + 2 - (begin + 1 - x)
    BY <2>1
  <2>3. got[begin + 1 - x] - 1 = x
    BY <2>2
  <2> QED
    BY <1>1, <2>1, <2>3
<1>4. {got[i] - 1 : i \in DOMAIN got} =
        {x \in 0 .. v1 - 1 : (begin <= x /\ x < end) \/ (end < x /\ x <= begin)}
  BY <1>2, <1>3
<1>5. \A i, j \in DOMAIN got : i < j => got[i] > got[j]
  BY <1>1
<1>6. ~(begin < end)
  OBVIOUS
<1> QED
  BY <1>4, <1>5, <1>6 DEF Between

\* retrieve(), once the size of the result is known.
LEMMA RetrieveIs ==
  ASSUME v1 \in Nat, NEW call \in Calls, Mirrors(call.s, call.c), call.c.pos # -1,
         call.got = <<>>, ~call.threw => call.c.endpos # -1,
         NEW begin \in Nat, NEW end \in Int, end >= -1, ~(begin >= v1 /\ end < begin),
         NEW r, r = Curs!stateless_cursor_retrieve(call, begin, end)
  PROVE  /\ r \in Calls /\ Mirrors(r.s, r.c) /\ CursorKept(call.s, call.c, r.s, r.c)
         /\ r.c.pos # -1
         /\ ~r.threw /\ ~Curs!OutOfRange(call, begin) => Between(begin, end, r.got)
<1>0. /\ call.s \in ServerCursor /\ call.c \in CursorObject /\ call.threw \in BOOLEAN
      /\ call.s.pos \in Nat /\ call.s.pos <= v1 + 1 /\ call.c.pos = call.s.pos
  BY DEF Calls, Mirrors, ServerCursor
<1>1. CASE call.threw
  <2>1. r = call
    BY <1>1 DEF Curs!stateless_cursor_retrieve
  <2> QED
    BY <1>1, <2>1 DEF CursorKept
<1>2. CASE ~call.threw
  <2>1. call.c.endpos = v1 + 1
    BY <1>2 DEF Mirrors
  <2>2. PICK stop : stop = Curs!Max({-1, Curs!Min({end, v1})})
    OBVIOUS
  <2>3. stop = (IF end <= v1 THEN end ELSE v1) /\ stop \in Int
    <3>1. PICK m : m = Curs!Min({end, v1})
      OBVIOUS
    <3>2. m = (IF end <= v1 THEN end ELSE v1) /\ m \in Int /\ m >= -1
      BY <3>1, MinOfTwo
    <3>3. stop = IF -1 >= m THEN -1 ELSE m
      <4>1. stop = Curs!Max({-1, m}) /\ -1 \in Int
        BY <2>2, <3>1
      <4> QED
        BY <3>2, <4>1, MaxOfTwo
    <3> QED
      BY <3>2, <3>3
  <2>4. PICK direction : direction = IF begin < stop THEN 1 ELSE -1
    OBVIOUS
  <2>5. call.c.endpos - 1 = v1
    BY <2>1
  <2>a. Curs!OutOfRange(call, begin) <=> begin > v1
    BY <1>2, <2>5 DEF Curs!OutOfRange
  <2>6. r = IF begin > v1 \/ begin = stop
            THEN call
            ELSE Curs!fetch(Curs!move(call, (begin - direction) - (call.c.pos - 1)), stop - begin)
    BY <1>2, <2>2, <2>4, <2>5, <2>a DEF Curs!stateless_cursor_retrieve
  <2>7. CASE begin > v1
    <3>1. r = call
      BY <2>6, <2>7
    <3> QED
      BY <2>7, <2>a, <3>1 DEF CursorKept
  <2>8. CASE begin <= v1 /\ begin = stop
    <3>1. r = call
      BY <1>2, <2>6, <2>8
    <3>2. begin = end \/ (begin = v1 /\ end >= v1)
      BY <2>3, <2>8
    <3>3. Between(begin, end, <<>>)
      BY <3>2, NothingBetween
    <3> QED
      BY <3>1, <3>3 DEF CursorKept
  <2>9. CASE begin <= v1 /\ begin # stop
    \* The move goes to the place before the first row wanted.
    <3>1. PICK q : q = IF begin < stop THEN begin ELSE begin + 2
      OBVIOUS
    <3>2. PICK n : n = q - call.s.pos
      OBVIOUS
    <3>3. q \in Nat /\ q <= v1 + 1 /\ n \in Int
      BY <1>0, <2>3, <2>9, <3>1, <3>2
    <3>4. (begin - direction) - (call.c.pos - 1) = n
      BY <1>0, <2>4, <3>1, <3>2
    <3>5. PICK m : m = Curs!move(call, n)
      OBVIOUS
    <3>6. r = Curs!fetch(m, stop - begin)
      BY <1>2, <2>6, <2>9, <3>4, <3>5
    <3>7. Stepped(call, n, m)
      BY <3>3, <3>5, MoveIs
    <3>8. /\ m \in Calls /\ Mirrors(m.s, m.c) /\ CursorKept(call.s, call.c, m.s, m.c)
          /\ m.c.pos # -1
          /\ ~m.threw => m.s.pos = IF n = 0 THEN call.s.pos ELSE Curs!Landed(call.s.pos, n)
      BY <3>7 DEF Stepped
    <3>9. ~m.threw => m.s.pos = q
      <4>1. n # 0 => Curs!Landed(call.s.pos, n) = q
        <5>1. PICK p : p = call.s.pos
          OBVIOUS
        <5>2. p \in Nat /\ p <= v1 + 1 /\ n = q - p
          BY <1>0, <3>2, <5>1
        <5>3. q # p => Curs!Landed(p, q - p) = q
          BY <3>3, <5>2, ArrivesAt
        <5>4. n # 0 => q # p
          BY <3>3, <5>2
        <5> QED
          BY <5>1, <5>2, <5>3, <5>4
      <4>2. n = 0 => call.s.pos = q
        BY <1>0, <3>2, <3>3
      <4> QED
        BY <3>8, <4>1, <4>2
    <3>10. PICK w : w = stop - begin
      OBVIOUS
    <3>11. w \in Int /\ w # 0 /\ r = Curs!fetch(m, w)
      BY <2>3, <2>9, <3>6, <3>10
    <3>12. Stepped(m, w, r) /\ (~r.threw => r.got = Curs!Passed(m.s.pos, w))
      BY <3>8, <3>11, FetchIs
    <3>13. /\ r \in Calls /\ Mirrors(r.s, r.c) /\ CursorKept(m.s, m.c, r.s, r.c)
           /\ r.c.pos # -1 /\ (~r.threw => ~m.threw)
      BY <3>8, <3>12 DEF Stepped
    <3>14. CursorKept(call.s, call.c, r.s, r.c)
      BY <3>8, <3>13 DEF CursorKept
    <3>15. ASSUME ~r.threw
           PROVE  Between(begin, end, r.got)
      <4>1. PICK got : got = Curs!Passed(q, w)
        OBVIOUS
      <4>2. r.got = got
        BY <3>9, <3>12, <3>13, <3>15, <4>1
      <4>3. /\ HowFar(q, w) \in Nat /\ got \in Seq(Nat) /\ Len(got) = HowFar(q, w)
            /\ \A i \in 1 .. HowFar(q, w) : got[i] = IF w > 0 THEN q + i ELSE q - i
        BY <3>3, <3>11, <4>1, PassedRows
      <4>4. CASE begin < stop
        <5>1. q = begin /\ w > 0 /\ w = stop - begin /\ HowFar(q, w) = stop - begin
          BY <2>3, <2>9, <3>1, <3>10, <4>4 DEF HowFar
        <5>2. Len(got) = stop - begin /\ \A i \in 1 .. stop - begin : got[i] = begin + i
          BY <4>3, <5>1
        <5>3. stop <= v1 /\ (stop = end \/ (stop = v1 /\ v1 <= end))
          BY <2>3
        <5> QED
          BY <2>3, <4>2, <4>3, <4>4, <5>2, <5>3, ForwardBetween
      <4>5. CASE stop < begin
        <5>1. stop = end /\ begin < v1 /\ end < begin
          BY <2>3, <2>9, <4>5
        <5>2. q = begin + 2 /\ w < 0 /\ w = end - begin /\ HowFar(q, w) = begin - end
          BY <2>3, <2>9, <3>1, <3>10, <4>5, <5>1 DEF HowFar
        <5>3. Len(got) = begin - end /\ \A i \in 1 .. begin - end : got[i] = begin + 2 - i
          <6>1. \A i \in 1 .. begin - end : got[i] = q - i
            BY <4>3, <5>2
          <6>2. Len(got) = begin - end
            BY <4>3, <5>2
          <6> QED
            BY <5>2, <6>1, <6>2
        <5> QED
          BY <4>2, <4>3, <5>1, <5>3, BackwardBetween
      <4> QED
        BY <2>3, <2>9, <4>4, <4>5
    <3> QED
      BY <3>13, <3>14, <3>15
  <2> QED
    BY <2>7, <2>8, <2>9
<1> QED
  BY <1>0, <1>1, <1>2

\* The size of the result, when it is not known yet.
LEMMA SizeIs ==
  ASSUME v1 \in 0 .. MaxRows, NEW call \in Calls, Mirrors(call.s, call.c), call.c.pos # -1,
         ~call.threw, NEW r, r = Curs!obtain_stateless_cursor_size(call)
  PROVE  /\ r \in Calls /\ Mirrors(r.s, r.c) /\ CursorKept(call.s, call.c, r.s, r.c)
         /\ r.c.pos # -1 /\ r.got = call.got /\ (~r.threw => r.c.endpos # -1)
<1>1. CASE call.c.endpos # -1
  <2>1. r = call
    BY <1>1 DEF Curs!obtain_stateless_cursor_size, Curs!Unknown
  <2> QED
    BY <1>1, <2>1 DEF CursorKept
<1>2. CASE call.c.endpos = -1
  <2>1. r = Curs!move(call, Curs!All)
    BY <1>2 DEF Curs!obtain_stateless_cursor_size, Curs!Unknown
  <2>2. PICK n \in Int : n = Curs!All /\ n = MaxRows + 2
    BY CursAssumed DEF Curs!All
  <2>3. v1 \in Nat /\ r = Curs!move(call, n)
    BY <2>1, <2>2, CursAssumed
  <2>4. Stepped(call, n, r) /\ r.got = call.got
    BY <2>3, MoveIs
  <2>5. call.s.pos \in Nat /\ call.s.pos <= v1 + 1
    BY DEF Mirrors, ServerCursor
  <2>6. n > 0 /\ HowFar(call.s.pos, n) # n
    BY <2>2, <2>5, CursAssumed DEF HowFar
  <2> QED
    BY <2>3, <2>4, <2>6 DEF Stepped
<1> QED
  BY <1>1, <1>2

-----------------------------------------------------------------------------
(* The program's calls.                                                    *)

LEMMA CurPrimed ==
  ASSUME CurInv, v1' = v1, v2' \in {"open", "failed", "none"},
         v3' \in ServerCursor, v4' \in CursorObject, ~v4'.bad, v3'.pos <= v1 + 1,
         v4'.live => Mirrors(v3', v4'), v4'.live /\ v4'.kind = "stateless" => v4'.pos # -1,
         v4'.own = "owned" => ~v3'.hold, v3'.old => v3'.hold,
         ~v4'.live /\ v4'.own = "owned" /\ v2' # "failed" => v3'.state # "open",
         v5' = v5 \/ Between(v5'.begin, v5'.end, v5'.got)
  PROVE  CurInv'
<1>1. v1 \in 0 .. MaxRows
  BY DEF CurInv
<1>2. v4'.live => Mirrors(v3, v4)'
  BY DEF Mirrors
<1>3. Curs!OwnedClosed'
  BY DEF Curs!OwnedClosed
<1>4. Curs!RetrieveExact'
  <2>1. CASE v5' = v5
    BY <2>1 DEF CurInv, Curs!RetrieveExact
  <2>2. CASE Between(v5'.begin, v5'.end, v5'.got)
    BY <2>2 DEF Between, Curs!RetrieveExact
  <2> QED
    BY <2>1, <2>2
<1> QED
  BY <1>1, <1>2, <1>3, <1>4 DEF CurInv

\* The call of a live object, as it begins.
LEMMA CallBegins ==
  ASSUME CurInv, v4.live
  PROVE  /\ v1 \in Nat /\ Curs!Call \in Calls /\ Mirrors(Curs!Call.s, Curs!Call.c)
         /\ Curs!Call.s = v3 /\ Curs!Call.c = v4 /\ Curs!Call.got = <<>> /\ Curs!Call.threw = FALSE
         /\ Mirrors(v3, v4)
<1>1. v1 \in Nat /\ v3 \in ServerCursor /\ v4 \in CursorObject /\ Mirrors(v3, v4)
  BY CursAssumed DEF CurInv
<1>2. <<>> \in Seq(Nat)
  OBVIOUS
<1>3. Curs!Call = [s |-> v3, c |-> v4, got |-> <<>>, threw |-> FALSE]
  BY DEF Curs!Call
<1> QED
  BY <1>1, <1>2, <1>3 DEF Calls

\* A call of a live object returns, or throws what the server said.
LEMMA CurReturns ==
  ASSUME CurInv, v4.live, NEW r \in Calls, Mirrors(r.s, r.c), CursorKept(v3, v4, r.s, r.c),
         v4.pos # -1 => r.c.pos # -1, Curs!Returns(r), v1' = v1,
         v5' = v5 \/ Between(v5'.begin, v5'.end, v5'.got)
  PROVE  CurInv'
<1>1. v3' = r.s /\ v4' = r.c /\ v2' = IF r.threw /\ v2 = "open" THEN "failed" ELSE v2
  BY DEF Curs!Returns
<1>2. /\ v3' \in ServerCursor /\ v4' \in CursorObject /\ ~v4'.bad /\ v3'.pos <= v1 + 1
      /\ Mirrors(v3', v4') /\ CursorKept(v3, v4, v3', v4')
  BY <1>1 DEF Mirrors
<1>3. /\ v3'.hold = v3.hold /\ v3'.old = v3.old /\ v4'.live = v4.live /\ v4'.own = v4.own
      /\ v4'.kind = v4.kind
  BY <1>2 DEF CursorKept
<1>4. v2' \in {"open", "failed", "none"}
  BY <1>1 DEF CurInv
<1>5. /\ v4'.kind = "stateless" => v4'.pos # -1
      /\ v4'.own = "owned" => ~v3'.hold
      /\ v3'.old => v3'.hold
  BY <1>1, <1>3 DEF CurInv
<1>6. v4'.live
  BY <1>3
<1> QED
  BY <1>2, <1>4, <1>5, <1>6, CurPrimed

LEMMA CurFetches ==
  ASSUME CurInv, NEW n \in Int, Curs!FetchOrMove(n)
  PROVE  CurInv'
<1>1. v4.live /\ v1' = v1 /\ v5' = v5
  BY DEF Curs!FetchOrMove
<1>2. PICK call : call = Curs!Call
  OBVIOUS
<1>3. PICK f : f = Curs!fetch(call, n)
  OBVIOUS
<1>4. v1 \in Nat /\ call \in Calls /\ Mirrors(call.s, call.c) /\ call.s = v3 /\ call.c = v4
  BY <1>1, <1>2, CallBegins
<1>5. Stepped(call, n, f)
  BY <1>3, <1>4, FetchIs
<1>6. /\ f \in Calls /\ Mirrors(f.s, f.c) /\ CursorKept(v3, v4, f.s, f.c)
      /\ v4.pos # -1 => f.c.pos # -1
  BY <1>4, <1>5 DEF Stepped
<1>7. Curs!Returns(f)
  BY <1>2, <1>3 DEF Curs!FetchOrMove
<1> QED
  BY <1>1, <1>6, <1>7, CurReturns

LEMMA CurRetrieves ==
  ASSUME CurInv, NEW begin \in Nat, NEW end \in Int, end >= -1, Curs!Retrieve(begin, end)
  PROVE  CurInv'
<1>1. PICK call : call = Curs!Call
  OBVIOUS
<1>2. PICK sized : sized = Curs!obtain_stateless_cursor_size(call)
  OBVIOUS
<1>3. PICK r : r = Curs!stateless_cursor_retrieve(sized, begin, end)
  OBVIOUS
<1>4. /\ v4.live /\ v4.kind = "stateless" /\ ~(begin >= v1 /\ end < begin) /\ Curs!Returns(r)
      /\ v5' = IF r.threw \/ Curs!OutOfRange(sized, begin)
               THEN Curs!NoOut ELSE [begin |-> begin, end |-> end, got |-> r.got]
      /\ v1' = v1
  BY <1>1, <1>2, <1>3 DEF Curs!Retrieve
<1>5. /\ v1 \in 0 .. MaxRows /\ v1 \in Nat /\ call \in Calls /\ Mirrors(call.s, call.c)
      /\ call.s = v3 /\ call.c = v4 /\ call.got = <<>> /\ call.threw = FALSE /\ call.c.pos # -1
  BY <1>1, <1>4, CallBegins DEF CurInv
<1>6. /\ sized \in Calls /\ Mirrors(sized.s, sized.c)
      /\ CursorKept(call.s, call.c, sized.s, sized.c)
      /\ sized.c.pos # -1 /\ sized.got = call.got /\ (~sized.threw => sized.c.endpos # -1)
  BY <1>2, <1>5, SizeIs
<1>7. /\ r \in Calls /\ Mirrors(r.s, r.c) /\ CursorKept(sized.s, sized.c, r.s, r.c)
      /\ r.c.pos # -1
      /\ ~r.threw /\ ~Curs!OutOfRange(sized, begin) => Between(begin, end, r.got)
  <2>1. sized.got = <<>>
    BY <1>5, <1>6
  <2> QED
    BY <1>3, <1>4, <1>5, <1>6, <2>1, RetrieveIs
<1>8. CursorKept(v3, v4, r.s, r.c)
  BY <1>5, <1>6, <1>7 DEF CursorKept
<1>9. Between(v5'.begin, v5'.end, v5'.got)
  <2>1. CASE r.threw \/ Curs!OutOfRange(sized, begin)
    <3>1. v5'.begin = 0 /\ v5'.end = 0 /\ v5'.got = <<>>
      BY <1>4, <2>1 DEF Curs!NoOut
    <3>2. Between(0, 0, <<>>)
      BY <1>5, NothingBetween
    <3> QED
      BY <3>1, <3>2
  <2>2. CASE ~r.threw /\ ~Curs!OutOfRange(sized, begin)
    <3>1. v5'.begin = begin /\ v5'.end = end /\ v5'.got = r.got
      BY <1>4, <2>2
    <3> QED
      BY <1>7, <2>2, <3>1
  <2> QED
    BY <2>1, <2>2
<1> QED
  BY <1>4, <1>7, <1>8, <1>9, CurReturns

LEMMA CurDeclares ==
  ASSUME CurInv, NEW kind \in {"sql", "stateless"}, NEW own \in {"owned", "loose"},
         NEW hold \in BOOLEAN, NEW scroll \in BOOLEAN, Curs!Declare(kind, own, hold, scroll)
  PROVE  CurInv'
<1>1. PICK loose \in BOOLEAN : loose = (own = "loose")
  OBVIOUS
<1>2. /\ v3' = [Curs!NoServerCursor EXCEPT !.state = "open", !.hold = hold, !.scroll = scroll,
                                           !.loose = loose]
      /\ v4' = [Curs!NoCursor EXCEPT !.kind = kind, !.live = TRUE, !.own = own, !.at_end = -1,
                                     !.pos = 0, !.start_hit = TRUE]
      /\ v1' = v1 /\ v2' = v2 /\ v5' = v5
      /\ own = "owned" => ~hold
  BY <1>1 DEF Curs!Declare, Curs!Policy
<1>3. v3' = [state |-> "open", pos |-> 0, hold |-> hold, scroll |-> scroll, old |-> FALSE,
             loose |-> loose]
  BY <1>2 DEF Curs!NoServerCursor
<1>4. v4' = [kind |-> kind, live |-> TRUE, own |-> own, at_end |-> -1, pos |-> 0, endpos |-> -1,
             adopted |-> FALSE, start_hit |-> TRUE, bad |-> FALSE]
  BY <1>2 DEF Curs!NoCursor, Curs!Unknown
<1>5. v3' \in ServerCursor /\ v3'.pos = 0 /\ v3'.hold = hold /\ v3'.old = FALSE
  BY <1>3 DEF ServerCursor
<1>6. v4' \in CursorObject
  BY <1>4 DEF CursorObject
<1>7. /\ v4'.live = TRUE /\ v4'.own = own /\ v4'.at_end = -1 /\ v4'.pos = 0 /\ v4'.endpos = -1
      /\ v4'.adopted = FALSE /\ v4'.bad = FALSE
  BY <1>4
<1>8. v1 \in Nat /\ v2' \in {"open", "failed", "none"}
  BY <1>2, CursAssumed DEF CurInv
<1>9. Mirrors(v3', v4')
  BY <1>5, <1>6, <1>7, <1>8 DEF Mirrors
<1> QED
  BY <1>2, <1>5, <1>6, <1>7, <1>8, <1>9, CurPrimed

LEMMA CurDeclaredInSQL ==
  ASSUME CurInv, NEW pos \in Nat, Curs!DeclareInSQL(pos)
  PROVE  CurInv'
<1>1. /\ v3' = [Curs!NoServerCursor EXCEPT !.state = "open", !.pos = pos]
      /\ v4' = Curs!NoCursor /\ v1' = v1 /\ v2' = v2 /\ v5' = v5 /\ pos <= v1 + 1
  BY DEF Curs!DeclareInSQL
<1>2. v3' \in ServerCursor /\ v3'.pos = pos /\ v3'.old = FALSE
  BY <1>1 DEF Curs!NoServerCursor, ServerCursor
<1>3. v4' \in CursorObject /\ v4'.live = FALSE /\ v4'.own = "loose" /\ v4'.bad = FALSE
  BY <1>1 DEF Curs!NoCursor, Curs!Unknown, CursorObject
<1>4. v2' \in {"open", "failed", "none"}
  BY <1>1 DEF CurInv
<1> QED
  BY <1>1, <1>2, <1>3, <1>4, CurPrimed

LEMMA CurAdopts ==
  ASSUME CurInv, NEW kind \in {"sql", "stateless"}, NEW own \in {"owned", "loose"},
         Curs!Adopt(kind, own)
  PROVE  CurInv'
<1>1. PICK c : c = [Curs!NoCursor EXCEPT !.kind = kind, !.live = TRUE, !.own = own,
                                         !.adopted = TRUE]
  OBVIOUS
<1>2. PICK made : made = [Curs!Call EXCEPT !.c = c]
  OBVIOUS
<1>3. PICK done : done = IF kind = "stateless" THEN Curs!move(made, -Curs!All) ELSE made
  OBVIOUS
<1>4. /\ v2 = "open" /\ v3.state = "open" /\ (own = "owned" => ~v3.hold)
      /\ kind = "stateless" => v3.scroll
      /\ Curs!Returns(done) /\ v1' = v1 /\ v5' = v5
  BY <1>1, <1>2, <1>3 DEF Curs!Adopt
<1>5. v1 \in 0 .. MaxRows /\ v1 \in Nat /\ v3 \in ServerCursor /\ v3.pos <= v1 + 1
  BY CursAssumed DEF CurInv
<1>6. c = [kind |-> kind, live |-> TRUE, own |-> own, at_end |-> 0, pos |-> -1, endpos |-> -1,
           adopted |-> TRUE, start_hit |-> FALSE, bad |-> FALSE]
  BY <1>1 DEF Curs!NoCursor, Curs!Unknown
<1>7. c \in CursorObject
  BY <1>6 DEF CursorObject
<1>8. Mirrors(v3, c)
  BY <1>5, <1>6, <1>7 DEF Mirrors
<1>9. made = [s |-> v3, c |-> c, got |-> <<>>, threw |-> FALSE]
  BY <1>2 DEF Curs!Call
<1>10. made \in Calls /\ made.s = v3 /\ made.c = c /\ made.threw = FALSE
  <2>1. <<>> \in Seq(Nat)
    OBVIOUS
  <2> QED
    BY <1>5, <1>7, <1>9, <2>1 DEF Calls
<1>11. /\ done \in Calls /\ Mirrors(done.s, done.c) /\ CursorKept(v3, c, done.s, done.c)
       /\ kind = "stateless" => done.c.pos # -1
  <2>1. CASE kind = "stateless"
    <3>1. PICK n \in Int : n = -Curs!All /\ n = -(MaxRows + 2)
      BY CursAssumed DEF Curs!All
    <3>2. done = Curs!move(made, n)
      BY <1>3, <2>1, <3>1
    <3>3. Stepped(made, n, done)
      BY <1>5, <1>8, <1>10, <3>2, MoveIs
    <3>4. Curs!Works(made.s, n)
      BY <1>4, <1>10, <2>1 DEF Curs!Works
    <3>5. n < 0 /\ HowFar(made.s.pos, n) # -n
      <4>1. v3.pos \in Nat
        BY <1>5 DEF ServerCursor
      <4> QED
        BY <1>5, <1>10, <3>1, <4>1, CursAssumed DEF HowFar
    <3> QED
      BY <1>10, <3>3, <3>4, <3>5 DEF Stepped
  <2>2. CASE kind = "sql"
    <3>1. done = made
      BY <1>3, <2>2
    <3> QED
      BY <1>8, <1>10, <2>2, <3>1 DEF CursorKept
  <2> QED
    BY <2>1, <2>2
<1>12. v3' = done.s /\ v4' = done.c /\ v2' \in {"open", "failed", "none"}
  BY <1>4 DEF Curs!Returns
<1>13. /\ v3'.hold = v3.hold /\ v3'.old = v3.old /\ v4'.live = TRUE /\ v4'.own = own
       /\ v4'.kind = kind
  BY <1>6, <1>11, <1>12 DEF CursorKept
<1>14. /\ v3' \in ServerCursor /\ v4' \in CursorObject /\ ~v4'.bad /\ v3'.pos <= v1 + 1
       /\ Mirrors(v3', v4')
  BY <1>11, <1>12 DEF Mirrors
<1>15. v3'.old => v3'.hold
  BY <1>13 DEF CurInv
<1>16. /\ v4'.kind = "stateless" => v4'.pos # -1
       /\ v4'.own = "owned" => ~v3'.hold
  BY <1>4, <1>11, <1>12, <1>13
<1> QED
  BY <1>4, <1>12, <1>13, <1>14, <1>15, <1>16, CurPrimed

\* What closing does: nothing, an error, or the end of the SQL cursor.
LEMMA CurClosed ==
  ASSUME CurInv, v4.live, NEW r, r = Curs!Closed
  PROVE  /\ r \in Calls /\ Mirrors(r.s, r.c)
         /\ r.s.hold = v3.hold /\ r.s.old = v3.old
         /\ r.c.live = v4.live /\ r.c.kind = v4.kind /\ r.c.pos = v4.pos
         /\ r.c.own = "owned" => v4.own = "owned" /\ (r.threw \/ r.s.state # "open")
         /\ r.threw => r.s = v3 /\ ~Curs!Works(v3, 0)
<1>1. PICK call : call = Curs!Call
  OBVIOUS
<1>2. /\ v1 \in Nat /\ call \in Calls /\ Mirrors(call.s, call.c)
      /\ call.s = v3 /\ call.c = v4 /\ call.got = <<>> /\ call.threw = FALSE
  BY <1>1, CallBegins
<1>3. v4.own \in {"owned", "loose"} /\ v3 \in ServerCursor /\ v4 \in CursorObject
  BY DEF CurInv, CursorObject
<1>4. CASE v4.own = "loose"
  <2>1. r = call
    BY <1>1, <1>4 DEF Curs!Closed
  <2> QED
    BY <1>2, <1>4, <2>1
<1>5. CASE v4.own = "owned" /\ ~Curs!Works(v3, 0)
  <2>1. r = [call EXCEPT !.threw = TRUE]
    BY <1>1, <1>5 DEF Curs!Closed
  <2>2. r \in Calls /\ r.s = call.s /\ r.c = call.c /\ r.threw = TRUE
    BY <1>2, <2>1 DEF Calls
  <2> QED
    BY <1>2, <1>5, <2>2
<1>6. CASE v4.own = "owned" /\ Curs!Works(v3, 0)
  <2>1. r = [call EXCEPT !.s.state = "closed", !.c.own = "loose"]
    BY <1>1, <1>6 DEF Curs!Closed
  <2>2. PICK t : t = [v3 EXCEPT !.state = "closed"]
    OBVIOUS
  <2>3. PICK e : e = [v4 EXCEPT !.own = "loose"]
    OBVIOUS
  <2>4. r = [s |-> t, c |-> e, got |-> <<>>, threw |-> FALSE]
    BY <1>1, <2>1, <2>2, <2>3 DEF Curs!Call
  <2>5. /\ t \in ServerCursor /\ t.pos = v3.pos /\ t.hold = v3.hold /\ t.old = v3.old
        /\ t.state = "closed"
    BY <1>3, <2>2 DEF ServerCursor
  <2>6. /\ e \in CursorObject /\ e.live = v4.live /\ e.kind = v4.kind /\ e.pos = v4.pos
        /\ e.own = "loose" /\ e.endpos = v4.endpos /\ e.at_end = v4.at_end
        /\ e.adopted = v4.adopted /\ e.start_hit = v4.start_hit /\ e.bad = v4.bad
    BY <1>3, <2>3 DEF CursorObject
  <2>7. Mirrors(t, e)
    BY <1>2, <2>5, <2>6 DEF Mirrors
  <2>8. r \in Calls /\ r.s = t /\ r.c = e /\ r.threw = FALSE
    <3>1. <<>> \in Seq(Nat)
      OBVIOUS
    <3> QED
      BY <2>4, <2>5, <2>6, <3>1 DEF Calls
  <2> QED
    BY <2>5, <2>6, <2>7, <2>8
<1> QED
  BY <1>3, <1>4, <1>5, <1>6

LEMMA CurCloses ==
  ASSUME CurInv, Curs!close
  PROVE  CurInv'
<1>1. PICK r : r = Curs!Closed
  OBVIOUS
<1>2. v4.live /\ Curs!Returns(r) /\ v1' = v1 /\ v5' = v5
  BY <1>1 DEF Curs!close
<1>3. /\ r \in Calls /\ Mirrors(r.s, r.c)
      /\ r.s.hold = v3.hold /\ r.s.old = v3.old
      /\ r.c.live = v4.live /\ r.c.kind = v4.kind /\ r.c.pos = v4.pos
      /\ r.c.own = "owned" => v4.own = "owned"
  BY <1>1, <1>2, CurClosed
<1>4. v3' = r.s /\ v4' = r.c /\ v2' \in {"open", "failed", "none"}
  BY <1>2 DEF Curs!Returns, CurInv
<1>5. /\ v3' \in ServerCursor /\ v4' \in CursorObject /\ ~v4'.bad /\ v3'.pos <= v1 + 1
      /\ Mirrors(v3', v4')
  BY <1>3, <1>4 DEF Mirrors
<1>6. /\ v4'.kind = "stateless" => v4'.pos # -1
      /\ v4'.own = "owned" => ~v3'.hold
      /\ v3'.old => v3'.hold
      /\ v4'.live
  BY <1>2, <1>3, <1>4 DEF CurInv
<1> QED
  BY <1>2, <1>4, <1>5, <1>6, CurPrimed

LEMMA CurDestroys ==
  ASSUME CurInv, Curs!Destroy
  PROVE  CurInv'
<1>1. PICK r : r = Curs!Closed
  OBVIOUS
<1>2. PICK d : d = [r EXCEPT !.c.live = FALSE]
  OBVIOUS
<1>3. v4.live /\ Curs!Returns(d) /\ v1' = v1 /\ v5' = v5
  BY <1>1, <1>2 DEF Curs!Destroy
<1>4. /\ r \in Calls /\ Mirrors(r.s, r.c)
      /\ r.s.hold = v3.hold /\ r.s.old = v3.old
      /\ r.c.own = "owned" => v4.own = "owned" /\ (r.threw \/ r.s.state # "open")
      /\ r.threw => r.s = v3 /\ ~Curs!Works(v3, 0)
  BY <1>1, <1>3, CurClosed
<1>5. PICK e : e = [r.c EXCEPT !.live = FALSE]
  OBVIOUS
<1>6. r.c \in CursorObject /\ r.s \in ServerCursor /\ ~r.c.bad /\ r.s.pos <= v1 + 1
  BY <1>4 DEF Mirrors
<1>7. e \in CursorObject /\ e.live = FALSE /\ e.own = r.c.own /\ e.bad = r.c.bad
  BY <1>5, <1>6 DEF CursorObject
<1>8. d.s = r.s /\ d.c = e /\ d.threw = r.threw
  BY <1>2, <1>4, <1>5 DEF Calls
<1>9. v3' = r.s /\ v4' = e /\ v2' = IF r.threw /\ v2 = "open" THEN "failed" ELSE v2
  BY <1>3, <1>8 DEF Curs!Returns
<1>10. v2' \in {"open", "failed", "none"}
  BY <1>9 DEF CurInv
<1>11. /\ v4'.own = "owned" => ~v3'.hold
       /\ v3'.old => v3'.hold
  BY <1>4, <1>7, <1>9 DEF CurInv
<1>12. ASSUME v4'.own = "owned", v2' # "failed"
       PROVE  v3'.state # "open"
  <2>1. r.threw \/ r.s.state # "open"
    BY <1>4, <1>7, <1>9, <1>12
  <2>2. CASE r.threw
    <3>1. ~Curs!Works(v3, 0) /\ r.s = v3
      BY <1>4, <2>2
    <3>2. v2 # "failed"
      BY <1>9, <1>12
    <3> QED
      BY <1>9, <3>1, <3>2 DEF Curs!Works
  <2> QED
    BY <1>9, <2>1, <2>2
<1> QED
  BY <1>3, <1>6, <1>7, <1>9, <1>10, <1>11, <1>12, CurPrimed

LEMMA CurBegins ==
  ASSUME CurInv, Curs!Begin
  PROVE  CurInv'
<1>1. v1' = v1 /\ v3' = v3 /\ v4' = v4 /\ v5' = v5 /\ v2 = "none" /\ v2' = "open"
  BY DEF Curs!Begin
<1>2. ~v4.live /\ v4.own = "owned" => v3.state # "open"
  BY <1>1 DEF CurInv, Curs!OwnedClosed
<1> QED
  BY <1>1, <1>2, CurPrimed DEF CurInv

LEMMA CurEnds ==
  ASSUME CurInv, NEW commit \in BOOLEAN, Curs!End(commit)
  PROVE  CurInv'
<1>1. PICK done \in BOOLEAN : done = (commit /\ v2 = "open")
  OBVIOUS
<1>2. /\ v1' = v1 /\ v4' = v4 /\ v5' = v5 /\ v2' = "none"
      /\ v3' = CASE v3.state # "open" \/ v3.old -> v3
                 [] v3.state = "open" /\ ~v3.old /\ done /\ v3.hold -> [v3 EXCEPT !.old = TRUE]
                 [] OTHER -> [v3 EXCEPT !.state = IF done THEN "committed" ELSE "rolled_back"]
  BY <1>1 DEF Curs!End
<1>3. /\ v3 \in ServerCursor /\ v4 \in CursorObject /\ ~v4.bad /\ v3.pos <= v1 + 1
      /\ v4.live => Mirrors(v3, v4)
      /\ v4.own = "owned" => ~v3.hold
      /\ v3.old => v3.hold
      /\ v4.live /\ v4.kind = "stateless" => v4.pos # -1
  BY DEF CurInv
<1>4. v3.old \in BOOLEAN /\ v3.hold \in BOOLEAN
  BY <1>3 DEF ServerCursor
<1>5. /\ v3' \in ServerCursor /\ v3'.pos = v3.pos /\ v3'.hold = v3.hold
      /\ v3'.old => v3.hold
      /\ v3'.state = "open" => v3.hold
  <2>1. CASE v3.state # "open" \/ v3.old
    <3>1. v3' = v3
      BY <1>2, <2>1
    <3> QED
      BY <1>3, <2>1, <3>1
  <2>2. CASE v3.state = "open" /\ ~v3.old /\ done /\ v3.hold
    <3>1. v3' = [v3 EXCEPT !.old = TRUE]
      BY <1>2, <2>2
    <3> QED
      BY <1>3, <2>2, <3>1 DEF ServerCursor
  <2>3. CASE v3.state = "open" /\ ~v3.old /\ ~(done /\ v3.hold)
    <3>1. PICK state \in {"committed", "rolled_back"} :
             state = IF done THEN "committed" ELSE "rolled_back"
      OBVIOUS
    <3>2. v3' = [v3 EXCEPT !.state = state]
      BY <1>2, <2>3, <3>1
    <3> QED
      BY <1>3, <2>3, <3>1, <3>2 DEF ServerCursor
  <2> QED
    BY <2>1, <2>2, <2>3
<1>6. v4.live => Mirrors(v3', v4)
  BY <1>3, <1>5 DEF Mirrors
<1> QED
  BY <1>2, <1>3, <1>5, <1>6, CurPrimed

LEMMA CurInit == Curs!Init => CurInv
<1> SUFFICES ASSUME Curs!Init
             PROVE  CurInv
  OBVIOUS
<1>1. /\ v1 \in 0 .. MaxRows /\ v2 = "none" /\ v3 = Curs!NoServerCursor /\ v4 = Curs!NoCursor
      /\ v5 = Curs!NoOut
  BY DEF Curs!Init
<1>2. v3 \in ServerCursor /\ v3.pos = 0 /\ v3.old = FALSE /\ v3.state = "none"
  BY <1>1 DEF Curs!NoServerCursor, ServerCursor
<1>3. v4 \in CursorObject /\ v4.live = FALSE /\ v4.own = "loose" /\ v4.bad = FALSE
  BY <1>1 DEF Curs!NoCursor, Curs!Unknown, CursorObject
<1>4. v1 \in Nat
  BY <1>1, CursAssumed
<1>5. Between(v5.begin, v5.end, v5.got)
  <2>1. v5.begin = 0 /\ v5.end = 0 /\ v5.got = <<>>
    BY <1>1 DEF Curs!NoOut
  <2>2. Between(0, 0, <<>>)
    BY <1>4, NothingBetween
  <2> QED
    BY <2>1, <2>2
<1>6. Curs!RetrieveExact
  BY <1>5 DEF Between, Curs!RetrieveExact
<1>7. Curs!OwnedClosed
  BY <1>3 DEF Curs!OwnedClosed
<1> QED
  BY <1>1, <1>2, <1>3, <1>4, <1>6, <1>7 DEF CurInv

LEMMA CurStep == CurInv /\ (Curs!Next \/ UNCHANGED partVars) => CurInv'
<1> SUFFICES ASSUME CurInv, Curs!Next \/ UNCHANGED partVars
             PROVE  CurInv'
  OBVIOUS
<1>1. ASSUME NEW pos \in 0 .. MaxRows + 1, Curs!DeclareInSQL(pos)
      PROVE  CurInv'
  <2>1. pos \in Nat
    BY CursAssumed
  <2> QED
    BY <1>1, <2>1, CurDeclaredInSQL
<1>2. ASSUME NEW n \in Strides \cup {Curs!All, -Curs!All}, Curs!FetchOrMove(n)
      PROVE  CurInv'
  <2>1. n \in Int
    BY CursAssumed DEF Curs!All
  <2> QED
    BY <1>2, <2>1, CurFetches
<1>3. ASSUME NEW begin \in 0 .. MaxRows + 1, NEW end \in -1 .. MaxRows + 1,
             Curs!Retrieve(begin, end)
      PROVE  CurInv'
  <2>1. begin \in Nat /\ end \in Int /\ end >= -1
    BY CursAssumed
  <2> QED
    BY <1>3, <2>1, CurRetrieves
<1>4. CASE UNCHANGED partVars
  <2>1. v1' = v1 /\ v2' = v2 /\ v3' = v3 /\ v4' = v4 /\ v5' = v5
    BY <1>4 DEF partVars
  <2> QED
    BY <2>1 DEF CurInv, Mirrors, Curs!OwnedClosed, Curs!RetrieveExact
<1> QED
  BY <1>1, <1>2, <1>3, <1>4, CurDeclares, CurAdopts, CurCloses, CurDestroys, CurBegins, CurEnds
  DEF Curs!Next

\* However a cursor is declared, adopted, moved over either end, closed and left
\* behind by its transaction: sql_cursor knows where the SQL cursor is, or that
\* it cannot know, its arithmetic never contradicts itself, retrieve() gives the
\* rows between its arguments, and a cursor goes with the object that owns it.
THEOREM SessionCursorsExact == RunSpec => []CursorsExact
<1> DEFINE Good == part = "cursor" => CurInv
<1>1. RunInit => Good
  BY CurInit DEF RunInit
<1>2. Good /\ [RunNext]_runVars => Good'
  <2> SUFFICES ASSUME CurInv, part = "cursor", [RunNext]_runVars
               PROVE  CurInv'
    BY PartStays
  <2>1. Curs!Next \/ UNCHANGED partVars
    BY DEF RunNext, runVars, partVars
  <2> QED
    BY <2>1, CurStep
<1>3. Good => CursorsExact
  <2> SUFFICES ASSUME CurInv
               PROVE  /\ Curs!PositionExact /\ Curs!UnknownOnlyAdopted
                      /\ Curs!RetrieveExact /\ Curs!OwnedClosed
    BY DEF CursorsExact
  <2>1. Curs!PositionExact
    BY DEF CurInv, Mirrors, Curs!PositionExact, Curs!Unknown
  <2>2. Curs!UnknownOnlyAdopted
    BY DEF CurInv, Mirrors, Curs!UnknownOnlyAdopted, Curs!Unknown
  <2> QED
    BY <2>1, <2>2 DEF CurInv
<1> QED
  BY <1>1, <1>2, <1>3, PTL DEF RunSpec
-----------------------------------------------------------------------------
(***************************************************************************)
(* Subscriptions.  The invariant and its proof are those of                *)
(* NotificationProofs, of the two programs that the run is about: one with *)
(* receivers and nontransactions, and one with handlers and blocks.        *)
(***************************************************************************)
Heard == INSTANCE NotificationProofs WITH
    handlers <- v1, receivers <- v2, trans <- v3, listening <- v4, pending <- v5, queue <-
    v6, call <- v7, sent <- v8, inside <- v9,
    Kinds <- {"nontransaction"}, Careful <- TRUE, Throws <- FALSE

HeardInBlocks == INSTANCE NotificationProofs WITH
    handlers <- v1, receivers <- v2, trans <- v3, listening <- v4, pending <- v5, queue <-
    v6, call <- v7, sent <- v8, inside <- v9,
    HandlerChannels <- Channels, Receivers <- {}, ChannelOf <- <<>>, Kinds <- {"work",
    "nontransaction"}, Careful <- TRUE, Throws <- FALSE

\* The steps that the proofs are about are those of the run.
LEMMA SubsSteps == [Subs!Next]_(Subs!vars) => [Heard!Next]_(Heard!vars)
<1> USE DEF Subs!Idle, Heard!Idle, Subs!Block, Heard!Block, Subs!Registered,
        Heard!Registered, Subs!Command, Heard!Command, Subs!Apply, Heard!Apply,
        Subs!Others, Heard!Others, Subs!Position, Heard!Position, Subs!UnlistenNeeded,
        Heard!UnlistenNeeded, Subs!Min, Heard!Min
<1>1. \A x : (Subs!Notify(x) => Heard!Notify(x)) /\ (Subs!Begin(x) => Heard!Begin(x))
  BY DEF Subs!Notify, Heard!Notify, Subs!Begin, Heard!Begin
<1>2. \A x : (Subs!Listen(x) => Heard!Listen(x)) /\ (Subs!Unlisten(x) => Heard!Unlisten(x))
  BY DEF Subs!Listen, Heard!Listen, Subs!Unlisten, Heard!Unlisten
<1>3. \A x : Subs!AddReceiver(x) => Heard!AddReceiver(x)
  BY DEF Subs!AddReceiver, Heard!AddReceiver
<1>4. \A x : Subs!RemoveReceiver(x) => Heard!RemoveReceiver(x)
  BY DEF Subs!RemoveReceiver, Heard!RemoveReceiver
<1>5. Subs!Applied = Heard!Applied
  BY DEF Subs!Applied, Heard!Applied, Subs!Max, Heard!Max
<1>6. Subs!End => Heard!End
  BY <1>5 DEF Subs!End, Heard!End, Subs!Ended, Heard!Ended
<1>7. Subs!Drains = Heard!Drains /\ \A d : Subs!Take(d) <=> Heard!Take(d)
  BY DEF Subs!Drains, Heard!Drains, Subs!AllDrained, Heard!AllDrained, Subs!Thrown,
     Heard!Thrown, Subs!Take, Heard!Take, Subs!Called, Heard!Called
<1>8. (Subs!Finish => Heard!Finish) /\ (Subs!GetNotifs => Heard!GetNotifs)
  BY <1>7 DEF Subs!Finish, Heard!Finish, Subs!FinishListen, Heard!FinishListen,
     Subs!FinishUnlisten, Heard!FinishUnlisten, Subs!FinishDrain, Heard!FinishDrain,
     Subs!Installed, Heard!Installed, Subs!GetNotifs, Heard!GetNotifs
<1> QED
  BY <1>1, <1>2, <1>3, <1>4, <1>6, <1>8 DEF Subs!Next, Heard!Next,
     Subs!vars, Heard!vars

LEMMA BlocksSteps == [SubsInBlocks!Next]_(SubsInBlocks!vars) => [HeardInBlocks!Next]_(HeardInBlocks!vars)
<1> USE DEF SubsInBlocks!Idle, HeardInBlocks!Idle, SubsInBlocks!Block,
        HeardInBlocks!Block, SubsInBlocks!Registered, HeardInBlocks!Registered,
        SubsInBlocks!Command, HeardInBlocks!Command, SubsInBlocks!Apply,
        HeardInBlocks!Apply, SubsInBlocks!Others, HeardInBlocks!Others,
        SubsInBlocks!Position, HeardInBlocks!Position, SubsInBlocks!UnlistenNeeded,
        HeardInBlocks!UnlistenNeeded, SubsInBlocks!Min, HeardInBlocks!Min
<1>1. \A x : (SubsInBlocks!Notify(x) => HeardInBlocks!Notify(x)) /\ (SubsInBlocks!Begin(x) => HeardInBlocks!Begin(x))
  BY DEF SubsInBlocks!Notify, HeardInBlocks!Notify, SubsInBlocks!Begin,
     HeardInBlocks!Begin
<1>2. \A x : (SubsInBlocks!Listen(x) => HeardInBlocks!Listen(x)) /\ (SubsInBlocks!Unlisten(x) => HeardInBlocks!Unlisten(x))
  BY DEF SubsInBlocks!Listen, HeardInBlocks!Listen, SubsInBlocks!Unlisten,
     HeardInBlocks!Unlisten
<1>3. \A x : SubsInBlocks!AddReceiver(x) => HeardInBlocks!AddReceiver(x)
  BY DEF SubsInBlocks!AddReceiver, HeardInBlocks!AddReceiver
<1>4. \A x : SubsInBlocks!RemoveReceiver(x) => HeardInBlocks!RemoveReceiver(x)
  BY DEF SubsInBlocks!RemoveReceiver, HeardInBlocks!RemoveReceiver
<1>5. SubsInBlocks!Applied = HeardInBlocks!Applied
  BY DEF SubsInBlocks!Applied, HeardInBlocks!Applied, SubsInBlocks!Max,
     HeardInBlocks!Max
<1>6. SubsInBlocks!End => HeardInBlocks!End
  BY <1>5 DEF SubsInBlocks!End, HeardInBlocks!End, SubsInBlocks!Ended,
     HeardInBlocks!Ended
<1>7. SubsInBlocks!Drains = HeardInBlocks!Drains /\ \A d : SubsInBlocks!Take(d) <=> HeardInBlocks!Take(d)
  BY DEF SubsInBlocks!Drains, HeardInBlocks!Drains, SubsInBlocks!AllDrained,
     HeardInBlocks!AllDrained, SubsInBlocks!Thrown, HeardInBlocks!Thrown,
     SubsInBlocks!Take, HeardInBlocks!Take, SubsInBlocks!Called, HeardInBlocks!Called
<1>8. (SubsInBlocks!Finish => HeardInBlocks!Finish) /\ (SubsInBlocks!GetNotifs => HeardInBlocks!GetNotifs)
  BY <1>7 DEF SubsInBlocks!Finish, HeardInBlocks!Finish, SubsInBlocks!FinishListen,
     HeardInBlocks!FinishListen, SubsInBlocks!FinishUnlisten,
     HeardInBlocks!FinishUnlisten, SubsInBlocks!FinishDrain, HeardInBlocks!FinishDrain,
     SubsInBlocks!Installed, HeardInBlocks!Installed, SubsInBlocks!GetNotifs,
     HeardInBlocks!GetNotifs
<1> QED
  BY <1>1, <1>2, <1>3, <1>4, <1>6, <1>8 DEF SubsInBlocks!Next, HeardInBlocks!Next,
     SubsInBlocks!vars, HeardInBlocks!vars

\* connection.hxx:676: each handler "corresponds to a LISTEN we have executed".
\* Between calls, no handler or receiver waits on a channel that the server
\* does not send, if handlers and receivers keep to channels of their own; and
\* no handler is called in the middle of a block.
THEOREM SessionSubscribersListen ==
  ASSUME \A r \in Receivers : ChannelOf[r] \notin HandlerChannels
  PROVE  RunSpec => []SubscribersListen
<1> DEFINE Inv == /\ part = "subscribers" => Heard!Heard
                  /\ part = "blocks" => HeardInBlocks!Heard
<1>1. Heard!NotificationAssumption /\ Heard!Ruled
  BY SessionAssumption DEF Subs!NotificationAssumption, Heard!NotificationAssumption, Heard!Ruled
<1>2. HeardInBlocks!NotificationAssumption /\ HeardInBlocks!Ruled
  BY SessionAssumption DEF SubsInBlocks!NotificationAssumption,
     HeardInBlocks!NotificationAssumption, HeardInBlocks!Ruled
<1>3. RunInit => Inv
  <2>1. Subs!Init => Heard!Heard
    BY DEF Subs!Init, Subs!Idle, Heard!Heard, Heard!Types, Heard!NonePending, Heard!Listening,
       Heard!NotInTransaction
  <2>2. SubsInBlocks!Init => HeardInBlocks!Heard
    BY DEF SubsInBlocks!Init, SubsInBlocks!Idle, HeardInBlocks!Heard, HeardInBlocks!Types,
       HeardInBlocks!NonePending, HeardInBlocks!Listening, HeardInBlocks!NotInTransaction
  <2> QED
    BY <2>1, <2>2 DEF RunInit
<1>4. Inv /\ [RunNext]_runVars => Inv'
  <2>1. part = "subscribers" /\ [RunNext]_runVars => [Subs!Next]_(Subs!vars)
    BY DEF RunNext, runVars, partVars, Subs!vars
  <2>2. part = "blocks" /\ [RunNext]_runVars => [SubsInBlocks!Next]_(SubsInBlocks!vars)
    BY DEF RunNext, runVars, partVars, SubsInBlocks!vars
  <2>3. Heard!Heard /\ [Heard!Next]_(Heard!vars) => Heard!Heard'
    BY <1>1, Heard!HeardStep
  <2>4. HeardInBlocks!Heard /\ [HeardInBlocks!Next]_(HeardInBlocks!vars) => HeardInBlocks!Heard'
    BY <1>2, HeardInBlocks!HeardStep
  <2> QED
    BY <2>1, <2>2, <2>3, <2>4, PartStays, SubsSteps, BlocksSteps
<1>5. Inv => SubscribersListen
  <2>1. Heard!Heard => Subs!SubscribersListen
    BY DEF Heard!Heard, Heard!Listening, Subs!SubscribersListen, Subs!Subscribed, Subs!Idle
  <2>2. HeardInBlocks!Heard => SubsInBlocks!SubscribersListen /\ SubsInBlocks!NotInTransaction
    BY DEF HeardInBlocks!Heard, HeardInBlocks!Listening, HeardInBlocks!NotInTransaction,
       SubsInBlocks!SubscribersListen, SubsInBlocks!Subscribed, SubsInBlocks!Idle,
       SubsInBlocks!NotInTransaction
  <2> QED
    BY <2>1, <2>2 DEF SubscribersListen
<1> QED
  BY <1>3, <1>4, <1>5, PTL DEF RunSpec

-----------------------------------------------------------------------------
(***************************************************************************)
(* The stock table without a unique constraint, with several terminals and *)
(* with one.  The invariant and its proof are those of StockProofs.        *)
(***************************************************************************)
Shared == INSTANCE StockProofs WITH
    rows <- v1, lock <- v2, pending <- v3, pc <- v4, edit <- v5, target <- v6, read <- v7,
    copied <- v8,
    UniqueCode <- FALSE, NoRow <- NoObject, NoOne <- NoObject

Single == INSTANCE StockProofs WITH
    rows <- v1, lock <- v2, pending <- v3, pc <- v4, edit <- v5, target <- v6, read <- v7,
    copied <- v8,
    Terminals <- {t1}, UniqueCode <- FALSE, NoRow <- NoObject, NoOne <- NoObject

\* The parts mean the same by the size of a set.
LEMMA Sizes ==
  \A S : /\ Free!Cardinality(S) = Cardinality(S) /\ Shared!Cardinality(S) = Cardinality(S)
         /\ Alone!Cardinality(S) = Cardinality(S) /\ Single!Cardinality(S) = Cardinality(S)
         /\ Free!IsFiniteSet(S) <=> Shared!IsFiniteSet(S)
         /\ Alone!IsFiniteSet(S) <=> Single!IsFiniteSet(S)
  BY DEF Cardinality, IsFiniteSet, Free!Cardinality, Shared!Cardinality, Alone!Cardinality,
     Single!Cardinality, Free!IsFiniteSet, Shared!IsFiniteSet, Alone!IsFiniteSet,
     Single!IsFiniteSet

\* The steps that the proofs are about are those of the run.
LEMMA FreeSteps == [Free!Next]_(Free!vars) => [Shared!Next]_(Shared!vars)
<1> USE DEF Free!Row, Shared!Row, Free!Goto, Shared!Goto, Free!Ends, Shared!Ends,
        Free!Dies, Shared!Dies, Free!Present, Shared!Present, Free!Matching,
        Shared!Matching, Free!Issue, Shared!Issue, Free!Write, Shared!Write, Free!Free,
        Shared!Free, Free!Contested, Shared!Contested, Free!Applied, Shared!Applied
<1>1. \A t, c : /\ Free!ReadProduct(t, c) => Shared!ReadProduct(t, c)
                /\ Free!Delete(t, c) => Shared!Delete(t, c)
  BY DEF Free!ReadProduct, Shared!ReadProduct, Free!Delete, Shared!Delete
<1>2. \A t : /\ Free!Answer(t) => Shared!Answer(t)
             /\ Free!GiveUp(t) => Shared!GiveUp(t)
             /\ Free!Restart(t) => Shared!Restart(t)
  BY DEF Free!Answer, Shared!Answer, Free!GiveUp, Shared!GiveUp, Free!Restart,
     Shared!Restart
<1>3. \A t : /\ Free!CheckExists(t) => Shared!CheckExists(t)
             /\ Free!Update(t) => Shared!Update(t)
             /\ Free!Updating(t) => Shared!Updating(t)
  BY Sizes DEF Free!CheckExists, Shared!CheckExists, Free!Update, Shared!Update,
     Free!Updating, Shared!Updating
<1>4. \A t : /\ Free!Insert(t) => Shared!Insert(t)
             /\ Free!DeleteRows(t) => Shared!DeleteRows(t)
  BY DEF Free!Insert, Shared!Insert, Free!DeleteRows, Shared!DeleteRows
<1>5. \A t : /\ Free!Commit(t) => Shared!Commit(t)
             /\ Free!ConnectionLost(t) => Shared!ConnectionLost(t)
  BY DEF Free!Commit, Shared!Commit, Free!ConnectionLost, Shared!ConnectionLost
<1>6. Free!stock_size = Shared!stock_size
  BY Sizes DEF Free!stock_size, Shared!stock_size
<1>7. \A t : /\ Free!ListProducts(t) => Shared!ListProducts(t)
             /\ Free!CopyRow(t) => Shared!CopyRow(t)
  BY <1>6 DEF Free!ListProducts, Shared!ListProducts, Free!CopyRow, Shared!CopyRow
<1>8. \A t : Free!Statement(t) => Shared!Statement(t)
  BY <1>3, <1>4, <1>5, <1>7 DEF Free!Statement, Shared!Statement
<1>9. \A t : Free!User(t) => Shared!User(t)
  BY <1>1, <1>2, <1>7 DEF Free!User, Shared!User
<1> QED
  BY <1>5, <1>8, <1>9 DEF Free!Next, Shared!Next, Free!vars, Shared!vars

LEMMA AloneSteps == [Alone!Next]_(Alone!vars) => [Single!Next]_(Single!vars)
<1> USE DEF Alone!Row, Single!Row, Alone!Goto, Single!Goto, Alone!Ends, Single!Ends,
        Alone!Dies, Single!Dies, Alone!Present, Single!Present, Alone!Matching,
        Single!Matching, Alone!Issue, Single!Issue, Alone!Write, Single!Write, Alone!Free,
        Single!Free, Alone!Contested, Single!Contested, Alone!Applied, Single!Applied
<1>1. \A t, c : /\ Alone!ReadProduct(t, c) => Single!ReadProduct(t, c)
                /\ Alone!Delete(t, c) => Single!Delete(t, c)
  BY DEF Alone!ReadProduct, Single!ReadProduct, Alone!Delete, Single!Delete
<1>2. \A t : /\ Alone!Answer(t) => Single!Answer(t)
             /\ Alone!GiveUp(t) => Single!GiveUp(t)
             /\ Alone!Restart(t) => Single!Restart(t)
  BY DEF Alone!Answer, Single!Answer, Alone!GiveUp, Single!GiveUp, Alone!Restart,
     Single!Restart
<1>3. \A t : /\ Alone!CheckExists(t) => Single!CheckExists(t)
             /\ Alone!Update(t) => Single!Update(t)
             /\ Alone!Updating(t) => Single!Updating(t)
  BY Sizes DEF Alone!CheckExists, Single!CheckExists, Alone!Update, Single!Update,
     Alone!Updating, Single!Updating
<1>4. \A t : /\ Alone!Insert(t) => Single!Insert(t)
             /\ Alone!DeleteRows(t) => Single!DeleteRows(t)
  BY DEF Alone!Insert, Single!Insert, Alone!DeleteRows, Single!DeleteRows
<1>5. \A t : /\ Alone!Commit(t) => Single!Commit(t)
             /\ Alone!ConnectionLost(t) => Single!ConnectionLost(t)
  BY DEF Alone!Commit, Single!Commit, Alone!ConnectionLost, Single!ConnectionLost
<1>6. Alone!stock_size = Single!stock_size
  BY Sizes DEF Alone!stock_size, Single!stock_size
<1>7. \A t : /\ Alone!ListProducts(t) => Single!ListProducts(t)
             /\ Alone!CopyRow(t) => Single!CopyRow(t)
  BY <1>6 DEF Alone!ListProducts, Single!ListProducts, Alone!CopyRow,
     Single!CopyRow
<1>8. \A t : Alone!Statement(t) => Single!Statement(t)
  BY <1>3, <1>4, <1>5, <1>7 DEF Alone!Statement, Single!Statement
<1>9. \A t : Alone!User(t) => Single!User(t)
  BY <1>1, <1>2, <1>7 DEF Alone!User, Single!User
<1> QED
  BY <1>5, <1>8, <1>9 DEF Alone!Next, Single!Next, Alone!vars, Single!vars

\* The look-up of update_stock() leaves a code with at most one row for each
\* terminal, however the statements of the terminals interleave; and with one
\* row when there is one terminal.
THEOREM SessionCopiesBounded == RunSpec => []CopiesBounded
<1> DEFINE Inv == /\ part = "free" => Shared!Writing /\ Shared!Shares
                  /\ part = "alone" => Single!Writing /\ Single!Shares
<1>1. Shared!StockAssumption /\ Single!StockAssumption
  BY SessionAssumption, Sizes DEF Free!StockAssumption, Shared!StockAssumption, Free!Row, Shared!Row,
     Alone!StockAssumption, Single!StockAssumption, Alone!Row, Single!Row
<1>2. RunInit => Inv
  <2>1. Free!Init => Shared!Init
    BY DEF Free!Init, Shared!Init, Free!Row, Shared!Row, Free!Present, Shared!Present
  <2>2. Alone!Init => Single!Init
    BY DEF Alone!Init, Single!Init, Alone!Row, Single!Row, Alone!Present, Single!Present
  <2>3. Shared!Init => Shared!Writing /\ Shared!Shares
    BY <1>1, Shared!StockInit, Shared!SharesInductive
  <2>4. Single!Init => Single!Writing /\ Single!Shares
    BY <1>1, Single!StockInit, Single!SharesInductive
  <2> QED
    BY <2>1, <2>2, <2>3, <2>4 DEF RunInit
<1>3. Inv /\ [RunNext]_runVars => Inv'
  <2>1. part = "free" /\ [RunNext]_runVars => [Free!Next]_(Free!vars)
    BY DEF RunNext, runVars, partVars, Free!vars
  <2>2. part = "alone" /\ [RunNext]_runVars => [Alone!Next]_(Alone!vars)
    BY DEF RunNext, runVars, partVars, Alone!vars
  <2>3. Shared!Writing /\ Shared!Shares /\ [Shared!Next]_(Shared!vars)
        => Shared!Writing' /\ Shared!Shares'
    BY <1>1, Shared!StockInductive, Shared!SharesInductive
  <2>4. Single!Writing /\ Single!Shares /\ [Single!Next]_(Single!vars)
        => Single!Writing' /\ Single!Shares'
    BY <1>1, Single!StockInductive, Single!SharesInductive
  <2> QED
    BY <2>1, <2>2, <2>3, <2>4, PartStays, FreeSteps, AloneSteps
<1>4. Inv => CopiesBounded
  <2>1. Shared!Writing /\ Shared!Shares => Shared!TypeOK /\ Shared!CopiesBounded
    BY <1>1, Shared!SharesBound DEF Shared!Writing
  <2>2. Shared!TypeOK => Free!TypeOK
    BY DEF Shared!TypeOK, Free!TypeOK, Shared!Row, Free!Row, Shared!Labels, Free!Labels
  <2>3. Shared!CopiesBounded => Free!CopiesBounded
    BY Sizes DEF Shared!CopiesBounded, Free!CopiesBounded, Shared!Matching, Free!Matching,
       Shared!Present, Free!Present
  <2>4. Single!Shares => Single!CopiesBounded
    BY <1>1, Single!SharesBound
  <2>5. Single!CopiesBounded => Alone!CodesUnique
    <3>1. Cardinality({t1}) = 1
      BY FS_Singleton
    <3> QED
      BY <3>1, Sizes DEF Single!CopiesBounded, Alone!CodesUnique, Single!Matching, Alone!Matching,
         Single!Present, Alone!Present
  <2> QED
    BY <2>1, <2>2, <2>3, <2>4, <2>5 DEF CopiesBounded
<1> QED
  BY <1>2, <1>3, <1>4, PTL DEF RunSpec

=============================================================================
