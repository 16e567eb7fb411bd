------------------------------- MODULE Stock -------------------------------
(***************************************************************************)
(* Several terminals on one products table, statement by statement: the    *)
(* transactions of add_modify_product and update_stock, of erase and of    *)
(* code_list, with what PostgreSQL does between them at READ COMMITTED,    *)
(* the isolation level of pqxx::work.  Each statement sees what is         *)
(* committed when it starts, a write waits for an uncommitted write of the *)
(* same row, and other terminals act between any two statements.           *)
(*                                                                         *)
(* The schema is not part of the repository, so that the column code is    *)
(* unique is a parameter.  A row is its code and a version standing for    *)
(* its other columns; rows have identities, so that two may be alike.      *)
(***************************************************************************)
EXTENDS Naturals, FiniteSets

CONSTANTS
  Terminals,
  Code,
  Version,      \* what the columns other than code may hold
  Id,           \* identities of rows, a bound on how many there are
  UniqueCode,   \* does the table have a unique constraint on code?
  NoRow, NoOne

Row == [code : Code, version : Version]

ASSUME StockAssumption ==
  /\ UniqueCode \in BOOLEAN
  /\ NoRow \notin Row /\ NoOne \notin Terminals
  /\ IsFiniteSet(Id)
  /\ IsFiniteSet(Terminals) /\ Terminals # {}

VARIABLES
  rows,         \* the committed table: a row or NoRow for each identity
  lock,         \* which terminal has an uncommitted write of the row
  pending,      \* what that write leaves there
  pc,           \* where each terminal is
  edit,         \* the row a terminal is about to write, or NoRow
  target,       \* the rows its UPDATE or DELETE found when it was issued
  read, copied  \* code_list(): rows of its result, and how many are copied

vars == <<rows, lock, pending, pc, edit, target, read, copied>>

Labels == {"idle", "prompts", "exists", "update", "updating", "insert",
           "deleting", "commit", "listing", "dead"}

Present == {i \in Id : rows[i] # NoRow}

Matching(c) == {i \in Present : rows[i].code = c}

\* COUNT over the whole table.
stock_size == Cardinality(Present)

Free == {i \in Id : rows[i] = NoRow /\ lock[i] = NoOne}

Init ==
  /\ rows \in [Id -> Row \cup {NoRow}]
  /\ \A i, j \in Present : rows[i].code = rows[j].code => i = j
  /\ lock = [i \in Id |-> NoOne]
  /\ pending = [i \in Id |-> NoRow]
  /\ pc = [t \in Terminals |-> "idle"]
  /\ edit = [t \in Terminals |-> NoRow]
  /\ target = [t \in Terminals |-> {}]
  /\ read = [t \in Terminals |-> 0]
  /\ copied = [t \in Terminals |-> 0]

Goto(t, label) == pc' = [pc EXCEPT ![t] = label]

(***************************************************************************)
(* The transaction of t is over, and nothing of the handler is left.  A    *)
(* row it erased is gone for the statements that wait for it, even if its  *)
(* identity is given to a new row later: they see the rows there were when *)
(* they were issued.                                                       *)
(***************************************************************************)
Ends(t, label) ==
  /\ Goto(t, label)
  /\ lock' = [i \in Id |-> IF lock[i] = t THEN NoOne ELSE lock[i]]
  /\ pending' = [i \in Id |-> IF lock[i] = t THEN NoRow ELSE pending[i]]
  /\ edit' = [edit EXCEPT ![t] = NoRow]
  /\ target' = [u \in Terminals |->
                  IF u = t THEN {} ELSE {i \in target[u] : rows'[i] # NoRow}]
  /\ read' = [read EXCEPT ![t] = 0]
  /\ copied' = [copied EXCEPT ![t] = 0]

\* An uncaught exception ends the process; the server rolls back.
Dies(t) == UNCHANGED rows /\ Ends(t, "dead")

-----------------------------------------------------------------------------
(***************************************************************************)
(* add_modify_product: the product is read, the user is asked for every    *)
(* column, and only then is the table written.                             *)
(***************************************************************************)

\* get_product_data(): without a row, res[0][0].as<>() throws.
ReadProduct(t, c) ==
  /\ pc[t] = "idle"
  /\ \/ /\ \E i \in Matching(c) : edit' = [edit EXCEPT ![t] = rows[i]]
        /\ Goto(t, "prompts")
        /\ UNCHANGED <<rows, lock, pending, target, read, copied>>
     \/ Matching(c) = {} /\ Dies(t)

\* The prompts offer the values read; any of them, the code too, may change.
Answer(t) ==
  /\ pc[t] = "prompts"
  /\ \E p \in Row : edit' = [edit EXCEPT ![t] = p]
  /\ Goto(t, "exists")
  /\ UNCHANGED <<rows, lock, pending, target, read, copied>>

\* A prompt is left with ESC, or stol or stod throws.
GiveUp(t) ==
  /\ pc[t] = "prompts"
  /\ UNCHANGED rows
  /\ Ends(t, "idle") \/ Ends(t, "dead")

\* Mutant of CheckExists: the answer is not looked at.
CheckExists_Skipped(t) ==
  /\ pc[t] = "exists"
  /\ Goto(t, "insert")
  /\ UNCHANGED <<rows, lock, pending, edit, target, read, copied>>

\* Mutant of CheckExists: any count but one is taken for none.
CheckExists_One(t) ==
  /\ pc[t] = "exists"
  /\ Goto(t, IF Cardinality(Matching(edit[t].code)) = 1 THEN "update" ELSE "insert")
  /\ UNCHANGED <<rows, lock, pending, edit, target, read, copied>>

(***************************************************************************)
(* product_exists(): COUNT(code) is read as a bool, which only 0 and 1     *)
(* convert to.                                                             *)
(***************************************************************************)
CheckExists(t) ==
  /\ pc[t] = "exists"
  /\ LET n == Cardinality(Matching(edit[t].code))
     IN \/ /\ n <= 1
           /\ Goto(t, IF n = 1 THEN "update" ELSE "insert")
           /\ UNCHANGED <<rows, lock, pending, edit, target, read, copied>>
        \/ n > 1 /\ Dies(t)

\* A statement is issued: it sees the rows committed now.
Issue(t, I, label) ==
  /\ target' = [target EXCEPT ![t] = I]
  /\ Goto(t, label)
  /\ UNCHANGED <<rows, lock, pending, edit, read, copied>>

\* The rows I are locked and become w when the transaction commits.
Write(t, I, w) ==
  /\ lock' = [i \in Id |-> IF i \in I THEN t ELSE lock[i]]
  /\ pending' = [i \in Id |-> IF i \in I THEN w ELSE pending[i]]
  /\ target' = [target EXCEPT ![t] = {}]
  /\ Goto(t, "commit")
  /\ UNCHANGED <<rows, edit, read, copied>>

\* Mutant of Update: every row is updated, the WHERE clause is missing.
Update_Everywhere(t) ==
  /\ pc[t] = "update"
  /\ Issue(t, Present, "updating")

\* UPDATE ... WHERE code = ...: the row may have gone since it was counted.
Update(t) ==
  /\ pc[t] = "update"
  /\ Issue(t, Matching(edit[t].code), "updating")

(***************************************************************************)
(* The statement waits for uncommitted writes of its rows; those that are  *)
(* gone when it gets to them are not its rows any more.  An UPDATE sets    *)
(* the code it selects by, so a row that is still there still matches.     *)
(***************************************************************************)
Updating(t) ==
  /\ pc[t] = "updating"
  /\ \A i \in target[t] : lock[i] = NoOne
  /\ Write(t, target[t], edit[t])

\* An uncommitted write of another terminal concerns the code.
Contested(c) ==
  \E i \in Id : lock[i] # NoOne /\ \E p \in {rows[i], pending[i]} \ {NoRow} :
                                      p.code = c

(***************************************************************************)
(* INSERT.  A unique constraint makes it wait for uncommitted writes that  *)
(* decide whether the code is taken, and fail if it is.  Free bounds how   *)
(* many products there are.                                                *)
(***************************************************************************)
Insert(t) ==
  /\ pc[t] = "insert"
  /\ LET c == edit[t].code
     IN /\ UniqueCode => ~Contested(c)
        /\ \/ /\ UniqueCode => Matching(c) = {}
              /\ \E i \in Free : Write(t, {i}, edit[t])
           \/ UniqueCode /\ Matching(c) # {} /\ Dies(t)

(***************************************************************************)
(* erase() for the highlighted product, in a transaction of its own.       *)
(***************************************************************************)
Delete(t, c) ==
  /\ pc[t] = "idle"
  /\ Issue(t, Matching(c), "deleting")

DeleteRows(t) ==
  /\ pc[t] = "deleting"
  /\ \A i \in target[t] : lock[i] = NoOne
  /\ Write(t, target[t], NoRow)

\* The table once the uncommitted writes of t are applied.
Applied(t) == [i \in Id |-> IF lock[i] = t THEN pending[i] ELSE rows[i]]

Commit(t) ==
  /\ pc[t] = "commit"
  /\ rows' = Applied(t)
  /\ Ends(t, "idle")

\* The connection breaks: before the commit, or while it is in doubt.
ConnectionLost(t) ==
  /\ pc[t] \notin {"idle", "dead"}
  /\ \/ rows' = rows
     \/ pc[t] = "commit" /\ rows' = Applied(t)
  /\ Ends(t, "dead")

-----------------------------------------------------------------------------
(***************************************************************************)
(* code_list() and name_list(): one query for the rows, and a COUNT of the *)
(* whole table before each of them is copied.                              *)
(***************************************************************************)

ListProducts(t) ==
  /\ pc[t] = "idle"
  /\ read' = [read EXCEPT ![t] = stock_size]
  /\ Goto(t, "listing")
  /\ UNCHANGED <<rows, lock, pending, edit, target, copied>>

\* Mutant of CopyRow: the index is not incremented.
CopyRow_Stays(t) ==
  /\ pc[t] = "listing"
  /\ \/ /\ copied[t] < stock_size /\ copied[t] < read[t]
        /\ UNCHANGED vars
     \/ copied[t] < stock_size /\ copied[t] >= read[t] /\ Dies(t)
     \/ copied[t] >= stock_size /\ UNCHANGED rows /\ Ends(t, "idle")

\* Past the end of the result, res[i][0].as<>() throws.
CopyRow(t) ==
  /\ pc[t] = "listing"
  /\ \/ /\ copied[t] < stock_size /\ copied[t] < read[t]
        /\ copied' = [copied EXCEPT ![t] = @ + 1]
        /\ UNCHANGED <<rows, lock, pending, pc, edit, target, read>>
     \/ copied[t] < stock_size /\ copied[t] >= read[t] /\ Dies(t)
     \/ copied[t] >= stock_size /\ UNCHANGED rows /\ Ends(t, "idle")

\* Someone starts the program again.
Restart(t) ==
  /\ pc[t] = "dead"
  /\ Goto(t, "idle")
  /\ UNCHANGED <<rows, lock, pending, edit, target, read, copied>>

-----------------------------------------------------------------------------
\* What the program and the server do without the user.
Statement(t) ==
  \/ CheckExists(t) \/ Update(t) \/ Updating(t) \/ Insert(t)
  \/ DeleteRows(t) \/ Commit(t) \/ CopyRow(t)

\* What the user starts, types and restarts.
User(t) ==
  \/ \E c \in Code : ReadProduct(t, c) \/ Delete(t, c)
  \/ Answer(t) \/ GiveUp(t) \/ ListProducts(t) \/ Restart(t)

Next == \E t \in Terminals : Statement(t) \/ User(t) \/ ConnectionLost(t)

(***************************************************************************)
(* Strong fairness: the server queues those who wait for a row, so that a  *)
(* statement is not overtaken for ever.                                    *)
(***************************************************************************)
Spec == Init /\ [][Next]_vars /\ \A t \in Terminals : SF_vars(Statement(t))

-----------------------------------------------------------------------------
(***************************************************************************)
(* Types; and code_list() never copies more rows than it has read, though  *)
(* the bound of its loop is the size the table has now.                    *)
(***************************************************************************)
TypeOK ==
  /\ rows \in [Id -> Row \cup {NoRow}]
  /\ lock \in [Id -> Terminals \cup {NoOne}]
  /\ pending \in [Id -> Row \cup {NoRow}]
  /\ pc \in [Terminals -> Labels]
  /\ edit \in [Terminals -> Row \cup {NoRow}]
  /\ target \in [Terminals -> SUBSET Id]
  /\ read \in [Terminals -> Nat] /\ copied \in [Terminals -> Nat]
  /\ \A t \in Terminals : copied[t] <= read[t]

(***************************************************************************)
(* update_stock() looks a code up before it inserts it: no code is in the  *)
(* table twice.                                                            *)
(***************************************************************************)
CodesUnique == \A c \in Code : Cardinality(Matching(c)) <= 1

(***************************************************************************)
(* Without a constraint in the table, the look-up of update_stock() still  *)
(* limits the damage: a code has at most one row for each terminal, since  *)
(* only those that looked before the first row was committed can add one.  *)
(***************************************************************************)
CopiesBounded ==
  \A c \in Code : Cardinality(Matching(c)) <= Cardinality(Terminals)

(***************************************************************************)
(* Seen from outside, add_modify_product() and erase() change the table in *)
(* one step that concerns one product, whatever other terminals do between *)
(* their statements and wherever the connection breaks.                    *)
(***************************************************************************)
Catalogue == INSTANCE Catalogue
  WITH shelf <- [c \in Code |-> {rows[i].version : i \in Matching(c)}]

IsCatalogue == Catalogue!Spec

(***************************************************************************)
(* No terminal waits for ever: once the user is done, every handler ends,  *)
(* also behind the locks of others, and also the loop of code_list(),      *)
(* whose bound other terminals move while it runs.                         *)
(***************************************************************************)
HandlersEnd ==
  \A t \in Terminals :
    pc[t] \notin {"idle", "prompts", "dead"} ~> pc[t] \in {"idle", "dead"}

=============================================================================
