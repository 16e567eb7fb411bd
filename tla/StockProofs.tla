---------------------------- MODULE StockProofs ----------------------------
(***************************************************************************)
(* The products table under any number of terminals, for every set of      *)
(* codes and rows.  With a unique constraint on code it is a Catalogue;    *)
(* without one, no code has more rows than there are terminals.            *)
(*                                                                         *)
(* Both rest on what an open transaction may do to the table (Writing): it *)
(* has locked rows of one code only, and an INSERT one row only.  The      *)
(* first adds that no two rows, committed or about to be, share a code     *)
(* (Distinct); the second counts the rows of a code together with the      *)
(* terminals that are about to add one (Shares).                           *)
(***************************************************************************)
EXTENDS Stock, FiniteSetTheorems, TLAPS

Locked(i) == lock[i] # NoOne

\* The code of a row: of the committed one, else of the one to be inserted.
CodeAt(i) == IF rows[i] # NoRow THEN rows[i].code ELSE pending[i].code

\* What a terminal that is writing has in hand is a row.
Edits ==
  \A t \in Terminals :
    pc[t] \in {"exists", "update", "updating", "insert"} => edit[t] \in Row

\* Nothing is copied outside the loop of code_list().
Loops == \A t \in Terminals : pc[t] # "listing" => copied[t] = 0

\* The rows a statement found are still there and have the code it looked for.
Targets ==
  \A t \in Terminals :
    /\ \A i \in target[t] : rows[i] # NoRow
    /\ \A i, j \in target[t] : rows[i].code = rows[j].code
    /\ pc[t] = "updating" => \A i \in target[t] : rows[i].code = edit[t].code

\* Rows are locked by transactions that are about to commit.
Locks == \A i \in Id : Locked(i) => pc[lock[i]] = "commit"

\* A transaction keeps the code of the rows it writes, and has written rows of
\* one code only; if it has inserted a row, then that one only.
Writes ==
  /\ \A i \in Id : Locked(i) /\ pending[i] # NoRow => pending[i].code = CodeAt(i)
  /\ \A i \in Id : Locked(i) => rows[i] # NoRow \/ pending[i] # NoRow
  /\ \A i, j \in Id : Locked(i) /\ lock[i] = lock[j] =>
       /\ CodeAt(i) = CodeAt(j)
       /\ rows[i] = NoRow => i = j

Writing == TypeOK /\ Loops /\ Edits /\ Targets /\ Locks /\ Writes

\* No two rows, committed or about to be, have the same code.
Distinct ==
  \A i, j \in Id :
    /\ rows[i] # NoRow \/ Locked(i)
    /\ rows[j] # NoRow \/ Locked(j)
    /\ CodeAt(i) = CodeAt(j)
    => i = j

\* The terminals that are about to add a row with code c.
Adding(c) ==
  {t \in Terminals :
     \/ pc[t] = "insert" /\ edit[t].code = c
     \/ \E i \in Id : lock[i] = t /\ rows[i] = NoRow /\ pending[i].code = c}

Shares ==
  \A c \in Code :
    Cardinality(Matching(c)) + Cardinality(Adding(c)) <= Cardinality(Terminals)

-----------------------------------------------------------------------------
(***************************************************************************)
(* The table is finite: its sizes are natural numbers.                     *)
(***************************************************************************)
LEMMA Finite ==
  /\ IsFiniteSet(Present) /\ stock_size \in Nat
  /\ \A c : IsFiniteSet(Matching(c)) /\ Cardinality(Matching(c)) \in Nat
<1>1. IsFiniteSet(Present)
  BY StockAssumption, FS_Subset DEF Present
<1>2. \A c : IsFiniteSet(Matching(c))
  BY <1>1, FS_Subset DEF Matching
<1> QED
  BY <1>1, <1>2, FS_CardinalityType DEF stock_size

(***************************************************************************)
(* The steps of a terminal, by what they do to the table.  A Move changes  *)
(* nothing of it; End and Apply end a transaction, Apply with its writes.  *)
(***************************************************************************)
Move(t) ==
  /\ UNCHANGED <<rows, lock, pending, target>>
  /\ \E label \in Labels :
       /\ Goto(t, label)
       /\ label \notin {"updating", "deleting", "commit"}
       /\ pc[t] # "commit"
       /\ \/ UNCHANGED edit
          \/ \E p \in Row : edit' = [edit EXCEPT ![t] = p]
       /\ label \in {"exists", "update", "insert"} => edit'[t] \in Row
       /\ label = "insert" => Matching(edit'[t].code) = {}

End(t) == rows' = rows /\ \E label \in {"idle", "dead"} : Ends(t, label)

Apply(t) ==
  /\ pc[t] = "commit"
  /\ rows' = Applied(t)
  /\ \E label \in {"idle", "dead"} : Ends(t, label)

Find(t) ==
  /\ pc[t] # "commit"
  /\ \/ \E c \in Code : Issue(t, Matching(c), "deleting")
     \/ Issue(t, Matching(edit[t].code), "updating") /\ edit[t] \in Row

WriteFound(t) ==
  /\ \A i \in target[t] : lock[i] = NoOne
  /\ \/ pc[t] = "updating" /\ Write(t, target[t], edit[t])
     \/ pc[t] = "deleting" /\ Write(t, target[t], NoRow)

WriteNew(t) ==
  /\ pc[t] = "insert"
  /\ UniqueCode => ~Contested(edit[t].code) /\ Matching(edit[t].code) = {}
  /\ \E i \in Free : Write(t, {i}, edit[t])

(***************************************************************************)
(* Every step of a terminal is one of these; CopyRow is a Move that counts *)
(* a row.                                                                  *)
(***************************************************************************)
LEMMA StockSteps ==
  ASSUME TypeOK, Edits, NEW t \in Terminals,
         Statement(t) \/ User(t) \/ ConnectionLost(t)
  PROVE  Move(t) \/ End(t) \/ Apply(t) \/ Find(t) \/ WriteFound(t) \/ WriteNew(t)
<1> USE DEF TypeOK
<1>1. CASE CheckExists(t)
  <2>1. CASE Dies(t)
    BY <2>1 DEF Dies, End
  <2>2. CASE /\ Cardinality(Matching(edit[t].code)) <= 1
             /\ Goto(t, IF Cardinality(Matching(edit[t].code)) = 1
                          THEN "update" ELSE "insert")
             /\ UNCHANGED <<rows, lock, pending, edit, target, read, copied>>
    <3>1. edit[t] \in Row
      BY <1>1 DEF CheckExists, Edits
    <3>2. CASE Cardinality(Matching(edit[t].code)) = 1
      BY <1>1, <2>2, <3>1, <3>2 DEF CheckExists, Move, Labels
    <3>3. CASE Cardinality(Matching(edit[t].code)) # 1
      <4>1. Matching(edit[t].code) = {}
        BY <2>2, <3>3, Finite, FS_EmptySet
      <4> QED
        BY <1>1, <2>2, <3>1, <3>3, <4>1 DEF CheckExists, Move, Labels
    <3> QED
      BY <3>2, <3>3
  <2> QED
    BY <1>1, <2>1, <2>2 DEF CheckExists
<1>2. CASE Update(t)
  BY <1>2 DEF Update, Find, Edits
<1>3. CASE Updating(t) \/ DeleteRows(t)
  BY <1>3 DEF Updating, DeleteRows, WriteFound
<1>4. CASE Insert(t)
  BY <1>4 DEF Insert, Dies, End, WriteNew
<1>5. CASE Commit(t)
  BY <1>5 DEF Commit, Apply
<1>6. CASE CopyRow(t)
  <2>1. CASE UNCHANGED <<rows, lock, pending, pc, edit, target, read>>
    <3>1. pc' = [pc EXCEPT ![t] = "listing"]
      BY <1>6, <2>1 DEF CopyRow
    <3> QED
      BY <1>6, <2>1, <3>1 DEF CopyRow, Move, Goto, Labels
  <2> QED
    BY <1>6, <2>1 DEF CopyRow, Dies, End
<1>7. ASSUME NEW c \in Code, ReadProduct(t, c)
      PROVE  Move(t) \/ End(t)
  <2>1. \A i \in Matching(c) : rows[i] \in Row
    BY DEF Matching, Present
  <2> QED
    BY <1>7, <2>1 DEF ReadProduct, Dies, End, Move, Labels
<1>8. ASSUME NEW c \in Code, Delete(t, c)
      PROVE  Find(t)
  BY <1>8 DEF Delete, Find
<1>9. CASE Answer(t)
  <2>1. PICK p \in Row : edit' = [edit EXCEPT ![t] = p]
    BY <1>9 DEF Answer
  <2>2. edit'[t] \in Row
    BY <2>1
  <2> QED
    BY <1>9, <2>1, <2>2 DEF Answer, Move, Labels
<1>10. CASE GiveUp(t)
  BY <1>10 DEF GiveUp, End
<1>11. CASE ListProducts(t) \/ Restart(t)
  BY <1>11 DEF ListProducts, Restart, Move, Labels
<1>12. CASE ConnectionLost(t)
  BY <1>12 DEF ConnectionLost, End, Apply
<1> QED
  BY <1>1, <1>2, <1>3, <1>4, <1>5, <1>6, <1>7, <1>8, <1>9, <1>10, <1>11, <1>12
     DEF Statement, User

-----------------------------------------------------------------------------
(***************************************************************************)
(* The types are kept, and code_list() copies no more rows than it read.   *)
(***************************************************************************)
LEMMA TypeInductive ==
  ASSUME TypeOK, Loops, NEW t \in Terminals,
         Statement(t) \/ User(t) \/ ConnectionLost(t)
  PROVE  TypeOK' /\ Loops'
<1> USE DEF TypeOK, Loops
<1>1. ASSUME NEW label \in {"idle", "dead"}, Ends(t, label),
             rows' \in [Id -> Row \cup {NoRow}]
      PROVE  TypeOK' /\ Loops'
  <2>1. label \in Labels
    BY DEF Labels
  <2> QED
    BY <1>1, <2>1 DEF Ends, Goto
<1>2. Applied(t) \in [Id -> Row \cup {NoRow}]
  BY DEF Applied
<1>3. ASSUME Dies(t)
      PROVE  TypeOK' /\ Loops'
  BY <1>1, <1>3 DEF Dies
<1>4. ASSUME NEW I, NEW w \in Row \cup {NoRow}, Write(t, I, w),
             pc[t] # "listing"
      PROVE  TypeOK' /\ Loops'
  BY <1>4 DEF Write, Goto, Labels
<1>5. ASSUME NEW c, NEW label \in {"updating", "deleting"},
             Issue(t, Matching(c), label), pc[t] # "listing"
      PROVE  TypeOK' /\ Loops'
  <2>1. label \in Labels
    BY DEF Labels
  <2>2. Matching(c) \subseteq Id
    BY DEF Matching, Present
  <2> QED
    BY <1>5, <2>1, <2>2 DEF Issue, Goto
<1>6. ASSUME NEW label \in Labels, Goto(t, label), pc[t] # "listing",
             \/ UNCHANGED edit
             \/ \E p \in Row : edit' = [edit EXCEPT ![t] = p],
             UNCHANGED <<rows, lock, pending, target, read, copied>>
      PROVE  TypeOK' /\ Loops'
  BY <1>6 DEF Goto
<1>7. CASE CheckExists(t)
  BY <1>3, <1>6, <1>7 DEF CheckExists, Labels
<1>8. CASE Update(t)
  BY <1>5, <1>8 DEF Update
<1>9. CASE Updating(t) \/ DeleteRows(t)
  BY <1>4, <1>9 DEF Updating, DeleteRows
<1>10. CASE Insert(t)
  BY <1>3, <1>4, <1>10 DEF Insert
<1>11. CASE Commit(t)
  BY <1>1, <1>2, <1>11 DEF Commit
<1>12. CASE CopyRow(t)
  <2>1. CASE /\ copied[t] < read[t]
             /\ copied' = [copied EXCEPT ![t] = @ + 1]
             /\ UNCHANGED <<rows, lock, pending, pc, edit, target, read>>
    <3>1. /\ copied' \in [Terminals -> Nat]
          /\ \A u \in Terminals : copied'[u] <= read[u]
      BY <2>1
    <3>2. \A u \in Terminals : u # t => copied'[u] = copied[u]
      BY <2>1
    <3>3. pc[t] = "listing"
      BY <1>12 DEF CopyRow
    <3> QED
      BY <2>1, <3>1, <3>2, <3>3
  <2> QED
    BY <1>1, <1>3, <1>12, <2>1 DEF CopyRow
<1>13. ASSUME NEW c \in Code, ReadProduct(t, c) \/ Delete(t, c)
       PROVE  TypeOK' /\ Loops'
  <2>1. \A i \in Matching(c) : rows[i] \in Row
    BY DEF Matching, Present
  <2> QED
    BY <1>3, <1>5, <1>6, <1>13, <2>1 DEF ReadProduct, Delete, Labels
<1>14. CASE Answer(t) \/ Restart(t)
  BY <1>6, <1>14 DEF Answer, Restart, Labels
<1>15. CASE GiveUp(t)
  BY <1>1, <1>15 DEF GiveUp
<1>16. CASE ListProducts(t)
  <2>1. copied[t] = 0
    BY <1>16 DEF ListProducts
  <2> QED
    BY <1>16, <2>1, Finite DEF ListProducts, Goto, Labels
<1>17. CASE ConnectionLost(t)
  BY <1>1, <1>2, <1>17 DEF ConnectionLost
<1> QED
  BY <1>7, <1>8, <1>9, <1>10, <1>11, <1>12, <1>13, <1>14, <1>15, <1>16, <1>17
     DEF Statement, User

(***************************************************************************)
(* Every step keeps what is known of open transactions.                    *)
(***************************************************************************)
LEMMA WritingInductive ==
  ASSUME Writing, NEW t \in Terminals,
         Statement(t) \/ User(t) \/ ConnectionLost(t)
  PROVE  Writing'
<1>0. TypeOK' /\ Loops'
  BY TypeInductive DEF Writing
<1>a. TypeOK /\ Edits /\ Targets /\ Locks /\ Writes
  BY DEF Writing
<1>b. NoRow \notin Row /\ NoOne \notin Terminals
  BY StockAssumption
<1> SUFFICES Edits' /\ Targets' /\ Locks' /\ Writes'
  BY <1>0 DEF Writing
<1>1. CASE Move(t)
  <2>1. PICK label \in Labels :
          /\ pc' = [pc EXCEPT ![t] = label]
          /\ label \notin {"updating", "deleting", "commit"}
          /\ pc[t] # "commit"
          /\ label \in {"exists", "update", "insert"} => edit'[t] \in Row
    BY <1>1 DEF Move, Goto
  <2>2. /\ UNCHANGED <<rows, lock, pending, target>>
        /\ \A u \in Terminals : u # t => edit'[u] = edit[u]
    BY <1>1, <1>a DEF Move, TypeOK
  <2>3. Edits'
    BY <1>a, <2>1, <2>2 DEF Edits, TypeOK
  <2>4. Targets'
    BY <1>a, <2>1, <2>2 DEF Targets, TypeOK
  <2>5. Locks'
    BY <1>a, <2>1, <2>2 DEF Locks, Locked, TypeOK
  <2>6. Writes'
    BY <1>a, <2>2 DEF Writes, Locked, CodeAt
  <2> QED
    BY <2>3, <2>4, <2>5, <2>6
<1>2. CASE End(t) \/ Apply(t)
  <2>1. PICK label \in {"idle", "dead"} : Ends(t, label)
    BY <1>2 DEF End, Apply
  <2>2. /\ pc' = [pc EXCEPT ![t] = label]
        /\ edit' = [edit EXCEPT ![t] = NoRow]
        /\ lock' = [i \in Id |-> IF lock[i] = t THEN NoOne ELSE lock[i]]
        /\ pending' = [i \in Id |-> IF lock[i] = t THEN NoRow ELSE pending[i]]
        /\ target' = [u \in Terminals |->
                        IF u = t THEN {} ELSE {i \in target[u] : rows'[i] # NoRow}]
    BY <2>1 DEF Ends, Goto
  <2>3. \A i \in Id : lock[i] # t => rows'[i] = rows[i]
    BY <1>2 DEF End, Apply, Applied
  <2>4. \A i \in Id : rows[i] # NoRow /\ rows'[i] # NoRow =>
          rows'[i].code = rows[i].code
    <3>1. CASE rows' = rows
      BY <3>1
    <3>2. CASE rows' = Applied(t)
      BY <1>a, <1>b, <3>2 DEF Applied, Writes, CodeAt, Locked
    <3> QED
      BY <1>2, <3>1, <3>2 DEF End, Apply
  <2>5. Edits'
    BY <1>a, <2>2 DEF Edits, TypeOK
  <2>6. Targets'
    <3> SUFFICES ASSUME NEW u \in Terminals, u # t
                 PROVE  /\ \A i \in target'[u] : rows'[i] # NoRow
                        /\ \A i, j \in target'[u] : rows'[i].code = rows'[j].code
                        /\ pc'[u] = "updating" =>
                             \A i \in target'[u] : rows'[i].code = edit'[u].code
      BY <2>2, <1>a DEF Targets, TypeOK
    <3>1. target'[u] = {i \in target[u] : rows'[i] # NoRow}
      BY <2>2
    <3>2. \A i \in target'[u] : i \in target[u] /\ i \in Id /\ rows'[i] # NoRow
      BY <1>a, <3>1 DEF TypeOK
    <3>3. \A i \in target'[u] : rows'[i].code = rows[i].code
      BY <1>a, <2>4, <3>2 DEF Targets
    <3>4. pc'[u] = pc[u] /\ edit'[u] = edit[u]
      BY <1>a, <2>2 DEF TypeOK
    <3> QED
      BY <1>a, <3>2, <3>3, <3>4 DEF Targets
  <2>7. Locks'
    BY <1>a, <2>2 DEF Locks, Locked, TypeOK
  <2>8. \A i \in Id : Locked(i)' =>
          /\ Locked(i) /\ lock'[i] = lock[i] /\ lock[i] # t
          /\ rows'[i] = rows[i] /\ pending'[i] = pending[i]
          /\ CodeAt(i)' = CodeAt(i)
    BY <2>2, <2>3 DEF Locked, CodeAt
  <2>9. Writes'
    BY <1>a, <2>8 DEF Writes, Locked
  <2> QED
    BY <2>5, <2>6, <2>7, <2>9
<1>3. CASE Find(t)
  <2>0. PICK label \in {"updating", "deleting"} : \E c :
          /\ Issue(t, Matching(c), label)
          /\ label = "updating" => c = edit[t].code /\ edit[t] \in Row
    BY <1>3 DEF Find
  <2>1. PICK c :
          /\ Issue(t, Matching(c), label)
          /\ label = "updating" => c = edit[t].code /\ edit[t] \in Row
    BY <2>0
  <2>2. /\ target' = [target EXCEPT ![t] = Matching(c)]
        /\ pc' = [pc EXCEPT ![t] = label]
        /\ UNCHANGED <<rows, lock, pending, edit>>
        /\ pc[t] # "commit"
    BY <1>3, <2>1 DEF Issue, Goto, Find
  <2>3. \A i \in Matching(c) : rows[i] # NoRow /\ rows[i].code = c
    BY DEF Matching, Present
  <2>4. Edits'
    BY <1>a, <2>1, <2>2 DEF Edits, TypeOK
  <2>5. Targets'
    BY <1>a, <2>1, <2>2, <2>3 DEF Targets, TypeOK
  <2>6. Locks'
    BY <1>a, <2>2 DEF Locks, Locked, TypeOK
  <2>7. Writes'
    BY <1>a, <2>2 DEF Writes, Locked, CodeAt
  <2> QED
    BY <2>4, <2>5, <2>6, <2>7
<1>4. ASSUME NEW I \in SUBSET Id, NEW w, Write(t, I, w), pc[t] # "commit",
             \A i \in I : lock[i] = NoOne
      PROVE  /\ Edits' /\ Targets' /\ Locks'
             /\ \A i \in Id : /\ lock[i] # t
                              /\ rows'[i] = rows[i]
                              /\ lock'[i] = IF i \in I THEN t ELSE lock[i]
                              /\ pending'[i] = IF i \in I THEN w ELSE pending[i]
  <2>1. /\ lock' = [i \in Id |-> IF i \in I THEN t ELSE lock[i]]
        /\ pending' = [i \in Id |-> IF i \in I THEN w ELSE pending[i]]
        /\ target' = [target EXCEPT ![t] = {}]
        /\ pc' = [pc EXCEPT ![t] = "commit"]
        /\ UNCHANGED <<rows, edit>>
    BY <1>4 DEF Write, Goto
  <2>2. Edits'
    BY <1>a, <2>1 DEF Edits, TypeOK
  <2>3. Targets'
    BY <1>a, <2>1 DEF Targets, TypeOK
  <2>4. Locks'
    BY <1>a, <2>1 DEF Locks, Locked, TypeOK
  <2>5. \A i \in Id : lock[i] # t
    BY <1>4, <1>a, <1>b DEF Locks, Locked
  <2> QED
    BY <2>1, <2>2, <2>3, <2>4, <2>5
<1>5. CASE WriteFound(t)
  <2>1. target[t] \in SUBSET Id
    BY <1>a DEF TypeOK
  <2>2. PICK w : /\ Write(t, target[t], w)
                 /\ \/ w = NoRow
                    \/ w = edit[t] /\ edit[t] \in Row /\ pc[t] = "updating"
    BY <1>5, <1>a DEF WriteFound, Edits
  <2>3. /\ Edits' /\ Targets' /\ Locks'
        /\ \A i \in Id :
             /\ lock[i] # t
             /\ rows'[i] = rows[i]
             /\ lock'[i] = IF i \in target[t] THEN t ELSE lock[i]
             /\ pending'[i] = IF i \in target[t] THEN w ELSE pending[i]
    BY <1>4, <1>5, <2>1, <2>2 DEF WriteFound
  <2>4. \A i \in target[t] :
          /\ rows[i] # NoRow
          /\ w # NoRow => w.code = rows[i].code
          /\ \A j \in target[t] : rows[i].code = rows[j].code
    BY <1>a, <2>2 DEF Targets
  <2>5. \A i \in Id : IF i \in target[t]
                        THEN CodeAt(i)' = rows[i].code
                        ELSE Locked(i)' <=> Locked(i)
    BY <2>3, <2>4 DEF CodeAt, Locked
  <2>6. \A i \in Id \ target[t] : CodeAt(i)' = CodeAt(i)
    BY <2>3 DEF CodeAt
  <2>7. Writes'
    BY <1>a, <2>3, <2>4, <2>5, <2>6 DEF Writes, Locked
  <2> QED
    BY <2>3, <2>7
<1>6. CASE WriteNew(t)
  <2>1. PICK k \in Id : /\ Write(t, {k}, edit[t])
                        /\ rows[k] = NoRow /\ lock[k] = NoOne
    BY <1>6 DEF WriteNew, Free
  <2>2. edit[t] \in Row /\ pc[t] = "insert"
    BY <1>6, <1>a DEF WriteNew, Edits
  <2>3. /\ Edits' /\ Targets' /\ Locks'
        /\ \A i \in Id :
             /\ lock[i] # t
             /\ rows'[i] = rows[i]
             /\ lock'[i] = IF i \in {k} THEN t ELSE lock[i]
             /\ pending'[i] = IF i \in {k} THEN edit[t] ELSE pending[i]
    BY <1>4, <2>1, <2>2
  <2>4. CodeAt(k)' = edit[t].code
    BY <2>1, <2>3 DEF CodeAt
  <2>5. \A i \in Id : i # k => CodeAt(i)' = CodeAt(i)
    BY <2>3 DEF CodeAt
  <2>6. Writes'
    BY <1>a, <1>b, <2>1, <2>2, <2>3, <2>4, <2>5 DEF Writes, Locked
  <2> QED
    BY <2>3, <2>6
<1> QED
  BY <1>1, <1>2, <1>3, <1>5, <1>6, <1>a, StockSteps

-----------------------------------------------------------------------------
(***************************************************************************)
(* Only an INSERT brings a code into the table: after any other step, the  *)
(* rows that are there or about to be were so before, with the same code.  *)
(***************************************************************************)
LEMMA CodesStay ==
  ASSUME Writing, NEW t \in Terminals,
         Move(t) \/ End(t) \/ Apply(t) \/ Find(t) \/ WriteFound(t),
         NEW i \in Id, rows'[i] # NoRow \/ Locked(i)'
  PROVE  (rows[i] # NoRow \/ Locked(i)) /\ CodeAt(i)' = CodeAt(i)
<1>1. CASE Move(t) \/ Find(t)
  BY <1>1 DEF Move, Find, Issue, Locked, CodeAt
<1>2. CASE End(t) \/ Apply(t)
  <2>1. /\ lock'[i] = IF lock[i] = t THEN NoOne ELSE lock[i]
        /\ lock[i] # t => pending'[i] = pending[i]
    BY <1>2 DEF End, Apply, Ends
  <2>2. CASE rows' = rows
    BY <2>1, <2>2 DEF Locked, CodeAt
  <2>3. CASE rows' = Applied(t)
    <3>1. CASE lock[i] = t
      <4>1. rows'[i] = pending[i] /\ ~Locked(i)' /\ Locked(i)
        BY <2>1, <2>3, <3>1, StockAssumption DEF Applied, Locked
      <4> QED
        BY <4>1 DEF Writing, Writes, CodeAt
    <3>2. CASE lock[i] # t
      BY <2>1, <2>3, <3>2 DEF Applied, Locked, CodeAt
    <3> QED
      BY <3>1, <3>2
  <2> QED
    BY <1>2, <2>2, <2>3 DEF End, Apply
<1>3. CASE WriteFound(t)
  <2>1. i \in target[t] => rows[i] # NoRow
    BY DEF Writing, Targets
  <2>2. /\ rows' = rows
        /\ i \notin target[t] => lock'[i] = lock[i] /\ pending'[i] = pending[i]
    BY <1>3 DEF WriteFound, Write
  <2> QED
    BY <2>1, <2>2 DEF Locked, CodeAt
<1> QED
  BY <1>1, <1>2, <1>3

(***************************************************************************)
(* Under a unique constraint no two rows ever share a code: an INSERT      *)
(* looks at the committed rows and waits for those about to be.            *)
(***************************************************************************)
LEMMA DistinctInductive ==
  ASSUME UniqueCode = TRUE, Writing, Distinct, NEW t \in Terminals,
         Statement(t) \/ User(t) \/ ConnectionLost(t)
  PROVE  Distinct'
<1>1. CASE Move(t) \/ End(t) \/ Apply(t) \/ Find(t) \/ WriteFound(t)
  BY <1>1, CodesStay DEF Distinct
<1>2. CASE WriteNew(t)
  <2>1. PICK k \in Id : Write(t, {k}, edit[t]) /\ rows[k] = NoRow
    BY <1>2 DEF WriteNew, Free
  <2>2. /\ rows' = rows
        /\ lock'[k] = t /\ pending'[k] = edit[t]
        /\ \A i \in Id : i # k =>
             lock'[i] = lock[i] /\ pending'[i] = pending[i]
    BY <2>1 DEF Write
  <2>3. CodeAt(k)' = edit[t].code
    BY <2>1, <2>2 DEF CodeAt
  <2>4. \A i \in Id : i # k =>
          CodeAt(i)' = CodeAt(i) /\ (Locked(i)' <=> Locked(i))
    BY <2>2 DEF CodeAt, Locked
  <2>5. ASSUME NEW i \in Id, i # k, rows[i] # NoRow \/ Locked(i)
        PROVE  CodeAt(i) # edit[t].code
    <3>1. CASE rows[i] # NoRow
      BY <1>2, <3>1 DEF WriteNew, Matching, Present, CodeAt
    <3>2. CASE rows[i] = NoRow
      <4>1. Locked(i) /\ pending[i] # NoRow
        BY <2>5, <3>2 DEF Writing, Writes
      <4> QED
        BY <1>2, <3>2, <4>1 DEF WriteNew, Contested, Locked, CodeAt
    <3> QED
      BY <3>1, <3>2
  <2> QED
    BY <2>2, <2>3, <2>4, <2>5 DEF Distinct
<1> QED
  BY <1>1, <1>2, StockSteps DEF Writing

(***************************************************************************)
(* The table as a Catalogue shows it.                                      *)
(***************************************************************************)
Shelf == [c \in Code |-> {rows[i].version : i \in Matching(c)}]

(***************************************************************************)
(* A commit puts or removes one product.                                   *)
(***************************************************************************)
LEMMA ApplyPuts ==
  ASSUME Writing, Distinct, NEW t \in Terminals, Apply(t)
  PROVE  \/ Shelf' = Shelf
         \/ \E c \in Code : \/ Shelf' = [Shelf EXCEPT ![c] = {}]
                            \/ \E v \in Version :
                                 Shelf' = [Shelf EXCEPT ![c] = {v}]
<1>0. TypeOK
  BY DEF Writing
<1>a. NoRow \notin Row /\ NoOne \notin Terminals
  BY StockAssumption
<1>1. \A i \in Id : rows'[i] = IF lock[i] = t THEN pending[i] ELSE rows[i]
  BY DEF Apply, Applied
<1>2. CASE \A i \in Id : lock[i] # t
  <2>1. \A i \in Id : rows'[i] = rows[i]
    BY <1>1, <1>2
  <2>2. \A c : Matching(c)' = Matching(c)
    BY <2>1 DEF Matching, Present
  <2>3. \A c \in Code : {rows'[i].version : i \in Matching(c)'}
                          = {rows[i].version : i \in Matching(c)}
    BY <2>1, <2>2 DEF Matching, Present
  <2> QED
    BY <2>3 DEF Shelf
<1>3. ASSUME NEW k \in Id, lock[k] = t
      PROVE  \E c \in Code : \/ Shelf' = [Shelf EXCEPT ![c] = {}]
                             \/ \E v \in Version :
                                  Shelf' = [Shelf EXCEPT ![c] = {v}]
  <2>0. PICK c : c = CodeAt(k)
    OBVIOUS
  <2>1. Locked(k)
    BY <1>3, <1>a DEF Locked
  <2>2. \A i \in Id : lock[i] = t => i = k
    BY <1>3, <2>1 DEF Writing, Writes, Distinct, Locked
  <2>3. \A i \in Id : i # k => rows'[i] = rows[i]
    BY <1>1, <2>2
  <2>4. rows'[k] = pending[k]
    BY <1>1, <1>3
  <2>5. c \in Code
    BY <1>0, <2>0, <2>1 DEF Writing, Writes, CodeAt, TypeOK, Row
  <2>6. /\ rows[k] # NoRow => rows[k].code = c
        /\ pending[k] # NoRow => pending[k].code = c
    BY <2>0, <2>1 DEF Writing, Writes, CodeAt
  <2>7. \A i \in Id : i # k /\ rows[i] # NoRow => rows[i].code # c
    BY <2>0, <2>1 DEF Distinct, CodeAt
  <2>8. \A d \in Code : d # c =>
          /\ Matching(d)' = Matching(d)
          /\ \A i \in Matching(d) : rows'[i] = rows[i]
    BY <2>3, <2>4, <2>6 DEF Matching, Present
  <2>9. \A d \in Code : d # c => {rows'[i].version : i \in Matching(d)'}
                                   = {rows[i].version : i \in Matching(d)}
    BY <2>8
  <2>10. CASE pending[k] = NoRow
    <3>1. Matching(c)' = {}
      BY <2>3, <2>4, <2>7, <2>10 DEF Matching, Present
    <3>2. {rows'[i].version : i \in Matching(c)'} = {}
      BY <3>1
    <3>3. Shelf' = [Shelf EXCEPT ![c] = {}]
      BY <2>9, <3>2 DEF Shelf
    <3> QED
      BY <2>5, <3>3
  <2>11. CASE pending[k] # NoRow
    <3>1. Matching(c)' = {k}
      BY <2>3, <2>4, <2>6, <2>7, <2>11 DEF Matching, Present
    <3>2. pending[k].version \in Version
      BY <1>0, <2>11 DEF TypeOK, Row
    <3>3. {rows'[i].version : i \in Matching(c)'} = {pending[k].version}
      BY <2>4, <3>1
    <3>4. Shelf' = [Shelf EXCEPT ![c] = {pending[k].version}]
      BY <2>9, <3>3 DEF Shelf
    <3> QED
      BY <2>5, <3>2, <3>4
  <2> QED
    BY <2>10, <2>11
<1> QED
  BY <1>2, <1>3

(***************************************************************************)
(* The first table has the invariant.                                      *)
(***************************************************************************)
LEMMA StockInit ==
  ASSUME Init
  PROVE  Writing /\ Distinct
<1>1. TypeOK
  BY DEF Init, TypeOK, Labels
<1>2. Loops /\ Edits /\ Targets
  BY DEF Init, Loops, Edits, Targets
<1>3. \A i \in Id : ~Locked(i)
  BY DEF Init, Locked
<1>4. Locks /\ Writes
  BY <1>3 DEF Locks, Writes
<1>5. Distinct
  BY <1>3 DEF Init, Distinct, CodeAt, Present
<1> QED
  BY <1>1, <1>2, <1>4, <1>5 DEF Writing

(***************************************************************************)
(* And every step keeps it.                                                *)
(***************************************************************************)
LEMMA StockInductive ==
  /\ Writing /\ [Next]_vars => Writing'
  /\ UniqueCode = TRUE /\ Writing /\ Distinct /\ [Next]_vars => Distinct'
<1>1. ASSUME Writing, UNCHANGED vars
      PROVE  Writing' /\ (Distinct => Distinct')
  BY <1>1 DEF vars, Writing, TypeOK, Loops, Edits, Targets, Locks, Writes,
              Distinct, Locked, CodeAt
<1> QED
  BY <1>1, WritingInductive, DistinctInductive DEF Next

(***************************************************************************)
(* Every variable keeps its type for every number of terminals, and        *)
(* code_list() never copies more rows than it has read.                    *)
(***************************************************************************)
THEOREM StockTypeOK == Spec => []TypeOK
<1>1. Init => Writing
  BY StockInit
<1>2. Writing => TypeOK
  BY DEF Writing
<1> QED
  BY <1>1, <1>2, StockInductive, PTL DEF Spec

(***************************************************************************)
(* With a unique constraint on code, add_modify_product() and erase() put  *)
(* or remove one product in one step, for any number of terminals, codes   *)
(* and rows, however their statements interleave and wherever a connection *)
(* breaks.                                                                 *)
(***************************************************************************)
THEOREM StockIsCatalogue ==
  ASSUME UniqueCode = TRUE
  PROVE  Spec => IsCatalogue
<1>1. Init => Writing /\ Distinct
  BY StockInit
<1>2. ASSUME Init
      PROVE  Catalogue!Init
  <2>1. ASSUME NEW c \in Code
        PROVE  Shelf[c] \in {{}} \cup {{v} : v \in Version}
    <3>1. CASE Matching(c) = {}
      BY <3>1 DEF Shelf
    <3>2. ASSUME NEW i \in Matching(c)
          PROVE  Shelf[c] = {rows[i].version} /\ rows[i].version \in Version
      <4>1. Matching(c) = {i}
        BY <1>2, <3>2 DEF Init, Matching, Present
      <4>2. rows[i] \in Row
        BY <1>2, <3>2 DEF Init, Matching, Present
      <4> QED
        BY <4>1, <4>2 DEF Shelf, Row
    <3> QED
      BY <3>1, <3>2
  <2> QED
    BY <2>1 DEF Catalogue!Init, Shelf
<1>3. ASSUME Writing, Distinct, [Next]_vars
      PROVE  [Catalogue!Next]_Shelf
  <2>1. CASE \E t \in Terminals : Apply(t)
    BY <1>3, <2>1, ApplyPuts
       DEF Catalogue!Next, Catalogue!Put, Catalogue!Remove, Shelf
  <2>2. CASE UNCHANGED rows
    BY <2>2 DEF Shelf, Matching, Present
  <2>3. ASSUME NEW t \in Terminals,
               Move(t) \/ End(t) \/ Find(t) \/ WriteFound(t) \/ WriteNew(t)
        PROVE  UNCHANGED rows
    BY <2>3 DEF Move, End, Find, Issue, WriteFound, WriteNew, Write
  <2> QED
    BY <1>3, <2>1, <2>2, <2>3, StockSteps DEF Next, vars, Writing
<1> QED
  BY <1>1, <1>2, <1>3, StockInductive, PTL
     DEF Spec, IsCatalogue, Catalogue!Spec, Shelf

-----------------------------------------------------------------------------
(***************************************************************************)
(* Two finite sets that do not grow have no larger sum of sizes; nor have  *)
(* they when the second loses an element for the one the first gains.      *)
(***************************************************************************)
LEMMA Counting ==
  ASSUME NEW M, NEW A, NEW M1, NEW A1, IsFiniteSet(M), IsFiniteSet(A),
         \/ M1 \subseteq M /\ A1 \subseteq A
         \/ \E k, t : t \in A /\ M1 \subseteq M \cup {k} /\ A1 \subseteq A \ {t}
  PROVE  Cardinality(M1) + Cardinality(A1) <= Cardinality(M) + Cardinality(A)
<1>0. Cardinality(M) \in Nat /\ Cardinality(A) \in Nat
  BY FS_CardinalityType
<1>1. CASE M1 \subseteq M /\ A1 \subseteq A
  <2>1. /\ IsFiniteSet(M1) /\ Cardinality(M1) <= Cardinality(M)
        /\ IsFiniteSet(A1) /\ Cardinality(A1) <= Cardinality(A)
    BY <1>1, FS_Subset
  <2>2. Cardinality(M1) \in Nat /\ Cardinality(A1) \in Nat
    BY <2>1, FS_CardinalityType
  <2> QED
    BY <1>0, <2>1, <2>2
<1>2. ASSUME NEW k, NEW t, t \in A,
             M1 \subseteq M \cup {k}, A1 \subseteq A \ {t}
      PROVE  Cardinality(M1) + Cardinality(A1) <= Cardinality(M) + Cardinality(A)
  <2>1. /\ IsFiniteSet(M \cup {k}) /\ Cardinality(M \cup {k}) \in Nat
        /\ Cardinality(M \cup {k}) <= Cardinality(M) + 1
    BY <1>0, FS_AddElement, FS_CardinalityType
  <2>2. /\ IsFiniteSet(A \ {t}) /\ Cardinality(A \ {t}) \in Nat
        /\ Cardinality(A \ {t}) = Cardinality(A) - 1
    BY <1>0, <1>2, FS_RemoveElement, FS_CardinalityType
  <2>3. /\ IsFiniteSet(M1) /\ Cardinality(M1) <= Cardinality(M \cup {k})
        /\ IsFiniteSet(A1) /\ Cardinality(A1) <= Cardinality(A \ {t})
    BY <1>2, <2>1, <2>2, FS_Subset
  <2>4. Cardinality(M1) \in Nat /\ Cardinality(A1) \in Nat
    BY <2>3, FS_CardinalityType
  <2> QED
    BY <1>0, <2>1, <2>2, <2>3, <2>4
<1> QED
  BY <1>1, <1>2

(***************************************************************************)
(* A terminal gets to add a row for a code only while none is there; from  *)
(* then on its share stays reserved until the row is committed.            *)
(***************************************************************************)
LEMMA SharesStep ==
  ASSUME Writing, NEW t \in Terminals,
         Statement(t) \/ User(t) \/ ConnectionLost(t), NEW c \in Code
  PROVE  \/ Matching(c)' \subseteq Matching(c) /\ Adding(c)' \subseteq Adding(c)
         \/ Matching(c)' = {}
         \/ \E k, u : /\ u \in Adding(c)
                      /\ Matching(c)' \subseteq Matching(c) \cup {k}
                      /\ Adding(c)' \subseteq Adding(c) \ {u}
<1>0. TypeOK /\ Targets /\ Locks /\ Writes
  BY DEF Writing
<1>a. NoRow \notin Row /\ NoOne \notin Terminals
  BY StockAssumption
<1>1. CASE Move(t)
  <2>1. PICK label \in Labels :
          /\ pc' = [pc EXCEPT ![t] = label]
          /\ label = "insert" => Matching(edit'[t].code) = {}
    BY <1>1 DEF Move, Goto
  <2>2. /\ UNCHANGED <<rows, lock, pending>>
        /\ \A u \in Terminals : u # t => edit'[u] = edit[u]
    BY <1>0, <1>1 DEF Move, TypeOK
  <2>3. Matching(c)' = Matching(c)
    BY <2>2 DEF Matching, Present
  <2>4. CASE label = "insert" /\ edit'[t].code = c
    BY <2>1, <2>3, <2>4
  <2>5. CASE ~(label = "insert" /\ edit'[t].code = c)
    <3>1. Adding(c)' \subseteq Adding(c)
      BY <1>0, <2>1, <2>2, <2>5 DEF Adding, TypeOK
    <3> QED
      BY <2>3, <3>1
  <2> QED
    BY <2>4, <2>5
<1>2. CASE Find(t)
  <2>1. PICK label \in {"updating", "deleting"} : pc' = [pc EXCEPT ![t] = label]
    BY <1>2 DEF Find, Issue, Goto
  <2>2. UNCHANGED <<rows, lock, pending, edit>>
    BY <1>2 DEF Find, Issue
  <2> QED
    BY <1>0, <2>1, <2>2 DEF Adding, Matching, Present, TypeOK
<1>3. CASE WriteFound(t)
  <2>1. /\ UNCHANGED <<rows, edit>>
        /\ pc' = [pc EXCEPT ![t] = "commit"]
        /\ \A i \in Id : i \notin target[t] =>
             lock'[i] = lock[i] /\ pending'[i] = pending[i]
    BY <1>3 DEF WriteFound, Write, Goto
  <2>2. \A i \in target[t] : rows[i] # NoRow
    BY <1>0 DEF Targets
  <2> QED
    BY <1>0, <2>1, <2>2 DEF Adding, Matching, Present, TypeOK
<1>4. CASE WriteNew(t)
  <2>1. PICK k \in Free : Write(t, {k}, edit[t])
    BY <1>4 DEF WriteNew
  <2>2. /\ UNCHANGED <<rows, edit>>
        /\ pc' = [pc EXCEPT ![t] = "commit"]
        /\ pc[t] = "insert"
        /\ lock' = [i \in Id |-> IF i \in {k} THEN t ELSE lock[i]]
        /\ pending' = [i \in Id |-> IF i \in {k} THEN edit[t] ELSE pending[i]]
    BY <1>4, <2>1 DEF WriteNew, Write, Goto
  <2>3. ASSUME NEW u \in Adding(c)'
        PROVE  u \in Adding(c)
    <3>1. CASE pc'[u] = "insert" /\ edit'[u].code = c
      BY <1>0, <2>2, <3>1 DEF Adding, TypeOK
    <3>2. ASSUME NEW i \in Id, lock'[i] = u, rows[i] = NoRow,
                 pending'[i].code = c
          PROVE  u \in Adding(c)
      BY <2>2, <3>2 DEF Adding
    <3> QED
      BY <2>2, <2>3, <3>1, <3>2 DEF Adding
  <2> QED
    BY <2>2, <2>3 DEF Matching, Present
<1>5. CASE End(t) \/ Apply(t)
  <2>1. PICK label \in {"idle", "dead"} : Ends(t, label)
    BY <1>5 DEF End, Apply
  <2>2. /\ pc' = [pc EXCEPT ![t] = label]
        /\ edit' = [edit EXCEPT ![t] = NoRow]
        /\ \A i \in Id : lock'[i] = IF lock[i] = t THEN NoOne ELSE lock[i]
        /\ \A i \in Id : lock[i] # t => pending'[i] = pending[i]
    BY <2>1 DEF Ends, Goto
  <2>3. \A i \in Id : lock[i] # t => rows'[i] = rows[i]
    BY <1>5 DEF End, Apply, Applied
  <2>4. Adding(c)' \subseteq Adding(c) \ {t}
    <3> SUFFICES ASSUME NEW u \in Adding(c)'
                 PROVE  u \in Adding(c) /\ u # t
      OBVIOUS
    <3>1. CASE pc'[u] = "insert" /\ edit'[u].code = c
      BY <1>0, <2>2, <3>1 DEF Adding, TypeOK
    <3>2. ASSUME NEW i \in Id, lock'[i] = u, rows'[i] = NoRow,
                 pending'[i].code = c
          PROVE  u \in Adding(c) /\ u # t
      BY <1>a, <2>2, <2>3, <3>2 DEF Adding
    <3> QED
      BY <3>1, <3>2 DEF Adding
  <2>5. CASE End(t)
    BY <2>4, <2>5 DEF End, Matching, Present
  <2>6. CASE Apply(t)
    <3>1. \A i \in Id : rows'[i] = IF lock[i] = t THEN pending[i] ELSE rows[i]
      BY <2>6 DEF Apply, Applied
    <3>2. CASE \E k \in Id : lock[k] = t /\ rows[k] = NoRow /\ pending[k].code = c
      <4>1. PICK k \in Id : lock[k] = t /\ rows[k] = NoRow /\ pending[k].code = c
        BY <3>2
      <4>2. \A i \in Id : lock[i] = t => i = k
        BY <1>0, <1>a, <4>1 DEF Writes, Locked
      <4>3. Matching(c)' \subseteq Matching(c) \cup {k}
        BY <3>1, <4>2 DEF Matching, Present
      <4>4. t \in Adding(c)
        BY <4>1 DEF Adding
      <4> QED
        BY <2>4, <4>3, <4>4
    <3>3. CASE ~\E k \in Id : lock[k] = t /\ rows[k] = NoRow /\ pending[k].code = c
      <4>1. ASSUME NEW i \in Matching(c)'
            PROVE  i \in Matching(c)
        <5>1. i \in Id /\ rows'[i] # NoRow /\ rows'[i].code = c
          BY <4>1 DEF Matching, Present
        <5>2. CASE lock[i] # t
          BY <3>1, <5>1, <5>2 DEF Matching, Present
        <5>3. CASE lock[i] = t
          <6>1. pending[i] # NoRow /\ pending[i].code = c /\ rows[i] # NoRow
            BY <3>1, <3>3, <5>1, <5>3
          <6>2. rows[i].code = c
            BY <1>0, <1>a, <5>1, <5>3, <6>1 DEF Writes, Locked, CodeAt
          <6> QED
            BY <5>1, <6>1, <6>2 DEF Matching, Present
        <5> QED
          BY <5>2, <5>3
      <4> QED
        BY <2>4, <4>1
    <3> QED
      BY <3>2, <3>3
  <2> QED
    BY <1>5, <2>5, <2>6
<1> QED
  BY <1>1, <1>2, <1>3, <1>4, <1>5, StockSteps DEF Writing

(***************************************************************************)
(* Shares is kept: rows of a code and terminals about to add one are never *)
(* more than there are terminals.                                          *)
(***************************************************************************)
LEMMA SharesInductive ==
  /\ Init => Shares
  /\ Writing /\ Shares /\ [Next]_vars => Shares'
<1>0. IsFiniteSet(Terminals) /\ Cardinality(Terminals) \in Nat
  BY StockAssumption, FS_CardinalityType
<1>a. \A c : /\ IsFiniteSet(Matching(c)) /\ IsFiniteSet(Adding(c))
             /\ Cardinality(Matching(c)) \in Nat /\ Cardinality(Adding(c)) \in Nat
             /\ Cardinality(Adding(c)) <= Cardinality(Terminals)
  <2>1. \A c : Adding(c) \subseteq Terminals
    BY DEF Adding
  <2>2. \A c : IsFiniteSet(Adding(c)) /\ Cardinality(Adding(c)) <= Cardinality(Terminals)
    BY <1>0, <2>1, FS_Subset
  <2> QED
    BY <2>2, Finite, FS_CardinalityType
<1>b. \A c : /\ Adding(c)' \subseteq Terminals
             /\ IsFiniteSet(Adding(c)') /\ Cardinality(Adding(c)') \in Nat
             /\ Cardinality(Adding(c)') <= Cardinality(Terminals)
  <2>1. \A c : Adding(c)' \subseteq Terminals
    BY DEF Adding
  <2>2. \A c : IsFiniteSet(Adding(c)') /\ Cardinality(Adding(c)') <= Cardinality(Terminals)
    BY <1>0, <2>1, FS_Subset
  <2> QED
    BY <2>1, <2>2, FS_CardinalityType
<1>1. ASSUME Init
      PROVE  Shares
  <2> SUFFICES ASSUME NEW c \in Code
               PROVE  Cardinality(Matching(c)) + Cardinality(Adding(c))
                        <= Cardinality(Terminals)
    BY DEF Shares
  <2>1. Adding(c) = {}
    BY <1>1, StockAssumption DEF Init, Adding
  <2>2. Cardinality(Matching(c)) <= 1
    <3>1. CASE Matching(c) = {}
      BY <3>1, FS_EmptySet
    <3>2. ASSUME NEW i \in Matching(c)
          PROVE  Cardinality(Matching(c)) = 1
      <4>1. Matching(c) = {i}
        BY <1>1, <3>2 DEF Init, Matching, Present
      <4> QED
        BY <4>1, FS_Singleton
    <3> QED
      BY <3>1, <3>2
  <2>3. Cardinality(Terminals) # 0
    BY StockAssumption, FS_EmptySet
  <2> QED
    BY <1>0, <1>a, <2>1, <2>2, <2>3, FS_EmptySet
<1>2. ASSUME Writing, Shares, NEW t \in Terminals,
             Statement(t) \/ User(t) \/ ConnectionLost(t)
      PROVE  Shares'
  <2> SUFFICES ASSUME NEW c \in Code
               PROVE  Cardinality(Matching(c)') + Cardinality(Adding(c)')
                        <= Cardinality(Terminals)
    BY DEF Shares
  <2>1. CASE Matching(c)' = {}
    <3>1. Cardinality(Matching(c)') = 0
      BY <2>1, FS_EmptySet
    <3> QED
      BY <1>0, <1>b, <3>1
  <2>2. CASE Matching(c)' # {}
    <3>1. Cardinality(Matching(c)') + Cardinality(Adding(c)')
            <= Cardinality(Matching(c)) + Cardinality(Adding(c))
      BY <1>2, <1>a, <2>2, SharesStep, Counting
    <3>2. Cardinality(Matching(c)) + Cardinality(Adding(c))
            <= Cardinality(Terminals)
      BY <1>2 DEF Shares
    <3>3. Cardinality(Matching(c)') \in Nat
      <4>1. IsFiniteSet(Matching(c)')
        BY StockAssumption, FS_Subset DEF Matching, Present
      <4> QED
        BY <4>1, FS_CardinalityType
    <3> QED
      BY <1>0, <1>a, <1>b, <3>1, <3>2, <3>3
  <2> QED
    BY <2>1, <2>2
<1>3. ASSUME Shares, UNCHANGED vars
      PROVE  Shares'
  BY <1>3 DEF vars, Shares, Matching, Present, Adding
<1> QED
  BY <1>1, <1>2, <1>3 DEF Next

(***************************************************************************)
(* Whoever has added a row, or is about to, has used a share of its own.   *)
(***************************************************************************)
LEMMA SharesBound ==
  ASSUME Shares
  PROVE  CopiesBounded
<1> SUFFICES ASSUME NEW c \in Code
             PROVE  Cardinality(Matching(c)) <= Cardinality(Terminals)
  BY DEF CopiesBounded
<1>1. Cardinality(Adding(c)) \in Nat /\ Cardinality(Terminals) \in Nat
  <2>1. IsFiniteSet(Adding(c))
    BY StockAssumption, FS_Subset DEF Adding
  <2> QED
    BY <2>1, StockAssumption, FS_CardinalityType
<1> QED
  BY <1>1, Finite DEF Shares

(***************************************************************************)
(* With or without a unique constraint, no code ever has more rows than    *)
(* there are terminals: the look-up of update_stock() limits what its race *)
(* with the INSERT of another terminal can do.                             *)
(***************************************************************************)
THEOREM StockCopiesBounded == Spec => []CopiesBounded
<1>1. Init => Writing
  BY StockInit
<1>2. Shares => CopiesBounded
  BY SharesBound
<1> QED
  BY <1>1, <1>2, StockInductive, SharesInductive, PTL DEF Spec

(***************************************************************************)
(* No code is in the table twice when the table has a unique constraint,   *)
(* and none when it has not but only one terminal uses it.                 *)
(***************************************************************************)
THEOREM StockCodesUnique ==
  ASSUME UniqueCode = TRUE \/ Cardinality(Terminals) = 1
  PROVE  Spec => []CodesUnique
<1>1. CASE UniqueCode = TRUE
  <2>1. ASSUME Distinct
        PROVE  CodesUnique
    <3> SUFFICES ASSUME NEW c \in Code
                 PROVE  Cardinality(Matching(c)) <= 1
      BY DEF CodesUnique
    <3>1. CASE Matching(c) = {}
      BY <3>1, FS_EmptySet
    <3>2. ASSUME NEW i \in Matching(c)
          PROVE  Cardinality(Matching(c)) = 1
      <4>1. Matching(c) = {i}
        BY <2>1, <3>2 DEF Distinct, Matching, Present, CodeAt
      <4> QED
        BY <4>1, FS_Singleton
    <3> QED
      BY <3>1, <3>2
  <2>2. Init => Writing /\ Distinct
    BY StockInit
  <2> QED
    BY <1>1, <2>1, <2>2, StockInductive, PTL DEF Spec
<1>2. CASE Cardinality(Terminals) = 1
  <2>1. CopiesBounded => CodesUnique
    BY <1>2 DEF CopiesBounded, CodesUnique
  <2> QED
    BY <2>1, StockCopiesBounded, PTL
<1> QED
  BY <1>1, <1>2

=============================================================================
