----------------------------- MODULE ResultSet -----------------------------
(***************************************************************************)
(* Who owns the data of a query: the classes result, row and field of      *)
(* libpqxx and the references row_ref and field_ref.                       *)
(*                                                                         *)
(* A result is a handle: shared pointers to the PGresult, to the text of   *)
(* the query and to the notice handlers of the connection, and the         *)
(* encoding.  A row and a field are a result of their own and a position.  *)
(* A row_ref and a field_ref (the iterators are wrapped around them) are a *)
(* plain pointer to a result object and a position.                        *)
(*                                                                         *)
(* A slot is a place in the client's memory that holds one such object or  *)
(* none.  Every PGresult has the rows 0 .. Rows - 1 and one column.        *)
(* meant[s] is what the object in slot s stands for to the client.         *)
(***************************************************************************)
EXTENDS Integers, FiniteSets

CONSTANTS
    Slots,    \* places for results, rows and fields
    Refs,     \* row_refs and field_refs
    Data,     \* the PGresults that the queries of the client give
    Conns,    \* connections, each with its encoding and its notice handlers
    From,     \* the connection a PGresult comes from
    Rows,     \* rows in a PGresult
    Null, None

ResultSetAssumption ==
    /\ From \in [Data -> Conns]
    /\ Rows \in Nat
    /\ Null \notin Data \cup Conns
    /\ None \notin Slots

VARIABLES
    obj,      \* the objects, by slot
    ref,      \* the references
    arrived,  \* PGresults that a query has given
    freed,    \* PGresults that PQclear() has freed
    meant     \* what each object stands for

vars == <<obj, ref, arrived, freed, meant>>

(* No object, and the result that the default constructor makes.           *)
Nothing == [kind |-> "none", data |-> Null, query |-> Null,
            waiters |-> Null, enc |-> Null, row |-> 0]

Fresh == [Nothing EXCEPT !.kind = "result"]

NoRef == [at |-> None, kind |-> "none", row |-> -1, shows |-> Null]

Holds(s) == obj[s].kind # "none"

(* What an object stands for: data, and a row of it for a row or a field.  *)
Value(d, i) == [data |-> d, row |-> i]

Init ==
    /\ obj = [s \in Slots |-> Nothing]
    /\ ref = [r \in Refs |-> NoRef]
    /\ arrived = {}
    /\ freed = {}
    /\ meant = [s \in Slots |-> Value(Null, 0)]

-----------------------------------------------------------------------------
(* The last m_data to let go of a PGresult frees it (clear_result()).      *)
Held(objects) == {objects[s].data : s \in Slots} \ {Null}

Store(objects) ==
    /\ obj' = objects
    /\ freed' = freed \cup (Held(obj) \ Held(objects))

(* A query gives a result.                                                 *)
Exec(s) ==
    /\ ~Holds(s)
    /\ \E d \in Data \ arrived :
        /\ arrived' = arrived \cup {d}
        /\ Store([obj EXCEPT ![s] =
                    [kind |-> "result", data |-> d, query |-> d,
                     waiters |-> From[d], enc |-> From[d], row |-> 0]])
        /\ meant' = [meant EXCEPT ![s] = Value(d, 0)]
    /\ UNCHANGED ref

DefaultConstruct(s) ==
    /\ ~Holds(s)
    /\ \E kind \in {"result", "row"} :
        Store([obj EXCEPT ![s] = [Fresh EXCEPT !.kind = kind]])
    /\ meant' = [meant EXCEPT ![s] = Value(Null, 0)]
    /\ UNCHANGED <<ref, arrived>>

(* The copying members, and copying onto itself too.                       *)
Copy(s, t) ==
    /\ Holds(t)
    /\ ~Holds(s) \/ obj[s].kind = obj[t].kind
    /\ Store([obj EXCEPT ![s] = obj[t]])
    /\ meant' = [meant EXCEPT ![s] = meant[t]]
    /\ UNCHANGED <<ref, arrived>>

(* What a move leaves behind: the shared pointers are empty.               *)
MovedFrom(o) == [o EXCEPT !.data = Null, !.query = Null, !.waiters = Null]

Move(s, t) ==
    /\ s # t
    /\ Holds(t)
    /\ ~Holds(s) \/ obj[s].kind = obj[t].kind
    /\ Store([obj EXCEPT ![s] = obj[t], ![t] = MovedFrom(obj[t])])
    /\ meant' = [meant EXCEPT ![s] = meant[t],
                              ![t] = Value(Null, obj[t].row)]
    /\ UNCHANGED <<ref, arrived>>

HalfClear(s) ==
    /\ obj[s].kind = "result"
    /\ Store([obj EXCEPT ![s].query = Null])
    /\ meant' = [meant EXCEPT ![s] = Value(Null, 0)]
    /\ UNCHANGED <<ref, arrived>>

(* clear() drops the data and the query, and keeps the rest.               *)
Clear(s) ==
    /\ obj[s].kind = "result"
    /\ Store([obj EXCEPT ![s].data = Null, ![s].query = Null])
    /\ meant' = [meant EXCEPT ![s] = Value(Null, 0)]
    /\ UNCHANGED <<ref, arrived>>

SwapDataOnly(s, t) ==
    [obj EXCEPT ![s].data = obj[t].data, ![t].data = obj[s].data,
                ![s].row = obj[t].row, ![t].row = obj[s].row]

(* result::swap() exchanges m_data and m_query; row::swap() calls it and   *)
(* exchanges the positions.                                                *)
swap(s, t) ==
    [obj EXCEPT ![s].data = obj[t].data, ![t].data = obj[s].data,
                ![s].query = obj[t].query, ![t].query = obj[s].query,
                ![s].row = obj[t].row, ![t].row = obj[s].row]

Swap(s, t) ==
    /\ s # t
    /\ obj[s].kind \in {"result", "row"}
    /\ obj[t].kind = obj[s].kind
    /\ Store(swap(s, t))
    /\ meant' = [meant EXCEPT ![s] = meant[t], ![t] = meant[s]]
    /\ UNCHANGED <<ref, arrived>>

Destroy(s) ==
    /\ Holds(s)
    /\ Store([obj EXCEPT ![s] = Nothing])
    /\ meant' = [meant EXCEPT ![s] = Value(Null, 0)]
    /\ UNCHANGED <<ref, arrived>>

-----------------------------------------------------------------------------
(* A row_ref comes from a result (at(), front(), an iterator), a field_ref *)
(* from a result or from a row.                                            *)
Point(r, s) ==
    /\ obj[s].data # Null
    /\ \/ /\ obj[s].kind = "result"
          /\ \E kind \in {"row", "field"}, i \in 0 .. Rows - 1 :
                ref' = [ref EXCEPT ![r] = [at |-> s, kind |-> kind, row |-> i,
                                           shows |-> obj[s].data]]
       \/ /\ obj[s].kind = "row"
          /\ ref' = [ref EXCEPT ![r] = [at |-> s, kind |-> "field",
                                        row |-> obj[s].row,
                                        shows |-> obj[s].data]]
    /\ UNCHANGED <<obj, arrived, freed, meant>>

(* The result object a reference points to is still there.                 *)
Anchored(r) ==
    /\ ref[r].at # None
    /\ obj[ref[r].at].kind \in {"result", "row"}

(* row(row_ref) and field(field_ref) copy the whole result as it is now.   *)
Own(s, r) ==
    /\ ~Holds(s)
    /\ Anchored(r)
    /\ Store([obj EXCEPT ![s] = [obj[ref[r].at] EXCEPT !.kind = ref[r].kind,
                                                       !.row = ref[r].row]])
    /\ meant' = [meant EXCEPT ![s] = Value(obj[ref[r].at].data, ref[r].row)]
    /\ UNCHANGED <<ref, arrived>>

(* field(row, c) shares the row's result.                                  *)
FieldOf(s, t) ==
    /\ ~Holds(s)
    /\ obj[t].kind = "row"
    /\ Store([obj EXCEPT ![s] = [obj[t] EXCEPT !.kind = "field"]])
    /\ meant' = [meant EXCEPT ![s] = meant[t]]
    /\ UNCHANGED <<ref, arrived>>

Forget(r) ==
    /\ ref' = [ref EXCEPT ![r] = NoRef]
    /\ UNCHANGED <<obj, arrived, freed, meant>>

Next ==
    \/ \E s \in Slots : Exec(s)
    \/ \E s \in Slots : DefaultConstruct(s)
    \/ \E s, t \in Slots : Copy(s, t)
    \/ \E s, t \in Slots : Move(s, t)
    \/ \E s \in Slots : Clear(s)
    \/ \E s, t \in Slots : Swap(s, t)
    \/ \E s \in Slots : Destroy(s)
    \/ \E r \in Refs, s \in Slots : Point(r, s)
    \/ \E s \in Slots, r \in Refs : Own(s, r)
    \/ \E s, t \in Slots : FieldOf(s, t)
    \/ \E r \in Refs : Forget(r)

Spec == Init /\ [][Next]_vars

-----------------------------------------------------------------------------
(* The comparison operators.                                               *)
SameResult(s, t) == obj[s].data = obj[t].data

SameRowIndex(s, t) == obj[s].row = obj[t].row

SameRow(s, t) == SameResult(s, t) /\ obj[s].row = obj[t].row

SameRowRef(q, r) == ref[q].at = ref[r].at /\ ref[q].row = ref[r].row

SameFieldRef(q, r) ==
    SameResult(ref[q].at, ref[r].at) /\ ref[q].row = ref[r].row

(* Whatever happens to the other objects - copied over, moved from,        *)
(* cleared, exchanged or destroyed - a row and a field go on reading the   *)
(* row they were made for, from data that is still there, and a result     *)
(* names the query its data came from.                                     *)
OwnersExact ==
    \A s \in Slots : Holds(s) =>
        /\ Value(obj[s].data, obj[s].row) = meant[s]
        /\ obj[s].query = obj[s].data
        /\ obj[s].data \notin freed

(* The data of a query is freed when the last object that stands for it is *)
(* gone, cleared or moved from, and not while one is left.                 *)
ReleasedWithLast ==
    freed = arrived \ {meant[s].data : s \in Slots}

(* Two rows compare equal if and only if they stand for the same row of    *)
(* the same data (row.hxx:440-444), whichever objects they came through.   *)
EqualMeansSame ==
    \A s, t \in Slots :
        (obj[s].kind = "row" /\ obj[t].kind = "row") =>
            (SameRow(s, t) <=> meant[s] = meant[t])

\* The data of a query is freed when the last result, row or field that refers
\* to it is gone, and not before; each object shows the data it stands for; and
\* rows compare equal when they stand for the same row.
ResultsOwned == ReleasedWithLast /\ OwnersExact /\ EqualMeansSame

(* result.hxx:135-138: "efficient code will use all kinds of direct        *)
(* references to that data: row_ref, field_ref, ... Those all stay valid   *)
(* even when you copy your result and destroy the original".  A reference  *)
(* never points to an object that is gone while its data still exists.     *)
RefsStayValid ==
    \A r \in Refs :
        ref[r].at # None /\ ref[r].shows \notin freed => Holds(ref[r].at)

(* result.hxx:200: swap() exchanges two result values.  Data is read in    *)
(* the encoding of the connection it came from, and holds on to the notice *)
(* handlers of that connection.                                            *)
DataKeepsConnection ==
    \A s \in Slots : obj[s].data # Null =>
        /\ obj[s].enc = From[obj[s].data]
        /\ obj[s].waiters = From[obj[s].data]

(* field.hxx:79-84: equality of field_refs "means that they both refer to  *)
(* the same row and column in the exact same result object"; in copies of  *)
(* a result they "will never be equal".                                    *)
FieldRefsExact ==
    \A q, r \in Refs :
        (Anchored(q) /\ Anchored(r) /\ ref[q].kind = "field"
            /\ ref[r].kind = "field") =>
                (SameFieldRef(q, r) <=> SameRowRef(q, r))
=============================================================================
