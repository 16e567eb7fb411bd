-------------------------- MODULE ResultSetProofs ---------------------------
(***************************************************************************)
(* The results, rows and fields of libpqxx, for any number of queries,     *)
(* connections, objects and references.  Every object stands for the data  *)
(* it points to (Meaning), and the PGresults that are freed are those that *)
(* came and that no object points to any more (Released).                  *)
(***************************************************************************)
EXTENDS ResultSet, TLAPS

ObjType ==
  [kind : {"none", "result", "row", "field"}, data : Data \cup {Null}, query : Data \cup {Null},
   waiters : Conns \cup {Null}, enc : Conns \cup {Null}, row : Int]

RefType ==
  {NoRef} \cup [at : Slots, kind : {"row", "field"}, row : Int, shows : Data \cup {Null}]

Typed ==
  /\ obj \in [Slots -> ObjType] /\ ref \in [Refs -> RefType]
  /\ arrived \subseteq Data
  /\ meant \in [Slots -> [data : Data \cup {Null}, row : Int]]

\* An object names its query, and what it stands for is what it points to; an
\* empty slot points to nothing, and a result to no row.
Stands(o, m) ==
  /\ o.data = m.data /\ o.query = o.data
  /\ o.kind # "none" => o.row = m.row
  /\ o.kind = "none" => o.data = Null
  /\ o.kind = "result" => o.row = 0

Meaning == \A s \in Slots : Stands(obj[s], meant[s])

Released == Held(obj) \subseteq arrived /\ freed = arrived \ Held(obj)

Owned == Typed /\ Meaning /\ Released

-----------------------------------------------------------------------------
(***************************************************************************)
(* A step that makes no new data: every slot points to what some slot      *)
(* pointed to, or to nothing.                                              *)
(***************************************************************************)
LEMMA StoreKept ==
  ASSUME Typed, Released, NEW objects, Store(objects), arrived' = arrived,
         \A s \in Slots : objects[s].data \in Held(obj) \cup {Null}
  PROVE  Released'
<1>1. Held(objects) \subseteq Held(obj)
  BY DEF Held
<1>2. obj' = objects /\ freed' = freed \cup (Held(obj) \ Held(objects))
  BY DEF Store
<1>3. Held(obj)' = Held(objects)
  BY <1>2 DEF Held
<1> QED
  BY <1>1, <1>2, <1>3 DEF Released

\* A slot gets another object.
LEMMA SlotKept ==
  ASSUME Owned, NEW s \in Slots, NEW o \in ObjType,
         NEW m \in [data : Data \cup {Null}, row : Int], Stands(o, m),
         o.data \in Held(obj) \cup {Null},
         Store([obj EXCEPT ![s] = o]), meant' = [meant EXCEPT ![s] = m],
         UNCHANGED <<ref, arrived>>
  PROVE  Owned'
<1>1. PICK objects : objects = [obj EXCEPT ![s] = o]
  OBVIOUS
<1>2. obj' = objects /\ objects \in [Slots -> ObjType]
  BY <1>1 DEF Store, Owned, Typed
<1>3. \A t \in Slots : objects[t] = IF t = s THEN o ELSE obj[t]
  BY <1>1 DEF Owned, Typed
<1>4. \A t \in Slots : objects[t].data \in Held(obj) \cup {Null}
  BY <1>3 DEF Held
<1>5. Released'
  BY <1>1, <1>4, StoreKept DEF Owned
<1>6. Typed'
  BY <1>2 DEF Owned, Typed
<1>7. Meaning'
  BY <1>2, <1>3 DEF Owned, Typed, Meaning
<1> QED
  BY <1>5, <1>6, <1>7 DEF Owned

\* Two slots get another object each.
LEMMA SlotsKept ==
  ASSUME Owned, NEW s \in Slots, NEW t \in Slots, s # t, NEW o \in ObjType, NEW p \in ObjType,
         NEW m \in [data : Data \cup {Null}, row : Int],
         NEW n \in [data : Data \cup {Null}, row : Int],
         Stands(o, m), Stands(p, n),
         o.data \in Held(obj) \cup {Null}, p.data \in Held(obj) \cup {Null},
         Store([[obj EXCEPT ![s] = o] EXCEPT ![t] = p]),
         meant' = [[meant EXCEPT ![s] = m] EXCEPT ![t] = n],
         UNCHANGED <<ref, arrived>>
  PROVE  Owned'
<1>1. PICK objects : objects = [[obj EXCEPT ![s] = o] EXCEPT ![t] = p]
  OBVIOUS
<1>2. obj' = objects /\ objects \in [Slots -> ObjType]
  BY <1>1 DEF Store, Owned, Typed
<1>3. \A u \in Slots : objects[u] = IF u = t THEN p ELSE IF u = s THEN o ELSE obj[u]
  BY <1>1 DEF Owned, Typed
<1>4. \A u \in Slots : objects[u].data \in Held(obj) \cup {Null}
  BY <1>3 DEF Held
<1>5. Released'
  BY <1>1, <1>4, StoreKept DEF Owned
<1>6. Typed'
  BY <1>2 DEF Owned, Typed
<1>7. Meaning'
  BY <1>2, <1>3 DEF Owned, Typed, Meaning
<1> QED
  BY <1>5, <1>6, <1>7 DEF Owned

\* What a slot points to is held.
LEMMA SlotHeld ==
  ASSUME Owned, NEW s \in Slots
  PROVE  /\ obj[s] \in ObjType /\ meant[s] \in [data : Data \cup {Null}, row : Int]
         /\ Stands(obj[s], meant[s]) /\ obj[s].data \in Held(obj) \cup {Null}
  BY DEF Owned, Typed, Meaning, Held
-----------------------------------------------------------------------------
(***************************************************************************)
(* The steps.                                                              *)
(***************************************************************************)
MeantType == [data : Data \cup {Null}, row : Int]

LEMMA ExecKept ==
  ASSUME ResultSetAssumption, Owned, NEW s \in Slots, Exec(s)
  PROVE  Owned'
<1>1. PICK d \in Data \ arrived :
        /\ arrived' = arrived \cup {d}
        /\ Store([obj EXCEPT ![s] =
                    [kind |-> "result", data |-> d, query |-> d,
                     waiters |-> From[d], enc |-> From[d], row |-> 0]])
        /\ meant' = [meant EXCEPT ![s] = Value(d, 0)]
  BY DEF Exec
<1>2. PICK o : o = [kind |-> "result", data |-> d, query |-> d,
                    waiters |-> From[d], enc |-> From[d], row |-> 0]
  OBVIOUS
<1>3. o \in ObjType /\ Stands(o, Value(d, 0)) /\ o.data = d /\ Value(d, 0) \in MeantType
  BY <1>2 DEF ObjType, ResultSetAssumption, Stands, Value, MeantType
<1>4. PICK objects : objects = [obj EXCEPT ![s] = o]
  OBVIOUS
<1>5. obj' = objects /\ freed' = freed \cup (Held(obj) \ Held(objects)) /\ ref' = ref
  BY <1>1, <1>2, <1>4 DEF Store, Exec
<1>6. /\ objects \in [Slots -> ObjType]
      /\ \A t \in Slots : objects[t] = IF t = s THEN o ELSE obj[t]
  BY <1>3, <1>4 DEF Owned, Typed
<1>7. obj[s].data = Null
  BY SlotHeld DEF Exec, Holds, Stands
<1>8. d # Null
  BY DEF ResultSetAssumption
<1>9. Held(objects) = Held(obj) \cup {d}
  <2>1. \A x : x \in Held(objects) => x \in Held(obj) \cup {d}
    BY <1>3, <1>6 DEF Held
  <2>2. \A x \in Held(obj) : x \in Held(objects)
    BY <1>6, <1>7 DEF Held
  <2>3. d \in Held(objects)
    BY <1>3, <1>6, <1>8 DEF Held
  <2> QED
    BY <2>1, <2>2, <2>3
<1>10. Released'
  <2>1. Held(obj)' = Held(obj) \cup {d} /\ freed' = freed
    BY <1>5, <1>9 DEF Held
  <2> QED
    BY <1>1, <2>1 DEF Owned, Released
<1>11. Typed'
  BY <1>1, <1>3, <1>5, <1>6 DEF Owned, Typed, MeantType
<1>12. Meaning'
  BY <1>1, <1>3, <1>5, <1>6 DEF Owned, Typed, Meaning
<1> QED
  BY <1>10, <1>11, <1>12 DEF Owned

LEMMA NothingIs ==
  /\ Nothing \in ObjType /\ Value(Null, 0) \in MeantType
  /\ Stands(Nothing, Value(Null, 0)) /\ Nothing.data = Null
  /\ \A kind \in {"result", "row"} :
       /\ [Fresh EXCEPT !.kind = kind] \in ObjType
       /\ Stands([Fresh EXCEPT !.kind = kind], Value(Null, 0))
       /\ [Fresh EXCEPT !.kind = kind].data = Null
<1>1. Nothing \in ObjType /\ Nothing.data = Null /\ Nothing.query = Null /\ Nothing.row = 0
      /\ Nothing.kind = "none"
  BY DEF Nothing, ObjType
<1>2. Value(Null, 0) \in MeantType /\ Stands(Nothing, Value(Null, 0))
  BY <1>1 DEF MeantType, Stands, Value
<1>3. ASSUME NEW kind \in {"result", "row"}, NEW o, o = [Fresh EXCEPT !.kind = kind]
      PROVE  o \in ObjType /\ Stands(o, Value(Null, 0)) /\ o.data = Null
  <2>1. PICK n : n = Nothing
    OBVIOUS
  <2>2. o = [[n EXCEPT !.kind = "result"] EXCEPT !.kind = kind]
    BY <1>3, <2>1 DEF Fresh
  <2>3. o \in ObjType /\ o.data = Null /\ o.query = Null /\ o.row = 0 /\ o.kind = kind
    BY <1>1, <2>1, <2>2 DEF ObjType
  <2> QED
    BY <2>3 DEF Stands, Value
<1> QED
  BY <1>1, <1>2, <1>3

LEMMA OwnedStep ==
  ASSUME ResultSetAssumption, Owned, [Next]_vars
  PROVE  Owned'
<1> USE DEF MeantType
<1>0. Value(Null, 0) \in MeantType
  BY NothingIs
<1>1. ASSUME NEW s \in Slots, Exec(s) PROVE Owned'
  BY <1>1, ExecKept
<1>2. ASSUME NEW s \in Slots, DefaultConstruct(s) PROVE Owned'
  <2>1. PICK kind \in {"result", "row"} : Store([obj EXCEPT ![s] = [Fresh EXCEPT !.kind = kind]])
    BY <1>2 DEF DefaultConstruct
  <2>2. PICK o : o = [Fresh EXCEPT !.kind = kind]
    OBVIOUS
  <2>3. o \in ObjType /\ Stands(o, Value(Null, 0)) /\ o.data = Null
    BY <2>2, NothingIs
  <2>4. meant' = [meant EXCEPT ![s] = Value(Null, 0)] /\ UNCHANGED <<ref, arrived>>
    BY <1>2 DEF DefaultConstruct
  <2> QED
    BY <1>0, <2>1, <2>2, <2>3, <2>4, SlotKept
<1>3. ASSUME NEW s \in Slots, NEW t \in Slots, Copy(s, t) PROVE Owned'
  <2>1. /\ Store([obj EXCEPT ![s] = obj[t]]) /\ meant' = [meant EXCEPT ![s] = meant[t]]
        /\ UNCHANGED <<ref, arrived>>
    BY <1>3 DEF Copy
  <2>2. /\ obj[t] \in ObjType /\ meant[t] \in MeantType
        /\ Stands(obj[t], meant[t]) /\ obj[t].data \in Held(obj) \cup {Null}
    BY SlotHeld
  <2> QED
    BY <2>1, <2>2, SlotKept
<1>4. ASSUME NEW s \in Slots, NEW t \in Slots, Move(s, t) PROVE Owned'
  <2>1. PICK o, p, m, n : /\ o = obj[t] /\ p = MovedFrom(obj[t])
                          /\ m = meant[t] /\ n = Value(Null, obj[t].row)
    OBVIOUS
  <2>2. /\ s # t /\ Store([[obj EXCEPT ![s] = o] EXCEPT ![t] = p])
        /\ meant' = [[meant EXCEPT ![s] = m] EXCEPT ![t] = n]
        /\ UNCHANGED <<ref, arrived>> /\ obj[t].kind # "none"
    BY <1>4, <2>1 DEF Move, Holds
  <2>3. o \in ObjType /\ m \in MeantType /\ Stands(o, m) /\ o.data \in Held(obj) \cup {Null}
    BY <2>1, SlotHeld
  <2>4. p \in ObjType /\ n \in MeantType /\ Stands(p, n) /\ p.data = Null
    BY <2>1, <2>2, <2>3 DEF MovedFrom, ObjType, Stands, Value
  <2> QED
    BY <2>2, <2>3, <2>4, SlotsKept
<1>5. ASSUME NEW s \in Slots, Clear(s) PROVE Owned'
  <2>1. PICK o : o = [obj[s] EXCEPT !.data = Null, !.query = Null]
    OBVIOUS
  <2>2. /\ Store([obj EXCEPT ![s] = o]) /\ meant' = [meant EXCEPT ![s] = Value(Null, 0)]
        /\ UNCHANGED <<ref, arrived>> /\ obj[s].kind = "result"
    <3>1. [obj EXCEPT ![s].data = Null, ![s].query = Null] = [obj EXCEPT ![s] = o]
      BY <2>1 DEF Owned, Typed, ObjType
    <3> QED
      BY <1>5, <3>1 DEF Clear
  <2>3. o \in ObjType /\ Stands(o, Value(Null, 0)) /\ o.data = Null
    BY <2>1, <2>2, SlotHeld DEF ObjType, Stands, Value
  <2> QED
    BY <1>0, <2>2, <2>3, SlotKept
<1>6. ASSUME NEW s \in Slots, NEW t \in Slots, Swap(s, t) PROVE Owned'
  <2>1. PICK o, p, m, n :
          /\ o = [obj[s] EXCEPT !.data = obj[t].data, !.query = obj[t].query, !.row = obj[t].row]
          /\ p = [obj[t] EXCEPT !.data = obj[s].data, !.query = obj[s].query, !.row = obj[s].row]
          /\ m = meant[t] /\ n = meant[s]
    OBVIOUS
  <2>2. /\ s # t /\ obj[s].kind \in {"result", "row"} /\ obj[t].kind = obj[s].kind
        /\ meant' = [[meant EXCEPT ![s] = m] EXCEPT ![t] = n]
        /\ UNCHANGED <<ref, arrived>>
    BY <1>6, <2>1 DEF Swap
  <2>3. swap(s, t) = [[obj EXCEPT ![s] = o] EXCEPT ![t] = p]
    BY <2>1, <2>2 DEF swap, Owned, Typed, ObjType
  <2>4. /\ obj[s] \in ObjType /\ meant[s] \in MeantType /\ Stands(obj[s], meant[s])
        /\ obj[t] \in ObjType /\ meant[t] \in MeantType /\ Stands(obj[t], meant[t])
        /\ obj[s].data \in Held(obj) \cup {Null} /\ obj[t].data \in Held(obj) \cup {Null}
    BY SlotHeld
  <2>5. o \in ObjType /\ Stands(o, m) /\ o.data = obj[t].data
    BY <2>1, <2>2, <2>4 DEF ObjType, Stands
  <2>6. p \in ObjType /\ Stands(p, n) /\ p.data = obj[s].data
    BY <2>1, <2>2, <2>4 DEF ObjType, Stands
  <2> QED
    <3>1. Store([[obj EXCEPT ![s] = o] EXCEPT ![t] = p])
      BY <1>6, <2>3 DEF Swap
    <3>2. /\ m \in MeantType /\ n \in MeantType
          /\ o.data \in Held(obj) \cup {Null} /\ p.data \in Held(obj) \cup {Null}
      BY <2>1, <2>4, <2>5, <2>6
    <3> QED
      BY <2>2, <2>5, <2>6, <3>1, <3>2, SlotsKept
<1>7. ASSUME NEW s \in Slots, Destroy(s) PROVE Owned'
  <2>1. /\ Store([obj EXCEPT ![s] = Nothing]) /\ meant' = [meant EXCEPT ![s] = Value(Null, 0)]
        /\ UNCHANGED <<ref, arrived>>
    BY <1>7 DEF Destroy
  <2> QED
    BY <1>0, <2>1, NothingIs, SlotKept
<1>8. ASSUME NEW r \in Refs, NEW s \in Slots, Point(r, s) PROVE Owned'
  <2>1. PICK v \in RefType : ref' = [ref EXCEPT ![r] = v]
    <3>1. obj[s].data \in Data \cup {Null} /\ obj[s].row \in Int
      BY SlotHeld DEF ObjType
    <3>2. \A i \in 0 .. Rows - 1 : i \in Int
      BY DEF ResultSetAssumption
    <3> QED
      BY <1>8, <3>1, <3>2 DEF Point, RefType
  <2>2. UNCHANGED <<obj, arrived, freed, meant>>
    BY <1>8 DEF Point
  <2> QED
    BY <2>1, <2>2 DEF Owned, Typed, Meaning, Released, Held
<1>9. ASSUME NEW s \in Slots, NEW r \in Refs, Own(s, r) PROVE Owned'
  <2>1. ref[r].at \in Slots /\ ref[r].kind \in {"row", "field"} /\ ref[r].row \in Int
    BY <1>9 DEF Own, Anchored, Owned, Typed, RefType, NoRef
  <2>2. PICK a, k, i : a = obj[ref[r].at] /\ k = ref[r].kind /\ i = ref[r].row
    OBVIOUS
  <2>3. PICK o : o = [a EXCEPT !.kind = k, !.row = i]
    OBVIOUS
  <2>4. /\ Store([obj EXCEPT ![s] = o])
        /\ meant' = [meant EXCEPT ![s] = Value(a.data, i)]
        /\ UNCHANGED <<ref, arrived>>
    BY <1>9, <2>2, <2>3 DEF Own
  <2>5. a \in ObjType /\ a.query = a.data /\ a.data \in Held(obj) \cup {Null}
    BY <2>1, <2>2, SlotHeld DEF Stands
  <2>6. o \in ObjType /\ Stands(o, Value(a.data, i)) /\ o.data = a.data
        /\ Value(a.data, i) \in MeantType
    BY <2>1, <2>2, <2>3, <2>5 DEF ObjType, Stands, Value
  <2> QED
    BY <2>4, <2>5, <2>6, SlotKept
<1>10. ASSUME NEW s \in Slots, NEW t \in Slots, FieldOf(s, t) PROVE Owned'
  <2>1. PICK o : o = [obj[t] EXCEPT !.kind = "field"]
    OBVIOUS
  <2>2. /\ Store([obj EXCEPT ![s] = o]) /\ meant' = [meant EXCEPT ![s] = meant[t]]
        /\ UNCHANGED <<ref, arrived>> /\ obj[t].kind = "row"
    BY <1>10, <2>1 DEF FieldOf
  <2>3. /\ obj[t] \in ObjType /\ meant[t] \in MeantType
        /\ Stands(obj[t], meant[t]) /\ obj[t].data \in Held(obj) \cup {Null}
    BY SlotHeld
  <2>4. o \in ObjType /\ Stands(o, meant[t]) /\ o.data = obj[t].data
    BY <2>1, <2>2, <2>3 DEF ObjType, Stands
  <2> QED
    BY <2>2, <2>3, <2>4, SlotKept
<1>11. ASSUME NEW r \in Refs, Forget(r) PROVE Owned'
  <2>1. ref' = [ref EXCEPT ![r] = NoRef] /\ UNCHANGED <<obj, arrived, freed, meant>>
    BY <1>11 DEF Forget
  <2> QED
    BY <2>1 DEF Owned, Typed, Meaning, Released, Held, RefType
<1>12. CASE UNCHANGED vars
  BY <1>12 DEF vars, Owned, Typed, Meaning, Released, Held
<1> QED
  BY <1>1, <1>2, <1>3, <1>4, <1>5, <1>6, <1>7, <1>8, <1>9, <1>10, <1>11, <1>12 DEF Next

(***************************************************************************)
(* Whatever is copied, moved, cleared, exchanged or destroyed: an object's *)
(* data is there and is what the object stands for, it is freed with the   *)
(* last that stands for it, and rows compare equal when they stand for the *)
(* same row.                                                               *)
(***************************************************************************)
THEOREM ResultSetResultsOwned ==
  ASSUME ResultSetAssumption
  PROVE  Spec => []ResultsOwned
<1>1. Init => Owned
  <2> SUFFICES ASSUME Init PROVE Owned
    OBVIOUS
  <2>1. Typed /\ Meaning
    BY NothingIs DEF Init, Typed, Meaning, RefType, MeantType
  <2>2. Held(obj) = {}
    BY NothingIs DEF Init, Held
  <2>3. arrived = {} /\ freed = {}
    BY DEF Init
  <2> QED
    BY <2>1, <2>2, <2>3 DEF Owned, Released
<1>2. Owned /\ [Next]_vars => Owned'
  BY OwnedStep
<1>3. Owned => ResultsOwned
  <2> SUFFICES ASSUME Owned PROVE ResultsOwned
    OBVIOUS
  <2>1. ReleasedWithLast
    <3>1. \A d \in Data : d \in Held(obj) <=> d \in {meant[s].data : s \in Slots}
      BY DEF Held, Owned, Meaning, Stands, ResultSetAssumption
    <3> QED
      BY <3>1 DEF ReleasedWithLast, Owned, Released, Typed
  <2>2. OwnersExact
    <3> SUFFICES ASSUME NEW s \in Slots, obj[s].kind # "none"
                 PROVE  /\ Value(obj[s].data, obj[s].row) = meant[s]
                        /\ obj[s].query = obj[s].data
                        /\ obj[s].data \notin freed
      BY DEF OwnersExact, Holds
    <3>1. Value(obj[s].data, obj[s].row) = meant[s] /\ obj[s].query = obj[s].data
      BY SlotHeld DEF Stands, Value
    <3>2. obj[s].data \notin freed
      BY SlotHeld DEF Owned, Released, Typed, ResultSetAssumption
    <3> QED
      BY <3>1, <3>2
  <2>3. EqualMeansSame
    <3> SUFFICES ASSUME NEW s \in Slots, NEW t \in Slots,
                        obj[s].kind = "row", obj[t].kind = "row"
                 PROVE  SameRow(s, t) <=> meant[s] = meant[t]
      BY DEF EqualMeansSame
    <3>1. /\ meant[s] \in MeantType /\ Stands(obj[s], meant[s])
          /\ meant[t] \in MeantType /\ Stands(obj[t], meant[t])
      BY SlotHeld DEF MeantType
    <3> QED
      BY <3>1 DEF MeantType, Stands, SameRow, SameResult
  <2> QED
    BY <2>1, <2>2, <2>3 DEF ResultsOwned
<1> QED
  BY <1>1, <1>2, <1>3, PTL DEF Spec

=============================================================================
