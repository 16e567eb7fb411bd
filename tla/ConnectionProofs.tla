-------------------------- MODULE ConnectionProofs --------------------------
(***************************************************************************)
(* Who owns the handles of libpq, for any number of connections, handles   *)
(* and error handlers, and any number of names.                            *)
(*                                                                         *)
(* That a handle has one owner, and that adorn_name() gives no name twice, *)
(* holds whatever the program moves (Owners, Names).  That the notice      *)
(* processor and the error handlers point to something alive holds in a    *)
(* program that moves no connection with a transaction or error handlers   *)
(* (Homes, which needs Owners)     .                                        *)
(***************************************************************************)
EXTENDS Connection, FiniteSetTheorems, TLAPS

SlotType ==
  [live : BOOLEAN, conn : Handles \cup {Null}, waiters : Handles \cup {Null},
   trans : BOOLEAN, receivers : BOOLEAN, connecting : BOOLEAN,
   wait : {"none", "read", "write"}, unique_id : Nat]

HandleType ==
  [state : {"unused", "starting", "open", "bad", "finished"},
   supported : BOOLEAN, names : SUBSET Nat]

Types ==
  /\ slot \in [Slots -> SlotType]
  /\ handle \in [Handles -> HandleType]
  /\ list \in [Handles -> SUBSET Handlers]
  /\ home \in [Handlers -> Slots \cup {Null, "unmade", "gone"}]
  /\ results \subseteq Handles

\* PQfinish is still to come.
Unfinished(h) == handle[h].state \in {"starting", "open", "bad"}

\* The storage of no connection is empty, also after one was there.
EmptyIsDead == \A s \in Slots : ~slot[s].live => slot[s] = Dead

\* A handle belongs to exactly one connection from its start until it is
\* finished.
OwnUnfinished == \A s \in Slots : slot[s].conn # Null => Unfinished(slot[s].conn)
OneOwner == \A s, t \in Slots : slot[s].conn # Null /\ slot[s].conn = slot[t].conn => s = t
HasOwner == \A h \in Handles : Unfinished(h) => \E s \in Slots : slot[s].conn = h

\* So do its notice_waiters, or to none, but a closed connection keeps them.
WaitersInUse ==
  \A s \in Slots : slot[s].waiters # Null => handle[slot[s].waiters].state # "unused"
OneHolder ==
  \A s, t \in Slots : slot[s].waiters # Null /\ slot[s].waiters = slot[t].waiters => s = t

Owners ==
  EmptyIsDead /\ OwnUnfinished /\ OneOwner /\ HasOwner /\ WaitersInUse /\ OneHolder

\* The counter of a connection has passed every name of its session.
Names ==
  /\ \A h \in Handles : handle[h].state = "unused" => handle[h].names = {}
  /\ \A s \in Slots : slot[s].conn # Null =>
       \A n \in handle[slot[s].conn].names : n <= slot[s].unique_id

\* A connection has the notice_waiters of its handle.
OwnWaiters == \A s \in Slots : slot[s].conn # Null => slot[s].waiters = slot[s].conn

\* The list of error handlers is empty before the connection is made and after
\* it is closed.
EmptyLists ==
  /\ \A w \in Handles : handle[w].state = "unused" => list[w] = {}
  /\ \A s \in Slots :
       slot[s].waiters # Null /\ (slot[s].conn = Null \/ slot[s].connecting) =>
         list[slot[s].waiters] = {}

\* The error handlers on the list of a connection are those with it as m_home.
ListedAtHome ==
  \A w \in Handles : \A e \in list[w] : home[e] \in Slots /\ slot[home[e]].waiters = w
HomeLists ==
  \A e \in Handlers : home[e] \in Slots =>
    slot[home[e]].waiters # Null /\ e \in list[slot[home[e]].waiters]

Homes == OwnWaiters /\ EmptyLists /\ ListedAtHome /\ HomeLists /\ ~wild

-----------------------------------------------------------------------------
(***************************************************************************)
(* Types.                                                                  *)
(***************************************************************************)
LEMMA DeadTyped ==
  ASSUME ConnectionAssumption
  PROVE  /\ Dead \in SlotType
         /\ \A h \in Handles : Connection(h) \in SlotType
  BY DEF Dead, Connection, SlotType, ConnectionAssumption

LEMMA ConnectionIs ==
  ASSUME NEW h
  PROVE  /\ Connection(h).live /\ Connection(h).conn = h /\ Connection(h).waiters = h
         /\ ~Connection(h).connecting /\ Connection(h).unique_id = 0
  BY DEF Connection, Dead

LEMMA ConnectingIs ==
  ASSUME NEW h, NEW c, c = [Connection(h) EXCEPT !.connecting = TRUE, !.wait = "write"]
  PROVE  c.live /\ c.conn = h /\ c.waiters = h /\ c.unique_id = 0
  BY DEF Connection, Dead

LEMMA MoveTyped ==
  ASSUME ConnectionAssumption, Types, NEW s \in Slots, NEW t \in Slots
  PROVE  /\ MovedFrom(s) \in SlotType
         /\ MoveConstructed(t, s) \in [Slots -> SlotType]
         /\ Closed(s) \in SlotType
  BY DEF Types, SlotType, MovedFrom, MoveConstructed, Connection, Dead, Closed

LEMMA CloseTyped ==
  ASSUME ConnectionAssumption, Types, NEW s \in Slots
  PROVE  /\ Finished(s) \in [Handles -> HandleType]
         /\ \A gone : Unregister(gone) \in [Handles -> SUBSET Handlers]
         /\ [e \in Handlers |-> IF e \in Listed(s) THEN Null ELSE home[e]]
              \in [Handlers -> Slots \cup {Null, "unmade", "gone"}]
<1>1. Finished(s) \in [Handles -> HandleType]
  BY DEF Types, Finished, SlotType, HandleType
<1> QED
  BY <1>1 DEF Types, Unregister

LEMMA StartedTyped ==
  ASSUME Types, NEW h \in Handles, NEW supported \in BOOLEAN,
         NEW state \in {"starting", "open", "finished"}
  PROVE  Started(h, state, supported) \in [Handles -> HandleType]
  BY DEF Types, Started, HandleType

LEMMA StartedIs ==
  ASSUME Types, NEW h \in Handles, NEW state, NEW supported,
         handle' = Started(h, state, supported)
  PROVE  /\ handle'[h].state = state
         /\ handle'[h].names = handle[h].names
         /\ \A g \in Handles : g # h => handle'[g] = handle[g]
<1>1. h \in DOMAIN handle /\ DOMAIN handle = Handles
  BY DEF Types
<1>2. {"state", "supported", "names"} \subseteq DOMAIN handle[h]
  BY DEF Types, HandleType
<1> QED
  BY <1>1, <1>2 DEF Started

LEMMA TypesStep ==
  ASSUME ConnectionAssumption, Types, [Next]_vars
  PROVE  Types'
<1>1. ASSUME NEW s \in Slots, NEW h \in Handles, Connect(s, h)
      PROVE  Types'
  <2>1. PICK state \in {"open", "bad"}, supported \in BOOLEAN :
          IF Acceptable(state, supported)
          THEN /\ handle' = Started(h, state, supported)
               /\ slot' = [slot EXCEPT ![s] = Connection(h)]
          ELSE /\ handle' = Started(h, "finished", supported)
               /\ UNCHANGED slot
    BY <1>1 DEF Connect
  <2>2. handle' \in [Handles -> HandleType]
    BY <2>1, StartedTyped DEF Acceptable
  <2>3. slot' \in [Slots -> SlotType]
    BY <2>1, DeadTyped DEF Types
  <2> QED
    BY <1>1, <2>2, <2>3 DEF Connect, Types
<1>2. ASSUME NEW s \in Slots, NEW h \in Handles, StartConnecting(s, h)
      PROVE  Types'
  <2>1. handle' \in [Handles -> HandleType]
    BY <1>2, StartedTyped DEF StartConnecting
  <2>2. [Connection(h) EXCEPT !.connecting = TRUE, !.wait = "write"] \in SlotType
    BY DeadTyped DEF SlotType
  <2>3. slot' \in [Slots -> SlotType]
    BY <1>2, <2>2 DEF StartConnecting, Types
  <2> QED
    BY <1>2, <2>1, <2>3 DEF StartConnecting, Types
<1>3. ASSUME NEW s \in Slots, NEW t \in Slots, MoveConstruct(t, s)
      PROVE  Types'
  <2>1. [slot[s] EXCEPT !.waiters = Null] \in SlotType
    BY DEF Types, SlotType
  <2>2. slot' \in [Slots -> SlotType]
    BY <1>3, <2>1, MoveTyped DEF MoveConstruct, Types
  <2> QED
    BY <1>3, <2>2 DEF MoveConstruct, Types
<1>4. ASSUME NEW s \in Slots, NEW t \in Slots, Produce(t, s)
      PROVE  Types'
  <2>1. [slot[s] EXCEPT !.conn = Null] \in SlotType
    BY DEF Types, SlotType
  <2>2. slot[s].conn \in Handles
    BY <1>4 DEF Produce, Types, SlotType
  <2>3. slot' \in [Slots -> SlotType]
    BY <1>4, <2>1, MoveTyped DEF Produce, Types
  <2>4. handle' \in [Handles -> HandleType]
    BY <1>4, <2>2 DEF Produce, Types, HandleType
  <2> QED
    BY <1>4, <2>3, <2>4 DEF Produce, Types
<1>5. ASSUME NEW s \in Slots, NEW t \in Slots, MoveAssign(t, s)
      PROVE  Types'
  <2>1. [slot[s] EXCEPT !.live = TRUE] \in SlotType
    BY DEF Types, SlotType
  <2>2. slot' \in [Slots -> SlotType]
    BY <1>5, <2>1, MoveTyped DEF MoveAssign, Types
  <2> QED
    BY <1>5, <2>2, CloseTyped DEF MoveAssign, CloseHandle, Types
<1>6. ASSUME NEW s \in Slots, Close(s)
      PROVE  Types'
  BY <1>6, MoveTyped, CloseTyped DEF Close, CloseHandle, Types
<1>7. ASSUME NEW s \in Slots, Destroy(s)
      PROVE  Types'
  BY <1>7, DeadTyped, CloseTyped DEF Destroy, CloseHandle, Types
<1>8. ASSUME NEW s \in Slots, Process(s)
      PROVE  Types'
  <2>1. slot[s].conn \in Handles
    BY <1>8 DEF Process, Types, SlotType
  <2>2. slot' \in [Slots -> SlotType]
    BY <1>8 DEF Process, Types, SlotType
  <2>3. handle' \in [Handles -> HandleType]
    <3>1. CASE \E supported \in BOOLEAN : handle' = Started(slot[s].conn, "open", supported)
      BY <2>1, <3>1, StartedTyped
    <3>2. CASE handle' = [handle EXCEPT ![slot[s].conn].state = "bad"] \/ UNCHANGED handle
      BY <2>1, <3>2 DEF Types, HandleType
    <3> QED
      BY <1>8, <3>1, <3>2 DEF Process
  <2> QED
    BY <1>8, <2>2, <2>3 DEF Process, Types
<1>9. ASSUME NEW s \in Slots,
             \/ BeginTransaction(s) \/ EndTransaction(s)
             \/ AddReceiver(s) \/ RemoveReceiver(s)
      PROVE  Types'
  <2>1. \A b \in BOOLEAN :
          /\ [slot[s] EXCEPT !.trans = b] \in SlotType
          /\ [slot[s] EXCEPT !.receivers = b] \in SlotType
    BY DEF Types, SlotType
  <2>2. slot' \in [Slots -> SlotType]
    BY <1>9, <2>1 DEF BeginTransaction, EndTransaction, AddReceiver, RemoveReceiver, Types
  <2> QED
    BY <1>9, <2>2 DEF BeginTransaction, EndTransaction, AddReceiver, RemoveReceiver, Types
<1>10. ASSUME NEW s \in Slots, NEW e \in Handlers, AddErrorhandler(e, s)
       PROVE  Types'
  <2>1. slot[s].waiters \in Handles
    BY <1>10 DEF AddErrorhandler, Types, SlotType
  <2> QED
    BY <1>10, <2>1 DEF AddErrorhandler, Types
<1>11. ASSUME NEW s \in Slots, MakeResult(s) \/ Notice(s) \/ ConnectionBreaks(s)
       PROVE  Types'
  <2>1. MakeResult(s) => slot[s].waiters \in Handles
    BY DEF MakeResult, Types, SlotType
  <2>2. ConnectionBreaks(s) => slot[s].conn \in Handles
    BY DEF ConnectionBreaks, Usable, Types, SlotType
  <2>3. ConnectionBreaks(s) => handle' \in [Handles -> HandleType]
    BY <2>2 DEF ConnectionBreaks, Types, HandleType
  <2> QED
    BY <1>11, <2>1, <2>3 DEF MakeResult, Notice, ConnectionBreaks, Types
<1>12. ASSUME NEW s \in Slots, AdornName(s)
       PROVE  Types'
  <2>1. slot[s].conn \in Handles /\ slot[s].unique_id \in Nat
    BY <1>12 DEF AdornName, Usable, Types, SlotType
  <2>2. [slot[s] EXCEPT !.unique_id = @ + 1] \in SlotType
    BY DEF Types, SlotType
  <2>3. slot' \in [Slots -> SlotType]
    BY <1>12, <2>2 DEF AdornName, Types
  <2>4. handle' \in [Handles -> HandleType]
    BY <1>12, <2>1 DEF AdornName, Types, HandleType
  <2> QED
    BY <1>12, <2>3, <2>4 DEF AdornName, Types
<1>13. ASSUME NEW e \in Handlers, DestroyErrorhandler(e)
       PROVE  Types'
  BY <1>13, CloseTyped DEF DestroyErrorhandler, Types, Unregister
<1>14. ASSUME NEW w \in Handles, DropResult(w)
       PROVE  Types'
  BY <1>14 DEF DropResult, Types
<1>15. ASSUME UNCHANGED vars
       PROVE  Types'
  BY <1>15 DEF vars, Types
<1> QED
  BY <1>1, <1>2, <1>3, <1>4, <1>5, <1>6, <1>7, <1>8, <1>9, <1>10, <1>11, <1>12,
     <1>13, <1>14, <1>15 DEF Next

-----------------------------------------------------------------------------
(***************************************************************************)
(* What the steps do to the owners.  A step that touches no owner keeps    *)
(* the handle, the notice_waiters and the counter of every connection.     *)
(***************************************************************************)
SameOwner(s) ==
  /\ slot'[s].live = slot[s].live /\ slot'[s].conn = slot[s].conn
  /\ slot'[s].waiters = slot[s].waiters /\ slot'[s].connecting = slot[s].connecting

Quiet ==
  /\ \A s \in Slots : SameOwner(s) /\ (~slot[s].live => slot'[s] = slot[s])
  /\ \A h \in Handles : handle'[h].state = handle[h].state
       \/ (handle[h].state # "unused" /\ Unfinished(h) /\ Unfinished(h)')

LEMMA QuietSteps ==
  ASSUME ConnectionAssumption, Types, Owners, NEW s \in Slots,
         \/ Process(s) \/ BeginTransaction(s) \/ EndTransaction(s)
         \/ AddReceiver(s) \/ RemoveReceiver(s) \/ ConnectionBreaks(s)
         \/ MakeResult(s) \/ Notice(s) \/ AdornName(s)
         \/ \E e \in Handlers : AddErrorhandler(e, s)
  PROVE  Quiet
<1>1. CASE Process(s)
  <2>1. slot[s].live /\ slot[s].conn \in Handles
    BY <1>1 DEF Process, Types, SlotType
  <2>2. Unfinished(slot[s].conn)
    BY <2>1 DEF Owners, OwnUnfinished, ConnectionAssumption
  <2>3. \A u \in Slots : SameOwner(u) /\ (~slot[u].live => slot'[u] = slot[u])
    BY <1>1, <2>1 DEF Process, SameOwner, Types, SlotType
  <2>4. \A h \in Handles : h # slot[s].conn => handle'[h] = handle[h]
    BY <1>1, <2>1, StartedIs DEF Process, Types
  <2>5. handle'[slot[s].conn].state \in {handle[slot[s].conn].state, "open", "bad"}
    BY <1>1, <2>1, StartedIs DEF Process, Types, HandleType
  <2> QED
    BY <2>1, <2>2, <2>3, <2>4, <2>5 DEF Quiet, Unfinished
<1>2. CASE BeginTransaction(s) \/ EndTransaction(s) \/ AddReceiver(s) \/ RemoveReceiver(s)
  <2>1. slot[s].live
    BY <1>2 DEF BeginTransaction, EndTransaction, AddReceiver, RemoveReceiver, Usable, Owners,
         EmptyIsDead, Dead
  <2> QED
    BY <1>2, <2>1 DEF BeginTransaction, EndTransaction, AddReceiver, RemoveReceiver,
         Quiet, SameOwner, Types, SlotType
<1>3. CASE ConnectionBreaks(s)
  <2>1. slot[s].conn \in Handles /\ handle[slot[s].conn].state = "open"
    BY <1>3 DEF ConnectionBreaks, Usable, Types, SlotType
  <2> QED
    BY <1>3, <2>1 DEF ConnectionBreaks, Quiet, SameOwner, Unfinished, Types, HandleType
<1>4. CASE AdornName(s)
  <2>1. slot[s].conn \in Handles /\ slot[s].live
    BY <1>4 DEF AdornName, Usable, Types, SlotType
  <2> QED
    BY <1>4, <2>1 DEF AdornName, Quiet, SameOwner, Types, SlotType, HandleType
<1>5. CASE MakeResult(s) \/ Notice(s)
  BY <1>5 DEF MakeResult, Notice, Quiet, SameOwner
<1>6. CASE \E e \in Handlers : AddErrorhandler(e, s)
  BY <1>6 DEF AddErrorhandler, Quiet, SameOwner
<1> QED
  BY <1>1, <1>2, <1>3, <1>4, <1>5, <1>6

LEMMA QuietOwners ==
  ASSUME ConnectionAssumption, Types, Types', Owners, Quiet
  PROVE  Owners'
<1>1. \A h \in Handles : Unfinished(h)' <=> Unfinished(h)
  BY DEF Quiet, Unfinished
<1>2. \A s \in Slots : slot[s].conn \in Handles \cup {Null} /\ slot[s].waiters \in Handles \cup {Null}
  BY DEF Types, SlotType
<1>3. \A s \in Slots : SameOwner(s)
  BY DEF Quiet
<1>4. EmptyIsDead'
  BY <1>3 DEF Owners, EmptyIsDead, SameOwner, Quiet, Dead
<1>5. OwnUnfinished' /\ HasOwner'
  BY <1>1, <1>2, <1>3 DEF Owners, OwnUnfinished, HasOwner, SameOwner
<1>6. OneOwner' /\ OneHolder'
  BY <1>3 DEF Owners, OneOwner, OneHolder, SameOwner
<1>7. WaitersInUse'
  BY <1>2, <1>3 DEF Owners, WaitersInUse, SameOwner, Quiet, Unfinished
<1> QED
  BY <1>4, <1>5, <1>6, <1>7 DEF Owners
(***************************************************************************)
(* A handle is started in the storage of a new connection, or fails there. *)
(***************************************************************************)
LEMMA NewOwnerIs ==
  ASSUME ConnectionAssumption, Types,
         NEW s \in Slots, NEW h \in Handles, Connect(s, h) \/ StartConnecting(s, h)
  PROVE  /\ ~slot[s].live /\ handle[h].state = "unused"
         /\ \A g \in Handles : g # h => handle'[g] = handle[g]
         /\ \A u \in Slots : u # s => slot'[u] = slot[u]
         /\ \/ slot'[s] = slot[s] /\ handle'[h].state = "finished"
            \/ /\ slot'[s].live /\ slot'[s].conn = h /\ slot'[s].waiters = h
               /\ handle'[h].state \in {"starting", "open"}
<1>1. CASE Connect(s, h)
  <2>1. PICK state \in {"open", "bad"}, supported \in BOOLEAN :
          IF Acceptable(state, supported)
          THEN /\ handle' = Started(h, state, supported)
               /\ slot' = [slot EXCEPT ![s] = Connection(h)]
          ELSE /\ handle' = Started(h, "finished", supported)
               /\ UNCHANGED slot
    BY <1>1 DEF Connect
  <2>2. CASE Acceptable(state, supported)
    <3>1. handle'[h].state = "open" /\ \A g \in Handles : g # h => handle'[g] = handle[g]
      <4>1. state = "open" /\ handle' = Started(h, state, supported)
        BY <2>1, <2>2 DEF Acceptable
      <4> QED
        BY <4>1, StartedIs, Zenon
    <3>2. slot'[s] = Connection(h) /\ \A u \in Slots : u # s => slot'[u] = slot[u]
      BY <2>1, <2>2 DEF Types
    <3> QED
      BY <1>1, <3>1, <3>2, ConnectionIs DEF Connect
  <2>3. CASE ~Acceptable(state, supported)
    <3>1. handle' = Started(h, "finished", supported)
      BY <2>1, <2>3
    <3>2. /\ handle'[h].state = "finished"
          /\ \A g \in Handles : g # h => handle'[g] = handle[g]
      BY <3>1, StartedIs, Zenon
    <3> QED
      BY <1>1, <2>1, <2>3, <3>2 DEF Connect
  <2> QED
    BY <2>2, <2>3
<1>2. CASE StartConnecting(s, h)
  <2>1. PICK ok \in BOOLEAN :
          IF ok
          THEN /\ handle' = Started(h, "starting", TRUE)
               /\ slot' = [slot EXCEPT ![s] =
                             [Connection(h) EXCEPT !.connecting = TRUE, !.wait = "write"]]
          ELSE /\ handle' = Started(h, "finished", TRUE)
               /\ UNCHANGED slot
    BY <1>2 DEF StartConnecting
  <2>2. CASE ok
    <3>1. /\ handle'[h].state = "starting"
          /\ \A g \in Handles : g # h => handle'[g] = handle[g]
      <4>1. handle' = Started(h, "starting", TRUE)
        BY <2>1, <2>2
      <4> QED
        BY <4>1, StartedIs, Zenon
    <3>2. /\ slot'[s] = [Connection(h) EXCEPT !.connecting = TRUE, !.wait = "write"]
          /\ \A u \in Slots : u # s => slot'[u] = slot[u]
      BY <2>1, <2>2 DEF Types
    <3>3. slot'[s].live /\ slot'[s].conn = h /\ slot'[s].waiters = h
      BY <3>2, ConnectingIs
    <3> QED
      BY <1>2, <3>1, <3>2, <3>3 DEF StartConnecting
  <2>3. CASE ~ok
    <3>1. handle' = Started(h, "finished", TRUE)
      BY <2>1, <2>3
    <3>2. /\ handle'[h].state = "finished"
          /\ \A g \in Handles : g # h => handle'[g] = handle[g]
      BY <3>1, StartedIs, Zenon
    <3> QED
      BY <1>2, <2>1, <2>3, <3>2 DEF StartConnecting
  <2> QED
    BY <2>2, <2>3
<1> QED
  BY <1>1, <1>2

LEMMA NewOwner ==
  ASSUME ConnectionAssumption, Types, Types', Owners,
         NEW s \in Slots, NEW h \in Handles, Connect(s, h) \/ StartConnecting(s, h)
  PROVE  Owners'
<1>1. /\ ~slot[s].live /\ handle[h].state = "unused"
      /\ \A g \in Handles : g # h => handle'[g] = handle[g]
      /\ \A u \in Slots : u # s => slot'[u] = slot[u]
      /\ \/ slot'[s] = slot[s] /\ handle'[h].state = "finished"
         \/ /\ slot'[s].live /\ slot'[s].conn = h /\ slot'[s].waiters = h
            /\ handle'[h].state \in {"starting", "open"}
  BY NewOwnerIs
<1>2. h # Null /\ slot[s] = Dead
  BY <1>1 DEF Owners, EmptyIsDead, ConnectionAssumption
<1>3. \A u \in Slots :
        /\ slot[u].conn \in Handles \cup {Null} /\ slot[u].conn # h
        /\ slot[u].waiters \in Handles \cup {Null} /\ slot[u].waiters # h
  BY <1>1 DEF Types, SlotType, Owners, OwnUnfinished, WaitersInUse, Unfinished, ConnectionAssumption
<1>4. EmptyIsDead'
  BY <1>1, <1>2 DEF Owners, EmptyIsDead
<1>5. OwnUnfinished'
  BY <1>1, <1>2, <1>3 DEF Owners, OwnUnfinished, Unfinished, Dead
<1>6. OneOwner' /\ OneHolder'
  BY <1>1, <1>2, <1>3 DEF Owners, OneOwner, OneHolder, Dead
<1>7. HasOwner'
  <2> SUFFICES ASSUME NEW g \in Handles, Unfinished(g)'
               PROVE  \E u \in Slots : slot'[u].conn = g
    BY DEF HasOwner
  <2>1. CASE g = h
    BY <1>1, <2>1 DEF Unfinished
  <2>2. CASE g # h
    <3>1. PICK u \in Slots : slot[u].conn = g
      BY <1>1, <2>2 DEF Owners, HasOwner, Unfinished
    <3>2. u # s
      BY <1>2, <3>1 DEF Dead, ConnectionAssumption
    <3> QED
      BY <1>1, <3>1, <3>2
  <2> QED
    BY <2>1, <2>2
<1>8. WaitersInUse'
  BY <1>1, <1>2, <1>3 DEF Owners, WaitersInUse, Dead
<1> QED
  BY <1>4, <1>5, <1>6, <1>7, <1>8 DEF Owners

(***************************************************************************)
(* Closing finishes the handle of one connection, if it has one.           *)
(***************************************************************************)
LEMMA FinishedIs ==
  ASSUME ConnectionAssumption, Types, NEW s \in Slots, handle' = Finished(s)
  PROVE  /\ slot[s].conn \in Handles => handle'[slot[s].conn].state = "finished"
         /\ \A h \in Handles : h # slot[s].conn => handle'[h] = handle[h]
<1>1. slot[s].conn \in Handles \cup {Null}
  BY DEF Types, SlotType
<1>2. CASE slot[s].conn = Null
  BY <1>2 DEF Finished, ConnectionAssumption
<1>3. CASE slot[s].conn \in Handles
  <2>1. slot[s].conn # Null
    BY <1>3 DEF ConnectionAssumption
  <2> QED
    BY <1>3, <2>1 DEF Finished, Types, HandleType
<1> QED
  BY <1>1, <1>2, <1>3

Release(s) ==
  /\ handle' = Finished(s)
  /\ slot[s].live /\ slot'[s].conn = Null
  /\ slot'[s].waiters \in {slot[s].waiters, Null}
  /\ slot'[s].live \/ slot'[s] = Dead
  /\ \A u \in Slots \ {s} : slot'[u] = slot[u]

LEMMA ReleaseOwners ==
  ASSUME ConnectionAssumption, Types, Owners, NEW s \in Slots, Release(s)
  PROVE  Owners'
<1>1. \A u \in Slots :
        /\ slot[u].conn \in Handles \cup {Null}
        /\ slot[u].waiters \in Handles \cup {Null}
        /\ u # s /\ slot[u].conn # Null => slot[u].conn # slot[s].conn
  BY DEF Types, SlotType, Owners, OneOwner
<1>2. \A h \in Handles : h # slot[s].conn => handle'[h] = handle[h]
  BY FinishedIs DEF Release
<1>3. slot[s].conn \in Handles => handle'[slot[s].conn].state = "finished"
  BY FinishedIs DEF Release
<1>4. EmptyIsDead'
  BY DEF Release, Owners, EmptyIsDead
<1>5. OwnUnfinished'
  BY <1>1, <1>2 DEF Release, Owners, OwnUnfinished, Unfinished
<1>6. OneOwner' /\ OneHolder'
  BY DEF Release, Owners, OneOwner, OneHolder
<1>7. HasOwner'
  <2> SUFFICES ASSUME NEW h \in Handles, Unfinished(h)'
               PROVE  \E u \in Slots : slot'[u].conn = h
    BY DEF HasOwner
  <2>1. h # slot[s].conn
    BY <1>3 DEF Unfinished
  <2>2. PICK u \in Slots : slot[u].conn = h
    BY <1>2, <2>1 DEF Owners, HasOwner, Unfinished
  <2> QED
    BY <2>1, <2>2 DEF Release
<1>8. WaitersInUse'
  BY <1>1, <1>2, <1>3 DEF Release, Owners, WaitersInUse
<1> QED
  BY <1>4, <1>5, <1>6, <1>7, <1>8 DEF Owners

(***************************************************************************)
(* A move closes the object moved to, if it had a handle, and leaves the   *)
(* handle and the notice_waiters of the source with it only.               *)
(***************************************************************************)
Transfer(t, s) ==
  /\ s # t /\ slot[s].live
  /\ handle' = Finished(t)
  /\ slot'[t].live /\ slot'[s].live
  /\ slot'[t].conn = slot[s].conn /\ slot'[s].conn = Null
  /\ slot'[t].waiters = slot[s].waiters /\ slot'[s].waiters = Null
  /\ slot'[t].unique_id = slot[s].unique_id
  /\ ~slot'[t].connecting
  /\ \A u \in Slots \ {s, t} : slot'[u] = slot[u]

LEMMA TransferOwners ==
  ASSUME ConnectionAssumption, Types, Owners, NEW s \in Slots, NEW t \in Slots, Transfer(t, s)
  PROVE  Owners'
<1>1. \A u \in Slots :
        /\ slot[u].conn \in Handles \cup {Null}
        /\ slot[u].waiters \in Handles \cup {Null}
        /\ u # t /\ slot[u].conn # Null => slot[u].conn # slot[t].conn
  BY DEF Types, SlotType, Owners, OneOwner
<1>2. \A h \in Handles : h # slot[t].conn => handle'[h] = handle[h]
  BY FinishedIs DEF Transfer
<1>3. slot[t].conn \in Handles => handle'[slot[t].conn].state = "finished"
  BY FinishedIs DEF Transfer
<1>4. EmptyIsDead'
  BY DEF Transfer, Owners, EmptyIsDead
<1>5. OwnUnfinished'
  <2> SUFFICES ASSUME NEW u \in Slots, slot'[u].conn # Null
               PROVE  handle'[slot'[u].conn].state \in {"starting", "open", "bad"}
    BY DEF OwnUnfinished, Unfinished
  <2>1. PICK v \in Slots : v # t /\ slot'[u].conn = slot[v].conn
    BY DEF Transfer
  <2> QED
    BY <1>1, <1>2, <2>1 DEF Owners, OwnUnfinished, Unfinished
<1>6. OneOwner' /\ OneHolder'
  BY DEF Transfer, Owners, OneOwner, OneHolder
<1>7. HasOwner'
  <2> SUFFICES ASSUME NEW h \in Handles, Unfinished(h)'
               PROVE  \E u \in Slots : slot'[u].conn = h
    BY DEF HasOwner
  <2>1. h # slot[t].conn
    BY <1>3 DEF Unfinished
  <2>2. PICK u \in Slots : slot[u].conn = h
    BY <1>2, <2>1 DEF Owners, HasOwner, Unfinished
  <2> QED
    BY <2>1, <2>2 DEF Transfer
<1>8. WaitersInUse'
  <2> SUFFICES ASSUME NEW u \in Slots, slot'[u].waiters # Null
               PROVE  handle'[slot'[u].waiters].state # "unused"
    BY DEF WaitersInUse
  <2>1. PICK v \in Slots : slot'[u].waiters = slot[v].waiters
    BY DEF Transfer
  <2> QED
    BY <1>1, <1>2, <1>3, <2>1 DEF Owners, WaitersInUse
<1> QED
  BY <1>4, <1>5, <1>6, <1>7, <1>8 DEF Owners

LEMMA MoveIsTransfer ==
  ASSUME ConnectionAssumption, Types, Owners, NEW s \in Slots, NEW t \in Slots,
         slot[s].live, ~slot[t].live, slot' = MoveConstructed(t, s), UNCHANGED handle
  PROVE  Transfer(t, s)
<1>1. slot[t].conn = Null
  BY DEF Owners, EmptyIsDead, Dead
<1>2. handle' = Finished(t)
  BY <1>1 DEF Finished
<1>3. s # t
  OBVIOUS
<1> QED
  BY <1>2, <1>3 DEF Transfer, MoveConstructed, MovedFrom, Connection, Dead, Types, SlotType

LEMMA AssignIsTransfer ==
  ASSUME Types, NEW s \in Slots, NEW t \in Slots, MoveAssign(t, s)
  PROVE  Transfer(t, s)
  BY DEF Transfer, MoveAssign, CloseHandle, MovedFrom, Types, SlotType

LEMMA CloseIsRelease ==
  ASSUME ConnectionAssumption, Types, NEW s \in Slots, Close(s) \/ Destroy(s)
  PROVE  Release(s)
<1>1. CASE Close(s)
  BY <1>1 DEF Close, CloseHandle, Closed, Release, Types, SlotType
<1>2. CASE Destroy(s)
  BY <1>2 DEF Destroy, CloseHandle, Dead, Release, Types, SlotType
<1> QED
  BY <1>1, <1>2

(***************************************************************************)
(* connecting::produce() moves or closes; a move constructor that throws   *)
(* has dropped the notice_waiters.                                         *)
(***************************************************************************)
LEMMA ProduceIs ==
  ASSUME ConnectionAssumption, Types, Owners, NEW s \in Slots, NEW t \in Slots, Produce(t, s)
  PROVE  /\ slot[s].connecting
         /\ Transfer(t, s) \/ (Release(s) /\ slot'[s].live /\ slot'[s].connecting)
<1>1. CASE slot' = MoveConstructed(t, s) /\ UNCHANGED handle
  BY <1>1, MoveIsTransfer DEF Produce
<1>2. CASE /\ handle' = [handle EXCEPT ![slot[s].conn].state = "finished"]
           /\ slot' = [slot EXCEPT ![s].conn = Null]
  BY <1>2 DEF Produce, Finished, Release, Types, SlotType
<1> QED
  BY <1>1, <1>2 DEF Produce

LEMMA OwnersStep ==
  ASSUME ConnectionAssumption, Types, Types', Owners, [Next]_vars
  PROVE  Owners'
<1>1. ASSUME NEW s \in Slots, NEW t \in Slots, MoveConstruct(t, s)
      PROVE  Owners'
  <2>1. CASE Settled(s)
    BY <1>1, <2>1, MoveIsTransfer, TransferOwners DEF MoveConstruct
  <2>2. CASE ~Settled(s)
    <3>1. /\ slot'[s].waiters = Null /\ slot'[s].conn = slot[s].conn /\ slot'[s].live
          /\ \A u \in Slots \ {s} : slot'[u] = slot[u]
          /\ UNCHANGED handle
      BY <1>1, <2>2 DEF MoveConstruct, Types, SlotType
    <3>2. \A u \in Slots : slot'[u].conn = slot[u].conn
      BY <3>1
    <3> QED
      BY <3>1, <3>2 DEF Owners, EmptyIsDead, OwnUnfinished, OneOwner, HasOwner, WaitersInUse,
           OneHolder, Unfinished
  <2> QED
    BY <2>1, <2>2
<1>2. ASSUME NEW s \in Slots, NEW t \in Slots, Produce(t, s)
      PROVE  Owners'
  BY <1>2, ProduceIs, TransferOwners, ReleaseOwners
<1>3. ASSUME NEW s \in Slots, NEW t \in Slots, MoveAssign(t, s)
      PROVE  Owners'
  BY <1>3, AssignIsTransfer, TransferOwners
<1>4. ASSUME NEW s \in Slots, Close(s) \/ Destroy(s)
      PROVE  Owners'
  BY <1>4, CloseIsRelease, ReleaseOwners
<1>5. ASSUME NEW e \in Handlers, DestroyErrorhandler(e)
      PROVE  Quiet
  BY <1>5 DEF DestroyErrorhandler, Quiet, SameOwner
<1>6. ASSUME (\E w \in Handles : DropResult(w)) \/ UNCHANGED vars
      PROVE  Quiet
  BY <1>6 DEF DropResult, vars, Quiet, SameOwner
<1> QED
  BY <1>1, <1>2, <1>3, <1>4, <1>5, <1>6, NewOwner, QuietSteps, QuietOwners DEF Next
-----------------------------------------------------------------------------
(***************************************************************************)
(* The names of a session.  Only adorn_name() makes one.                   *)
(***************************************************************************)
SameNames ==
  /\ \A s \in Slots : slot'[s].conn = slot[s].conn /\ slot'[s].unique_id = slot[s].unique_id
  /\ \A h \in Handles :
       /\ handle'[h].names = handle[h].names
       /\ handle'[h].state = "unused" => handle[h].state = "unused"

LEMMA SameNamesSteps ==
  ASSUME ConnectionAssumption, Types, Owners, NEW s \in Slots,
         \/ Process(s) \/ BeginTransaction(s) \/ EndTransaction(s)
         \/ AddReceiver(s) \/ RemoveReceiver(s) \/ ConnectionBreaks(s)
         \/ MakeResult(s) \/ Notice(s)
         \/ \E e \in Handlers : AddErrorhandler(e, s)
  PROVE  SameNames
<1>1. Quiet
  BY QuietSteps
<1>2. \A u \in Slots : slot'[u].conn = slot[u].conn /\ slot'[u].unique_id = slot[u].unique_id
  BY DEF Process, BeginTransaction, EndTransaction, AddReceiver, RemoveReceiver,
       ConnectionBreaks, MakeResult, Notice, AddErrorhandler, Types, SlotType
<1>3. \A h \in Handles : handle'[h].names = handle[h].names
  <2>1. CASE UNCHANGED handle
    BY <2>1
  <2>2. CASE Process(s)
    <3>1. slot[s].conn \in Handles
      BY <2>2 DEF Process, Types, SlotType
    <3>2. CASE \E supported \in BOOLEAN : handle' = Started(slot[s].conn, "open", supported)
      BY <3>1, <3>2, StartedIs, Zenon
    <3>3. CASE handle' = [handle EXCEPT ![slot[s].conn].state = "bad"] \/ UNCHANGED handle
      BY <3>1, <3>3 DEF Types, HandleType
    <3> QED
      BY <2>2, <3>2, <3>3 DEF Process
  <2>3. CASE ConnectionBreaks(s)
    <3>1. slot[s].conn \in Handles
      BY <2>3 DEF ConnectionBreaks, Usable, Types, SlotType
    <3> QED
      BY <2>3, <3>1 DEF ConnectionBreaks, Types, HandleType
  <2> QED
    BY <2>1, <2>2, <2>3 DEF BeginTransaction, EndTransaction, AddReceiver, RemoveReceiver,
         MakeResult, Notice, AddErrorhandler
<1> QED
  BY <1>1, <1>2, <1>3 DEF Quiet, SameNames, Unfinished

LEMMA SameNamesKeeps ==
  ASSUME ConnectionAssumption, Types, Names, SameNames
  PROVE  Names'
<1>1. \A s \in Slots : slot[s].conn \in Handles \cup {Null}
  BY DEF Types, SlotType
<1> QED
  BY <1>1 DEF Names, SameNames

LEMMA NamesStep ==
  ASSUME ConnectionAssumption, Types, Types', Owners, Names, [Next]_vars
  PROVE  Names'
<1>0. \A s \in Slots : slot[s].conn \in Handles \cup {Null}
  BY DEF Types, SlotType
<1>1. ASSUME NEW s \in Slots, AdornName(s)
      PROVE  Names'
  <2>1. /\ slot[s].conn \in Handles /\ slot[s].conn # Null
        /\ slot[s].unique_id \in Nat /\ handle[slot[s].conn].names \subseteq Nat
        /\ handle[slot[s].conn].state = "open"
    BY <1>1 DEF AdornName, Usable, Types, SlotType, HandleType
  <2>2. /\ handle'[slot[s].conn].names = handle[slot[s].conn].names \cup {slot[s].unique_id + 1}
        /\ handle'[slot[s].conn].state = "open"
        /\ \A h \in Handles : h # slot[s].conn => handle'[h] = handle[h]
    BY <1>1, <2>1 DEF AdornName, Types, HandleType
  <2>3. /\ slot'[s].unique_id = slot[s].unique_id + 1
        /\ \A u \in Slots : slot'[u].conn = slot[u].conn
        /\ \A u \in Slots \ {s} : slot'[u] = slot[u]
    BY <1>1 DEF AdornName, Types, SlotType
  <2>4. \A u \in Slots \ {s} : slot[u].conn # slot[s].conn
    BY <2>1 DEF Owners, OneOwner
  <2>5. \A h \in Handles : handle'[h].state = "unused" => handle'[h].names = {}
    BY <2>2 DEF Names
  <2>6. \A n \in handle'[slot'[s].conn].names : n <= slot'[s].unique_id
    BY <2>1, <2>2, <2>3 DEF Names
  <2>7. \A u \in Slots \ {s} : slot'[u].conn # Null =>
          \A n \in handle'[slot'[u].conn].names : n <= slot'[u].unique_id
    BY <1>0, <2>2, <2>3, <2>4 DEF Names
  <2> QED
    BY <2>5, <2>6, <2>7 DEF Names
<1>2. ASSUME NEW s \in Slots, Release(s)
      PROVE  Names'
  <2>1. /\ slot[s].conn \in Handles => handle'[slot[s].conn].state = "finished"
        /\ \A h \in Handles : h # slot[s].conn => handle'[h] = handle[h]
    BY <1>2, FinishedIs DEF Release
  <2>2. \A u \in Slots \ {s} : slot[u].conn # Null => slot[u].conn # slot[s].conn
    BY DEF Owners, OneOwner
  <2> QED
    BY <1>0, <1>2, <2>1, <2>2 DEF Names, Release
<1>3. ASSUME NEW s \in Slots, NEW t \in Slots, Transfer(t, s)
      PROVE  Names'
  <2>1. /\ slot[t].conn \in Handles => handle'[slot[t].conn].state = "finished"
        /\ \A h \in Handles : h # slot[t].conn => handle'[h] = handle[h]
    BY <1>3, FinishedIs DEF Transfer
  <2>2. \A u \in Slots \ {t} : slot[u].conn # Null => slot[u].conn # slot[t].conn
    BY DEF Owners, OneOwner
  <2>3. ASSUME NEW u \in Slots, slot'[u].conn # Null
        PROVE  \A n \in handle'[slot'[u].conn].names : n <= slot'[u].unique_id
    <3>1. PICK v \in Slots \ {t} :
            slot'[u].conn = slot[v].conn /\ slot'[u].unique_id = slot[v].unique_id
      BY <1>3, <2>3 DEF Transfer
    <3> QED
      BY <1>0, <2>1, <2>2, <2>3, <3>1 DEF Names
  <2> QED
    BY <2>1, <2>3 DEF Names
<1>4. ASSUME NEW s \in Slots, NEW h \in Handles, Connect(s, h) \/ StartConnecting(s, h)
      PROVE  Names'
  <2>1. PICK state \in {"starting", "open", "finished"}, supported \in BOOLEAN :
          handle' = Started(h, state, supported)
    <3>1. CASE Connect(s, h)
      BY <3>1 DEF Connect, Acceptable
    <3>2. CASE StartConnecting(s, h)
      BY <3>2 DEF StartConnecting
    <3> QED
      BY <1>4, <3>1, <3>2
  <2>2. /\ handle'[h].state = state /\ handle'[h].names = handle[h].names
        /\ \A g \in Handles : g # h => handle'[g] = handle[g]
    BY <2>1, StartedIs, Zenon
  <2>3. handle[h].state = "unused"
    BY <1>4 DEF Connect, StartConnecting
  <2>4. handle'[h].names = {}
    BY <2>2, <2>3 DEF Names
  <2>5. \A u \in Slots : slot'[u] = slot[u] \/ slot'[u].conn = h
    <3>1. CASE Connect(s, h)
      BY <3>1, ConnectionIs DEF Connect, Types
    <3>2. CASE StartConnecting(s, h)
      <4>1. slot' = slot \/ slot' = [slot EXCEPT ![s] =
              [Connection(h) EXCEPT !.connecting = TRUE, !.wait = "write"]]
        BY <3>2 DEF StartConnecting
      <4> QED
        BY <4>1, ConnectingIs DEF Types
    <3> QED
      BY <1>4, <3>1, <3>2
  <2>6. \A u \in Slots : slot[u].conn # h
    BY <2>3 DEF Owners, OwnUnfinished, Unfinished, ConnectionAssumption
  <2> QED
    BY <1>0, <2>2, <2>3, <2>4, <2>5, <2>6 DEF Names
<1>5. ASSUME NEW s \in Slots, NEW t \in Slots, MoveConstruct(t, s)
      PROVE  Names'
  <2>1. CASE Settled(s)
    BY <1>5, <2>1, <1>3, MoveIsTransfer DEF MoveConstruct
  <2>2. CASE ~Settled(s)
    <3>1. SameNames
      BY <1>5, <2>2 DEF MoveConstruct, SameNames, Types, SlotType
    <3> QED
      BY <3>1, SameNamesKeeps
  <2> QED
    BY <2>1, <2>2
<1>6. ASSUME NEW s \in Slots, NEW t \in Slots, Produce(t, s) \/ MoveAssign(t, s)
      PROVE  Names'
  BY <1>6, <1>2, <1>3, ProduceIs, AssignIsTransfer
<1>7. ASSUME NEW s \in Slots, Close(s) \/ Destroy(s)
      PROVE  Names'
  BY <1>7, <1>2, CloseIsRelease
<1>8. ASSUME \/ \E e \in Handlers : DestroyErrorhandler(e)
             \/ \E w \in Handles : DropResult(w)
             \/ UNCHANGED vars
      PROVE  SameNames
  BY <1>8 DEF DestroyErrorhandler, DropResult, vars, SameNames
<1> QED
  BY <1>1, <1>4, <1>5, <1>6, <1>7, <1>8, SameNamesSteps, SameNamesKeeps DEF Next

-----------------------------------------------------------------------------
(***************************************************************************)
(* The notice_waiters and the error handlers, in a program that moves no   *)
(* connection with a transaction or error handlers.                        *)
(***************************************************************************)
Ruled == Rules = {"transaction", "errorhandler"}

(***************************************************************************)
(* close() unregisters the error handlers of that connection and no other. *)
(***************************************************************************)
LEMMA CloseHandleIs ==
  ASSUME ConnectionAssumption, Types, Owners, Homes, NEW s \in Slots, CloseHandle(s)
  PROVE  /\ \A w \in Handles : list'[w] = IF w = slot[s].waiters THEN {} ELSE list[w]
         /\ \A e \in Handlers : home'[e] = IF home[e] = s THEN Null ELSE home[e]
         /\ ~wild'
<1>1. slot[s].conn \in Handles \cup {Null} /\ slot[s].waiters \in Handles \cup {Null}
  BY DEF Types, SlotType
<1>2. CASE slot[s].waiters = Null \/ slot[s].conn = Null
  <2>1. Listed(s) = {}
    BY <1>2 DEF Listed
  <2>2. \A e \in Handlers : home[e] # s
    BY <1>1, <1>2 DEF Homes, HomeLists, EmptyLists
  <2>3. list' = list
    BY <2>1 DEF CloseHandle, Unregister, Types
  <2>4. slot[s].waiters \in Handles => list[slot[s].waiters] = {}
    BY <1>1, <1>2 DEF Homes, EmptyLists, ConnectionAssumption
  <2>5. ~wild'
    BY <2>1 DEF CloseHandle, Homes
  <2> QED
    BY <2>1, <2>2, <2>3, <2>4, <2>5 DEF CloseHandle
<1>3. CASE slot[s].waiters \in Handles /\ slot[s].conn # Null
  <2>1. \A e \in list[slot[s].waiters] : home[e] = s
    BY <1>3 DEF Homes, ListedAtHome, Owners, OneHolder, ConnectionAssumption
  <2>2. Listed(s) = list[slot[s].waiters]
    BY <1>3, <2>1 DEF Listed, ConnectionAssumption
  <2>3. \A e \in Handlers : e \in Listed(s) <=> home[e] = s
    BY <1>3, <2>1, <2>2 DEF Homes, HomeLists, Types
  <2>4. \A e \in Listed(s) : ~Unreachable(e) /\ slot[home[e]].waiters = slot[s].waiters
    <3>1. slot[s].live /\ slot[s].waiters # Null
      BY <1>3 DEF Owners, EmptyIsDead, Dead, ConnectionAssumption
    <3> QED
      BY <2>1, <2>2, <3>1 DEF Unreachable
  <2>5. list[slot[s].waiters] \subseteq Handlers
    BY <1>3 DEF Types
  <2>6. \A w \in Handles : list'[w] = IF w = slot[s].waiters THEN {} ELSE list[w]
    <3>1. \A w \in Handles :
            list'[w] = list[w] \ {e \in Listed(s) : ~Unreachable(e) /\ slot[home[e]].waiters = w}
      BY DEF CloseHandle, Unregister
    <3>2. \A w \in Handles : w = slot[s].waiters => list'[w] = {}
      BY <2>2, <2>4, <3>1
    <3>3. ASSUME NEW w \in Handles, w # slot[s].waiters
          PROVE  list'[w] = list[w]
      <4>1. {e \in Listed(s) : ~Unreachable(e) /\ slot[home[e]].waiters = w} = {}
        BY <2>4, <3>3
      <4> QED
        BY <3>1, <4>1
    <3> QED
      BY <3>2, <3>3
  <2>7. ~wild'
    BY <2>4 DEF CloseHandle, Homes
  <2> QED
    BY <2>3, <2>6, <2>7 DEF CloseHandle
<1> QED
  BY <1>1, <1>2, <1>3

(***************************************************************************)
(* A connection that gives its notice_waiters away or loses them has no    *)
(* error handler left.                                                     *)
(***************************************************************************)
LEMMA TransferHomes ==
  ASSUME ConnectionAssumption, Types, Types', Owners, Homes,
         NEW s \in Slots, NEW t \in Slots, Transfer(t, s),
         \A w \in Handles : w \in {slot[s].waiters, slot[t].waiters} => list[w] = {},
         UNCHANGED <<list, home>>, ~wild'
  PROVE  Homes'
<1>0. \A u \in Slots : slot[u].waiters \in Handles \cup {Null}
  BY DEF Types, SlotType
<1>1. \A e \in Handlers : home[e] \notin {s, t}
  BY <1>0 DEF Homes, HomeLists
<1>2. OwnWaiters'
  BY DEF Homes, OwnWaiters, Transfer
<1>3. EmptyLists'
  <2>1. \A w \in Handles : handle'[w].state = "unused" => handle[w].state = "unused"
    BY FinishedIs DEF Transfer
  <2>2. \A w \in Handles : handle'[w].state = "unused" => list'[w] = {}
    BY <2>1 DEF Homes, EmptyLists
  <2>3. ASSUME NEW u \in Slots, slot'[u].waiters # Null,
               slot'[u].conn = Null \/ slot'[u].connecting
        PROVE  list'[slot'[u].waiters] = {}
    <3>1. CASE u \in {s, t}
      BY <1>0, <2>3, <3>1 DEF Transfer
    <3>2. CASE u \notin {s, t}
      BY <1>0, <2>3, <3>2 DEF Transfer, Homes, EmptyLists
    <3> QED
      BY <3>1, <3>2
  <2> QED
    BY <2>2, <2>3 DEF EmptyLists
<1>4. ListedAtHome'
  <2> SUFFICES ASSUME NEW w \in Handles, NEW e \in list[w]
               PROVE  home[e] \in Slots /\ slot'[home[e]].waiters = w
    BY DEF ListedAtHome
  <2>1. home[e] \in Slots \ {s, t} /\ slot[home[e]].waiters = w
    BY <1>1 DEF Homes, ListedAtHome, Types
  <2> QED
    BY <2>1 DEF Transfer
<1>5. HomeLists'
  <2> SUFFICES ASSUME NEW e \in Handlers, home[e] \in Slots
               PROVE  slot'[home[e]].waiters # Null /\ e \in list[slot'[home[e]].waiters]
    BY DEF HomeLists
  <2>1. slot'[home[e]] = slot[home[e]]
    BY <1>1 DEF Transfer
  <2> QED
    BY <2>1 DEF Homes, HomeLists
<1> QED
  BY <1>2, <1>3, <1>4, <1>5 DEF Homes

(***************************************************************************)
(* A connection that is closed or destroyed has no error handler left.     *)
(***************************************************************************)
LEMMA ReleaseHomes ==
  ASSUME ConnectionAssumption, Types, Types', Owners, Homes, NEW s \in Slots, Release(s), ~wild',
         \A w \in Handles : list'[w] = IF w = slot[s].waiters THEN {} ELSE list[w],
         \A e \in Handlers : home'[e] = IF home[e] = s THEN Null ELSE home[e]
  PROVE  Homes'
<1>0. \A u \in Slots : slot[u].waiters \in Handles \cup {Null}
  BY DEF Types, SlotType
<1>1. \A u \in Slots \ {s} : slot[u].waiters # Null => slot[u].waiters # slot[s].waiters
  BY DEF Owners, OneHolder
<1>2. OwnWaiters'
  BY DEF Homes, OwnWaiters, Release
<1>3. EmptyLists'
  <2>1. \A w \in Handles : handle'[w].state = "unused" => handle[w].state = "unused"
    BY FinishedIs DEF Release
  <2>2. \A w \in Handles : handle'[w].state = "unused" => list'[w] = {}
    BY <2>1 DEF Homes, EmptyLists
  <2>3. ASSUME NEW u \in Slots, slot'[u].waiters # Null,
               slot'[u].conn = Null \/ slot'[u].connecting
        PROVE  list'[slot'[u].waiters] = {}
    BY <1>0, <1>1, <2>3 DEF Release, Homes, EmptyLists
  <2> QED
    BY <2>2, <2>3 DEF EmptyLists
<1>4. ListedAtHome'
  <2> SUFFICES ASSUME NEW w \in Handles, NEW e \in list'[w]
               PROVE  home'[e] \in Slots /\ slot'[home'[e]].waiters = w
    BY DEF ListedAtHome
  <2>1. e \in list[w] /\ w # slot[s].waiters /\ e \in Handlers
    BY DEF Types
  <2>2. home[e] \in Slots /\ slot[home[e]].waiters = w /\ home[e] # s
    BY <2>1 DEF Homes, ListedAtHome
  <2> QED
    BY <2>1, <2>2 DEF Release
<1>5. HomeLists'
  <2> SUFFICES ASSUME NEW e \in Handlers, home'[e] \in Slots
               PROVE  slot'[home'[e]].waiters # Null /\ e \in list'[slot'[home'[e]].waiters]
    BY DEF HomeLists
  <2>1. home'[e] = home[e] /\ home[e] # s
    BY DEF ConnectionAssumption
  <2>2. slot'[home[e]] = slot[home[e]]
    BY <2>1 DEF Release
  <2>3. slot[home[e]].waiters \in Handles /\ e \in list[slot[home[e]].waiters]
    BY <1>0, <2>1 DEF Homes, HomeLists
  <2> QED
    BY <1>1, <2>1, <2>2, <2>3 DEF Homes, HomeLists
<1> QED
  BY <1>2, <1>3, <1>4, <1>5 DEF Homes
(***************************************************************************)
(* The steps that leave the owners alone keep the lists as well, or enter  *)
(* an error handler and its m_home together.                               *)
(***************************************************************************)
LEMMA QuietHomes ==
  ASSUME ConnectionAssumption, Types, Homes, Quiet, UNCHANGED <<list, home>>, ~wild'
  PROVE  Homes'
<1>0. \A u \in Slots : slot[u].waiters \in Handles \cup {Null}
  BY DEF Types, SlotType
<1>1. \A u \in Slots : SameOwner(u)
  BY DEF Quiet
<1>2. \A h \in Handles : handle'[h].state = "unused" => handle[h].state = "unused"
  BY DEF Quiet, Unfinished
<1>3. OwnWaiters'
  BY <1>1 DEF Homes, OwnWaiters, SameOwner
<1>4. EmptyLists'
  BY <1>0, <1>1, <1>2 DEF Homes, EmptyLists, SameOwner
<1>5. ListedAtHome'
  BY <1>1 DEF Homes, ListedAtHome, SameOwner
<1>6. HomeLists'
  BY <1>1 DEF Homes, HomeLists, SameOwner
<1> QED
  BY <1>3, <1>4, <1>5, <1>6 DEF Homes

LEMMA EnterHomes ==
  ASSUME ConnectionAssumption, Types, Owners, Homes,
         NEW s \in Slots, NEW e \in Handlers, AddErrorhandler(e, s)
  PROVE  Homes'
<1>1. /\ slot[s].waiters \in Handles /\ slot[s].conn # Null /\ ~slot[s].connecting
      /\ handle[slot[s].conn].state = "open" /\ home[e] = "unmade"
  BY DEF AddErrorhandler, Usable, Types, SlotType
<1>2. /\ list'[slot[s].waiters] = list[slot[s].waiters] \cup {e}
      /\ \A w \in Handles : w # slot[s].waiters => list'[w] = list[w]
      /\ home'[e] = s /\ \A f \in Handlers : f # e => home'[f] = home[f]
      /\ UNCHANGED <<slot, handle, wild>>
  BY <1>1 DEF AddErrorhandler, Types
<1>3. \A w \in Handles : e \notin list[w]
  BY <1>1 DEF Homes, ListedAtHome, ConnectionAssumption
<1>4. EmptyLists'
  <2>1. slot[s].waiters = slot[s].conn
    BY <1>1 DEF Homes, OwnWaiters
  <2>2. \A w \in Handles : handle[w].state = "unused" => list'[w] = {}
    BY <1>1, <1>2, <2>1 DEF Homes, EmptyLists
  <2>3. ASSUME NEW u \in Slots, slot[u].waiters # Null, slot[u].conn = Null \/ slot[u].connecting
        PROVE  list'[slot[u].waiters] = {}
    <3>1. u # s /\ slot[u].waiters # slot[s].waiters /\ slot[u].waiters \in Handles
      BY <1>1, <2>3 DEF Owners, OneHolder, Types, SlotType
    <3> QED
      BY <1>2, <2>3, <3>1 DEF Homes, EmptyLists
  <2> QED
    BY <1>2, <2>2, <2>3 DEF EmptyLists
<1>5. ListedAtHome'
  BY <1>1, <1>2, <1>3 DEF Homes, ListedAtHome, Types
<1>6. HomeLists'
  <2> SUFFICES ASSUME NEW f \in Handlers, home'[f] \in Slots
               PROVE  slot[home'[f]].waiters # Null /\ f \in list'[slot[home'[f]].waiters]
    BY <1>2 DEF HomeLists
  <2>1. CASE f = e
    BY <1>1, <1>2, <2>1 DEF ConnectionAssumption
  <2>2. CASE f # e
    <3>1. slot[home[f]].waiters # Null /\ f \in list[slot[home[f]].waiters]
      BY <1>2, <2>2 DEF Homes, HomeLists
    <3>2. slot[home[f]].waiters \in Handles
      BY <1>2, <2>2, <3>1 DEF Types, SlotType
    <3> QED
      BY <1>1, <1>2, <2>2, <3>1, <3>2
  <2> QED
    BY <2>1, <2>2
<1> QED
  BY <1>2, <1>4, <1>5, <1>6 DEF Homes, OwnWaiters

LEMMA LeaveHomes ==
  ASSUME ConnectionAssumption, Types, Owners, Homes, NEW e \in Handlers, DestroyErrorhandler(e)
  PROVE  Homes'
<1>1. UNCHANGED <<slot, handle>> /\ home'[e] = "gone" /\ \A f \in Handlers : f # e => home'[f] = home[f]
  BY DEF DestroyErrorhandler, Types
<1>2. "gone" \notin Slots
  BY DEF ConnectionAssumption
<1>3. /\ ~wild'
      /\ \A w \in Handles : list'[w] = list[w] \ {e}
  <2>1. CASE home[e] = Null
    <3>1. \A w \in Handles : e \notin list[w]
      BY <2>1 DEF Homes, ListedAtHome, ConnectionAssumption
    <3> QED
      BY <2>1, <3>1 DEF DestroyErrorhandler, Homes
  <2>2. CASE home[e] \in Slots
    <3>1. ~Unreachable(e)
      <4>1. slot[home[e]].waiters # Null
        BY <2>2 DEF Homes, HomeLists
      <4>2. slot[home[e]].live
        BY <2>2, <4>1 DEF Owners, EmptyIsDead, Dead
      <4> QED
        BY <4>1, <4>2 DEF Unreachable
    <3>2. home[e] # Null
      BY <2>2 DEF ConnectionAssumption
    <3>3. \A w \in Handles :
            list'[w] = list[w] \ {f \in {e} : ~Unreachable(f) /\ slot[home[f]].waiters = w}
      BY <3>2 DEF DestroyErrorhandler, Unregister
    <3>4. \A w \in Handles : e \in list[w] => slot[home[e]].waiters = w
      BY DEF Homes, ListedAtHome
    <3>5. \A w \in Handles : list'[w] = list[w] \ {e}
      BY <3>1, <3>3, <3>4
    <3>6. ~wild'
      BY <3>1, <3>2 DEF DestroyErrorhandler, Homes
    <3> QED
      BY <3>5, <3>6
  <2> QED
    BY <2>1, <2>2 DEF DestroyErrorhandler
<1>4. OwnWaiters'
  BY <1>1 DEF Homes, OwnWaiters
<1>5. EmptyLists'
  <2>1. \A u \in Slots : slot[u].waiters \in Handles \cup {Null}
    BY DEF Types, SlotType
  <2> QED
    BY <1>1, <1>3, <2>1 DEF Homes, EmptyLists
<1>6. ListedAtHome'
  BY <1>1, <1>3 DEF Homes, ListedAtHome, Types
<1>7. HomeLists'
  <2> SUFFICES ASSUME NEW f \in Handlers, home'[f] \in Slots
               PROVE  slot[home'[f]].waiters # Null /\ f \in list'[slot[home'[f]].waiters]
    BY <1>1 DEF HomeLists
  <2>1. f # e
    BY <1>1, <1>2
  <2>2. slot[home[f]].waiters # Null /\ f \in list[slot[home[f]].waiters]
    BY <1>1, <2>1 DEF Homes, HomeLists
  <2>3. slot[home[f]].waiters \in Handles
    BY <1>1, <2>1, <2>2 DEF Types, SlotType
  <2> QED
    BY <1>1, <1>3, <2>1, <2>2, <2>3
<1> QED
  BY <1>3, <1>4, <1>5, <1>6, <1>7 DEF Homes

(***************************************************************************)
(* A new connection starts with the notice_waiters of its handle and no    *)
(* error handler.                                                          *)
(***************************************************************************)
LEMMA NewHomes ==
  ASSUME ConnectionAssumption, Types, Types', Owners, Homes,
         NEW s \in Slots, NEW h \in Handles, Connect(s, h) \/ StartConnecting(s, h)
  PROVE  Homes'
<1>1. /\ ~slot[s].live /\ handle[h].state = "unused"
      /\ \A g \in Handles : handle'[g].state = "unused" => handle[g].state = "unused"
      /\ \A u \in Slots : u # s => slot'[u] = slot[u]
      /\ slot'[s] = slot[s] \/ (slot'[s].conn = h /\ slot'[s].waiters = h)
      /\ UNCHANGED <<list, home, wild>>
  BY NewOwnerIs DEF Connect, StartConnecting
<1>2. h # Null /\ slot[s] = Dead /\ list[h] = {}
  BY <1>1 DEF Owners, EmptyIsDead, ConnectionAssumption, Homes, EmptyLists
<1>3. \A u \in Slots : slot[u].waiters \in Handles \cup {Null}
  BY DEF Types, SlotType
<1>4. \A e \in Handlers : home[e] # s
  BY <1>2 DEF Homes, HomeLists, Dead
<1>5. OwnWaiters'
  BY <1>1 DEF Homes, OwnWaiters
<1>6. EmptyLists'
  BY <1>1, <1>2, <1>3 DEF Homes, EmptyLists
<1>7. ListedAtHome'
  BY <1>1, <1>4 DEF Homes, ListedAtHome, Types
<1>8. HomeLists'
  BY <1>1, <1>4 DEF Homes, HomeLists
<1> QED
  BY <1>1, <1>5, <1>6, <1>7, <1>8 DEF Homes

LEMMA HomesStep ==
  ASSUME ConnectionAssumption, Ruled, Types, Types', Owners, Homes, [Next]_vars
  PROVE  Homes'
<1>0. \A s \in Slots : slot[s].waiters \in Handles \cup {Null}
  BY DEF Types, SlotType
<1>1. ASSUME NEW s \in Slots, NEW t \in Slots, MoveConstruct(t, s)
      PROVE  Homes'
  <2>1. Settled(s) /\ (slot[s].waiters # Null => list[slot[s].waiters] = {})
    BY <1>1 DEF MoveConstruct, Movable, Ruled
  <2>2. slot[t].waiters = Null
    BY <1>1 DEF MoveConstruct, Owners, EmptyIsDead, Dead
  <2>3. Transfer(t, s)
    BY <1>1, <2>1, MoveIsTransfer DEF MoveConstruct
  <2> QED
    BY <1>0, <1>1, <2>1, <2>2, <2>3, TransferHomes DEF MoveConstruct, ConnectionAssumption, Homes
<1>2. ASSUME NEW s \in Slots, NEW t \in Slots, Produce(t, s)
      PROVE  Homes'
  <2>1. UNCHANGED <<list, home, wild>> /\ ~slot[t].live
    BY <1>2 DEF Produce
  <2>2. slot[s].waiters \in Handles => list[slot[s].waiters] = {}
    BY <1>2, ProduceIs DEF Homes, EmptyLists, ConnectionAssumption
  <2>3. slot[t].waiters = Null
    BY <2>1 DEF Owners, EmptyIsDead, Dead
  <2>4. CASE Transfer(t, s)
    BY <2>1, <2>2, <2>3, <2>4, TransferHomes DEF ConnectionAssumption, Homes
  <2>5. CASE Release(s)
    <3>1. \A e \in Handlers : home[e] # s
      BY <1>0, <2>2 DEF Homes, HomeLists
    <3>2. \A w \in Handles : list'[w] = IF w = slot[s].waiters THEN {} ELSE list[w]
      BY <2>1, <2>2
    <3>3. \A e \in Handlers : home'[e] = IF home[e] = s THEN Null ELSE home[e]
      BY <2>1, <3>1
    <3>4. ~wild'
      BY <2>1 DEF Homes
    <3> QED
      BY <2>5, <3>2, <3>3, <3>4, ReleaseHomes
  <2> QED
    BY <1>2, <2>4, <2>5, ProduceIs
<1>3. ASSUME NEW s \in Slots, NEW t \in Slots, MoveAssign(t, s)
      PROVE  Homes'
  <2>1. /\ slot[s].waiters \in Handles => list[slot[s].waiters] = {}
        /\ slot[t].waiters \in Handles => list[slot[t].waiters] = {}
    BY <1>3 DEF MoveAssign, Movable, Ruled, ConnectionAssumption
  <2>2. \A e \in Handlers : home[e] # t
    BY <1>0, <2>1 DEF Homes, HomeLists
  <2>3. /\ \A w \in Handles : list'[w] = list[w]
        /\ \A e \in Handlers : home'[e] = home[e]
        /\ ~wild'
    <3>1. CloseHandle(t)
      BY <1>3 DEF MoveAssign
    <3>2. /\ \A w \in Handles : list'[w] = IF w = slot[t].waiters THEN {} ELSE list[w]
          /\ \A e \in Handlers : home'[e] = IF home[e] = t THEN Null ELSE home[e]
          /\ ~wild'
      BY <3>1, CloseHandleIs
    <3> QED
      BY <2>1, <2>2, <3>2
  <2>4. list' = list /\ home' = home
    BY <1>3, <2>3 DEF MoveAssign, CloseHandle, Unregister, Types
  <2>5. Transfer(t, s)
    BY <1>3, AssignIsTransfer
  <2> QED
    BY <2>1, <2>3, <2>4, <2>5, TransferHomes
<1>4. ASSUME NEW s \in Slots, Close(s) \/ Destroy(s)
      PROVE  Homes'
  BY <1>4, CloseIsRelease, CloseHandleIs, ReleaseHomes DEF Close, Destroy
<1>5. ASSUME NEW s \in Slots, Notice(s)
      PROVE  Homes'
  <2>1. slot[s].conn \in Handles
    BY <1>5 DEF Notice, Usable, Types, SlotType
  <2>2. \A e \in list[slot[s].conn] : home[e] # "gone"
    BY <2>1 DEF Homes, ListedAtHome, ConnectionAssumption
  <2>3. ~wild'
    BY <1>5, <2>2 DEF Notice, Homes
  <2>4. Quiet
    BY <1>5, QuietSteps
  <2> QED
    BY <1>5, <2>3, <2>4, QuietHomes DEF Notice
<1>6. ASSUME NEW s \in Slots,
             \/ Process(s) \/ BeginTransaction(s) \/ EndTransaction(s)
             \/ AddReceiver(s) \/ RemoveReceiver(s) \/ ConnectionBreaks(s)
             \/ MakeResult(s) \/ AdornName(s)
      PROVE  Homes'
  <2>1. Quiet
    BY <1>6, QuietSteps
  <2>2. UNCHANGED <<list, home, wild>>
    BY <1>6 DEF Process, BeginTransaction, EndTransaction, AddReceiver, RemoveReceiver,
         ConnectionBreaks, MakeResult, AdornName
  <2> QED
    BY <2>1, <2>2, QuietHomes DEF Homes
<1>7. ASSUME (\E w \in Handles : DropResult(w)) \/ UNCHANGED vars
      PROVE  Homes'
  <2>1. Quiet /\ UNCHANGED <<list, home, wild>>
    BY <1>7 DEF DropResult, vars, Quiet, SameOwner
  <2> QED
    BY <2>1, QuietHomes DEF Homes
<1> QED
  BY <1>1, <1>2, <1>3, <1>4, <1>5, <1>6, <1>7, NewHomes, EnterHomes, LeaveHomes DEF Next

-----------------------------------------------------------------------------
(***************************************************************************)
(* The theorems.                                                           *)
(***************************************************************************)
LEMMA InitOwned ==
  ASSUME ConnectionAssumption, Init
  PROVE  Types /\ Owners /\ Names /\ Homes
<1>1. Types
  BY DeadTyped DEF Init, Types, HandleType
<1>2. /\ \A s \in Slots : slot[s].conn = Null /\ slot[s].waiters = Null /\ slot[s] = Dead
      /\ \A h \in Handles : handle[h].state = "unused" /\ handle[h].names = {} /\ list[h] = {}
      /\ \A e \in Handlers : home[e] \notin Slots
      /\ ~wild
  BY DEF Init, Dead, ConnectionAssumption
<1>3. Owners
  BY <1>2 DEF Owners, EmptyIsDead, OwnUnfinished, OneOwner, HasOwner, WaitersInUse, OneHolder,
       Unfinished
<1>4. Names
  BY <1>2 DEF Names
<1>5. Homes
  BY <1>2 DEF Homes, OwnWaiters, EmptyLists, ListedAtHome, HomeLists
<1> QED
  BY <1>1, <1>3, <1>4, <1>5

LEMMA AlwaysOwned ==
  ASSUME ConnectionAssumption
  PROVE  Spec => [](Types /\ Owners /\ Names)
<1>1. Init => Types /\ Owners /\ Names
  BY InitOwned
<1>2. Types /\ Owners /\ Names /\ [Next]_vars => (Types /\ Owners /\ Names)'
  BY TypesStep, OwnersStep, NamesStep
<1> QED
  BY <1>1, <1>2, PTL DEF Spec

LEMMA OwnersCount ==
  ASSUME ConnectionAssumption, Types, Owners
  PROVE  OwnedOnce
<1> SUFFICES ASSUME NEW h \in Handles
             PROVE  Cardinality({s \in Slots : slot[s].live /\ slot[s].conn = h}) =
                      IF Unfinished(h) THEN 1 ELSE 0
  BY DEF OwnedOnce, Unfinished
<1>1. \A s \in Slots : slot[s].conn = h => slot[s].live
  BY DEF Owners, EmptyIsDead, Dead, ConnectionAssumption
<1>2. CASE Unfinished(h)
  <2>1. PICK s \in Slots : slot[s].conn = h
    BY <1>2 DEF Owners, HasOwner
  <2>2. {u \in Slots : slot[u].live /\ slot[u].conn = h} = {s}
    BY <1>1, <2>1 DEF Owners, OneOwner, ConnectionAssumption
  <2> QED
    BY <1>2, <2>2, FS_Singleton
<1>3. CASE ~Unfinished(h)
  <2>1. {u \in Slots : slot[u].live /\ slot[u].conn = h} = {}
    BY <1>3 DEF Owners, OwnUnfinished, ConnectionAssumption
  <2> QED
    BY <1>3, <2>1, FS_EmptySet
<1> QED
  BY <1>2, <1>3

(***************************************************************************)
(* Whatever is moved, whichever connect fails and whatever the program     *)
(* does with transactions and error handlers: a PGconn that was started    *)
(* and not yet given to PQfinish belongs to exactly one connection, and    *)
(* one that was finished to none.                                          *)
(***************************************************************************)
THEOREM ConnectionOwnedOnce ==
  ASSUME ConnectionAssumption
  PROVE  Spec => []OwnedOnce
<1>1. Types /\ Owners /\ Names => OwnedOnce
  BY OwnersCount
<1> QED
  BY <1>1, AlwaysOwned, PTL

(***************************************************************************)
(* In a program that moves no connection with a transaction or error       *)
(* handlers, every handle has one owner, its notice processor points to    *)
(* notice_waiters that exist, and no error handler is reached through a    *)
(* connection that is gone or after its own life.                          *)
(***************************************************************************)
THEOREM ConnectionHandlesOwned ==
  ASSUME ConnectionAssumption, Ruled
  PROVE  Spec => []HandlesOwned
<1>1. Init => Types /\ Owners /\ Homes
  BY InitOwned
<1>2. Types /\ Owners /\ Homes /\ [Next]_vars => (Types /\ Owners /\ Homes)'
  BY TypesStep, OwnersStep, HomesStep
<1>3. ASSUME Types, Owners, Homes
      PROVE  HandlesOwned
  <2>1. OwnedOnce
    BY <1>3, OwnersCount
  <2>2. NoticeTargetAlive
    <3> SUFFICES ASSUME NEW h \in Handles, Unfinished(h)
                 PROVE  \E s \in Slots : slot[s].live /\ slot[s].waiters = h
      BY DEF NoticeTargetAlive, Unfinished
    <3>1. PICK s \in Slots : slot[s].conn = h
      BY <1>3 DEF Owners, HasOwner
    <3>2. slot[s].waiters = h
      BY <1>3, <3>1 DEF Homes, OwnWaiters, ConnectionAssumption
    <3>3. slot[s].live
      BY <1>3, <3>1 DEF Owners, EmptyIsDead, Dead, ConnectionAssumption
    <3> QED
      BY <3>2, <3>3
  <2>3. NoWildAccess
    BY <1>3 DEF Homes, NoWildAccess
  <2> QED
    BY <2>1, <2>2, <2>3 DEF HandlesOwned
<1> QED
  BY <1>1, <1>2, <1>3, PTL DEF Spec

(***************************************************************************)
(* adorn_name() gives no name twice in one session, however often the      *)
(* connection object of the session changes: a move takes the counter of   *)
(* names with it.                                                          *)
(***************************************************************************)
THEOREM ConnectionNamesAreNew ==
  ASSUME ConnectionAssumption
  PROVE  Spec => NamesAreNew
<1>1. ASSUME Types, Names
      PROVE  NewName
  <2> SUFFICES ASSUME NEW s \in Slots, AdornName(s)
               PROVE  slot[s].unique_id + 1 \notin handle[slot[s].conn].names
    BY DEF NewName
  <2>1. slot[s].conn # Null /\ slot[s].unique_id \in Nat
    BY <1>1 DEF AdornName, Usable, Types, SlotType
  <2>2. \A n \in handle[slot[s].conn].names : n <= slot[s].unique_id
    BY <1>1, <2>1 DEF Names
  <2> QED
    BY <2>1, <2>2
<1>2. Types /\ Owners /\ Names /\ [Next]_vars => [NewName]_vars
  BY <1>1
<1> QED
  BY <1>2, AlwaysOwned, PTL DEF Spec, NamesAreNew

=============================================================================
