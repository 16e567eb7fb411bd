-------------------------- MODULE TransactionProofs -------------------------
(***************************************************************************)
(* The transaction classes, for any number of transactions one after       *)
(* another, nested to any depth, and any number of faults.                 *)
(*                                                                         *)
(* The registration with the connection is exact in every program.  What   *)
(* commit() and abort() promise holds in programs that keep the documented *)
(* rules and do without robusttransaction.  There, the transactions that   *)
(* are active lie on the server's block as on a stack (Stack), each in the *)
(* savepoint it has set or above (Holdings), and what is settled stays     *)
(* settled (Settled).                                                      *)
(*                                                                         *)
(* Large objects, which exist within transactions only, and the streams on *)
(* them are at the end: the parts "large_object" and "large_object_stream" *)
(* of MCSession.                                                           *)
(***************************************************************************)
EXTENDS MCSession, FiniteSetTheorems, SequenceTheorems, WellFoundedInduction, TLAPS

TxType ==
  [kind : {"none", "work", "nontransaction", "robust", "sub"},
   parent : Objects \cup {NoObject}, status : Statuses, alive : BOOLEAN,
   registered : BOOLEAN, focus : BOOLEAN, pending : BOOLEAN, asked : Nat]

\* The C++ objects and the pointer of the connection.
Typed == tx \in [Objects -> TxType] /\ current \in Objects \cup {NoObject}

\* An object that is gone is not registered.
Registered == \A o \in Objects : tx[o].registered => tx[o].alive

-----------------------------------------------------------------------------
(***************************************************************************)
(* Registration.                                                           *)
(***************************************************************************)
LEMMA NewTyped ==
  /\ Unborn \in TxType
  /\ \A k \in {"work", "nontransaction", "robust", "sub"} : New(k) \in TxType /\ Failed(k) \in TxType
<1>1. Unborn \in TxType
  BY DEF Unborn, TxType, Statuses
<1>2. ASSUME NEW k \in {"work", "nontransaction", "robust", "sub"}
      PROVE  New(k) \in TxType /\ Failed(k) \in TxType
  <2>1. Registers(k) \in BOOLEAN
    BY DEF Registers
  <2> QED
    BY <1>1, <1>2, <2>1 DEF New, Failed, TxType
<1> QED
  BY <1>1, <1>2

LEMMA NewIs ==
  ASSUME NEW k
  PROVE  /\ New(k).alive /\ New(k).status = "active" /\ New(k).kind = k
         /\ (New(k).registered <=> Registers(k))
         /\ New(k).parent = NoObject /\ ~New(k).pending /\ New(k).asked = 0 /\ ~New(k).focus
         /\ ~Failed(k).alive /\ Failed(k).status = "active" /\ Failed(k).kind = k
         /\ ~Failed(k).registered /\ Failed(k).parent = NoObject /\ ~Failed(k).pending
         /\ Failed(k).asked = 0 /\ ~Failed(k).focus
  BY DEF New, Failed, Unborn, Registers

LEMMA ClosedIs ==
  ASSUME Typed, NEW o \in Objects, NEW status \in Statuses
  PROVE  /\ Closed(o, status) \in [Objects -> TxType]
         /\ \A p \in Objects : p # o => Closed(o, status)[p] = tx[p]
         /\ Closed(o, status)[o].status = status
         /\ Closed(o, status)[o].kind = tx[o].kind
         /\ Closed(o, status)[o].parent = tx[o].parent
         /\ Closed(o, status)[o].alive = tx[o].alive
         /\ Closed(o, status)[o].asked = tx[o].asked
         /\ ~Closed(o, status)[o].registered /\ ~Closed(o, status)[o].pending
<1>1. Closed(o, status) = [tx EXCEPT ![o] =
        [tx[o] EXCEPT !.status = status, !.registered = FALSE, !.pending = FALSE]]
  BY DEF Closed, Typed, TxType
<1>2. [tx[o] EXCEPT !.status = status, !.registered = FALSE, !.pending = FALSE] \in TxType
  BY DEF Typed, TxType
<1> QED
  BY <1>1, <1>2 DEF Typed, TxType

LEMMA ThrewIs ==
  ASSUME Typed, NEW o \in Objects, NEW status \in Statuses, Threw(o, status)
  PROVE  /\ tx' \in [Objects -> TxType]
         /\ \A p \in Objects : p # o => tx'[p] = tx[p]
         /\ tx'[o].status = status /\ tx'[o].asked = 0
         /\ tx'[o].kind = tx[o].kind /\ tx'[o].parent = tx[o].parent
         /\ tx'[o].alive = tx[o].alive /\ tx'[o].registered = tx[o].registered
         /\ tx'[o].pending = tx[o].pending
         /\ UNCHANGED current
<1>1. tx' = [tx EXCEPT ![o] = [tx[o] EXCEPT !.status = status, !.asked = 0]]
  BY DEF Threw, Typed, TxType
<1>2. [tx[o] EXCEPT !.status = status, !.asked = 0] \in TxType
  BY DEF Typed, TxType
<1> QED
  BY <1>1, <1>2 DEF Typed, TxType, Threw

(***************************************************************************)
(* What the steps do to the registration: an object is registered, loses   *)
(* its registration with the connection's pointer, or keeps both.          *)
(***************************************************************************)
Keeps ==
  /\ current' = current
  /\ \A o \in Objects :
       /\ tx'[o].registered <=> tx[o].registered
       /\ tx[o].registered => (tx'[o].alive <=> tx[o].alive)

Enlists(o) ==
  /\ current = NoObject /\ current' = o
  /\ tx'[o].registered /\ tx'[o].alive
  /\ \A p \in Objects : p # o => tx'[p] = tx[p]

Unregisters(o) ==
  /\ current' = Unregistered(o)
  /\ ~tx'[o].registered
  /\ \A p \in Objects : p # o => tx'[p] = tx[p]

Registration == Typed /\ Registered /\ RegistrationExact

LEMMA RegistrationKept ==
  ASSUME TransactionAssumption, Registration, Typed',
         Keeps \/ (\E o \in Objects : Enlists(o) \/ Unregisters(o))
  PROVE  Registration'
<1>1. CASE Keeps
  BY <1>1 DEF Keeps, Registration, Registered, RegistrationExact
<1>2. CASE \E o \in Objects : Enlists(o)
  BY <1>2 DEF Enlists, Registration, Registered, RegistrationExact, TransactionAssumption
<1>3. CASE \E o \in Objects : Unregisters(o)
  <2>1. PICK o \in Objects : Unregisters(o)
    BY <1>3
  <2>2. CASE tx[o].registered
    BY <2>1, <2>2 DEF Unregisters, Unregistered, Registration, Registered, RegistrationExact,
         TransactionAssumption
  <2>3. CASE ~tx[o].registered
    BY <2>1, <2>3 DEF Unregisters, Unregistered, Registration, Registered, RegistrationExact
  <2> QED
    BY <2>2, <2>3
<1> QED
  BY <1>1, <1>2, <1>3

LEMMA FinishUnregisters ==
  ASSUME Typed, NEW o \in Objects, NEW status \in Statuses, Finish(o, status)
  PROVE  Typed' /\ Unregisters(o)
  BY ClosedIs DEF Finish, Typed, Unregisters, Unregistered

LEMMA ThrewKeeps ==
  ASSUME Typed, NEW o \in Objects, NEW status \in Statuses, Threw(o, status)
  PROVE  Typed' /\ Keeps
<1>1. /\ tx' \in [Objects -> TxType] /\ current' = current
      /\ \A p \in Objects : p # o => tx'[p] = tx[p]
      /\ tx'[o].alive = tx[o].alive /\ tx'[o].registered = tx[o].registered
  BY ThrewIs
<1> QED
  BY <1>1 DEF Keeps, Typed

LEMMA CommitOutcome ==
  ASSUME NEW sv, NEW o, NEW r \in Run(sv, "COMMIT", o)
  PROVE  r.out \in {"ok", "error", "class08", "unknown", "lost"}
<1>1. CASE ~sv.open
  BY <1>1 DEF Run, Reply
<1>2. CASE r \in Answers(sv, "COMMIT", o)
  BY <1>2 DEF Answers, CommitBlock, Reply
<1>3. CASE \E q \in Errors(sv, "COMMIT", o) \cup Losses(sv, "COMMIT") :
             r = [q EXCEPT !.sv.faults = @ - 1]
  <2>1. PICK q \in Errors(sv, "COMMIT", o) \cup Losses(sv, "COMMIT") :
          r = [q EXCEPT !.sv.faults = @ - 1]
    BY <1>3
  <2>2. PICK out \in {"error", "class08", "unknown", "lost"} : \E t : q = Reply(t, out)
    BY <2>1 DEF Errors, Losses
  <2> QED
    BY <2>1, <2>2 DEF Reply
<1> QED
  BY <1>1, <1>2, <1>3 DEF Run

LEMMA RegistrationStep ==
  ASSUME TransactionAssumption, Registration, [Next]_vars
  PROVE  Registration'
<1> USE DEF Registration
<1>0. Statuses = {"active", "committed", "aborted", "in_doubt"}
  BY DEF Statuses
<1>1. ASSUME NEW o \in Objects, NEW k \in Kinds, Refused(o, k)
      PROVE  Registration'
  <2>1. k \in {"work", "nontransaction", "robust", "sub"}
    BY DEF TransactionAssumption
  <2>2. tx' = [tx EXCEPT ![o] = Failed(k)] /\ tx[o] = Unborn /\ current' = current
    BY <1>1 DEF Refused, Constructs
  <2>3. Typed' /\ Keeps
    BY <2>1, <2>2, NewTyped, NewIs DEF Typed, Keeps, Unborn
  <2> QED
    BY <2>3, RegistrationKept
<1>2. ASSUME NEW o \in Objects, ConstructNontransaction(o)
      PROVE  Registration'
  <2>1. Typed' /\ Enlists(o)
    BY <1>2, NewTyped, NewIs DEF ConstructNontransaction, Typed, Enlists, Registers
  <2> QED
    BY <2>1, RegistrationKept
<1>3. ASSUME NEW o \in Objects, ConstructWork(o)
      PROVE  Registration'
  <2>1. /\ current = NoObject /\ tx[o] = Unborn
        /\ \/ tx' = [tx EXCEPT ![o] = New("work")] /\ current' = o
           \/ tx' = [tx EXCEPT ![o] = Failed("work")] /\ current' = NoObject
    BY <1>3 DEF ConstructWork, Constructs
  <2>2. Typed' /\ (Keeps \/ Enlists(o))
    BY <2>1, NewTyped, NewIs DEF Typed, Keeps, Unborn, Enlists, Registers
  <2> QED
    BY <2>2, RegistrationKept
<1>4. ASSUME NEW o \in Objects, ConstructRobust(o)
      PROVE  Registration'
  <2>1. /\ tx[o] = Unborn /\ current' = current
        /\ \/ tx' = [tx EXCEPT ![o] = New("robust")]
           \/ tx' = [tx EXCEPT ![o] = Failed("robust")]
    BY <1>4 DEF ConstructRobust, Constructs
  <2>2. Typed' /\ Keeps
    BY <2>1, NewTyped, NewIs DEF Typed, Keeps, Unborn, Registers
  <2> QED
    BY <2>2, RegistrationKept
<1>5. ASSUME NEW o \in Objects, NEW p \in Objects, Nest(o, p)
      PROVE  Registration'
  <2>1. /\ tx[o] = Unborn /\ current' = current
        /\ \E n \in {[New("sub") EXCEPT !.parent = p], Failed("sub")} :
             tx' = [tx EXCEPT ![o] = n]
    BY <1>5 DEF Nest, Constructs
  <2>2. \A n \in {[New("sub") EXCEPT !.parent = p], Failed("sub")} :
          n \in TxType /\ ~n.registered
    BY NewTyped, NewIs DEF TxType, Registers
  <2>3. PICK n : n \in TxType /\ ~n.registered /\ tx' = [tx EXCEPT ![o] = n]
    BY <2>1, <2>2
  <2>4. ~tx[o].registered
    BY <2>1 DEF Unborn
  <2>5. Typed' /\ Keeps
    BY <2>1, <2>3, <2>4 DEF Typed, Keeps
  <2> QED
    BY <2>5, RegistrationKept
<1>6. ASSUME NEW o \in Objects,
             Exec(o) \/ ExecParams(o) \/ OpenFocus(o) \/ CloseFocus(o)
      PROVE  Registration'
  <2>1. PICK f \in BOOLEAN, q \in BOOLEAN :
          current' = current /\ tx' = [tx EXCEPT ![o] = [tx[o] EXCEPT !.focus = f, !.pending = q]]
    <3>1. CASE Exec(o)
      <4>1. \/ tx' = [tx EXCEPT ![o] = [tx[o] EXCEPT !.focus = tx[o].focus, !.pending = FALSE]]
            \/ tx' = [tx EXCEPT ![o] = [tx[o] EXCEPT !.focus = tx[o].focus, !.pending = tx[o].pending]]
        BY <3>1 DEF Exec, Typed, TxType
      <4> QED
        BY <3>1, <4>1 DEF Exec, Typed, TxType
    <3>2. CASE OpenFocus(o)
      <4>1. tx' = [tx EXCEPT ![o] = [tx[o] EXCEPT !.focus = TRUE, !.pending = tx[o].pending]]
        BY <3>2 DEF OpenFocus, Typed, TxType
      <4> QED
        BY <3>2, <4>1 DEF OpenFocus, Typed, TxType
    <3>3. CASE CloseFocus(o)
      <4>1. PICK r : tx' = [tx EXCEPT ![o].focus = FALSE, ![o].pending = r.out # "ok" /\ ~Careful]
        BY <3>3 DEF CloseFocus
      <4>2. PICK q : q = (r.out # "ok" /\ ~Careful)
        OBVIOUS
      <4>3. tx' = [tx EXCEPT ![o] = [tx[o] EXCEPT !.focus = FALSE, !.pending = q]]
        BY <4>1, <4>2 DEF Typed, TxType
      <4>4. q \in BOOLEAN
        BY <4>2
      <4> QED
        BY <3>3, <4>3, <4>4 DEF CloseFocus
    <3>4. CASE ExecParams(o)
      <4>1. tx' = [tx EXCEPT ![o] = [tx[o] EXCEPT !.focus = tx[o].focus, !.pending = tx[o].pending]]
        BY <3>4 DEF ExecParams, Typed, TxType
      <4> QED
        BY <3>4, <4>1 DEF ExecParams, Typed, TxType
    <3> QED
      BY <1>6, <3>1, <3>2, <3>3, <3>4
  <2>2. [tx[o] EXCEPT !.focus = f, !.pending = q] \in TxType
    BY DEF Typed, TxType
  <2>3. Typed' /\ Keeps
    BY <2>1, <2>2 DEF Typed, TxType, Keeps
  <2> QED
    BY <2>3, RegistrationKept
<1>7. ASSUME NEW o \in Objects, Commit(o)
      PROVE  Registration'
  <2>1. CASE tx' = [tx EXCEPT ![o].pending = FALSE] /\ current' = current
    <3>1. Typed' /\ Keeps
      BY <2>1 DEF Typed, TxType, Keeps
    <3> QED
      BY <3>1, RegistrationKept
  <2>2. CASE tx' = [tx EXCEPT ![o].asked = 1] /\ current' = current
    <3>1. Typed' /\ Keeps
      BY <2>2 DEF Typed, TxType, Keeps
    <3> QED
      BY <3>1, RegistrationKept
  <2>3. CASE \E status \in Statuses : Finish(o, status) \/ Threw(o, status)
    BY <2>3, FinishUnregisters, ThrewKeeps, RegistrationKept
  <2>4. CASE DoRobustCommit(o)
    <3>1. PICK c : IF c.out # "ok"
                   THEN \E a \in DoAbort(o, c.sv, FALSE) : server' = a.sv /\ Threw(o, "aborted")
                   ELSE \E r \in Run(c.sv, "COMMIT", o) :
                          CASE r.out = "ok" ->
                                 server' = r.sv /\ Finish(o, "committed")
                            [] r.out \in {"error", "unknown"} ->
                                 \E a \in DoAbort(o, r.sv, FALSE) :
                                   server' = a.sv /\ Threw(o, "aborted")
                            [] r.out \in {"class08", "lost"} ->
                                 /\ server' = r.sv
                                 /\ tx' = [tx EXCEPT ![o].asked = 1]
                                 /\ UNCHANGED current
      BY <2>4 DEF DoRobustCommit
    <3>2. CASE c.out # "ok"
      BY <1>0, <2>3, <3>1, <3>2
    <3>3. CASE c.out = "ok"
      <4>1. PICK r \in Run(c.sv, "COMMIT", o) :
              CASE r.out = "ok" ->
                     server' = r.sv /\ Finish(o, "committed")
                [] r.out \in {"error", "unknown"} ->
                     \E a \in DoAbort(o, r.sv, FALSE) :
                       server' = a.sv /\ Threw(o, "aborted")
                [] r.out \in {"class08", "lost"} ->
                     /\ server' = r.sv
                     /\ tx' = [tx EXCEPT ![o].asked = 1]
                     /\ UNCHANGED current
        BY <3>1, <3>3
      <4>2. r.out \in {"ok", "error", "class08", "unknown", "lost"}
        BY CommitOutcome
      <4>3. CASE r.out = "ok"
        BY <1>0, <2>3, <4>1, <4>3
      <4>4. CASE r.out \in {"error", "unknown"}
        BY <1>0, <2>3, <4>1, <4>4
      <4>5. CASE r.out \in {"class08", "lost"}
        BY <2>2, <4>1, <4>5
      <4> QED
        BY <4>2, <4>3, <4>4, <4>5
    <3> QED
      BY <3>2, <3>3
  <2>5. CASE \E r : DoCommit(o, r)
    BY <2>3, <2>5, <1>0 DEF DoCommit
  <2> QED
    BY <1>7, <2>1, <2>4, <2>5 DEF Commit
<1>8. ASSUME NEW o \in Objects, Ask(o) \/ GiveUp(o)
      PROVE  Registration'
  <2>1. CASE Attempt(o)
    <3>1. Typed' /\ Keeps
      BY <2>1 DEF Attempt, Typed, TxType, Keeps
    <3> QED
      BY <3>1, RegistrationKept
  <2>2. CASE tx' = [Closed(o, "committed") EXCEPT ![o].asked = 0] /\ current' = Unregistered(o)
    <3>1. PICK c : c = Closed(o, "committed")
      OBVIOUS
    <3>2. /\ c \in [Objects -> TxType] /\ ~c[o].registered
          /\ \A p \in Objects : p # o => c[p] = tx[p]
      BY <1>0, <3>1, ClosedIs
    <3>3. [c EXCEPT ![o].asked = 0] \in [Objects -> TxType]
      BY <3>2 DEF TxType
    <3>4. Typed' /\ Unregisters(o)
      BY <2>2, <3>1, <3>2, <3>3 DEF Typed, TxType, Unregisters, Unregistered
    <3> QED
      BY <3>4, RegistrationKept
  <2>3. CASE \E status \in {"aborted", "in_doubt"} : Threw(o, status)
    BY <2>3, <1>0, ThrewKeeps, RegistrationKept
  <2> QED
    BY <1>8, <2>1, <2>2, <2>3 DEF Ask, GiveUp
<1>9. ASSUME NEW o \in Objects, Abort(o)
      PROVE  Registration'
  BY <1>9, <1>0, FinishUnregisters, RegistrationKept DEF Abort
<1>10. ASSUME NEW o \in Objects, Destroy(o)
       PROVE  Registration'
  <2>1. PICK status \in Statuses : tx' = [Closed(o, status) EXCEPT ![o].alive = FALSE]
    BY <1>10, <1>0 DEF Destroy, Typed, TxType
  <2>2. current' = Unregistered(o)
    BY <1>10 DEF Destroy
  <2>3. PICK c : c = Closed(o, status)
    OBVIOUS
  <2>4. /\ c \in [Objects -> TxType] /\ ~c[o].registered
        /\ \A p \in Objects : p # o => c[p] = tx[p]
    BY <2>3, ClosedIs
  <2>5. [c EXCEPT ![o].alive = FALSE] \in [Objects -> TxType]
    BY <2>4 DEF TxType
  <2>6. Typed' /\ Unregisters(o)
    BY <2>1, <2>2, <2>3, <2>4, <2>5 DEF Typed, TxType, Unregisters, Unregistered
  <2> QED
    BY <2>6, RegistrationKept
<1>11. ASSUME ServerDecides \/ Done \/ UNCHANGED vars
       PROVE  Registration'
  <2>1. tx' = tx /\ current' = current
    BY <1>11 DEF ServerDecides, Done, vars
  <2> QED
    BY <2>1 DEF Registered, RegistrationExact, Typed
<1> QED
  BY <1>1, <1>2, <1>3, <1>4, <1>5, <1>6, <1>7, <1>8, <1>9, <1>10, <1>11 DEF Next

(***************************************************************************)
(* The connection's pointer names the one live object that registered with *)
(* it, and never one that is gone, in every program: also one that breaks  *)
(* the documented rules or uses robusttransaction, whichever commands fail *)
(* and wherever an exception leaves a constructor or commit().             *)
(***************************************************************************)
THEOREM TransactionRegistrationExact ==
  ASSUME TransactionAssumption
  PROVE  Spec => []RegistrationExact
<1>1. Init => Registration
  BY NewTyped DEF Init, Registration, Typed, Registered, RegistrationExact, Unborn,
       TransactionAssumption
<1>2. Registration /\ [Next]_vars => Registration'
  BY RegistrationStep
<1>3. Registration => RegistrationExact
  BY DEF Registration
<1> QED
  BY <1>1, <1>2, <1>3, PTL DEF Spec

-----------------------------------------------------------------------------
(***************************************************************************)
(* Programs that keep the rules, without robusttransaction.                *)
(***************************************************************************)
Ruled == Careful = TRUE /\ "robust" \notin Kinds

LevelType == [name : Objects, holds : SUBSET Objects]

ServerType ==
  [open : BOOLEAN, block : Seq(LevelType), failed : BOOLEAN,
   fate : [Objects -> Fates], faults : Nat]

Session ==
  /\ server \in ServerType
  /\ server.failed => server.block # <<>>
  /\ ~server.open => server.block = <<>>

\* No error is left pending, no commit() is waiting, and what is active is
\* registered.
Plain ==
  \A o \in Objects :
    /\ tx[o].kind # "robust" /\ ~tx[o].pending /\ tx[o].asked = 0
    /\ tx[o].alive => tx[o].kind # "none"
    /\ tx[o].alive /\ tx[o].status = "active" /\ tx[o].kind # "sub" => tx[o].registered

Active(o) == tx[o].alive /\ tx[o].status = "active" /\ tx[o].kind \in {"work", "sub"}
Childless(o) == \A c \in Objects : Active(c) => tx[c].parent # o
At(o, i) == i \in DOMAIN server.block /\ server.block[i].name = o

\* A level for each active transaction, the outermost at the bottom.
Names ==
  \A i, j \in DOMAIN server.block :
    /\ tx[server.block[i].name].kind \in {"work", "sub"}
    /\ server.block[i].name = server.block[j].name => i = j
Bottom ==
  server.block # <<>> =>
    Active(server.block[1].name) /\ tx[server.block[1].name].kind = "work"
Placed ==
  server.open => \A o \in Objects : Active(o) =>
    \E i \in DOMAIN server.block : At(o, i) /\ o \in server.block[i].holds

\* A subtransaction lies right above its parent, and the innermost on top.
Parents ==
  \A o \in Objects : Active(o) /\ tx[o].kind = "sub" =>
    tx[o].parent \in Objects /\ Active(tx[o].parent)
Adjacent ==
  \A o, d \in Objects : \A i, j, k \in DOMAIN server.block :
    /\ Active(o) /\ tx[o].kind = "sub" /\ At(o, i) /\ At(tx[o].parent, j)
    /\ Active(d) /\ At(d, k)
    => ~(j < k /\ k < i)
OnTop ==
  \A o, d \in Objects : \A i, j \in DOMAIN server.block :
    Active(o) /\ Childless(o) /\ At(o, i) /\ Active(d) /\ At(d, j) => j <= i

Stack == Names /\ Bottom /\ Placed /\ Parents /\ Adjacent /\ OnTop

\* What a level of the block holds is not settled.  An active transaction is
\* held by its own level and those above.  One that was aborted is held only
\* while the block has failed, and above all that are active.
Holding(i, o) ==
  /\ tx[o].kind \in {"work", "sub"}
  /\ tx[o].status = "active" => tx[o].alive
  /\ tx[o].kind = "work" => tx[o].status = "active"
  /\ Active(o) => \A j \in DOMAIN server.block : At(o, j) => j <= i
  /\ tx[o].status = "aborted" =>
       /\ server.failed
       /\ \A d \in Objects : \A j \in DOMAIN server.block : Active(d) /\ At(d, j) => j < i
Holdings == \A i \in DOMAIN server.block : \A o \in server.block[i].holds : Holding(i, o)

\* What became of the writes.
Settled ==
  \A o \in Objects :
    /\ Active(o) => server.fate[o] \notin {"done", "deciding"}
    /\ tx[o].kind = "work" /\ tx[o].status = "committed" => server.fate[o] = "done"
    /\ tx[o].kind \in {"work", "sub"} /\ tx[o].status = "aborted" =>
         server.fate[o] \notin {"done", "deciding"}

Kept == Registration /\ Session /\ Plain /\ Stack /\ Holdings /\ Settled

-----------------------------------------------------------------------------
(***************************************************************************)
(* What the server's commands do.                                          *)
(***************************************************************************)
LEMMA BlockIs ==
  ASSUME Session
  PROVE  /\ Len(server.block) \in Nat /\ DOMAIN server.block = 1 .. Len(server.block)
         /\ server.block \in Seq(LevelType)
         /\ \A i \in DOMAIN server.block : server.block[i] \in LevelType
         /\ \A i \in DOMAIN server.block :
              server.block[i].name \in Objects /\ server.block[i].holds \subseteq Objects
         /\ server.block # <<>> => 1 \in DOMAIN server.block /\ Len(server.block) >= 1
<1>1. server.block \in Seq(LevelType)
  BY DEF Session, ServerType
<1>2. /\ Len(server.block) \in Nat /\ DOMAIN server.block = 1 .. Len(server.block)
      /\ \A i \in DOMAIN server.block : server.block[i] \in LevelType
      /\ server.block # <<>> => Len(server.block) >= 1
  BY <1>1
<1>3. \A i \in DOMAIN server.block :
        server.block[i].name \in Objects /\ server.block[i].holds \subseteq Objects
  BY <1>2 DEF LevelType
<1> QED
  BY <1>1, <1>2, <1>3

LEMMA SetFateIs ==
  ASSUME NEW sv \in ServerType, NEW objects, NEW fate \in Fates,
         NEW t, t = SetFate(sv, objects, fate)
  PROVE  /\ t \in ServerType
         /\ t.block = sv.block /\ t.failed = sv.failed /\ t.open = sv.open /\ t.faults = sv.faults
         /\ \A o \in Objects : t.fate[o] = IF o \in objects THEN fate ELSE sv.fate[o]
<1>1. [o \in Objects |-> IF o \in objects THEN fate ELSE sv.fate[o]] \in [Objects -> Fates]
  BY DEF ServerType
<1> QED
  BY <1>1 DEF SetFate, ServerType

LEMMA SettleIs ==
  ASSUME NEW sv \in ServerType, NEW fate \in Fates, NEW t, t = Settle(sv, fate)
  PROVE  /\ t \in ServerType
         /\ t.block = <<>> /\ ~t.failed /\ t.open = sv.open /\ t.faults = sv.faults
         /\ \A o \in Objects : t.fate[o] = IF o \in HeldBy(sv.block) THEN fate ELSE sv.fate[o]
<1>1. PICK u : u = SetFate(sv, HeldBy(sv.block), fate)
  OBVIOUS
<1>2. /\ u \in ServerType /\ u.open = sv.open /\ u.faults = sv.faults
      /\ \A o \in Objects : u.fate[o] = IF o \in HeldBy(sv.block) THEN fate ELSE sv.fate[o]
  BY <1>1, SetFateIs
<1>3. <<>> \in Seq(LevelType)
  OBVIOUS
<1> QED
  BY <1>1, <1>2, <1>3 DEF Settle, ServerType

\* An error, which fails the block, and a lost connection.
Refuses(t) ==
  /\ t.block = server.block /\ t.open = server.open /\ t.fate = server.fate
  /\ (t.failed <=> server.block # <<>>)
Loses(t) ==
  /\ t.block = <<>> /\ ~t.open /\ ~t.failed
  /\ \A o \in Objects :
       t.fate[o] = IF o \in HeldBy(server.block) THEN "undone" ELSE server.fate[o]
Stays(t) ==
  /\ t.block = server.block /\ t.open = server.open /\ t.fate = server.fate
  /\ t.failed = server.failed

LEMMA RefuseIs ==
  ASSUME Session, NEW q \in Refuse(server)
  PROVE  /\ q.sv \in ServerType /\ Refuses(q.sv) /\ q.out = "error"
         /\ q.sv.faults = server.faults /\ q = Reply(q.sv, q.out)
<1>1. q = Reply([server EXCEPT !.failed = server.block # <<>>], "error")
  BY DEF Refuse
<1>2. PICK b \in BOOLEAN : b = (server.block # <<>>)
  OBVIOUS
<1>3. q.sv = [server EXCEPT !.failed = b] /\ q.out = "error"
  BY <1>1, <1>2 DEF Reply
<1> QED
  BY <1>2, <1>3, <1>1 DEF Session, ServerType, Refuses, Reply

LEMMA LossIs ==
  ASSUME Session, NEW cmd, cmd # "COMMIT", NEW q \in Losses(server, cmd)
  PROVE  /\ q.sv \in ServerType /\ Loses(q.sv) /\ q.out = "lost"
         /\ q.sv.faults = server.faults /\ q = Reply(q.sv, q.out)
<1>1. PICK t : t = Settle(server, "undone")
  OBVIOUS
<1>2. q = Reply([t EXCEPT !.open = FALSE], "lost")
  BY <1>1 DEF Losses
<1>3. /\ t \in ServerType /\ t.block = <<>> /\ ~t.failed /\ t.faults = server.faults
      /\ \A o \in Objects :
           t.fate[o] = IF o \in HeldBy(server.block) THEN "undone" ELSE server.fate[o]
  BY <1>1, SettleIs DEF Session, Fates
<1> QED
  BY <1>2, <1>3 DEF Reply, ServerType, Loses

\* A fault takes one from the number of faults and nothing else.
LEMMA RunIs ==
  ASSUME Session, NEW cmd, NEW o, NEW r \in Run(server, cmd, o)
  PROVE  \/ ~server.open /\ r.sv = server /\ r.out = "lost"
         \/ server.open /\ r \in Answers(server, cmd, o)
         \/ /\ server.open /\ server.faults > 0
            /\ \E q \in Errors(server, cmd, o) \cup Losses(server, cmd) :
                 r = [q EXCEPT !.sv.faults = @ - 1]
  BY DEF Run, Reply

LEMMA FaultIs ==
  ASSUME NEW q, q.sv \in ServerType, q = Reply(q.sv, q.out), q.sv.faults > 0,
         NEW r, r = [q EXCEPT !.sv.faults = @ - 1]
  PROVE  /\ r.sv \in ServerType /\ r.out = q.out
         /\ r.sv.block = q.sv.block /\ r.sv.open = q.sv.open /\ r.sv.fate = q.sv.fate
         /\ r.sv.failed = q.sv.failed
<1>1. PICK t, out : t = q.sv /\ out = q.out
  OBVIOUS
<1>2. q = [sv |-> t, out |-> out]
  BY <1>1 DEF Reply
<1>3. r = [sv |-> [t EXCEPT !.faults = t.faults - 1], out |-> out]
  BY <1>2 DEF ServerType
<1>4. t.faults - 1 \in Nat
  BY <1>1 DEF ServerType
<1> QED
  BY <1>1, <1>3, <1>4 DEF ServerType

Commands == {"BEGIN", "READ", "WRITE", "SAVEPOINT", "RELEASE", "ROLLBACK_TO", "ROLLBACK"}

LEMMA CommandIs ==
  ASSUME Session, NEW cmd \in Commands, NEW o, NEW r \in Run(server, cmd, o)
  PROVE  \/ ~server.open /\ r.sv = server /\ r.out = "lost"
         \/ server.open /\ r \in Answers(server, cmd, o)
         \/ /\ server.open /\ r.sv \in ServerType
            /\ \/ /\ Refuses(r.sv) /\ r.out = "error"
                  /\ cmd \notin {"ROLLBACK_TO", "ROLLBACK"}
               \/ Loses(r.sv) /\ r.out = "lost"
<1>1. CASE ~server.open \/ r \in Answers(server, cmd, o)
  BY <1>1, RunIs
<1>2. ASSUME NEW q \in Refuse(server), server.faults > 0, r = [q EXCEPT !.sv.faults = @ - 1]
      PROVE  r.sv \in ServerType /\ Refuses(r.sv) /\ r.out = "error"
  <2>1. /\ q.sv \in ServerType /\ Refuses(q.sv) /\ q.out = "error"
        /\ q.sv.faults = server.faults /\ q = Reply(q.sv, q.out)
    BY <1>2, RefuseIs
  <2>2. /\ r.sv \in ServerType /\ r.out = q.out
        /\ r.sv.block = q.sv.block /\ r.sv.open = q.sv.open /\ r.sv.fate = q.sv.fate
        /\ r.sv.failed = q.sv.failed
    <3>1. q.sv.faults > 0
      BY <1>2, <2>1
    <3> QED
      BY <1>2, <2>1, <3>1, FaultIs
  <2> QED
    BY <2>1, <2>2 DEF Refuses
<1>3. ASSUME NEW q \in Losses(server, cmd), server.faults > 0, r = [q EXCEPT !.sv.faults = @ - 1]
      PROVE  r.sv \in ServerType /\ Loses(r.sv) /\ r.out = "lost"
  <2>1. /\ q.sv \in ServerType /\ Loses(q.sv) /\ q.out = "lost"
        /\ q.sv.faults = server.faults /\ q = Reply(q.sv, q.out)
    BY <1>3, LossIs DEF Commands
  <2>2. /\ r.sv \in ServerType /\ r.out = q.out
        /\ r.sv.block = q.sv.block /\ r.sv.open = q.sv.open /\ r.sv.fate = q.sv.fate
        /\ r.sv.failed = q.sv.failed
    <3>1. q.sv.faults > 0
      BY <1>3, <2>1
    <3> QED
      BY <1>3, <2>1, <3>1, FaultIs
  <2> QED
    BY <2>1, <2>2 DEF Loses
<1>4. Errors(server, cmd, o) =
        IF cmd \in {"ROLLBACK_TO", "ROLLBACK"} THEN {} ELSE Refuse(server)
  BY DEF Errors, Commands
<1>5. ASSUME server.open, server.faults > 0,
             NEW q \in Errors(server, cmd, o) \cup Losses(server, cmd),
             r = [q EXCEPT !.sv.faults = @ - 1]
      PROVE  /\ r.sv \in ServerType
             /\ \/ /\ Refuses(r.sv) /\ r.out = "error"
                   /\ cmd \notin {"ROLLBACK_TO", "ROLLBACK"}
                \/ Loses(r.sv) /\ r.out = "lost"
  <2>1. CASE q \in Losses(server, cmd)
    BY <1>3, <1>5, <2>1
  <2>2. CASE q \in Refuse(server) /\ cmd \notin {"ROLLBACK_TO", "ROLLBACK"}
    BY <1>2, <1>5, <2>2
  <2> QED
    BY <1>4, <1>5, <2>1, <2>2
<1> QED
  BY <1>1, <1>5, RunIs

(***************************************************************************)
(* A write is held by the level on top, or committed at once outside of a  *)
(* block.                                                                  *)
(***************************************************************************)
Holds(t, o) ==
  /\ server.block # <<>> /\ ~server.failed /\ ~t.failed /\ t.open = server.open
  /\ Len(t.block) = Len(server.block)
  /\ \A i \in DOMAIN server.block :
       /\ t.block[i].name = server.block[i].name
       /\ t.block[i].holds =
            IF i = Len(server.block) THEN server.block[i].holds \cup {o} ELSE server.block[i].holds
  /\ \A p \in Objects : t.fate[p] = IF p = o THEN "open" ELSE server.fate[p]

AutoCommits(t, o) ==
  /\ server.open /\ server.block = <<>> /\ t.block = <<>> /\ t.open = server.open /\ t.failed = server.failed
  /\ \A p \in Objects : t.fate[p] = IF p = o THEN "done" ELSE server.fate[p]

LEMMA HoldIs ==
  ASSUME Session, server.block # <<>>, ~server.failed, NEW o \in Objects,
         NEW t, t = Hold(server, o)
  PROVE  t \in ServerType /\ Holds(t, o)
<1>1. PICK u : u = SetFate(server, {o}, "open")
  OBVIOUS
<1>2. /\ u \in ServerType
      /\ u.block = server.block /\ u.failed = server.failed /\ u.open = server.open
      /\ \A p \in Objects : u.fate[p] = IF p \in {o} THEN "open" ELSE server.fate[p]
  BY <1>1, SetFateIs DEF Session, Fates
<1>3. PICK n : n = Len(server.block)
  OBVIOUS
<1>4. n \in DOMAIN server.block /\ server.block \in Seq(LevelType) /\ server.block[n] \in LevelType
  BY <1>3, BlockIs
<1>5. PICK l : l = [server.block[n] EXCEPT !.holds = @ \cup {o}]
  OBVIOUS
<1>6. l \in LevelType /\ l.name = server.block[n].name /\ l.holds = server.block[n].holds \cup {o}
  BY <1>4, <1>5 DEF LevelType
<1>7. [server.block EXCEPT ![n] = l] \in Seq(LevelType)
  BY <1>4, <1>6
<1>8. t = [u EXCEPT !.block = [server.block EXCEPT ![n] = l]]
  BY <1>1, <1>2, <1>3, <1>4, <1>5 DEF Hold, ServerType
<1>9. t \in ServerType
  BY <1>2, <1>7, <1>8 DEF ServerType
<1>10. /\ t.block = [server.block EXCEPT ![n] = l]
       /\ t.fate = u.fate /\ t.open = u.open /\ t.failed = u.failed
  BY <1>2, <1>8 DEF ServerType
<1>11. Len(t.block) = Len(server.block)
  BY <1>4, <1>6, <1>10
<1> QED
  BY <1>2, <1>3, <1>4, <1>6, <1>9, <1>10, <1>11 DEF Holds

LEMMA WriteIs ==
  ASSUME Session, NEW o \in Objects, NEW r \in Run(server, "WRITE", o)
  PROVE  /\ r.sv \in ServerType
         /\ Stays(r.sv) \/ Refuses(r.sv) \/ Loses(r.sv) \/ Holds(r.sv, o) \/ AutoCommits(r.sv, o)
<1>1. CASE server.open /\ r \in Answers(server, "WRITE", o)
  <2>1. r \in Write(server, o)
    BY <1>1 DEF Answers
  <2>2. CASE server.block = <<>>
    <3>1. r.sv = SetFate(server, {o}, "done")
      BY <2>1, <2>2 DEF Write, Reply
    <3>2. PICK t : t = r.sv
      OBVIOUS
    <3>3. /\ t \in ServerType
          /\ t.block = server.block /\ t.failed = server.failed /\ t.open = server.open
          /\ \A p \in Objects : t.fate[p] = IF p \in {o} THEN "done" ELSE server.fate[p]
      BY <3>1, <3>2, SetFateIs DEF Session, Fates
    <3> QED
      BY <1>1, <2>2, <3>2, <3>3 DEF AutoCommits
  <2>3. CASE server.block # <<>> /\ server.failed
    BY <2>1, <2>3, RefuseIs DEF Write
  <2>4. CASE server.block # <<>> /\ ~server.failed
    <3>1. r.sv = Hold(server, o)
      BY <2>1, <2>4 DEF Write, Reply
    <3> QED
      BY <2>4, <3>1, HoldIs
  <2> QED
    BY <2>2, <2>3, <2>4
<1>2. CASE r.sv = server
  BY <1>2 DEF Stays, Session
<1> QED
  BY <1>1, <1>2, CommandIs DEF Commands

-----------------------------------------------------------------------------
(***************************************************************************)
(* What a step does to the objects: it leaves the active ones as they are, *)
(* or ends an innermost one.                                               *)
(***************************************************************************)
QuietTx ==
  \A o \in Objects :
    /\ Active(o)' <=> Active(o)
    /\ Active(o) => tx'[o].parent = tx[o].parent
    /\ tx[o].kind \in {"work", "sub"} =>
         /\ tx'[o].kind = tx[o].kind /\ tx'[o].status = tx[o].status
         /\ tx[o].status = "active" /\ tx[o].alive => tx'[o].alive
    /\ tx[o].kind \notin {"work", "sub"} /\ tx'[o].kind \in {"work", "sub"} =>
         tx'[o].status = "active"

EndsTx(o, status) ==
  /\ Active(o) /\ Childless(o) /\ ~Active(o)'
  /\ status \in {"committed", "aborted", "in_doubt"}
  /\ tx'[o].kind = tx[o].kind /\ tx'[o].status = status
  /\ \A d \in Objects : d # o => tx'[d] = tx[d]

\* The block keeps its levels, and each level what it held.
SameLevels ==
  /\ DOMAIN server'.block = DOMAIN server.block
  /\ server'.open = server.open
  /\ (server'.block = <<>>) <=> (server.block = <<>>)
  /\ \A i \in DOMAIN server.block :
       /\ server'.block[i].name = server.block[i].name
       /\ server.block[i].holds \subseteq server'.block[i].holds

LEMMA StackSame ==
  ASSUME Session, Stack, QuietTx, SameLevels
  PROVE  Stack'
<1>0. /\ \A i \in DOMAIN server.block : server.block[i].name \in Objects
      /\ server.block # <<>> => 1 \in DOMAIN server.block
      /\ \A o : \A i : At(o, i)' <=> At(o, i)
  BY BlockIs DEF SameLevels, At
<1>1. Names'
  BY <1>0 DEF Stack, Names, SameLevels, QuietTx
<1>2. Bottom'
  BY <1>0 DEF Stack, Bottom, SameLevels, QuietTx, Active
<1>3. Placed'
  <2> SUFFICES ASSUME server.open, NEW o \in Objects, Active(o)
               PROVE  \E i \in DOMAIN server.block : At(o, i)' /\ o \in server'.block[i].holds
    BY DEF Placed, QuietTx, SameLevels
  <2>1. PICK i \in DOMAIN server.block : At(o, i) /\ o \in server.block[i].holds
    BY DEF Stack, Placed
  <2> QED
    BY <2>1, <1>0 DEF SameLevels
<1>4. Parents'
  <2> SUFFICES ASSUME NEW o \in Objects, Active(o)', tx'[o].kind = "sub",
                      NEW p, p = tx'[o].parent
               PROVE  p \in Objects /\ Active(p)'
    BY DEF Parents, Active
  <2>1. Active(o) /\ tx[o].kind = "sub" /\ p = tx[o].parent
    BY DEF QuietTx, Active
  <2>2. p \in Objects /\ Active(p)
    BY <2>1 DEF Stack, Parents
  <2> QED
    BY <2>2 DEF QuietTx
<1>5. Adjacent'
  <2> SUFFICES ASSUME NEW o \in Objects, NEW d \in Objects,
                      NEW i \in DOMAIN server.block, NEW j \in DOMAIN server.block,
                      NEW k \in DOMAIN server.block,
                      Active(o)', tx'[o].kind = "sub", At(o, i)', At(tx[o].parent, j),
                      Active(d)', At(d, k)'
               PROVE  ~(j < k /\ k < i)
    BY <1>0 DEF Adjacent, SameLevels, QuietTx, At
  <2>1. Active(o) /\ tx[o].kind = "sub" /\ Active(d)
    BY DEF QuietTx, Active
  <2> QED
    BY <1>0, <2>1 DEF Stack, Adjacent
<1>6. OnTop'
  <2> SUFFICES ASSUME NEW o \in Objects, NEW d \in Objects,
                      NEW i \in DOMAIN server.block, NEW j \in DOMAIN server.block,
                      Active(o)', Childless(o)', At(o, i)', Active(d)', At(d, j)'
               PROVE  j <= i
    BY DEF OnTop, SameLevels
  <2>1. Active(o) /\ Active(d) /\ Childless(o)
    BY DEF QuietTx, Childless
  <2> QED
    BY <1>0, <2>1 DEF Stack, OnTop
<1> QED
  BY <1>1, <1>2, <1>3, <1>4, <1>5, <1>6 DEF Stack

\* A command that is only answered, or refused.
LEMMA QuietSame ==
  ASSUME Kept, QuietTx, Stays(server') \/ Refuses(server')
  PROVE  Stack' /\ Holdings' /\ Settled'
<1>1. /\ server'.block = server.block /\ server'.open = server.open /\ server'.fate = server.fate
      /\ server.failed => server'.failed
  BY DEF Stays, Refuses, Kept, Session
<1>2. Stack'
  BY <1>1, StackSame DEF SameLevels, Kept
<1>3. Holdings'
  <2> SUFFICES ASSUME NEW i \in DOMAIN server.block, NEW o \in server.block[i].holds
               PROVE  Holding(i, o)'
    BY <1>1 DEF Holdings
  <2>1. Holding(i, o) /\ o \in Objects
    BY BlockIs DEF Kept, Holdings
  <2> QED
    BY <1>1, <2>1 DEF Holding, QuietTx, At
<1>4. Settled'
  BY <1>1 DEF Settled, Kept, QuietTx, Active
<1> QED
  BY <1>2, <1>3, <1>4

LEMMA HeldIs ==
  ASSUME Kept, NEW o \in HeldBy(server.block)
  PROVE  /\ \E i \in DOMAIN server.block : o \in server.block[i].holds /\ Holding(i, o)
         /\ o \in Objects /\ tx[o].kind \in {"work", "sub"}
         /\ tx[o].kind = "work" => tx[o].status = "active"
         /\ tx[o].status = "aborted" => server.failed
<1>1. PICK i \in DOMAIN server.block : o \in server.block[i].holds
  BY DEF HeldBy
<1>2. Holding(i, o) /\ o \in Objects
  BY <1>1, BlockIs DEF Kept, Holdings
<1> QED
  BY <1>1, <1>2 DEF Holding

\* The connection is lost.
LEMMA QuietLost ==
  ASSUME Kept, QuietTx, Loses(server')
  PROVE  Stack' /\ Holdings' /\ Settled'
<1>1. /\ server'.block = <<>> /\ ~server'.open /\ DOMAIN server'.block = {}
      /\ \A o \in Objects :
           server'.fate[o] = IF o \in HeldBy(server.block) THEN "undone" ELSE server.fate[o]
  BY DEF Loses
<1>2. Parents'
  <2> SUFFICES ASSUME NEW o \in Objects, Active(o)', tx'[o].kind = "sub",
                      NEW p, p = tx'[o].parent
               PROVE  p \in Objects /\ Active(p)'
    BY DEF Parents, Active
  <2>1. Active(o) /\ tx[o].kind = "sub" /\ p = tx[o].parent
    BY DEF QuietTx, Active
  <2>2. p \in Objects /\ Active(p)
    BY <2>1 DEF Kept, Stack, Parents
  <2> QED
    BY <2>2 DEF QuietTx
<1>3. Stack'
  BY <1>1, <1>2 DEF Stack, Names, Bottom, Placed, Adjacent, OnTop
<1>4. Holdings'
  BY <1>1 DEF Holdings
<1>5. ASSUME NEW o \in Objects
      PROVE  server'.fate[o] = server.fate[o] \/
               (server'.fate[o] = "undone" /\ tx[o].kind \in {"work", "sub"}
                /\ (tx[o].kind = "work" => tx[o].status = "active"))
  BY <1>1, HeldIs
<1>6. Settled'
  BY <1>5 DEF Settled, Kept, QuietTx, Active
<1> QED
  BY <1>3, <1>4, <1>6

\* A write that the block holds from now on.
LEMMA QuietHolds ==
  ASSUME Kept, QuietTx, NEW o \in Objects, Active(o), Holds(server', o),
         server' \in ServerType
  PROVE  Stack' /\ Holdings' /\ Settled'
<1>0. server.block \in Seq(LevelType) /\ server'.block \in Seq(LevelType)
  BY BlockIs DEF Kept, ServerType
<1>1. /\ DOMAIN server'.block = DOMAIN server.block /\ server'.open = server.open
      /\ (server'.block = <<>>) <=> (server.block = <<>>)
  BY <1>0 DEF Holds
<1>2. Stack'
  BY <1>1, StackSame DEF SameLevels, Kept, Holds
<1>3. Holdings'
  <2> SUFFICES ASSUME NEW i \in DOMAIN server.block, NEW p \in server'.block[i].holds
               PROVE  Holding(i, p)'
    BY <1>1 DEF Holdings
  <2>0. \A q, j : At(q, j)' <=> At(q, j)
    BY <1>1 DEF At, Holds
  <2>1. CASE p \in server.block[i].holds
    <3>1. Holding(i, p) /\ p \in Objects
      BY <2>1, BlockIs DEF Kept, Holdings
    <3>2. tx[p].status # "aborted"
      BY <3>1 DEF Holding, Holds
    <3> QED
      BY <1>1, <2>0, <3>1, <3>2 DEF Holding, QuietTx
  <2>2. CASE p = o /\ i = Len(server.block)
    <3>1. \A j \in DOMAIN server.block : j <= i
      BY <2>2, BlockIs DEF Kept
    <3> QED
      BY <1>1, <2>2, <3>1 DEF Holding, QuietTx, Active
  <2> QED
    BY <2>1, <2>2 DEF Holds
<1>4. \A p \in Objects : server'.fate[p] = IF p = o THEN "open" ELSE server.fate[p]
  BY DEF Holds
<1>5. Settled'
  BY <1>4 DEF Settled, Kept, QuietTx, Active
<1> QED
  BY <1>2, <1>3, <1>5

\* A write of a nontransaction.
LEMMA QuietAuto ==
  ASSUME Kept, QuietTx, NEW o \in Objects, tx[o].kind = "nontransaction",
         tx'[o].kind = "nontransaction", AutoCommits(server', o)
  PROVE  Stack' /\ Holdings' /\ Settled'
<1>1. /\ server'.block = server.block /\ server'.open = server.open /\ server.block = <<>>
      /\ DOMAIN server'.block = {}
      /\ \A p \in Objects : server'.fate[p] = IF p = o THEN "done" ELSE server.fate[p]
  BY DEF AutoCommits
<1>2. Stack'
  BY <1>1, StackSame DEF SameLevels, Kept
<1>3. Holdings'
  BY <1>1 DEF Holdings
<1>4. Settled'
  BY <1>1 DEF Settled, Kept, QuietTx, Active
<1> QED
  BY <1>2, <1>3, <1>4

\* A transaction ends and its block with it, or the connection was lost.
LEMMA EndsGone ==
  ASSUME Kept, NEW o \in Objects, NEW status, EndsTx(o, status),
         NEW f \in {"undone", "done", "deciding"},
         server'.block = <<>>,
         ~server'.open \/ \A d \in Objects : Active(d) => d = o,
         \A d \in Objects :
           server'.fate[d] = IF d \in HeldBy(server.block) THEN f ELSE server.fate[d],
         f # "undone" => ~server.failed /\ \A d \in Objects : Active(d) => d = o,
         status = "committed" => tx[o].kind = "work" /\ f = "done" /\ o \in HeldBy(server.block),
         status = "aborted" => f = "undone"
  PROVE  Stack' /\ Holdings' /\ Settled'
<1>1. DOMAIN server'.block = {}
  OBVIOUS
<1>0. \A d \in Objects : Active(d)' => d # o /\ Active(d) /\ tx'[d] = tx[d]
  BY DEF EndsTx, Active
<1>2. Parents'
  <2> SUFFICES ASSUME NEW c \in Objects, Active(c)', tx'[c].kind = "sub",
                      NEW p, p = tx'[c].parent
               PROVE  p \in Objects /\ Active(p)'
    BY DEF Parents, Active
  <2>1. Active(c) /\ tx[c].kind = "sub" /\ p = tx[c].parent
    BY <1>0
  <2>2. p \in Objects /\ Active(p) /\ p # o
    BY <2>1 DEF Kept, Stack, Parents, EndsTx, Childless
  <2> QED
    BY <2>2 DEF EndsTx, Active
<1>3. Placed'
  BY <1>0 DEF Placed
<1>4. Stack'
  BY <1>1, <1>2, <1>3 DEF Stack, Names, Bottom, Adjacent, OnTop
<1>5. Holdings'
  BY <1>1 DEF Holdings
<1>6. ASSUME NEW d \in Objects, d # o
      PROVE  /\ Active(d)' => server'.fate[d] \notin {"done", "deciding"}
             /\ tx'[d].kind = "work" /\ tx'[d].status = "committed" => server'.fate[d] = "done"
             /\ tx'[d].kind \in {"work", "sub"} /\ tx'[d].status = "aborted" =>
                  server'.fate[d] \notin {"done", "deciding"}
  <2>1. tx'[d] = tx[d]
    BY <1>6 DEF EndsTx
  <2>2. CASE d \notin HeldBy(server.block)
    BY <1>0, <2>1, <2>2 DEF Kept, Settled
  <2>3. CASE d \in HeldBy(server.block)
    BY <1>0, <1>6, <2>1, <2>3, HeldIs
  <2> QED
    BY <2>2, <2>3
<1>7. /\ tx'[o].kind = "work" /\ tx'[o].status = "committed" => server'.fate[o] = "done"
      /\ tx'[o].kind \in {"work", "sub"} /\ tx'[o].status = "aborted" =>
           server'.fate[o] \notin {"done", "deciding"}
  BY DEF EndsTx, Kept, Settled
<1>8. Settled'
  BY <1>0, <1>6, <1>7 DEF Settled
<1> QED
  BY <1>4, <1>5, <1>8

-----------------------------------------------------------------------------
(***************************************************************************)
(* A transaction starts: it opens the block, or sets a savepoint on top.   *)
(***************************************************************************)
StartsTx(o, kind, parent) ==
  /\ tx[o].kind = "none" /\ Active(o)'
  /\ tx'[o].kind = kind /\ tx'[o].parent = parent
  /\ \A d \in Objects : d # o => tx'[d] = tx[d]

Begins(t, o) ==
  /\ server.block = <<>> /\ server.open /\ t.open /\ ~t.failed
  /\ t.block = <<Level(o)>>
  /\ \A p \in Objects : t.fate[p] = IF p = o THEN "open" ELSE server.fate[p]

Pushes(t, o) ==
  /\ server.block # <<>> /\ ~server.failed /\ server.open /\ t.open /\ ~t.failed
  /\ t.block = Append(server.block, Level(o))
  /\ \A p \in Objects : t.fate[p] = IF p = o THEN "open" ELSE server.fate[p]

LEMMA StartSettled ==
  ASSUME Settled, NEW o \in Objects, NEW kind, NEW p, StartsTx(o, kind, p),
         \A d \in Objects : server'.fate[d] = IF d = o THEN "open" ELSE server.fate[d]
  PROVE  Settled'
<1>1. tx'[o].status = "active" /\ \A d \in Objects : d # o => (Active(d)' <=> Active(d))
  BY DEF StartsTx, Active
<1> QED
  BY <1>1 DEF Settled, StartsTx

LEMMA WorkStarts ==
  ASSUME Kept, NEW o \in Objects, StartsTx(o, "work", NoObject), Begins(server', o)
  PROVE  Stack' /\ Holdings' /\ Settled'
<1>1. \A d \in Objects : ~Active(d)
  BY DEF Kept, Stack, Placed, Begins
<1>2. \A d \in Objects : Active(d)' => d = o
  BY <1>1 DEF StartsTx, Active
<1>3. /\ server'.block = <<[name |-> o, holds |-> {o}]>> /\ DOMAIN server'.block = {1}
      /\ server'.block[1].name = o /\ server'.block[1].holds = {o}
  BY DEF Begins, Level
<1>4. Active(o)' /\ tx'[o].kind = "work"
  BY DEF StartsTx
<1>5. Bottom'
  BY <1>3, <1>4 DEF Bottom, Active
<1>6. Stack'
  BY <1>2, <1>3, <1>4, <1>5 DEF Stack, Names, Placed, Parents, Adjacent, OnTop, At
<1>7. Holdings'
  BY <1>3, <1>4 DEF Holdings, Holding, Active, At
<1> QED
  BY <1>6, <1>7, StartSettled DEF Kept, Begins

LEMMA SubStarts ==
  ASSUME Kept, NEW o \in Objects, NEW p \in Objects, Active(p), Childless(p),
         StartsTx(o, "sub", p), Pushes(server', o)
  PROVE  Stack' /\ Holdings' /\ Settled'
<1>1. PICK n \in Nat : n = Len(server.block) /\ DOMAIN server.block = 1 .. n /\ n >= 1
  BY BlockIs DEF Kept, Pushes
<1>2. /\ DOMAIN server'.block = 1 .. (n + 1)
      /\ \A i \in 1 .. n : server'.block[i] = server.block[i]
      /\ server'.block[n + 1].name = o /\ server'.block[n + 1].holds = {o}
      /\ server'.block # <<>>
  BY <1>1, BlockIs DEF Pushes, Level, Kept
<1>3. ~Active(o) /\ p # o /\ \A d \in Objects : d # o => (Active(d)' <=> Active(d))
  BY DEF StartsTx, Active
<1>4. \A d \in Objects : Active(d) => tx[d].parent # o \/ tx[d].kind # "sub"
  BY <1>3 DEF Kept, Stack, Parents
<1>5. \A i \in 1 .. n : server.block[i].name # o /\ o \notin server.block[i].holds
  BY <1>1 DEF Kept, Stack, Names, Holdings, Holding, StartsTx
<1>6. /\ \A d, i : At(d, i)' <=> (At(d, i) \/ (d = o /\ i = n + 1))
      /\ \A d, i : At(d, i) => i \in 1 .. n /\ d # o
      /\ \A i \in 1 .. n : server.block[i].name \in Objects
  BY <1>1, <1>2, <1>5, BlockIs DEF At, Kept
<1>7. PICK jp \in 1 .. n : At(p, jp)
  BY <1>1 DEF Kept, Stack, Placed, Pushes
<1>8. Names'
  <2> SUFFICES ASSUME NEW i \in 1 .. (n + 1), NEW j \in 1 .. (n + 1)
               PROVE  /\ tx'[server'.block[i].name].kind \in {"work", "sub"}
                      /\ server'.block[i].name = server'.block[j].name => i = j
    BY <1>2 DEF Names
  <2>1. \A k \in 1 .. (n + 1) : k = n + 1 \/ k \in 1 .. n
    BY <1>1
  <2>2. \A k \in 1 .. (n + 1) : server'.block[k].name = o <=> k = n + 1
    BY <1>2, <1>5, <2>1
  <2>3. CASE i \in 1 .. n
    <3>1. PICK a : a = server.block[i].name
      OBVIOUS
    <3>2. a \in Objects /\ a # o /\ server'.block[i].name = a /\ tx[a].kind \in {"work", "sub"}
      BY <1>1, <1>2, <1>5, <1>6, <2>3, <3>1 DEF Kept, Stack, Names
    <3>3. tx'[a].kind \in {"work", "sub"}
      BY <3>2 DEF StartsTx
    <3>4. server'.block[j].name = a => i = j
      <4> SUFFICES ASSUME server'.block[j].name = a
                   PROVE  i = j
        OBVIOUS
      <4>1. j \in 1 .. n
        BY <2>1, <2>2, <3>2
      <4>2. server.block[j].name = server.block[i].name
        BY <1>2, <3>1, <4>1
      <4> QED
        BY <1>1, <2>3, <4>1, <4>2 DEF Kept, Stack, Names
    <3> QED
      BY <3>2, <3>3, <3>4
  <2>4. CASE i = n + 1
    BY <1>1, <1>2, <2>1, <2>2, <2>4 DEF StartsTx
  <2> QED
    BY <2>1, <2>3, <2>4
<1>9. Bottom'
  <2>1. PICK b : b = server.block[1].name
    OBVIOUS
  <2>2. b \in Objects /\ b # o /\ Active(b) /\ tx[b].kind = "work" /\ server'.block[1].name = b
    BY <1>1, <1>2, <1>5, <1>6, <2>1 DEF Kept, Stack, Bottom, Pushes
  <2>3. Active(b)' /\ tx'[b].kind = "work"
    BY <1>3, <2>2 DEF StartsTx
  <2> QED
    BY <2>2, <2>3 DEF Bottom, Active
<1>10. Placed'
  <2> SUFFICES ASSUME NEW d \in Objects, Active(d)'
               PROVE  \E i \in 1 .. (n + 1) : At(d, i)' /\ d \in server'.block[i].holds
    BY <1>2 DEF Placed
  <2>1. CASE d = o
    BY <1>1, <1>2, <1>6, <2>1
  <2>2. CASE d # o
    <3>1. PICK i \in 1 .. n : At(d, i) /\ d \in server.block[i].holds
      BY <1>1, <1>3, <2>2 DEF Kept, Stack, Placed, Pushes
    <3> QED
      BY <1>1, <1>2, <1>6, <3>1
  <2> QED
    BY <2>1, <2>2
<1>11. Parents'
  <2> SUFFICES ASSUME NEW c \in Objects, Active(c)', tx'[c].kind = "sub",
                      NEW q, q = tx'[c].parent
               PROVE  q \in Objects /\ Active(q)'
    BY DEF Parents, Active
  <2>1. CASE c = o
    BY <1>3, <2>1 DEF StartsTx
  <2>2. CASE c # o
    <3>1. Active(c) /\ tx[c].kind = "sub" /\ q = tx[c].parent
      BY <1>3, <2>2 DEF StartsTx
    <3>2. q \in Objects /\ Active(q)
      BY <3>1 DEF Kept, Stack, Parents
    <3> QED
      BY <1>3, <3>2
  <2> QED
    BY <2>1, <2>2
<1>12. \A d \in Objects : \A k : Active(d) /\ At(d, k) => k <= jp
  <2> TAKE d \in Objects
  <2> TAKE k
  <2>1. At(d, k) => k \in DOMAIN server.block
    BY DEF At
  <2> QED
    BY <1>1, <1>7, <2>1 DEF Kept, Stack, OnTop
<1>13. Adjacent'
  <2> SUFFICES ASSUME NEW c \in Objects, NEW d \in Objects,
                      NEW i \in 1 .. (n + 1), NEW j \in 1 .. (n + 1), NEW k \in 1 .. (n + 1),
                      NEW q, q = tx'[c].parent,
                      Active(c)', tx'[c].kind = "sub", At(c, i)', At(q, j)',
                      Active(d)', At(d, k)', j < k, k < i
               PROVE  FALSE
    BY <1>2 DEF Adjacent, At
  <2>1. d # o /\ At(d, k) /\ Active(d)
    BY <1>1, <1>3, <1>6
  <2>2. CASE c = o
    <3>1. q = p /\ At(p, j)
      BY <1>1, <1>3, <1>6, <2>2 DEF StartsTx
    <3>2. j = jp
      BY <1>1, <1>7, <3>1 DEF Kept, Stack, Names, At
    <3> QED
      BY <1>12, <2>1, <3>2
  <2>3. CASE c # o
    <3>1. Active(c) /\ tx[c].kind = "sub" /\ q = tx[c].parent /\ At(c, i) /\ At(q, j)
      BY <1>1, <1>3, <1>6, <2>3 DEF StartsTx
    <3>2. i \in DOMAIN server.block /\ j \in DOMAIN server.block /\ k \in DOMAIN server.block
      BY <2>1, <3>1 DEF At
    <3> QED
      BY <2>1, <3>1, <3>2 DEF Kept, Stack, Adjacent
  <2> QED
    BY <2>2, <2>3
<1>14. OnTop'
  <2> SUFFICES ASSUME NEW c \in Objects, NEW d \in Objects,
                      NEW i \in 1 .. (n + 1), NEW j \in 1 .. (n + 1),
                      Active(c)', Childless(c)', At(c, i)', Active(d)', At(d, j)', i < j
               PROVE  FALSE
    BY <1>1, <1>2 DEF OnTop
  <2>1. c # o /\ At(c, i) /\ Active(c) /\ i \in DOMAIN server.block
    BY <1>1, <1>3, <1>6
  <2>2. Childless(c) /\ c # p
    BY <1>3 DEF Childless, StartsTx
  <2>3. jp <= i
    BY <1>1, <1>7, <2>1, <2>2 DEF Kept, Stack, OnTop
  <2>4. i = jp
    BY <1>1, <1>12, <2>1, <2>3
  <2> QED
    BY <1>7, <2>1, <2>2, <2>4 DEF At
<1>15. Holdings'
  <2> SUFFICES ASSUME NEW i \in 1 .. (n + 1), NEW d \in server'.block[i].holds
               PROVE  Holding(i, d)'
    BY <1>2 DEF Holdings
  <2>1. CASE i \in 1 .. n
    <3>1. Holding(i, d) /\ d \in Objects /\ d # o
      BY <1>1, <1>2, <1>5, <2>1, BlockIs DEF Kept, Holdings
    <3>2. tx[d].status # "aborted" /\ tx'[d] = tx[d]
      BY <3>1 DEF Holding, Pushes, StartsTx
    <3>3. Active(d)' => \A j \in DOMAIN server'.block : At(d, j)' => j <= i
      BY <1>1, <1>3, <1>6, <3>1 DEF Holding
    <3> QED
      BY <3>1, <3>2, <3>3 DEF Holding
  <2>2. CASE i = n + 1
    <3>1. d = o /\ \A j \in DOMAIN server'.block : j <= i
      BY <1>1, <1>2, <2>2
    <3>2. tx'[o].kind = "sub" /\ tx'[o].status = "active" /\ tx'[o].alive
      BY DEF StartsTx, Active
    <3> QED
      BY <3>1, <3>2 DEF Holding
  <2> QED
    BY <1>1, <2>1, <2>2
<1>16. Stack'
  BY <1>8, <1>9, <1>10, <1>11, <1>13, <1>14 DEF Stack
<1> QED
  BY <1>15, <1>16, StartSettled DEF Kept, Pushes

-----------------------------------------------------------------------------
(***************************************************************************)
(* A subtransaction ends: what lies above it, which belongs to none that   *)
(* is active, goes with it or stays in a block that has failed.            *)
(***************************************************************************)
LEMMA BelowTop ==
  ASSUME Session, Stack, NEW o \in Objects, Active(o), Childless(o), NEW i, At(o, i)
  PROVE  \A d \in Objects : \A j : Active(d) /\ At(d, j) /\ d # o => j < i
<1> TAKE d \in Objects
<1> TAKE j
<1> HAVE Active(d) /\ At(d, j) /\ d # o
<1>1. i \in DOMAIN server.block /\ j \in DOMAIN server.block /\ i # j
  BY DEF At
<1>2. i \in Nat /\ j \in Nat
  BY <1>1, BlockIs
<1>3. j <= i
  BY <1>1 DEF Stack, OnTop
<1> QED
  BY <1>1, <1>2, <1>3

\* The block after the end of the subtransaction at i: the levels below it
\* keep their names, and a hold only moves to the level right below.
Unstacks(o, i) ==
  /\ server'.block \in Seq(LevelType) /\ server'.open
  /\ i - 1 <= Len(server'.block) /\ Len(server'.block) <= Len(server.block)
  /\ \A k \in DOMAIN server'.block :
       /\ server'.block[k].name = server.block[k].name
       /\ k < i => server.block[k].holds \subseteq server'.block[k].holds
       /\ \A x \in server'.block[k].holds :
            /\ \E l \in DOMAIN server.block : x \in server.block[l].holds /\ (l = k \/ k = i - 1)
            /\ tx'[x].status = "aborted" => server'.failed /\ i <= k
  /\ \A d \in Objects :
       \/ server'.fate[d] = server.fate[d]
       \/ server'.fate[d] = "undone" /\ d \in HeldBy(server.block)

LEMMA SubEnds ==
  ASSUME Kept, NEW o \in Objects, NEW status, EndsTx(o, status), tx[o].kind = "sub",
         NEW i \in DOMAIN server.block, At(o, i), Unstacks(o, i)
  PROVE  Stack' /\ Holdings' /\ Settled'
<1>1. PICK n \in Nat, m \in Nat :
         /\ n = Len(server.block) /\ DOMAIN server.block = 1 .. n
         /\ m = Len(server'.block) /\ DOMAIN server'.block = 1 .. m
         /\ m <= n /\ i - 1 <= m /\ i \in 1 .. n
  BY BlockIs DEF Kept, Unstacks
<1>2. \A d \in Objects : Active(d)' <=> (Active(d) /\ d # o)
  BY DEF EndsTx, Active
<1>3. \A d \in Objects : \A j : Active(d)' /\ At(d, j) => j < i /\ j \in 1 .. m
  <2> TAKE d \in Objects
  <2> TAKE j
  <2> HAVE Active(d)' /\ At(d, j)
  <2>1. j < i
    BY <1>2, BelowTop DEF Kept, EndsTx
  <2>2. j \in 1 .. n
    BY <1>1 DEF At
  <2> QED
    BY <1>1, <2>1, <2>2
<1>4. /\ \A d, j : At(d, j)' => At(d, j) /\ j \in 1 .. m
      /\ \A d, j : At(d, j) /\ j \in 1 .. m => At(d, j)'
      /\ \A k \in 1 .. m : k \in 1 .. n /\ server'.block[k].name = server.block[k].name
      /\ \A k \in 1 .. n : server.block[k].name \in Objects
  <2>1. \A k \in 1 .. m : k \in 1 .. n
    BY <1>1
  <2>2. \A k \in 1 .. m : server'.block[k].name = server.block[k].name
    BY <1>1 DEF Unstacks
  <2>3. \A k \in 1 .. n : server.block[k].name \in Objects
    BY <1>1, BlockIs DEF Kept
  <2> QED
    BY <1>1, <2>1, <2>2, <2>3 DEF At
<1>5. \A d \in Objects : tx'[d].kind = tx[d].kind
  BY DEF EndsTx
<1>6. 1 \in 1 .. n /\ Active(server.block[1].name) /\ tx[server.block[1].name].kind = "work"
      /\ 1 < i /\ 1 \in 1 .. m /\ server.block[1].name # o
  <2>1. 1 \in 1 .. n
    BY <1>1
  <2>2. server.block # <<>>
    BY <1>1
  <2>3. Active(server.block[1].name) /\ tx[server.block[1].name].kind = "work"
    BY <2>2 DEF Kept, Stack, Bottom
  <2>4. server.block[1].name # o /\ i # 1
    BY <2>3 DEF At
  <2> QED
    BY <1>1, <2>1, <2>3, <2>4
<1>7. Names'
  BY <1>1, <1>4, <1>5 DEF Kept, Stack, Names
<1>8. Bottom'
  <2>1. PICK b : b = server.block[1].name
    OBVIOUS
  <2>2. b \in Objects /\ b # o /\ Active(b) /\ tx[b].kind = "work" /\ server'.block[1].name = b
    BY <1>4, <1>6, <2>1
  <2>3. Active(b)' /\ tx'[b].kind = "work"
    BY <1>2, <1>5, <2>2
  <2> QED
    BY <2>2, <2>3 DEF Bottom, Active
<1>9. Placed'
  <2> SUFFICES ASSUME NEW d \in Objects, Active(d)'
               PROVE  \E k \in 1 .. m : At(d, k)' /\ d \in server'.block[k].holds
    BY <1>1 DEF Placed
  <2>1. server.open
    BY <1>6 DEF Kept, Session, EndsTx
  <2>2. PICK k \in 1 .. n : At(d, k) /\ d \in server.block[k].holds
    BY <1>1, <1>2, <2>1 DEF Kept, Stack, Placed
  <2>3. k < i /\ k \in 1 .. m
    BY <1>3, <2>2
  <2> QED
    BY <1>1, <1>4, <2>2, <2>3 DEF Unstacks
<1>10. Parents'
  <2> SUFFICES ASSUME NEW c \in Objects, Active(c)', tx'[c].kind = "sub",
                      NEW p, p = tx'[c].parent
               PROVE  p \in Objects /\ Active(p)'
    BY DEF Parents, Active
  <2>1. Active(c) /\ tx[c].kind = "sub" /\ p = tx[c].parent
    BY <1>2 DEF EndsTx
  <2>2. p \in Objects /\ Active(p) /\ p # o
    BY <2>1 DEF Kept, Stack, Parents, EndsTx, Childless
  <2> QED
    BY <1>2, <2>2
<1>11. Adjacent'
  <2> SUFFICES ASSUME NEW c \in Objects, NEW d \in Objects,
                      NEW a \in 1 .. m, NEW j \in 1 .. m, NEW k \in 1 .. m,
                      NEW p, p = tx'[c].parent,
                      Active(c)', tx'[c].kind = "sub", At(c, a)', At(p, j)',
                      Active(d)', At(d, k)', j < k, k < a
               PROVE  FALSE
    BY <1>1 DEF Adjacent, At
  <2>1. /\ Active(c) /\ tx[c].kind = "sub" /\ p = tx[c].parent /\ At(c, a) /\ At(p, j)
        /\ Active(d) /\ At(d, k)
    BY <1>2, <1>4 DEF EndsTx
  <2>2. a \in DOMAIN server.block /\ j \in DOMAIN server.block /\ k \in DOMAIN server.block
    BY <1>1, <1>4
  <2> QED
    BY <2>1, <2>2 DEF Kept, Stack, Adjacent
<1>12. OnTop'
  <2> SUFFICES ASSUME NEW c \in Objects, NEW d \in Objects, NEW a \in 1 .. m, NEW j \in 1 .. m,
                      Active(c)', Childless(c)', At(c, a)', Active(d)', At(d, j)', a < j
               PROVE  FALSE
    BY <1>1 DEF OnTop
  <2>1. /\ Active(c) /\ At(c, a) /\ Active(d) /\ At(d, j) /\ c # o /\ d # o
        /\ a \in DOMAIN server.block /\ j \in DOMAIN server.block
    BY <1>1, <1>2, <1>4
  <2>2. CASE Childless(c)
    BY <1>1, <2>1, <2>2 DEF Kept, Stack, OnTop
  <2>3. CASE ~Childless(c)
    <3>1. tx[o].parent = c
      BY <1>2, <2>3 DEF Childless, EndsTx
    <3>2. j < i
      BY <1>3, <2>1
    <3> QED
      BY <2>1, <3>1, <3>2 DEF Kept, Stack, Adjacent, EndsTx
  <2> QED
    BY <2>2, <2>3
<1>13. Holdings'
  <2> SUFFICES ASSUME NEW k \in 1 .. m, NEW x \in server'.block[k].holds
               PROVE  Holding(k, x)'
    BY <1>1 DEF Holdings
  <2>1. PICK l \in DOMAIN server.block : x \in server.block[l].holds /\ (l = k \/ k = i - 1)
    BY <1>1 DEF Unstacks
  <2>2. Holding(l, x) /\ x \in Objects
    BY <2>1, BlockIs DEF Kept, Holdings
  <2>3. tx'[x].status = "active" => x # o /\ tx'[x] = tx[x]
    BY <2>2 DEF EndsTx
  <2>4. Active(x)' => \A j \in DOMAIN server'.block : At(x, j)' => j <= k
    <3> SUFFICES ASSUME Active(x)', NEW j \in 1 .. m, At(x, j)'
                 PROVE  j <= k
      BY <1>1
    <3>1. At(x, j) /\ Active(x) /\ j < i /\ j \in DOMAIN server.block
      BY <1>1, <1>2, <1>3, <1>4, <2>2
    <3>2. j <= l
      BY <2>2, <3>1 DEF Holding
    <3> QED
      BY <1>1, <2>1, <3>1, <3>2
  <2>5. tx'[x].status = "aborted" =>
           /\ server'.failed
           /\ \A d \in Objects : \A j \in DOMAIN server'.block : Active(d)' /\ At(d, j)' => j < k
    <3> HAVE tx'[x].status = "aborted"
    <3>1. server'.failed /\ i <= k
      BY <1>1 DEF Unstacks
    <3> QED
      BY <1>1, <1>3, <1>4, <3>1
  <2>6. tx'[x].kind = "work" => tx'[x].status = "active"
    BY <1>5, <2>2 DEF Holding, EndsTx
  <2> QED
    BY <1>5, <2>2, <2>3, <2>4, <2>5, <2>6 DEF Holding
<1>14. Settled'
  <2> SUFFICES ASSUME NEW d \in Objects
               PROVE  /\ Active(d)' => server'.fate[d] \notin {"done", "deciding"}
                      /\ tx'[d].kind = "work" /\ tx'[d].status = "committed" =>
                           server'.fate[d] = "done"
                      /\ tx'[d].kind \in {"work", "sub"} /\ tx'[d].status = "aborted" =>
                           server'.fate[d] \notin {"done", "deciding"}
    BY DEF Settled
  <2>1. \/ server'.fate[d] = server.fate[d]
        \/ /\ server'.fate[d] = "undone"
           /\ tx[d].kind = "work" => tx[d].status = "active"
    BY HeldIs DEF Unstacks
  <2>2. CASE d = o
    BY <1>2, <1>5, <2>1, <2>2 DEF Kept, Settled, EndsTx
  <2>3. CASE d # o
    BY <1>2, <2>1, <2>3 DEF Kept, Settled, EndsTx
  <2> QED
    BY <2>2, <2>3
<1>15. Stack'
  BY <1>7, <1>8, <1>9, <1>10, <1>11, <1>12 DEF Stack
<1> QED
  BY <1>13, <1>14, <1>15

\* A commit that was under way when the connection broke is decided.
LEMMA DecideKept ==
  ASSUME Kept, ServerDecides
  PROVE  Kept'
<1>1. PICK fate \in {"done", "undone"} :
         server' = SetFate(server, {p \in Objects : server.fate[p] = "deciding"}, fate)
  BY DEF ServerDecides
<1>2. PICK t : t = server'
  OBVIOUS
<1>3. /\ t \in ServerType
      /\ t.block = server.block /\ t.failed = server.failed /\ t.open = server.open
      /\ \A o \in Objects :
           t.fate[o] = IF o \in {p \in Objects : server.fate[p] = "deciding"} THEN fate
                       ELSE server.fate[o]
  BY <1>1, <1>2, SetFateIs DEF Kept, Session, Fates
<1>4. tx' = tx /\ current' = current
  BY DEF ServerDecides
<1>5. QuietTx /\ SameLevels /\ Session'
  BY <1>2, <1>3, <1>4 DEF QuietTx, SameLevels, Active, Kept, Session
<1>6. Stack'
  BY <1>5, StackSame DEF Kept
<1>7. Holdings'
  BY <1>2, <1>3, <1>4 DEF Kept, Holdings, Holding, Active, At
<1>8. Settled'
  BY <1>2, <1>3, <1>4 DEF Kept, Settled, Active
<1>9. Plain' /\ Registration'
  BY <1>4 DEF Kept, Plain, Registration, Typed, Registered, RegistrationExact
<1> QED
  BY <1>5, <1>6, <1>7, <1>8, <1>9 DEF Kept

-----------------------------------------------------------------------------
(***************************************************************************)
(* The commands that start and end transactions.                           *)
(***************************************************************************)
LEMMA BeginIs ==
  ASSUME Session, server.block = <<>>, NEW o \in Objects, NEW r \in Run(server, "BEGIN", o)
  PROVE  /\ r.sv \in ServerType
         /\ \/ r.out = "ok" /\ Begins(r.sv, o)
            \/ r.out # "ok" /\ (Stays(r.sv) \/ Refuses(r.sv) \/ Loses(r.sv))
<1>1. CASE server.open /\ r \in Answers(server, "BEGIN", o)
  <2>1. r \in Begin(server, o)
    BY <1>1 DEF Answers
  <2>2. PICK t : t = SetFate(server, {o}, "open")
    OBVIOUS
  <2>3. /\ t \in ServerType /\ t.open = server.open /\ t.failed = server.failed
        /\ \A p \in Objects : t.fate[p] = IF p \in {o} THEN "open" ELSE server.fate[p]
    BY <2>2, SetFateIs DEF Session, Fates
  <2>4. r = [sv |-> [t EXCEPT !.block = <<Level(o)>>], out |-> "ok"]
    BY <2>1, <2>2 DEF Begin, Reply
  <2>5. <<Level(o)>> \in Seq(LevelType)
    BY DEF Level, LevelType
  <2>6. ~server.failed
    BY DEF Session
  <2> QED
    BY <1>1, <2>3, <2>4, <2>5, <2>6 DEF ServerType, Begins
<1>2. CASE r.sv = server /\ r.out = "lost"
  BY <1>2 DEF Stays, Session
<1> QED
  BY <1>1, <1>2, CommandIs DEF Commands

LEMMA SavepointIs ==
  ASSUME Session, NEW o \in Objects, NEW r \in Run(server, "SAVEPOINT", o)
  PROVE  /\ r.sv \in ServerType
         /\ \/ r.out = "ok" /\ Pushes(r.sv, o)
            \/ r.out # "ok" /\ (Stays(r.sv) \/ Refuses(r.sv) \/ Loses(r.sv))
<1>1. CASE server.open /\ r \in Answers(server, "SAVEPOINT", o)
  <2>1. r \in SetSavepoint(server, o)
    BY <1>1 DEF Answers
  <2>2. CASE server.block = <<>> \/ server.failed
    <3>1. r \in Refuse(server)
      BY <2>1, <2>2 DEF SetSavepoint
    <3> QED
      BY <3>1, RefuseIs
  <2>3. CASE server.block # <<>> /\ ~server.failed
    <3>1. PICK t : t = SetFate(server, {o}, "open")
      OBVIOUS
    <3>2. /\ t \in ServerType /\ t.open = server.open /\ t.failed = server.failed
          /\ t.block = server.block
          /\ \A p \in Objects : t.fate[p] = IF p \in {o} THEN "open" ELSE server.fate[p]
      BY <3>1, SetFateIs DEF Session, Fates
    <3>3. r = [sv |-> [t EXCEPT !.block = Append(t.block, Level(o))], out |-> "ok"]
      BY <2>1, <2>3, <3>1 DEF SetSavepoint, Reply, SetFate
    <3>4. Append(server.block, Level(o)) \in Seq(LevelType)
      <4>1. Level(o) \in LevelType
        BY DEF Level, LevelType
      <4> QED
        BY <4>1, BlockIs
    <3> QED
      BY <1>1, <2>3, <3>2, <3>3, <3>4 DEF ServerType, Pushes
  <2> QED
    BY <2>2, <2>3
<1>2. CASE r.sv = server /\ r.out = "lost"
  BY <1>2 DEF Stays, Session
<1> QED
  BY <1>1, <1>2, CommandIs DEF Commands

LEMMA SavepointAt ==
  ASSUME Session, Names, NEW o \in Objects, NEW i, At(o, i), i # 1
  PROVE  Savepoint(server, o) = i /\ i \in DOMAIN server.block /\ i > 1 /\ i \in Nat
<1>1. i \in DOMAIN server.block /\ i \in Nat /\ i > 1
  BY BlockIs DEF At
<1>2. {j \in DOMAIN server.block : j > 1 /\ server.block[j].name = o} = {i}
  BY <1>1 DEF Names, At
<1> QED
  BY <1>1, <1>2 DEF Savepoint

\* The two ends of a savepoint: its writes go to the level below, or are
\* undone.
Releases(t, i) ==
  /\ Len(t.block) = i - 1 /\ t.open /\ ~t.failed /\ t.fate = server.fate
  /\ \A k \in 1 .. (i - 1) :
       /\ t.block[k].name = server.block[k].name
       /\ server.block[k].holds \subseteq t.block[k].holds
       /\ \A x \in t.block[k].holds :
            x \in server.block[k].holds \/ (k = i - 1 /\ x \in HeldBy(server.block))

Undoes(t, i) ==
  /\ Len(t.block) = i /\ t.open /\ ~t.failed
  /\ \A k \in 1 .. (i - 1) : t.block[k] = server.block[k]
  /\ t.block[i].name = server.block[i].name /\ t.block[i].holds = {}
  /\ \A d \in Objects :
       \/ t.fate[d] = server.fate[d]
       \/ t.fate[d] = "undone" /\ d \in HeldBy(server.block)

LEMMA ReleaseIs ==
  ASSUME Session, Names, NEW o \in Objects, NEW i, At(o, i), i # 1, server.open, ~server.failed,
         NEW r \in Run(server, "RELEASE", o)
  PROVE  /\ r.sv \in ServerType
         /\ \/ r.out = "ok" /\ Releases(r.sv, i)
            \/ r.out = "error" /\ Refuses(r.sv)
            \/ r.out = "lost" /\ Loses(r.sv)
<1>1. CASE r \in Answers(server, "RELEASE", o)
  <2>0. Savepoint(server, o) = i /\ i \in DOMAIN server.block /\ i > 1 /\ i \in Nat
    BY SavepointAt
  <2>1. PICK n \in Nat : n = Len(server.block) /\ DOMAIN server.block = 1 .. n
    BY BlockIs
  <2>2. PICK below, above : /\ below = SubSeq(server.block, 1, i - 1)
                            /\ above = SubSeq(server.block, i, Len(server.block))
    OBVIOUS
  <2>3. PICK h : h = HeldBy(above)
    OBVIOUS
  <2>4. /\ below \in Seq(LevelType) /\ Len(below) = i - 1 /\ DOMAIN below = 1 .. (i - 1)
        /\ \A k \in 1 .. (i - 1) : below[k] = server.block[k]
    BY <2>0, <2>1, <2>2, BlockIs
  <2>5. /\ DOMAIN above = 1 .. (n - i + 1)
        /\ \A k \in 1 .. (n - i + 1) : above[k] = server.block[i + k - 1]
    BY <2>0, <2>1, <2>2, BlockIs
  <2>6. h \subseteq Objects /\ h \subseteq HeldBy(server.block)
    <3> SUFFICES ASSUME NEW x \in h
                 PROVE  x \in Objects /\ x \in HeldBy(server.block)
      OBVIOUS
    <3>1. PICK k \in 1 .. (n - i + 1) : x \in above[k].holds
      BY <2>3, <2>5 DEF HeldBy
    <3>2. i + k - 1 \in DOMAIN server.block /\ x \in server.block[i + k - 1].holds
      BY <2>0, <2>1, <2>5, <3>1
    <3> QED
      BY <3>2, BlockIs DEF HeldBy
  <2>7. PICK l : l = [below[i - 1] EXCEPT !.holds = @ \cup h]
    OBVIOUS
  <2>8. i - 1 \in 1 .. (i - 1) /\ below[i - 1] \in LevelType
    BY <2>0, <2>4
  <2>9. l \in LevelType /\ l.name = below[i - 1].name /\ l.holds = below[i - 1].holds \cup h
    BY <2>6, <2>7, <2>8 DEF LevelType
  <2>10. PICK b : b = [below EXCEPT ![i - 1] = l]
    OBVIOUS
  <2>11. /\ b \in Seq(LevelType) /\ Len(b) = i - 1
         /\ \A k \in 1 .. (i - 1) : b[k] = IF k = i - 1 THEN l ELSE below[k]
    BY <2>4, <2>8, <2>9, <2>10
  <2>12. r = [sv |-> [server EXCEPT !.block = b], out |-> "ok"]
    <3>1. r \in Release(server, o)
      BY <1>1 DEF Answers
    <3>2. i # 0
      BY <2>0
    <3>3. r = Reply([server EXCEPT !.block =
                       [SubSeq(server.block, 1, i - 1) EXCEPT ![i - 1].holds =
                          @ \cup HeldBy(SubSeq(server.block, i, Len(server.block)))]], "ok")
      BY <2>0, <3>1, <3>2 DEF Release
    <3>4. r = Reply([server EXCEPT !.block = [below EXCEPT ![i - 1].holds = @ \cup h]], "ok")
      BY <2>2, <2>3, <3>3
    <3>5. [below EXCEPT ![i - 1].holds = @ \cup h] = b
      BY <2>7, <2>10
    <3> QED
      BY <3>4, <3>5 DEF Reply
  <2>13. r.sv \in ServerType /\ r.out = "ok" /\ r.sv.block = b /\ r.sv.open = server.open
         /\ r.sv.failed = server.failed /\ r.sv.fate = server.fate
    BY <2>11, <2>12 DEF Session, ServerType
  <2>14. Releases(r.sv, i)
    BY <2>4, <2>6, <2>9, <2>11, <2>13 DEF Releases
  <2> QED
    BY <2>13, <2>14
<1> QED
  BY <1>1, CommandIs DEF Commands

LEMMA RollbackToIs ==
  ASSUME Session, Names, NEW o \in Objects, NEW i, At(o, i), i # 1, server.open,
         NEW r \in Run(server, "ROLLBACK_TO", o)
  PROVE  r.sv \in ServerType /\ (Undoes(r.sv, i) \/ Loses(r.sv))
<1>1. CASE r \in Answers(server, "ROLLBACK_TO", o)
  <2>0. Savepoint(server, o) = i /\ i \in DOMAIN server.block /\ i > 1 /\ i \in Nat
    BY SavepointAt
  <2>1. PICK n \in Nat : n = Len(server.block) /\ DOMAIN server.block = 1 .. n
    BY BlockIs
  <2>2. PICK below, above : /\ below = SubSeq(server.block, 1, i - 1)
                            /\ above = SubSeq(server.block, i, Len(server.block))
    OBVIOUS
  <2>3. PICK h : h = HeldBy(above) \ HeldBy(below)
    OBVIOUS
  <2>4. /\ below \in Seq(LevelType) /\ Len(below) = i - 1 /\ DOMAIN below = 1 .. (i - 1)
        /\ \A k \in 1 .. (i - 1) : below[k] = server.block[k]
    BY <2>0, <2>1, <2>2, BlockIs
  <2>5. /\ DOMAIN above = 1 .. (n - i + 1)
        /\ \A k \in 1 .. (n - i + 1) : above[k] = server.block[i + k - 1]
    BY <2>0, <2>1, <2>2, BlockIs
  <2>6. h \subseteq HeldBy(server.block)
    <3> SUFFICES ASSUME NEW x \in h
                 PROVE  x \in HeldBy(server.block)
      OBVIOUS
    <3>1. PICK k \in 1 .. (n - i + 1) : x \in above[k].holds
      BY <2>3, <2>5 DEF HeldBy
    <3>2. i + k - 1 \in DOMAIN server.block /\ x \in server.block[i + k - 1].holds
      BY <2>0, <2>1, <2>5, <3>1
    <3> QED
      BY <3>2 DEF HeldBy
  <2>7. PICK t : t = SetFate(server, h, "undone")
    OBVIOUS
  <2>8. /\ t \in ServerType /\ t.open = server.open
        /\ \A d \in Objects : t.fate[d] = IF d \in h THEN "undone" ELSE server.fate[d]
    <3>1. [d \in Objects |-> IF d \in h THEN "undone" ELSE server.fate[d]] \in [Objects -> Fates]
      BY DEF Session, ServerType, Fates
    <3> QED
      BY <2>7, <3>1 DEF Session, ServerType, SetFate
  <2>9. PICK b : b = Append(below, [name |-> o, holds |-> {}])
    OBVIOUS
  <2>10. /\ b \in Seq(LevelType) /\ Len(b) = i
         /\ \A k \in 1 .. (i - 1) : b[k] = server.block[k]
         /\ b[i] = [name |-> o, holds |-> {}]
    <3>1. [name |-> o, holds |-> {}] \in LevelType
      BY DEF LevelType
    <3> QED
      BY <2>0, <2>4, <2>9, <3>1
  <2>11. r = [sv |-> [t EXCEPT !.block = b, !.failed = FALSE], out |-> "ok"]
    <3>1. r \in RollbackTo(server, o)
      BY <1>1 DEF Answers
    <3>2. i # 0
      BY <2>0
    <3> QED
      BY <2>0, <2>2, <2>3, <2>7, <2>9, <3>1, <3>2 DEF RollbackTo, Reply
  <2>12. /\ r.sv \in ServerType /\ r.sv.block = b /\ ~r.sv.failed
         /\ r.sv.open = t.open /\ r.sv.fate = t.fate
    BY <2>8, <2>10, <2>11 DEF ServerType
  <2>13. Undoes(r.sv, i)
    BY <2>6, <2>8, <2>10, <2>12 DEF Undoes, At
  <2> QED
    BY <2>12, <2>13
<1> QED
  BY <1>1, CommandIs DEF Commands

\* The block is over and its writes met that fate.
Settles(t, f) ==
  /\ t.block = <<>> /\ ~t.failed
  /\ \A d \in Objects : t.fate[d] = IF d \in HeldBy(server.block) THEN f ELSE server.fate[d]

LEMMA RollbackIs ==
  ASSUME Session, NEW o \in Objects, NEW r \in Run(server, "ROLLBACK", o)
  PROVE  r.sv \in ServerType /\ Settles(r.sv, "undone")
<1>1. CASE r \in Answers(server, "ROLLBACK", o)
  <2>1. r.sv = Settle(server, "undone")
    BY <1>1 DEF Answers, Rollback, Reply
  <2>2. PICK t : t = r.sv
    OBVIOUS
  <2> QED
    BY <2>1, <2>2, SettleIs DEF Settles, Session, Fates
<1>2. CASE ~server.open /\ r.sv = server
  <2>1. server.block = <<>> /\ ~server.failed
    BY <1>2 DEF Session
  <2>2. HeldBy(server.block) = {}
    BY <2>1 DEF HeldBy
  <2> QED
    BY <1>2, <2>1, <2>2 DEF Settles, Session
<1>3. ASSUME Loses(r.sv) PROVE Settles(r.sv, "undone")
  BY <1>3 DEF Loses, Settles
<1> QED
  BY <1>1, <1>2, <1>3, CommandIs DEF Commands

LEMMA CommitIs ==
  ASSUME Session, server.open, ~server.failed, NEW o \in Objects,
         NEW r \in Run(server, "COMMIT", o)
  PROVE  /\ r.sv \in ServerType
         /\ \E f \in {"undone", "done", "deciding"} :
              /\ Settles(r.sv, f)
              /\ \/ r.out = "ok" /\ f = "done" /\ r.sv.open
                 \/ r.out \in {"error", "class08"} /\ f = "undone" /\ r.sv.open
                 \/ r.out = "unknown" /\ r.sv.open
                 \/ r.out = "lost" /\ ~r.sv.open
<1>1. \A f \in Fates : \A t : t = Settle(server, f) =>
        /\ t \in ServerType /\ Settles(t, f) /\ t.open /\ t.faults = server.faults
  BY SettleIs DEF Settles, Session
<1>2. CASE r \in Answers(server, "COMMIT", o)
  <2>1. PICK t : t = Settle(server, "done")
    OBVIOUS
  <2>2. r = [sv |-> t, out |-> "ok"]
    BY <1>2, <2>1 DEF Answers, CommitBlock, Reply
  <2> QED
    BY <1>1, <2>1, <2>2 DEF Fates
<1>3. ASSUME NEW q \in Errors(server, "COMMIT", o) \cup Losses(server, "COMMIT"),
             server.faults > 0, r = [q EXCEPT !.sv.faults = @ - 1]
      PROVE  /\ r.sv \in ServerType
             /\ \E f \in {"undone", "done", "deciding"} :
                  /\ Settles(r.sv, f)
                  /\ \/ r.out \in {"error", "class08"} /\ f = "undone" /\ r.sv.open
                     \/ r.out = "unknown" /\ r.sv.open
                     \/ r.out = "lost" /\ ~r.sv.open
  <2>1. PICK f \in {"undone", "done", "deciding"} :
          \/ q \in {Reply(Settle(server, f), out) : out \in {"error", "class08"}} /\ f = "undone"
          \/ q = Reply(Settle(server, f), "unknown")
          \/ q = Reply([Settle(server, f) EXCEPT !.open = FALSE], "lost")
    BY <1>3 DEF Errors, Losses
  <2>2. PICK t : t = Settle(server, f)
    OBVIOUS
  <2>3. t \in ServerType /\ Settles(t, f) /\ t.open /\ t.faults = server.faults
    BY <1>1, <2>2 DEF Fates
  <2>4. /\ q.sv \in ServerType /\ Settles(q.sv, f) /\ q.sv.faults > 0 /\ q = Reply(q.sv, q.out)
        /\ \/ q.out \in {"error", "class08"} /\ f = "undone" /\ q.sv.open
           \/ q.out = "unknown" /\ q.sv.open
           \/ q.out = "lost" /\ ~q.sv.open
    <3>1. CASE q \in {Reply(t, out) : out \in {"error", "class08"}} /\ f = "undone"
      BY <1>3, <2>3, <3>1 DEF Reply
    <3>2. CASE q = Reply(t, "unknown")
      BY <1>3, <2>3, <3>2 DEF Reply
    <3>3. CASE q = Reply([t EXCEPT !.open = FALSE], "lost")
      BY <1>3, <2>3, <3>3 DEF Reply, Settles, ServerType
    <3> QED
      BY <2>1, <2>2, <3>1, <3>2, <3>3
  <2>5. /\ r.sv \in ServerType /\ r.out = q.out
        /\ r.sv.block = q.sv.block /\ r.sv.open = q.sv.open /\ r.sv.fate = q.sv.fate
        /\ r.sv.failed = q.sv.failed
    BY <1>3, <2>4, FaultIs
  <2>6. Settles(r.sv, f)
    BY <2>4, <2>5 DEF Settles
  <2> QED
    BY <2>4, <2>5, <2>6
<1> QED
  BY <1>2, <1>3, RunIs

-----------------------------------------------------------------------------
(***************************************************************************)
(* What the steps do to the objects.                                       *)
(***************************************************************************)
LEMMA SessionKept ==
  ASSUME Session, server' \in ServerType,
         \/ Stays(server') \/ Refuses(server') \/ Loses(server')
         \/ \E o \in Objects : \/ Holds(server', o) \/ AutoCommits(server', o)
                               \/ Begins(server', o) \/ Pushes(server', o)
         \/ \E i : Releases(server', i) \/ Undoes(server', i)
         \/ \E f : Settles(server', f)
  PROVE  Session'
<1>1. CASE Stays(server') \/ Refuses(server') \/ Loses(server')
  BY <1>1 DEF Session, Stays, Refuses, Loses
<1>2. CASE \E o \in Objects : AutoCommits(server', o)
  BY <1>2 DEF Session, AutoCommits
<1>3. CASE \E o \in Objects : Holds(server', o)
  BY <1>3 DEF Session, Holds
<1>4. CASE \/ \E o \in Objects : Begins(server', o) \/ Pushes(server', o)
           \/ \E i : Releases(server', i) \/ Undoes(server', i)
  BY <1>4 DEF Session, Begins, Pushes, Releases, Undoes
<1>5. CASE \E f : Settles(server', f)
  BY <1>5 DEF Session, Settles
<1> QED
  BY <1>1, <1>2, <1>3, <1>4, <1>5

LEMMA SameTx ==
  ASSUME Plain, tx' = tx
  PROVE  QuietTx /\ Plain'
  BY DEF QuietTx, Plain, Active

\* A constructor that threw, and a new nontransaction.
LEMMA FailedTx ==
  ASSUME Typed, Plain, NEW o \in Objects, tx[o] = Unborn, NEW k, k # "robust",
         tx' = [tx EXCEPT ![o] = Failed(k)] \/
           (tx' = [tx EXCEPT ![o] = New("nontransaction")] /\ k = "nontransaction")
  PROVE  QuietTx /\ Plain'
<1>1. tx[o].kind = "none" /\ ~tx[o].alive
  BY DEF Unborn
<1>2. /\ \A p \in Objects : p # o => tx'[p] = tx[p]
      /\ tx'[o].kind = k /\ tx'[o].status = "active" /\ tx'[o].asked = 0 /\ ~tx'[o].pending
      /\ tx'[o].alive => k = "nontransaction" /\ tx'[o].registered
  BY NewIs DEF Typed, Registers
<1> QED
  BY <1>1, <1>2 DEF QuietTx, Plain, Active

LEMMA NewTx ==
  ASSUME Typed, Plain, NEW o \in Objects, tx[o] = Unborn,
         NEW k \in {"work", "sub"}, NEW p,
         \/ k = "work" /\ p = NoObject /\ tx' = [tx EXCEPT ![o] = New("work")]
         \/ k = "sub" /\ tx' = [tx EXCEPT ![o] = [New("sub") EXCEPT !.parent = p]]
  PROVE  StartsTx(o, k, p) /\ Plain'
<1>1. tx[o].kind = "none"
  BY DEF Unborn
<1>2. PICK n : /\ tx' = [tx EXCEPT ![o] = n]
               /\ n.kind = k /\ n.alive /\ n.status = "active" /\ n.parent = p
               /\ ~n.pending /\ n.asked = 0 /\ (k = "work" => n.registered)
  <2>1. CASE k = "work" /\ p = NoObject /\ tx' = [tx EXCEPT ![o] = New("work")]
    BY <2>1, NewIs DEF Registers
  <2>2. CASE k = "sub" /\ tx' = [tx EXCEPT ![o] = [New("sub") EXCEPT !.parent = p]]
    <3>1. PICK n, c : n = New("sub") /\ c = [n EXCEPT !.parent = p]
      OBVIOUS
    <3>2. /\ n \in TxType
          /\ n.kind = "sub" /\ n.alive /\ n.status = "active" /\ ~n.pending /\ n.asked = 0
      BY <3>1, NewTyped, NewIs
    <3>3. /\ c.kind = "sub" /\ c.alive /\ c.status = "active" /\ ~c.pending /\ c.asked = 0
          /\ c.parent = p
      BY <3>1, <3>2 DEF TxType
    <3> QED
      BY <2>2, <3>1, <3>3
  <2> QED
    BY <2>1, <2>2
<1>3. tx'[o] = n /\ \A d \in Objects : d # o => tx'[d] = tx[d]
  BY <1>2 DEF Typed
<1> QED
  BY <1>1, <1>2, <1>3 DEF StartsTx, Plain, Active

LEMMA FocusTx ==
  ASSUME Typed, Plain, NEW o \in Objects, NEW f,
         tx' = [tx EXCEPT ![o] = [tx[o] EXCEPT !.focus = f, !.pending = FALSE]]
  PROVE  QuietTx /\ Plain' /\ tx'[o].kind = tx[o].kind
<1>1. /\ \A p \in Objects : p # o => tx'[p] = tx[p]
      /\ tx'[o].kind = tx[o].kind /\ tx'[o].status = tx[o].status /\ tx'[o].alive = tx[o].alive
      /\ tx'[o].parent = tx[o].parent /\ ~tx'[o].pending /\ tx'[o].asked = tx[o].asked
      /\ tx'[o].registered = tx[o].registered
  BY DEF Typed, TxType
<1> QED
  BY <1>1 DEF QuietTx, Plain, Active

\* The ends: close() with or without the object's own end, and an exception
\* that leaves commit().
Closes(o, status) ==
  \/ Finish(o, status) \/ Threw(o, status)
  \/ tx' = [Closed(o, status) EXCEPT ![o].alive = FALSE]

LEMMA ClosesIs ==
  ASSUME Typed, Plain, NEW o \in Objects, NEW status \in Statuses, Closes(o, status)
  PROVE  /\ \A p \in Objects : p # o => tx'[p] = tx[p]
         /\ tx'[o].status = status /\ tx'[o].kind = tx[o].kind
         /\ ~tx'[o].pending /\ tx'[o].asked = 0 /\ (tx'[o].alive => tx[o].alive)
<1>1. CASE Finish(o, status)
  BY <1>1, ClosedIs DEF Finish, Plain
<1>2. CASE Threw(o, status)
  BY <1>2, ThrewIs DEF Plain
<1>3. CASE tx' = [Closed(o, status) EXCEPT ![o].alive = FALSE]
  <2>1. PICK c : c = Closed(o, status)
    OBVIOUS
  <2>2. /\ c \in [Objects -> TxType] /\ \A p \in Objects : p # o => c[p] = tx[p]
        /\ c[o].status = status /\ c[o].kind = tx[o].kind /\ c[o].asked = tx[o].asked
        /\ ~c[o].pending
    BY <2>1, ClosedIs
  <2> QED
    BY <1>3, <2>1, <2>2 DEF TxType, Plain
<1> QED
  BY <1>1, <1>2, <1>3 DEF Closes

LEMMA EndTx ==
  ASSUME Typed, Plain, NEW o \in Objects, NEW status \in Statuses \ {"active"}, Closes(o, status),
         Active(o), Childless(o)
  PROVE  EndsTx(o, status) /\ Plain'
<1>1. /\ \A p \in Objects : p # o => tx'[p] = tx[p]
      /\ tx'[o].status = status /\ tx'[o].kind = tx[o].kind
      /\ ~tx'[o].pending /\ tx'[o].asked = 0 /\ (tx'[o].alive => tx[o].alive)
  BY ClosesIs
<1> QED
  BY <1>1 DEF EndsTx, Active, Plain, Statuses

\* The end of a nontransaction, or of an object that was no longer active.
LEMMA CloseTx ==
  ASSUME Typed, Plain, NEW o \in Objects, NEW status \in Statuses \ {"active"}, Closes(o, status),
         tx[o].kind = "nontransaction" \/ tx[o].status = status
  PROVE  QuietTx /\ Plain'
<1>1. /\ \A p \in Objects : p # o => tx'[p] = tx[p]
      /\ tx'[o].status = status /\ tx'[o].kind = tx[o].kind
      /\ ~tx'[o].pending /\ tx'[o].asked = 0 /\ (tx'[o].alive => tx[o].alive)
  BY ClosesIs
<1> QED
  BY <1>1 DEF QuietTx, Active, Plain, Statuses

(***************************************************************************)
(* The outermost transaction is the one that is registered, and the only   *)
(* one that is active when it has no subtransactions.                      *)
(***************************************************************************)
LEMMA BottomIs ==
  ASSUME Kept, server.block # <<>>
  PROVE  /\ current = server.block[1].name /\ current \in Objects
         /\ tx[current].kind = "work" /\ Active(current) /\ At(current, 1)
<1>1. PICK b : b = server.block[1].name
  OBVIOUS
<1>2. b \in Objects /\ 1 \in DOMAIN server.block
  BY <1>1, BlockIs DEF Kept
<1>3. Active(b) /\ tx[b].kind = "work"
  BY <1>1 DEF Kept, Stack, Bottom
<1>4. current = b
  BY <1>2, <1>3 DEF Kept, Plain, Active, Registration, RegistrationExact
<1> QED
  BY <1>1, <1>2, <1>3, <1>4 DEF At

LEMMA MainIs ==
  ASSUME Kept, NEW o \in Objects, tx[o].alive, tx[o].status = "active", tx[o].kind # "sub"
  PROVE  current = o
  BY DEF Kept, Plain, Registration, RegistrationExact

LEMMA OnlyOne ==
  ASSUME Kept, NEW o \in Objects, Active(o), tx[o].kind = "work", Childless(o), server.open
  PROVE  (\A d \in Objects : Active(d) => d = o) /\ o \in HeldBy(server.block)
<1>1. current = o
  BY MainIs DEF Active
<1>2. PICK i \in DOMAIN server.block : At(o, i) /\ o \in server.block[i].holds
  BY DEF Kept, Stack, Placed
<1>3. server.block # <<>>
  BY <1>2
<1>4. At(o, 1)
  BY <1>1, <1>3, BottomIs
<1>5. ASSUME NEW d \in Objects, Active(d), d # o
      PROVE  FALSE
  <2>1. PICK j \in DOMAIN server.block : At(d, j)
    BY <1>5 DEF Kept, Stack, Placed
  <2>2. j < 1 /\ j \in 1 .. Len(server.block)
    BY <1>4, <1>5, <2>1, BelowTop, BlockIs DEF Kept
  <2> QED
    BY <2>2, BlockIs DEF Kept
<1> QED
  BY <1>2, <1>5 DEF HeldBy

LEMMA NoneOpen ==
  ASSUME TransactionAssumption, Kept,
         current = NoObject \/ \E o \in Objects : current = o /\ tx[o].kind # "work"
  PROVE  server.block = <<>>
  BY BottomIs DEF TransactionAssumption

-----------------------------------------------------------------------------
(***************************************************************************)
(* The three ways a subtransaction's level is left.                        *)
(***************************************************************************)
LEMMA SubAt ==
  ASSUME Kept, NEW o \in Objects, Active(o), tx[o].kind = "sub", server.open
  PROVE  \E i \in DOMAIN server.block : At(o, i) /\ i # 1
<1>1. PICK i \in DOMAIN server.block : At(o, i)
  BY DEF Kept, Stack, Placed
<1>2. server.block # <<>>
  BY <1>1
<1> QED
  BY <1>1, <1>2, BottomIs DEF At

LEMMA RefusesUnstacks ==
  ASSUME Kept, NEW o \in Objects, EndsTx(o, "aborted"), tx[o].kind = "sub",
         NEW i \in DOMAIN server.block, At(o, i),
         server.open, server' \in ServerType, Refuses(server')
  PROVE  Unstacks(o, i)
<1>1. /\ server'.block = server.block /\ server'.open /\ server'.fate = server.fate
      /\ server'.failed /\ server'.block \in Seq(LevelType)
      /\ i \in 1 .. Len(server.block) /\ Len(server.block) \in Nat
  BY BlockIs DEF Refuses, Kept
<1>2. ASSUME NEW k \in DOMAIN server.block, NEW x \in server.block[k].holds,
             tx'[x].status = "aborted"
      PROVE  i <= k
  <2>1. Holding(k, x) /\ x \in Objects
    BY <1>2, BlockIs DEF Kept, Holdings
  <2>2. i \in Nat /\ k \in Nat
    BY BlockIs DEF Kept
  <2>3. CASE x = o
    BY <2>1, <2>2, <2>3 DEF Holding, EndsTx
  <2>4. CASE x # o
    BY <1>2, <2>1, <2>2, <2>4 DEF Holding, EndsTx
  <2> QED
    BY <2>3, <2>4
<1> QED
  BY <1>1, <1>2 DEF Unstacks

LEMMA ReleasesUnstacks ==
  ASSUME Kept, NEW o \in Objects, EndsTx(o, "committed"), tx[o].kind = "sub",
         NEW i \in DOMAIN server.block, At(o, i),
         ~server.failed, server' \in ServerType, Releases(server', i)
  PROVE  Unstacks(o, i)
<1>1. PICK n \in Nat : n = Len(server.block) /\ DOMAIN server.block = 1 .. n /\ i \in 1 .. n
  BY BlockIs DEF Kept
<1>2. server'.block \in Seq(LevelType) /\ server'.open /\ server'.fate = server.fate
  BY DEF ServerType, Releases
<1>3. DOMAIN server'.block = 1 .. (i - 1) /\ Len(server'.block) = i - 1
  BY <1>1, <1>2 DEF Releases
<1>4. ASSUME NEW k \in 1 .. (i - 1), NEW x \in server'.block[k].holds
      PROVE  /\ \E l \in DOMAIN server.block : x \in server.block[l].holds /\ (l = k \/ k = i - 1)
             /\ tx'[x].status # "aborted"
  <2>1. PICK l \in DOMAIN server.block : x \in server.block[l].holds /\ (l = k \/ k = i - 1)
    <3>1. k \in DOMAIN server.block
      BY <1>1, <1>4
    <3>2. CASE x \in server.block[k].holds
      BY <3>1, <3>2
    <3>3. CASE k = i - 1 /\ x \in HeldBy(server.block)
      BY <3>3 DEF HeldBy
    <3> QED
      BY <1>4, <3>2, <3>3 DEF Releases
  <2>2. Holding(l, x) /\ x \in Objects
    BY <2>1, BlockIs DEF Kept, Holdings
  <2>3. tx'[x].status # "aborted"
    BY <2>2 DEF Holding, EndsTx
  <2> QED
    BY <2>1, <2>3
<1>5. \A k \in 1 .. (i - 1) : /\ server'.block[k].name = server.block[k].name
                              /\ server.block[k].holds \subseteq server'.block[k].holds
  BY DEF Releases
<1> QED
  BY <1>1, <1>2, <1>3, <1>4, <1>5 DEF Unstacks

LEMMA UndoesUnstacks ==
  ASSUME Kept, NEW o \in Objects, EndsTx(o, "aborted"), tx[o].kind = "sub",
         NEW i \in DOMAIN server.block, At(o, i),
         server' \in ServerType, Undoes(server', i)
  PROVE  Unstacks(o, i)
<1>1. PICK n \in Nat : n = Len(server.block) /\ DOMAIN server.block = 1 .. n /\ i \in 1 .. n
  BY BlockIs DEF Kept
<1>2. server'.block \in Seq(LevelType) /\ server'.open /\ ~server'.failed
  BY DEF ServerType, Undoes
<1>3. DOMAIN server'.block = 1 .. i /\ Len(server'.block) = i
  BY <1>1, <1>2 DEF Undoes
<1>4. \A k \in 1 .. (i - 1) : server'.block[k] = server.block[k]
  BY DEF Undoes
<1>5. server'.block[i].name = server.block[i].name /\ server'.block[i].holds = {}
  BY DEF Undoes
<1>6. ASSUME NEW k \in 1 .. (i - 1), NEW x \in server'.block[k].holds
      PROVE  k \in DOMAIN server.block /\ x \in server.block[k].holds /\ tx'[x].status # "aborted"
  <2>1. k \in DOMAIN server.block /\ x \in server.block[k].holds /\ k < i /\ ~(i < k)
    BY <1>1, <1>4, <1>6
  <2>2. Holding(k, x) /\ x \in Objects
    BY <2>1, BlockIs DEF Kept, Holdings
  <2>3. x # o
    BY <2>1, <2>2, <1>1 DEF Holding, EndsTx
  <2>4. tx[x].status # "aborted"
    BY <2>1, <2>2 DEF Holding, EndsTx
  <2> QED
    BY <2>1, <2>2, <2>3, <2>4 DEF EndsTx
<1>7. \A k \in 1 .. i : k = i \/ k \in 1 .. (i - 1)
  BY <1>1
<1>8. ASSUME NEW k \in DOMAIN server'.block
      PROVE  /\ server'.block[k].name = server.block[k].name
             /\ k < i => server.block[k].holds \subseteq server'.block[k].holds
             /\ \A x \in server'.block[k].holds :
                  /\ \E l \in DOMAIN server.block : x \in server.block[l].holds /\ (l = k \/ k = i - 1)
                  /\ tx'[x].status = "aborted" => server'.failed /\ i <= k
  <2>1. CASE k = i
    BY <1>1, <1>5, <2>1
  <2>2. CASE k \in 1 .. (i - 1)
    BY <1>4, <1>6, <2>2
  <2> QED
    BY <1>3, <1>7, <1>8, <2>1, <2>2
<1> QED
  BY <1>1, <1>2, <1>3, <1>8 DEF Unstacks, Undoes

-----------------------------------------------------------------------------
(***************************************************************************)
(* The steps.                                                              *)
(***************************************************************************)
Rest == Session /\ Plain /\ Stack /\ Holdings /\ Settled

LEMMA QuietRest ==
  ASSUME Kept, QuietTx, Plain', server' \in ServerType,
         Stays(server') \/ Refuses(server') \/ Loses(server')
  PROVE  Rest'
<1>1. Session'
  BY SessionKept DEF Kept
<1>2. Stack' /\ Holdings' /\ Settled'
  BY QuietSame, QuietLost
<1> QED
  BY <1>1, <1>2 DEF Rest

LEMMA SameServer ==
  ASSUME Session, server' = server
  PROVE  server' \in ServerType /\ Stays(server')
  BY DEF Session, Stays

\* A command of a transaction that is active.
LEMMA QuietWrite ==
  ASSUME TransactionAssumption, Kept, QuietTx, Plain', NEW o \in Objects,
         tx[o].alive, tx[o].status = "active", tx'[o].kind = tx[o].kind,
         NEW r \in Run(server, "WRITE", o), server' = r.sv
  PROVE  Rest'
<1>1. /\ server' \in ServerType
      /\ \/ Stays(server') \/ Refuses(server') \/ Loses(server')
         \/ Holds(server', o) \/ AutoCommits(server', o)
  BY WriteIs DEF Kept
<1>2. tx[o].kind \in {"work", "sub", "nontransaction"}
  BY DEF Kept, Plain, Registration, Typed, TxType
<1>3. CASE Stays(server') \/ Refuses(server') \/ Loses(server')
  BY <1>1, <1>3, QuietRest
<1>4. CASE Holds(server', o)
  <2>1. server.block # <<>>
    BY <1>4 DEF Holds
  <2>2. tx[o].kind # "nontransaction"
    BY <2>1, MainIs, NoneOpen
  <2>3. Active(o)
    BY <1>2, <2>2 DEF Active
  <2>4. Stack' /\ Holdings' /\ Settled'
    BY <1>1, <1>4, <2>3, QuietHolds
  <2>5. Session'
    BY <1>1, <1>4, SessionKept DEF Kept
  <2> QED
    BY <2>4, <2>5 DEF Rest
<1>5. CASE AutoCommits(server', o)
  <2>1. server.open /\ DOMAIN server.block = {}
    BY <1>5 DEF AutoCommits
  <2>2. ~Active(o)
    BY <2>1 DEF Kept, Stack, Placed
  <2>3. tx[o].kind = "nontransaction"
    BY <1>2, <2>2 DEF Active
  <2>4. Stack' /\ Holdings' /\ Settled'
    BY <1>5, <2>3, QuietAuto
  <2>5. Session'
    BY <1>1, <1>5, SessionKept DEF Kept
  <2> QED
    BY <2>4, <2>5 DEF Rest
<1> QED
  BY <1>1, <1>3, <1>4, <1>5

LEMMA ConstructRest ==
  ASSUME TransactionAssumption, Ruled, Kept, NEW o \in Objects,
         \/ \E k \in Kinds : Refused(o, k)
         \/ ConstructNontransaction(o) \/ ConstructWork(o) \/ ConstructRobust(o)
         \/ \E p \in Objects : Nest(o, p)
  PROVE  Rest'
<1>0. Typed /\ Plain /\ Session
  BY DEF Kept, Registration
<1>1. CASE \E k \in Kinds : Refused(o, k)
  <2>1. PICK k \in Kinds : Refused(o, k)
    BY <1>1
  <2>2. /\ tx[o] = Unborn /\ k # "robust" /\ tx' = [tx EXCEPT ![o] = Failed(k)]
        /\ server' = server
    BY <2>1 DEF Refused, Constructs, Ruled
  <2>3. QuietTx /\ Plain'
    BY <1>0, <2>2, FailedTx
  <2> QED
    BY <1>0, <2>2, <2>3, SameServer, QuietRest
<1>2. CASE ConstructNontransaction(o)
  <2>1. /\ tx[o] = Unborn /\ tx' = [tx EXCEPT ![o] = New("nontransaction")]
        /\ server' = server
    BY <1>2 DEF ConstructNontransaction, Constructs
  <2>2. QuietTx /\ Plain'
    BY <1>0, <2>1, FailedTx
  <2> QED
    BY <1>0, <2>1, <2>2, SameServer, QuietRest
<1>3. CASE ConstructWork(o)
  <2>1. tx[o] = Unborn /\ current = NoObject
    BY <1>3 DEF ConstructWork, Constructs
  <2>2. PICK r \in Run(server, "BEGIN", o) :
          /\ tx' = [tx EXCEPT ![o] = IF r.out = "ok" THEN New("work") ELSE Failed("work")]
          /\ server' = r.sv
    BY <1>3 DEF ConstructWork
  <2>3. server.block = <<>>
    BY <2>1, NoneOpen
  <2>4. /\ server' \in ServerType
        /\ \/ r.out = "ok" /\ Begins(server', o)
           \/ r.out # "ok" /\ (Stays(server') \/ Refuses(server') \/ Loses(server'))
    BY <1>0, <2>2, <2>3, BeginIs
  <2>5. CASE r.out = "ok" /\ Begins(server', o)
    <3>1. StartsTx(o, "work", NoObject) /\ Plain'
      BY <1>0, <2>1, <2>2, <2>5, NewTx
    <3>2. Stack' /\ Holdings' /\ Settled'
      BY <2>5, <3>1, WorkStarts
    <3>3. Session'
      BY <1>0, <2>4, <2>5, SessionKept
    <3> QED
      BY <3>1, <3>2, <3>3 DEF Rest
  <2>6. CASE r.out # "ok" /\ (Stays(server') \/ Refuses(server') \/ Loses(server'))
    <3>1. QuietTx /\ Plain'
      BY <1>0, <2>1, <2>2, <2>6, FailedTx
    <3> QED
      BY <2>4, <2>6, <3>1, QuietRest
  <2> QED
    BY <2>4, <2>5, <2>6
<1>4. CASE ConstructRobust(o)
  BY <1>4 DEF ConstructRobust, Constructs, Ruled
<1>5. CASE \E p \in Objects : Nest(o, p)
  <2>0. PICK p \in Objects : Nest(o, p)
    BY <1>5
  <2>1. /\ tx[o] = Unborn /\ tx[p].alive /\ tx[p].kind # "nontransaction"
        /\ tx[p].status = "active" /\ \A c \in Children(p) : tx[c].status # "active"
    BY <2>0 DEF Nest, Constructs, Live, Allowed, Ruled
  <2>2. PICK r \in Run(server, "SAVEPOINT", o) :
          /\ tx' = [tx EXCEPT ![o] = IF r.out = "ok"
                        THEN [New("sub") EXCEPT !.parent = p] ELSE Failed("sub")]
          /\ server' = r.sv
    BY <2>0 DEF Nest
  <2>3. /\ server' \in ServerType
        /\ \/ r.out = "ok" /\ Pushes(server', o)
           \/ r.out # "ok" /\ (Stays(server') \/ Refuses(server') \/ Loses(server'))
    BY <1>0, <2>2, SavepointIs
  <2>4. Active(p) /\ Childless(p)
    BY <1>0, <2>1 DEF Active, Childless, Children, Alive, Plain, Typed, TxType
  <2>5. CASE r.out = "ok" /\ Pushes(server', o)
    <3>1. StartsTx(o, "sub", p) /\ Plain'
      BY <1>0, <2>1, <2>2, <2>5, NewTx
    <3>2. Stack' /\ Holdings' /\ Settled'
      BY <2>4, <2>5, <3>1, SubStarts
    <3>3. Session'
      BY <1>0, <2>3, <2>5, SessionKept
    <3> QED
      BY <3>1, <3>2, <3>3 DEF Rest
  <2>6. CASE r.out # "ok" /\ (Stays(server') \/ Refuses(server') \/ Loses(server'))
    <3>1. QuietTx /\ Plain'
      BY <1>0, <2>1, <2>2, <2>6, FailedTx
    <3> QED
      BY <2>3, <2>6, <3>1, QuietRest
  <2> QED
    BY <2>3, <2>5, <2>6
<1> QED
  BY <1>1, <1>2, <1>3, <1>4, <1>5

LEMMA UseRest ==
  ASSUME TransactionAssumption, Ruled, Kept, NEW o \in Objects,
         Exec(o) \/ ExecParams(o) \/ OpenFocus(o) \/ CloseFocus(o)
  PROVE  Rest'
<1>0. Typed /\ Plain /\ Session /\ tx[o] \in TxType /\ ~tx[o].pending /\ tx[o].alive
  BY DEF Kept, Registration, Typed, Plain, Exec, ExecParams, OpenFocus, CloseFocus, Live
<1>1. CASE Exec(o)
  <2>1. tx[o].status = "active"
    BY <1>1 DEF Exec, Allowed, Ruled
  <2>2. CASE tx[o].focus
    <3>1. tx' = [tx EXCEPT ![o].pending = FALSE] /\ server' = server
      BY <1>1, <2>2 DEF Exec
    <3>2. tx' = [tx EXCEPT ![o] = [tx[o] EXCEPT !.focus = tx[o].focus, !.pending = FALSE]]
      BY <1>0, <3>1 DEF Typed, TxType
    <3>3. QuietTx /\ Plain'
      BY <1>0, <3>2, FocusTx
    <3> QED
      BY <1>0, <3>1, <3>3, SameServer, QuietRest
  <2>3. CASE ~tx[o].focus
    <3>1. tx' = tx /\ \E r \in Run(server, "WRITE", o) : server' = r.sv
      BY <1>0, <1>1, <2>1, <2>3 DEF Exec
    <3>2. QuietTx /\ Plain' /\ tx'[o].kind = tx[o].kind
      BY <1>0, <3>1, SameTx
    <3> QED
      BY <1>0, <2>1, <3>1, <3>2, QuietWrite
  <2> QED
    BY <2>2, <2>3
<1>2. CASE OpenFocus(o)
  <2>1. server' = server /\ tx' = [tx EXCEPT ![o].focus = TRUE]
    BY <1>2 DEF OpenFocus
  <2>2. tx' = [tx EXCEPT ![o] = [tx[o] EXCEPT !.focus = TRUE, !.pending = FALSE]]
    BY <1>0, <2>1 DEF Typed, TxType
  <2>3. QuietTx /\ Plain'
    BY <1>0, <2>2, FocusTx
  <2> QED
    BY <1>0, <2>1, <2>3, SameServer, QuietRest
<1>3. CASE CloseFocus(o)
  <2>1. PICK r \in IF tx[o].status = "active" THEN Run(server, "WRITE", o)
                   ELSE {Reply(server, "error")} :
          /\ server' = r.sv
          /\ tx' = [tx EXCEPT ![o].focus = FALSE, ![o].pending = r.out # "ok" /\ ~Careful]
    BY <1>3 DEF CloseFocus
  <2>2. PICK q : q = (r.out # "ok" /\ ~Careful)
    OBVIOUS
  <2>3. q = FALSE
    BY <2>2 DEF Ruled
  <2>4. tx' = [tx EXCEPT ![o].focus = FALSE, ![o].pending = FALSE]
    BY <2>1, <2>2, <2>3
  <2>5. tx' = [tx EXCEPT ![o] = [tx[o] EXCEPT !.focus = FALSE, !.pending = FALSE]]
    BY <1>0, <2>4 DEF Typed, TxType
  <2>6. QuietTx /\ Plain' /\ tx'[o].kind = tx[o].kind
    BY <1>0, <2>5, FocusTx
  <2>7. CASE tx[o].status = "active"
    BY <1>0, <2>1, <2>6, <2>7, QuietWrite
  <2>8. CASE tx[o].status # "active"
    <3>1. server' = server
      BY <2>1, <2>8 DEF Reply
    <3> QED
      BY <1>0, <2>6, <3>1, SameServer, QuietRest
  <2> QED
    BY <2>7, <2>8
<1>4. CASE ExecParams(o)
  <2>1. tx[o].status = "active" /\ tx' = tx
    BY <1>4 DEF ExecParams, Allowed, Ruled
  <2>2. QuietTx /\ Plain' /\ tx'[o].kind = tx[o].kind
    BY <1>0, <2>1, SameTx
  <2>3. CASE tx[o].focus
    <3>1. server' = server
      BY <1>4, <2>3 DEF ExecParams
    <3> QED
      BY <1>0, <2>2, <3>1, SameServer, QuietRest
  <2>4. CASE ~tx[o].focus
    <3>1. \E r \in Run(server, "WRITE", o) : server' = r.sv
      BY <1>4, <2>4 DEF ExecParams
    <3> QED
      BY <1>0, <2>1, <2>2, <3>1, QuietWrite
  <2> QED
    BY <2>3, <2>4
<1> QED
  BY <1>1, <1>2, <1>3, <1>4

\* The block is settled, or was lost with the connection.
LEMMA EndRest ==
  ASSUME Kept, NEW o \in Objects, NEW status, EndsTx(o, status), Plain', server' \in ServerType,
         NEW f \in {"undone", "done", "deciding"}, Settles(server', f),
         ~server'.open \/ \A d \in Objects : Active(d) => d = o,
         f # "undone" => ~server.failed /\ \A d \in Objects : Active(d) => d = o,
         status = "committed" => tx[o].kind = "work" /\ f = "done" /\ o \in HeldBy(server.block),
         status = "aborted" => f = "undone"
  PROVE  Rest'
<1>1. Session'
  BY SessionKept DEF Kept
<1>2. /\ server'.block = <<>>
      /\ \A d \in Objects :
           server'.fate[d] = IF d \in HeldBy(server.block) THEN f ELSE server.fate[d]
  BY DEF Settles
<1>3. Stack' /\ Holdings' /\ Settled'
  BY <1>2, EndsGone
<1> QED
  BY <1>1, <1>3 DEF Rest

LEMMA ClosedServer ==
  ASSUME Session, ~server.open, server' = server
  PROVE  server' \in ServerType /\ Settles(server', "undone") /\ ~server'.open
<1>1. server.block = <<>> /\ ~server.failed
  BY DEF Session
<1>2. HeldBy(server.block) = {}
  BY <1>1 DEF HeldBy
<1> QED
  BY <1>1, <1>2 DEF Session, Settles

LEMMA AbortRest ==
  ASSUME Kept, NEW o \in Objects, tx[o].alive, tx[o].status = "active",
         \A c \in Children(o) : tx[c].status # "active",
         Closes(o, "aborted"),
         \E r \in DoAbort(o, server, FALSE) : server' = r.sv
  PROVE  Rest'
<1>0. Typed /\ Plain /\ Session /\ "aborted" \in Statuses \ {"active"}
  BY DEF Kept, Registration, Statuses
<1>1. tx[o].kind \in {"work", "sub", "nontransaction"}
  BY <1>0 DEF Plain, Typed, TxType
<1>2. CASE tx[o].kind = "nontransaction"
  <2>1. server' = server
    BY <1>2 DEF DoAbort, Reply
  <2>2. QuietTx /\ Plain'
    BY <1>0, <1>2, CloseTx
  <2> QED
    BY <1>0, <2>1, <2>2, SameServer, QuietRest
<1>3. CASE tx[o].kind \in {"work", "sub"}
  <2>1. Active(o) /\ Childless(o)
    BY <1>3 DEF Active, Childless, Children, Alive
  <2>2. EndsTx(o, "aborted") /\ Plain'
    BY <1>0, <2>1, EndTx
  <2>3. PICK r \in Run(server, RollbackCommand(o), o) : server' = r.sv
    BY <1>3 DEF DoAbort
  <2>4. CASE ~server.open
    <3>1. server' = server
      BY <2>3, <2>4 DEF Run, Reply
    <3> QED
      BY <1>0, <2>2, <2>4, <3>1, ClosedServer, EndRest
  <2>5. CASE server.open /\ tx[o].kind = "work"
    <3>1. r \in Run(server, "ROLLBACK", o)
      BY <2>5 DEF RollbackCommand
    <3>2. server' \in ServerType /\ Settles(server', "undone")
      BY <1>0, <2>3, <3>1, RollbackIs
    <3>3. \A d \in Objects : Active(d) => d = o
      BY <2>1, <2>5, OnlyOne
    <3> QED
      BY <2>2, <3>2, <3>3, EndRest
  <2>6. CASE server.open /\ tx[o].kind = "sub"
    <3>1. r \in Run(server, "ROLLBACK_TO", o)
      BY <2>6 DEF RollbackCommand
    <3>2. PICK i \in DOMAIN server.block : At(o, i) /\ i # 1
      BY <2>1, <2>6, SubAt
    <3>3. Names
      BY DEF Kept, Stack
    <3>4. server' \in ServerType /\ (Undoes(server', i) \/ Loses(server'))
      BY <1>0, <2>3, <2>6, <3>1, <3>2, <3>3, RollbackToIs
    <3>5. CASE Undoes(server', i)
      <4>1. Unstacks(o, i)
        BY <2>2, <2>6, <3>2, <3>4, <3>5, UndoesUnstacks
      <4>2. Stack' /\ Holdings' /\ Settled'
        BY <2>2, <2>6, <3>2, <4>1, SubEnds
      <4>3. Session'
        BY <1>0, <3>4, <3>5, SessionKept
      <4> QED
        BY <2>2, <4>2, <4>3 DEF Rest
    <3>6. CASE Loses(server')
      <4>1. Settles(server', "undone") /\ ~server'.open
        BY <3>6 DEF Loses, Settles
      <4> QED
        BY <2>2, <3>4, <4>1, EndRest
    <3> QED
      BY <3>4, <3>5, <3>6
  <2> QED
    BY <1>3, <2>4, <2>5, <2>6
<1> QED
  BY <1>1, <1>2, <1>3

LEMMA DestroyRest ==
  ASSUME Ruled, Kept, NEW o \in Objects, Abort(o) \/ Destroy(o)
  PROVE  Rest'
<1>0. Typed /\ Plain /\ Session /\ ~tx[o].pending /\ tx[o].status \in Statuses /\ tx[o].alive
  BY DEF Kept, Registration, Plain, Typed, TxType, Abort, Destroy, Live
<1>1. CASE Abort(o)
  <2>1. /\ tx[o].status = "active" /\ Closes(o, "aborted")
        /\ \A c \in Children(o) : tx[c].status # "active"
    BY <1>1 DEF Abort, Ruled, Closes
  <2>2. \E r \in DoAbort(o, server, FALSE) : server' = r.sv
    <3>1. PICK r \in DoAbort(o, server, tx[o].pending) : server' = r.sv
      BY <1>1 DEF Abort
    <3>2. r \in DoAbort(o, server, FALSE)
      BY <1>0, <3>1 DEF DoAbort
    <3> QED
      BY <3>1, <3>2
  <2> QED
    BY <1>0, <2>1, <2>2, AbortRest
<1>2. CASE Destroy(o) /\ tx[o].status = "active"
  <2>1. Closes(o, "aborted") /\ \A c \in Children(o) : tx[c].status # "active"
    BY <1>2 DEF Destroy, Closes
  <2>2. \E r \in DoAbort(o, server, FALSE) : server' = r.sv
    BY <1>2 DEF Destroy
  <2> QED
    BY <1>0, <1>2, <2>1, <2>2, AbortRest
<1>3. CASE Destroy(o) /\ tx[o].status # "active"
  <2>1. Closes(o, tx[o].status) /\ server' = server
    BY <1>3 DEF Destroy, Closes, Reply
  <2>2. QuietTx /\ Plain'
    BY <1>0, <1>3, <2>1, CloseTx
  <2> QED
    BY <1>0, <2>1, <2>2, SameServer, QuietRest
<1> QED
  BY <1>1, <1>2, <1>3

LEMMA CommitRest ==
  ASSUME Ruled, Kept, NEW o \in Objects, Commit(o)
  PROVE  Rest'
<1>0. /\ Typed /\ Plain /\ Session /\ Names /\ ~tx[o].pending /\ tx[o].alive
      /\ tx[o].kind # "robust"
      /\ {"committed", "aborted", "in_doubt"} \subseteq Statuses \ {"active"}
  BY DEF Kept, Stack, Registration, Plain, Commit, Live, Statuses
<1>1. /\ tx[o].status = "active" /\ ~server.failed
      /\ \A c \in Children(o) : tx[c].status # "active"
  BY DEF Commit, Allowed, Ruled
<1>2. /\ server.open
      /\ \/ tx[o].kind = "nontransaction" /\ DoCommit(o, Reply(server, "ok"))
         \/ /\ tx[o].kind # "nontransaction"
            /\ \E r \in Run(server, CommitCommand(o), o) : DoCommit(o, r)
  BY <1>0 DEF Commit
<1>3. tx[o].kind \in {"work", "sub", "nontransaction"}
  BY <1>0 DEF Plain, Typed, TxType
<1>4. CASE tx[o].kind = "nontransaction"
  <2>1. server' = server /\ Closes(o, "committed")
    BY <1>2, <1>4 DEF DoCommit, Reply, Closes
  <2>2. QuietTx /\ Plain'
    BY <1>0, <1>4, <2>1, CloseTx
  <2> QED
    BY <1>0, <2>1, <2>2, SameServer, QuietRest
<1>5. CASE tx[o].kind \in {"work", "sub"}
  <2>1. Active(o) /\ Childless(o)
    BY <1>0, <1>1, <1>5 DEF Active, Childless, Children, Alive
  <2>2. PICK r \in Run(server, CommitCommand(o), o) : DoCommit(o, r)
    BY <1>2, <1>5
  <2>3. PICK status \in {"committed", "aborted", "in_doubt"} :
          /\ Closes(o, status) /\ server' = r.sv
          /\ status = "committed" <=> r.out = "ok"
          /\ status = "in_doubt" => tx[o].kind = "work" /\ (r.out = "unknown" \/ ~r.sv.open)
          /\ status = "aborted" /\ tx[o].kind = "work" => r.out # "unknown" /\ r.sv.open
    BY <2>2 DEF DoCommit, Closes
  <2>4. EndsTx(o, status) /\ Plain'
    BY <1>0, <2>1, <2>3, EndTx
  <2>5. CASE tx[o].kind = "work"
    <3>1. r \in Run(server, "COMMIT", o)
      BY <2>2, <2>5 DEF CommitCommand
    <3>2. /\ r.sv \in ServerType
          /\ \E f \in {"undone", "done", "deciding"} :
               /\ Settles(r.sv, f)
               /\ \/ r.out = "ok" /\ f = "done" /\ r.sv.open
                  \/ r.out \in {"error", "class08"} /\ f = "undone" /\ r.sv.open
                  \/ r.out = "unknown" /\ r.sv.open
                  \/ r.out = "lost" /\ ~r.sv.open
      BY <1>0, <1>1, <1>2, <3>1, CommitIs
    <3>3. PICK f \in {"undone", "done", "deciding"} :
            /\ Settles(server', f)
            /\ status = "committed" => f = "done"
            /\ status = "aborted" => f = "undone"
      BY <2>3, <2>5, <3>2
    <3>4. (\A d \in Objects : Active(d) => d = o) /\ o \in HeldBy(server.block)
      BY <1>2, <2>1, <2>5, OnlyOne
    <3> QED
      BY <1>1, <2>3, <2>4, <2>5, <3>2, <3>3, <3>4, EndRest
  <2>6. CASE tx[o].kind = "sub"
    <3>1. r \in Run(server, "RELEASE", o)
      BY <2>2, <2>6 DEF CommitCommand
    <3>2. PICK i \in DOMAIN server.block : At(o, i) /\ i # 1
      BY <1>2, <2>1, <2>6, SubAt
    <3>3. /\ server' \in ServerType
          /\ \/ r.out = "ok" /\ Releases(server', i)
             \/ r.out = "error" /\ Refuses(server')
             \/ r.out = "lost" /\ Loses(server')
      BY <1>0, <1>1, <1>2, <2>3, <3>1, <3>2, ReleaseIs
    <3>4. ASSUME Unstacks(o, i), Session'
          PROVE  Rest'
      BY <2>4, <2>6, <3>2, <3>4, SubEnds DEF Rest
    <3>5. CASE r.out = "ok" /\ Releases(server', i)
      <4>1. status = "committed"
        BY <2>3, <3>5
      <4>2. Unstacks(o, i)
        BY <1>1, <2>4, <2>6, <3>2, <3>3, <3>5, <4>1, ReleasesUnstacks
      <4> QED
        BY <1>0, <3>3, <3>4, <3>5, <4>2, SessionKept
    <3>6. CASE r.out = "error" /\ Refuses(server')
      <4>1. status = "aborted"
        BY <2>3, <2>6, <3>6
      <4>2. Unstacks(o, i)
        BY <1>2, <2>4, <2>6, <3>2, <3>3, <3>6, <4>1, RefusesUnstacks
      <4> QED
        BY <1>0, <3>3, <3>4, <3>6, <4>2, SessionKept
    <3>7. CASE r.out = "lost" /\ Loses(server')
      <4>1. status = "aborted"
        BY <2>3, <2>6, <3>7
      <4>2. Settles(server', "undone") /\ ~server'.open
        BY <3>7 DEF Loses, Settles
      <4> QED
        BY <2>4, <3>3, <4>1, <4>2, EndRest
    <3> QED
      BY <3>3, <3>5, <3>6, <3>7
  <2> QED
    BY <1>5, <2>5, <2>6
<1> QED
  BY <1>3, <1>4, <1>5

LEMMA KeptStep ==
  ASSUME TransactionAssumption, Ruled, Kept, [Next]_vars
  PROVE  Kept'
<1>1. Registration'
  BY RegistrationStep DEF Kept
<1>2. CASE \E o \in Objects :
             \/ \E k \in Kinds : Refused(o, k)
             \/ ConstructNontransaction(o) \/ ConstructWork(o) \/ ConstructRobust(o)
             \/ \E p \in Objects : Nest(o, p)
  BY <1>1, <1>2, ConstructRest DEF Kept, Rest
<1>3. CASE \E o \in Objects : Exec(o) \/ ExecParams(o) \/ OpenFocus(o) \/ CloseFocus(o)
  BY <1>1, <1>3, UseRest DEF Kept, Rest
<1>4. CASE \E o \in Objects : Commit(o)
  BY <1>1, <1>4, CommitRest DEF Kept, Rest
<1>5. CASE \E o \in Objects : Ask(o) \/ GiveUp(o)
  <2>1. PICK o \in Objects : tx[o].asked \in 1 .. Attempts \/ tx[o].asked > Attempts
    BY <1>5 DEF Ask, GiveUp
  <2>2. tx[o].asked = 0 /\ Attempts \in Nat \ {0}
    BY DEF Kept, Plain, TransactionAssumption
  <2> QED
    BY <2>1, <2>2
<1>6. CASE \E o \in Objects : Abort(o) \/ Destroy(o)
  BY <1>1, <1>6, DestroyRest DEF Kept, Rest
<1>7. CASE ServerDecides
  BY <1>7, DecideKept
<1>8. CASE Done \/ UNCHANGED vars
  <2>1. tx' = tx /\ server' = server
    BY <1>8 DEF Done, vars
  <2>2. QuietTx /\ Plain' /\ server' \in ServerType /\ Stays(server')
    BY <2>1, SameTx, SameServer DEF Kept
  <2> QED
    BY <1>1, <2>2, QuietRest DEF Kept, Rest
<1> QED
  BY <1>2, <1>3, <1>4, <1>5, <1>6, <1>7, <1>8 DEF Next

LEMMA KeptAlways ==
  ASSUME TransactionAssumption, Ruled
  PROVE  Spec => []Kept
<1>1. Init => Kept
  <2> SUFFICES ASSUME Init PROVE Kept
    OBVIOUS
  <2>1. tx = [o \in Objects |-> Unborn] /\ current = NoObject
    BY DEF Init
  <2>2. /\ server \in ServerType /\ server.block = <<>> /\ DOMAIN server.block = {}
        /\ ~server.failed /\ server.open
        /\ \A o \in Objects : server.fate[o] = "none"
    <3>1. <<>> \in Seq(LevelType)
      OBVIOUS
    <3> QED
      BY <3>1 DEF Init, ServerType, Fates, TransactionAssumption
  <2>3. \A o \in Objects : /\ tx[o].kind = "none" /\ ~tx[o].alive /\ ~tx[o].pending
                           /\ tx[o].asked = 0 /\ tx[o].status = "active" /\ ~tx[o].registered
    BY <2>1 DEF Unborn
  <2>4. Registration
    BY <2>1, <2>3, NewTyped DEF Registration, Typed, Registered, RegistrationExact,
         TransactionAssumption
  <2>5. Session /\ Plain /\ Holdings /\ Settled
    BY <2>2, <2>3 DEF Session, Plain, Holdings, Settled, Active
  <2>6. Stack
    BY <2>2, <2>3 DEF Stack, Names, Bottom, Placed, Parents, Adjacent, OnTop, Active
  <2> QED
    BY <2>4, <2>5, <2>6 DEF Kept
<1>2. Kept /\ [Next]_vars => Kept'
  BY KeptStep
<1> QED
  BY <1>1, <1>2, PTL DEF Spec

(***************************************************************************)
(* A commit() that returned means that the writes are in the database, and *)
(* nothing of a transaction that was aborted ever is: not by its parent's  *)
(* commit, nor by that of the next transaction on the connection.          *)
(***************************************************************************)
THEOREM TransactionOutcomes ==
  ASSUME TransactionAssumption, Ruled
  PROVE  Spec => []CommitIsDefinite
<1>1. Kept => CommitIsDefinite
  BY DEF Kept, Settled, Plain, CommitIsDefinite, CommittedIsDone, AbortedIsUndone
<1> QED
  BY <1>1, KeptAlways, PTL

(***************************************************************************)
(* A transaction that is over leaves no block open behind it, whichever    *)
(* way it ended: the next BEGIN starts a block of its own.                 *)
(***************************************************************************)
THEOREM TransactionNoBlockLeft ==
  ASSUME TransactionAssumption, Ruled
  PROVE  Spec => []NoBlockLeft
<1>1. Kept => NoBlockLeft
  <2> SUFFICES ASSUME Kept, \A o \in Alive : tx[o].status # "active" /\ tx[o].asked = 0,
                      server.block # <<>>
               PROVE  FALSE
    BY DEF NoBlockLeft
  <2>1. current \in Objects /\ Active(current)
    BY BottomIs
  <2> QED
    BY <2>1 DEF Active, Alive
<1> QED
  BY <1>1, KeptAlways, PTL

-----------------------------------------------------------------------------
\* The part that a behaviour of MCSession belongs to never changes.
LEMMA PartStays == [RunNext]_runVars => part' = part
  BY DEF RunNext, runVars, partVars, Keep

-----------------------------------------------------------------------------
(***************************************************************************)
(* Large objects.  The client's objects and the server's descriptors are   *)
(* one to one as long as the transaction is good; when it has failed the   *)
(* server answers nothing any more, and its end finds no object that still *)
(* has a number.                                                           *)
(***************************************************************************)
BlobObject == [kind : {"none", "blob", "access"}, conn : BOOLEAN, fd : Nat \cup {-1}, token : Nat]

LoTypes(block, fds, blob, opens) ==
  /\ block \in {"none", "open", "failed"} /\ blob \in [Blobs -> BlobObject] /\ opens \in Nat
  /\ IsFiniteSet(DOMAIN fds) /\ Cardinality(DOMAIN fds) <= opens /\ DOMAIN fds \subseteq Nat

\* Outside of transactions there are no descriptors; in a good one each has
\* one object, which knows the number and the token.
Paired(block, fds, blob) ==
  /\ \A b \in Blobs : blob[b].kind = "none" => blob[b].fd = -1
  /\ block = "none" => DOMAIN fds = {} /\ \A b \in Blobs : blob[b].fd = -1
  /\ block = "open" =>
       /\ \A b \in Blobs : blob[b].fd # -1 => blob[b].fd \in DOMAIN fds /\ fds[blob[b].fd] = blob[b].token
       /\ \A b, c \in Blobs : blob[b].fd # -1 /\ blob[b].fd = blob[c].fd => b = c
       /\ \A f \in DOMAIN fds : \E b \in Blobs : blob[b].fd = f

LoInv ==
  /\ LoTypes(v1, v5, v6, v7) /\ Paired(v1, v5, v6) /\ v9 = FALSE
  /\ Lo!NoLeftovers /\ Lo!BufferExact

LEMMA LoAssumed == MaxOpens \in Nat /\ MaxSize \in Nat
  BY SessionAssumption DEF Lo!LargeObjectAssumption

\* The parts mean the same by the size of a set.
LEMMA LoSizes == \A S : Lo!Cardinality(S) = Cardinality(S)
  BY DEF Cardinality, IsFiniteSet, Lo!Cardinality, Lo!IsFiniteSet

\* A set of numbers has a least one.
LEMMA LeastOf ==
  ASSUME NEW T \in SUBSET Nat, T # {}
  PROVE  \E m \in T : \A n \in T : m <= n
<1>1. PICK x \in T : \A y \in T : ~(<<y, x>> \in OpToRel(<, Nat))
  BY NatLessThanWellFounded, WFMin
<1>2. \A y \in T : ~(y < x)
  BY <1>1 DEF OpToRel
<1> QED
  BY <1>2

\* The server has a number left for one more descriptor.
LEMMA FreeIsFree ==
  ASSUME NEW fds, IsFiniteSet(DOMAIN fds), Cardinality(DOMAIN fds) < MaxOpens
  PROVE  Lo!Free(fds) \in Nat /\ Lo!Free(fds) \notin DOMAIN fds
<1>0. MaxOpens \in Nat
  BY LoAssumed
<1>1. PICK S : S = DOMAIN fds
  OBVIOUS
<1>2. IsFiniteSet(0 .. MaxOpens) /\ Cardinality(0 .. MaxOpens) = MaxOpens + 1
  BY <1>0, FS_Interval
<1>3. IsFiniteSet(S) /\ Cardinality(S) < MaxOpens /\ Cardinality(S) \in Nat
  BY <1>1, FS_CardinalityType
<1>4. ~(0 .. MaxOpens \subseteq S)
  <2> SUFFICES ASSUME 0 .. MaxOpens \subseteq S
               PROVE  FALSE
    OBVIOUS
  <2>1. Cardinality(0 .. MaxOpens) <= Cardinality(S)
    BY <1>3, FS_Subset
  <2> QED
    BY <1>0, <1>2, <1>3, <2>1
<1>5. PICK m \in (0 .. MaxOpens) \ S : \A n \in (0 .. MaxOpens) \ S : m <= n
  <2>1. PICK T : T = (0 .. MaxOpens) \ S
    OBVIOUS
  <2>2. T \in SUBSET Nat /\ T # {}
    BY <1>0, <1>4, <2>1
  <2> QED
    BY <2>1, <2>2, LeastOf
<1>6. \A g \in 0 .. m - 1 : g \in S
  BY <1>0, <1>5
<1>7. \E f \in 0 .. MaxOpens : f \notin S /\ \A g \in 0 .. f - 1 : g \in S
  BY <1>5, <1>6
<1>8. PICK f : f = CHOOSE h \in 0 .. MaxOpens : h \notin S /\ \A g \in 0 .. h - 1 : g \in S
  OBVIOUS
<1>9. f \in 0 .. MaxOpens /\ f \notin S
  BY <1>7, <1>8
<1>10. Lo!Free(fds) = f
  BY <1>1, <1>8 DEF Lo!Free
<1> QED
  BY <1>0, <1>1, <1>9, <1>10

-----------------------------------------------------------------------------
(* Steps of the client objects.                                            *)

LEMMA LoFacts ==
  ASSUME LoInv
  PROVE  /\ v1 \in {"none", "open", "failed"} /\ v6 \in [Blobs -> BlobObject] /\ v7 \in Nat
         /\ IsFiniteSet(DOMAIN v5) /\ Cardinality(DOMAIN v5) <= v7 /\ DOMAIN v5 \subseteq Nat
         /\ Paired(v1, v5, v6) /\ v9 = FALSE
         /\ DOMAIN v2 = v4 /\ (~v8.threw => v8.is = v8.was + v8.asked)
  BY DEF LoInv, LoTypes, Lo!NoLeftovers, Lo!BufferExact

LEMMA LoPrimed ==
  ASSUME LoInv, v1' \in {"none", "open", "failed"}, v6' \in [Blobs -> BlobObject], v7' \in Nat,
         IsFiniteSet(DOMAIN v5'), Cardinality(DOMAIN v5') <= v7', DOMAIN v5' \subseteq Nat,
         Paired(v1', v5', v6'), v9' = FALSE, DOMAIN v2' = v4',
         v8' = v8 \/ v8'.is = v8'.was + v8'.asked
  PROVE  LoInv'
<1>1. LoTypes(v1, v5, v6, v7)'
  BY DEF LoTypes
<1>2. Paired(v1, v5, v6)'
  BY DEF Paired
<1>3. Lo!NoLeftovers' /\ Lo!BufferExact'
  BY LoFacts DEF Lo!NoLeftovers, Lo!BufferExact
<1> QED
  BY <1>1, <1>2, <1>3 DEF LoInv

LEMMA LoOpens ==
  ASSUME LoInv, NEW b \in Blobs, NEW kind \in {"blob", "access"}, NEW o,
         Lo!open_internal(b, kind, o)
  PROVE  LoInv'
<1>1. /\ v1 # "none" /\ v6[b].kind = "none" /\ v7 < MaxOpens
      /\ v2' = v2 /\ v4' = v4 /\ v8' = v8 /\ v9' = v9
  BY DEF Lo!open_internal
<1>2. CASE v1 = "open" /\ o \in DOMAIN v2
  <2>1. PICK f : f = Lo!Free(v5)
    OBVIOUS
  <2>2. f \in Nat /\ f \notin DOMAIN v5
    <3>1. Cardinality(DOMAIN v5) < MaxOpens
      BY <1>1, LoFacts, LoAssumed, FS_CardinalityType
    <3> QED
      BY <2>1, <3>1, LoFacts, FreeIsFree
  <2>3. PICK e : e = [kind |-> kind, conn |-> TRUE, fd |-> f, token |-> v7 + 1]
    OBVIOUS
  <2>4. v1' = v1 /\ v5' = Lo!With(v5, f, v7 + 1) /\ v6' = [v6 EXCEPT ![b] = e] /\ v7' = v7 + 1
    BY <1>2, <2>1, <2>3 DEF Lo!open_internal
  <2>5. e \in BlobObject /\ e.kind # "none" /\ e.fd = f /\ e.token = v7 + 1 /\ f # -1
    BY <2>2, <2>3, LoFacts DEF BlobObject
  <2>6. /\ v6' \in [Blobs -> BlobObject] /\ v6'[b] = e /\ v7' \in Nat
        /\ \A c \in Blobs : c # b => v6'[c] = v6[c]
    BY <2>4, <2>5, LoFacts
  <2>7. /\ DOMAIN v5' = DOMAIN v5 \cup {f} /\ v5'[f] = v7 + 1
        /\ \A g \in DOMAIN v5 : v5'[g] = v5[g]
    BY <2>2, <2>4 DEF Lo!With
  <2>8. /\ IsFiniteSet(DOMAIN v5') /\ Cardinality(DOMAIN v5') <= v7'
        /\ DOMAIN v5' \subseteq Nat
    <3>1. /\ IsFiniteSet(DOMAIN v5 \cup {f})
          /\ Cardinality(DOMAIN v5 \cup {f}) = Cardinality(DOMAIN v5) + 1
      BY <2>2, LoFacts, FS_AddElement
    <3>2. Cardinality(DOMAIN v5) \in Nat
      BY LoFacts, FS_CardinalityType
    <3> QED
      BY <2>2, <2>4, <2>7, <3>1, <3>2, LoFacts
  <2>9. Paired(v1, v5, v6) /\ v6[b].fd = -1
    BY <1>1, LoFacts DEF Paired
  <2>10. Paired(v1', v5', v6')
    <3>1. \A c \in Blobs : c # b /\ v6[c].fd # -1 => v6[c].fd \in DOMAIN v5 /\ v6[c].fd # f
                                                   /\ v5[v6[c].fd] = v6[c].token
      BY <1>2, <2>2, <2>9 DEF Paired
    <3>2. \A c \in Blobs : v6'[c].fd # -1 => v6'[c].fd \in DOMAIN v5'
                                              /\ v5'[v6'[c].fd] = v6'[c].token
      BY <2>5, <2>6, <2>7, <3>1
    <3>3. \A c, d \in Blobs : v6'[c].fd # -1 /\ v6'[c].fd = v6'[d].fd => c = d
      <4>1. \A c, d \in Blobs : v6[c].fd # -1 /\ v6[c].fd = v6[d].fd => c = d
        BY <1>2, <2>9 DEF Paired
      <4> QED
        BY <2>5, <2>6, <3>1, <4>1
    <3>4. \A g \in DOMAIN v5' : \E c \in Blobs : v6'[c].fd = g
      <4>1. \A g \in DOMAIN v5 : \E c \in Blobs : v6[c].fd = g
        BY <1>2, <2>9 DEF Paired
      <4>2. ASSUME NEW g \in DOMAIN v5
            PROVE  \E c \in Blobs : v6'[c].fd = g
        <5>1. PICK c \in Blobs : v6[c].fd = g
          BY <4>1
        <5>2. c # b
          BY <2>9, <5>1, LoFacts
        <5> QED
          BY <2>6, <5>1, <5>2
      <4> QED
        BY <2>5, <2>6, <2>7, <4>2
    <3>5. \A c \in Blobs : v6'[c].kind = "none" => v6'[c].fd = -1
      BY <2>5, <2>6, <2>9 DEF Paired
    <3> QED
      BY <1>2, <2>4, <3>2, <3>3, <3>4, <3>5 DEF Paired
  <2> QED
    BY <1>1, <1>2, <2>4, <2>6, <2>8, <2>10, LoFacts, LoPrimed
<1>3. CASE ~(v1 = "open" /\ o \in DOMAIN v2)
  <2>1. v1' = "failed" /\ v5' = v5 /\ v6' = v6 /\ v7' = v7
    BY <1>3 DEF Lo!open_internal
  <2>2. Paired(v1', v5', v6')
    BY <2>1, LoFacts DEF Paired
  <2> QED
    BY <1>1, <2>1, <2>2, LoFacts, LoPrimed
<1> QED
  BY <1>2, <1>3

\* What is left of the descriptors when the one of b is closed.
ShutBy(b) ==
  /\ DOMAIN v5' = IF v1 = "open" THEN DOMAIN v5 \ {v6[b].fd} ELSE DOMAIN v5
  /\ \A f \in DOMAIN v5' : v5'[f] = v5[f]
  /\ IsFiniteSet(DOMAIN v5') /\ Cardinality(DOMAIN v5') <= v7 /\ DOMAIN v5' \subseteq Nat
  /\ v9' = FALSE

\* A use of a descriptor is a use of one's own.
LEMMA UseIsOwn ==
  ASSUME LoInv, NEW b \in Blobs, Lo!Uses(b)
  PROVE  v9' = FALSE
<1>1. PICK w \in BOOLEAN :
        w = (v1 = "open" /\ v6[b].fd \in DOMAIN v5 /\ v5[v6[b].fd] # v6[b].token)
  OBVIOUS
<1>2. w = FALSE
  <2>1. v1 = "open" /\ v6[b].fd \in DOMAIN v5 => v5[v6[b].fd] = v6[b].token
    <3>1. v6[b].fd \in DOMAIN v5 => v6[b].fd # -1
      BY LoFacts
    <3> QED
      BY <3>1, LoFacts DEF Paired
  <2> QED
    BY <1>1, <2>1
<1>3. v9' = (v9 \/ w)
  BY <1>1 DEF Lo!Uses
<1> QED
  BY <1>2, <1>3, LoFacts

LEMMA ShutIs ==
  ASSUME LoInv, NEW b \in Blobs,
         IF v6[b].fd # -1 THEN v5' = Lo!Shuts(b) /\ Lo!Uses(b) ELSE UNCHANGED <<v5, v9>>
  PROVE  ShutBy(b)
<1>1. CASE v6[b].fd = -1 \/ v1 # "open"
  <2>1. v5' = v5
    BY <1>1 DEF Lo!Shuts
  <2>2. v9' = FALSE
    BY LoFacts, UseIsOwn
  <2>3. v1 = "open" => DOMAIN v5 \ {v6[b].fd} = DOMAIN v5
    BY <1>1, LoFacts
  <2> QED
    BY <2>1, <2>2, <2>3, LoFacts DEF ShutBy
<1>2. CASE v6[b].fd # -1 /\ v1 = "open"
  <2>1. v5' = Lo!Without(v5, {v6[b].fd}) /\ v9' = FALSE
    BY <1>2, UseIsOwn DEF Lo!Shuts
  <2>2. DOMAIN v5' = DOMAIN v5 \ {v6[b].fd} /\ \A f \in DOMAIN v5' : v5'[f] = v5[f]
    BY <2>1 DEF Lo!Without
  <2>3. PICK S : S = DOMAIN v5 /\ IsFiniteSet(S)
    BY LoFacts
  <2>4. PICK T : T = DOMAIN v5' /\ T \in SUBSET S
    BY <2>2, <2>3
  <2>5. IsFiniteSet(T) /\ Cardinality(T) <= Cardinality(S)
    BY <2>3, <2>4, FS_Subset
  <2>6. Cardinality(T) <= v7
    BY <2>3, <2>5, LoFacts, FS_CardinalityType
  <2> QED
    BY <1>2, <2>1, <2>2, <2>3, <2>4, <2>5, <2>6, LoFacts DEF ShutBy
<1> QED
  BY <1>1, <1>2

\* close() and the destructors: b has no descriptor any more.
LEMMA LoGivesUp ==
  ASSUME LoInv, NEW b \in Blobs, ShutBy(b), NEW e \in BlobObject, e.fd = -1,
         v6' = [v6 EXCEPT ![b] = e], v1' = v1, v2' = v2, v4' = v4, v7' = v7, v8' = v8
  PROVE  LoInv'
<1>1. /\ v6' \in [Blobs -> BlobObject] /\ v6'[b].fd = -1
      /\ \A c \in Blobs : c # b => v6'[c] = v6[c]
  BY LoFacts
<1>2. Paired(v1', v5', v6')
  <2>1. \A c \in Blobs : v6'[c].kind = "none" => v6'[c].fd = -1
    BY <1>1, LoFacts DEF Paired
  <2>2. CASE v1 = "none"
    <3>1. DOMAIN v5' = {} /\ \A c \in Blobs : v6'[c].fd = -1
      BY <1>1, <2>2, LoFacts DEF Paired, ShutBy
    <3> QED
      BY <2>1, <2>2, <3>1 DEF Paired
  <2>3. CASE v1 = "open"
    <3>1. /\ DOMAIN v5' = DOMAIN v5 \ {v6[b].fd} /\ \A f \in DOMAIN v5' : v5'[f] = v5[f]
          /\ \A c \in Blobs : v6[c].fd # -1 => v6[c].fd \in DOMAIN v5 /\ v5[v6[c].fd] = v6[c].token
          /\ \A c, d \in Blobs : v6[c].fd # -1 /\ v6[c].fd = v6[d].fd => c = d
          /\ \A f \in DOMAIN v5 : \E c \in Blobs : v6[c].fd = f
      BY <2>3, LoFacts DEF Paired, ShutBy
    <3>2. \A c \in Blobs : v6'[c].fd # -1 =>
             c # b /\ v6[c].fd = v6'[c].fd /\ v6'[c].fd \in DOMAIN v5' /\ v5'[v6'[c].fd] = v6'[c].token
      BY <1>1, <3>1
    <3>3. \A c, d \in Blobs : v6'[c].fd # -1 /\ v6'[c].fd = v6'[d].fd => c = d
      BY <3>1, <3>2
    <3>4. ASSUME NEW f \in DOMAIN v5'
          PROVE  \E c \in Blobs : v6'[c].fd = f
      <4>1. PICK c \in Blobs : v6[c].fd = f
        BY <3>1
      <4>2. c # b
        BY <3>1, <4>1
      <4> QED
        BY <1>1, <4>1, <4>2
    <3> QED
      BY <2>1, <2>3, <3>2, <3>3, <3>4 DEF Paired
  <2>4. CASE v1 = "failed"
    BY <2>1, <2>4 DEF Paired
  <2> QED
    BY <2>2, <2>3, <2>4, LoFacts
<1> QED
  BY <1>1, <1>2, LoFacts, LoPrimed DEF ShutBy

\* Moves: b has what c had.
LEMMA LoMoves ==
  ASSUME LoInv, NEW b \in Blobs, NEW c \in Blobs, b # c, v6[c].kind = "blob",
         ShutBy(b) \/ (v6[b].fd = -1 /\ v5' = v5 /\ v9' = v9),
         v6' = [v6 EXCEPT ![b] = v6[c], ![c] = [Lo!NoBlob EXCEPT !.kind = "blob"]],
         v1' = v1, v2' = v2, v4' = v4, v7' = v7, v8' = v8
  PROVE  LoInv'
<1>1. PICK e : e = [Lo!NoBlob EXCEPT !.kind = "blob"]
  OBVIOUS
<1>2. e \in BlobObject /\ e.fd = -1 /\ e.kind = "blob"
  BY <1>1 DEF Lo!NoBlob, BlobObject
<1>3. /\ v6' \in [Blobs -> BlobObject] /\ v6'[b] = v6[c] /\ v6'[c].fd = -1 /\ v6'[c].kind = "blob"
      /\ \A d \in Blobs : d # b /\ d # c => v6'[d] = v6[d]
  BY <1>1, <1>2, LoFacts
<1>4. ShutBy(b)
  <2>1. ASSUME v6[b].fd = -1, v5' = v5, v9' = v9
        PROVE  ShutBy(b)
    <3>1. \A f \in DOMAIN v5 : f # -1
      BY LoFacts
    <3> QED
      BY <2>1, <3>1, LoFacts DEF ShutBy
  <2> QED
    BY <2>1
<1>5. Paired(v1', v5', v6')
  <2>1. \A d \in Blobs : v6'[d].kind = "none" => v6'[d].fd = -1
    BY <1>3, LoFacts DEF Paired
  <2>2. CASE v1 = "none"
    <3>1. DOMAIN v5' = {} /\ \A d \in Blobs : v6'[d].fd = -1
      BY <1>3, <1>4, <2>2, LoFacts DEF Paired, ShutBy
    <3> QED
      BY <2>1, <2>2, <3>1 DEF Paired
  <2>3. CASE v1 = "open"
    <3>1. /\ DOMAIN v5' = DOMAIN v5 \ {v6[b].fd} /\ \A f \in DOMAIN v5' : v5'[f] = v5[f]
          /\ \A d \in Blobs : v6[d].fd # -1 => v6[d].fd \in DOMAIN v5 /\ v5[v6[d].fd] = v6[d].token
          /\ \A d, x \in Blobs : v6[d].fd # -1 /\ v6[d].fd = v6[x].fd => d = x
          /\ \A f \in DOMAIN v5 : \E d \in Blobs : v6[d].fd = f
      BY <1>4, <2>3, LoFacts DEF Paired, ShutBy
    \* Who had it, of what an object has now.
    <3>2. \A d \in Blobs : v6'[d].fd # -1 =>
             \E x \in Blobs : x # b /\ v6'[d] = v6[x] /\ x = IF d = b THEN c ELSE d
      BY <1>3
    <3>3. \A d \in Blobs : v6'[d].fd # -1 =>
             v6'[d].fd \in DOMAIN v5' /\ v5'[v6'[d].fd] = v6'[d].token
      <4> SUFFICES ASSUME NEW d \in Blobs, v6'[d].fd # -1
                   PROVE  v6'[d].fd \in DOMAIN v5' /\ v5'[v6'[d].fd] = v6'[d].token
        OBVIOUS
      <4>1. PICK x \in Blobs : x # b /\ v6'[d] = v6[x]
        BY <3>2
      <4>2. v6[x].fd \in DOMAIN v5 /\ v5[v6[x].fd] = v6[x].token /\ v6[x].fd # v6[b].fd
        BY <3>1, <4>1
      <4>3. v6[x].fd \in DOMAIN v5'
        BY <3>1, <4>2
      <4>4. v5'[v6[x].fd] = v6[x].token
        BY <3>1, <4>2, <4>3
      <4> QED
        BY <4>1, <4>3, <4>4
    <3>4. \A d, x \in Blobs : v6'[d].fd # -1 /\ v6'[d].fd = v6'[x].fd => d = x
      <4> SUFFICES ASSUME NEW d \in Blobs, NEW x \in Blobs, v6'[d].fd # -1, v6'[d].fd = v6'[x].fd
                   PROVE  d = x
        OBVIOUS
      <4>1. PICK y \in Blobs : y = (IF d = b THEN c ELSE d) /\ v6'[d] = v6[y]
        BY <3>2
      <4>2. PICK z \in Blobs : z = (IF x = b THEN c ELSE x) /\ v6'[x] = v6[z]
        BY <3>2
      <4>3. y = z
        <5>1. v6[y].fd # -1 /\ v6[y].fd = v6[z].fd
          BY <4>1, <4>2
        <5> QED
          BY <3>1, <5>1
      <4>4. d # c /\ x # c
        BY <1>3
      <4> QED
        BY <4>1, <4>2, <4>3, <4>4
    <3>5. ASSUME NEW f \in DOMAIN v5'
          PROVE  \E d \in Blobs : v6'[d].fd = f
      <4>1. PICK d \in Blobs : v6[d].fd = f
        BY <3>1
      <4>2. d # b
        BY <3>1, <4>1
      <4> QED
        BY <1>3, <4>1, <4>2
    <3> QED
      BY <2>1, <2>3, <3>3, <3>4, <3>5 DEF Paired
  <2>4. CASE v1 = "failed"
    BY <2>1, <2>4 DEF Paired
  <2> QED
    BY <2>2, <2>3, <2>4, LoFacts
<1> QED
  BY <1>3, <1>4, <1>5, LoFacts, LoPrimed DEF ShutBy

LEMMA LoMoveSteps ==
  ASSUME LoInv, NEW b \in Blobs, NEW c \in Blobs, Lo!MoveConstruct(b, c) \/ Lo!MoveAssign(b, c)
  PROVE  LoInv'
<1>1. CASE Lo!MoveConstruct(b, c)
  <2>1. v6[b].fd = -1 /\ b # c
    BY <1>1, LoFacts DEF Lo!MoveConstruct, Paired
  <2> QED
    BY <1>1, <2>1, LoMoves DEF Lo!MoveConstruct
<1>2. CASE Lo!MoveAssign(b, c)
  <2>1. ShutBy(b)
    BY <1>2, ShutIs DEF Lo!MoveAssign
  <2> QED
    BY <1>2, <2>1, LoMoves DEF Lo!MoveAssign
<1> QED
  BY <1>1, <1>2

LEMMA LoCloses ==
  ASSUME LoInv, NEW b \in Blobs, Lo!Close(b) \/ Lo!Destroy(b) \/ Lo!DestroyAccess(b)
  PROVE  LoInv'
<1>1. PICK e : e = [Lo!NoBlob EXCEPT !.kind = "blob"]
  OBVIOUS
<1>2. e \in BlobObject /\ e.fd = -1
  BY <1>1 DEF Lo!NoBlob, BlobObject
<1>3. Lo!NoBlob \in BlobObject /\ Lo!NoBlob.fd = -1
  BY DEF Lo!NoBlob, BlobObject
<1>4. CASE Lo!Close(b)
  <2>1. ShutBy(b)
    BY <1>4, ShutIs DEF Lo!Close
  <2> QED
    BY <1>1, <1>2, <1>4, <2>1, LoGivesUp DEF Lo!Close
<1>5. CASE Lo!Destroyed(b)
  <2>1. ShutBy(b)
    BY <1>5, ShutIs DEF Lo!Destroyed
  <2> QED
    BY <1>3, <1>5, <2>1, LoGivesUp DEF Lo!Destroyed
<1> QED
  BY <1>4, <1>5 DEF Lo!Destroy, Lo!DestroyAccess

LEMMA LoUses ==
  ASSUME LoInv, NEW b \in Blobs, Lo!Use(b) \/ Lo!UseAccess(b)
  PROVE  LoInv'
<1>1. /\ Lo!Uses(b) /\ v1' = (IF v1 = "open" /\ v6[b].fd \notin DOMAIN v5 THEN "failed" ELSE v1)
      /\ v2' = v2 /\ v4' = v4 /\ v5' = v5 /\ v6' = v6 /\ v7' = v7 /\ v8' = v8
  BY DEF Lo!Use, Lo!UseAccess, Lo!Calls
<1>2. v9' = FALSE
  BY <1>1, UseIsOwn
<1>3. v1' = v1 \/ v1' = "failed"
  BY <1>1
<1>4. Paired(v1', v5', v6')
  BY <1>1, <1>3, LoFacts DEF Paired
<1>5. v1' \in {"none", "open", "failed"}
  BY <1>3, LoFacts
<1> QED
  BY <1>1, <1>2, <1>4, <1>5, LoFacts, LoPrimed

-----------------------------------------------------------------------------
(* Whole objects, and transactions.                                        *)

\* A call that changes neither descriptors nor client objects, and may fail the
\* block.
LEMMA LoCalls ==
  ASSUME LoInv, v1 # "none", v1' = v1 \/ v1' = "failed", DOMAIN v2' = v4',
         v5' = v5, v6' = v6, v7' = v7, v9' = v9, v8' = v8 \/ v8'.is = v8'.was + v8'.asked
  PROVE  LoInv'
<1>1. Paired(v1', v5', v6') /\ v1' \in {"none", "open", "failed"}
  BY LoFacts DEF Paired
<1> QED
  BY <1>1, LoFacts, LoPrimed

LEMMA LoDomains ==
  ASSUME LoInv
  PROVE  /\ \A o, n : DOMAIN Lo!With(v2, o, n) = v4 \cup {o}
         /\ \A o : DOMAIN Lo!Without(v2, {o}) = v4 \ {o}
         /\ \A o, n : DOMAIN [v2 EXCEPT ![o] = n] = v4
  BY LoFacts DEF Lo!With, Lo!Without

LEMMA LoCreates ==
  ASSUME LoInv, NEW id,
         Lo!create(id) \/ (\E n \in 1 .. MaxSize + 1 : Lo!from_buf(id, n))
         \/ (\E n \in 1 .. MaxSize : Lo!from_file(id, n))
  PROVE  LoInv'
<1>1. v5' = v5 /\ v6' = v6 /\ v7' = v7 /\ v8' = v8 /\ v9' = v9 /\ v1 # "none"
  BY DEF Lo!create, Lo!from_buf, Lo!from_file
<1>2. CASE Lo!Refused
  BY <1>1, <1>2, LoFacts, LoCalls DEF Lo!Refused
<1>3. CASE v1' = v1 /\ \E o : v4' = v4 \cup {o} /\ \E n : v2' = Lo!With(v2, o, n)
  BY <1>1, <1>3, LoDomains, LoCalls
<1>4. CASE v1' = v1 /\ v4' = v4 /\ v2' = v2
  BY <1>1, <1>4, LoFacts, LoCalls
<1>5. CASE Lo!create(id)
  BY <1>2, <1>3, <1>5 DEF Lo!create
<1>6. ASSUME NEW n \in 1 .. MaxSize, Lo!from_file(id, n)
      PROVE  LoInv'
  BY <1>2, <1>3, <1>6 DEF Lo!from_file
<1>7. ASSUME NEW n \in 1 .. MaxSize + 1, Lo!from_buf(id, n)
      PROVE  LoInv'
  <2>1. n > MaxSize <=> ~(n <= MaxSize)
    BY LoAssumed
  <2>2. n > MaxSize => id # 0
    BY <1>7 DEF Lo!from_buf
  <2>3. CASE n <= MaxSize
    BY <1>2, <1>3, <1>7, <2>1, <2>3 DEF Lo!from_buf
  <2>4. CASE n > MaxSize
    BY <1>2, <1>4, <1>7, <2>1, <2>2, <2>4 DEF Lo!from_buf
  <2> QED
    BY <2>1, <2>3, <2>4
<1> QED
  BY <1>5, <1>6, <1>7

LEMMA LoChanges ==
  ASSUME LoInv, NEW o,
         Lo!remove(o) \/ Lo!ReadWhole(o) \/ (\E n \in 1 .. MaxSize : Lo!append_from_buf(o, n))
  PROVE  LoInv'
<1>1. v5' = v5 /\ v6' = v6 /\ v7' = v7 /\ v8' = v8 /\ v9' = v9 /\ v1 # "none"
  BY DEF Lo!remove, Lo!ReadWhole, Lo!append_from_buf
<1>2. CASE Lo!Refused
  BY <1>1, <1>2, LoFacts, LoCalls DEF Lo!Refused
<1>3. CASE v1' = v1 /\ v4' = v4 \ {o} /\ v2' = Lo!Without(v2, {o})
  BY <1>1, <1>3, LoDomains, LoCalls
<1>4. CASE v1' = v1 /\ v4' = v4 /\ \E n : v2' = [v2 EXCEPT ![o] = n]
  BY <1>1, <1>4, LoDomains, LoCalls
<1>5. CASE Lo!remove(o)
  BY <1>2, <1>3, <1>5 DEF Lo!remove
<1>6. CASE Lo!ReadWhole(o)
  BY <1>2, <1>6 DEF Lo!ReadWhole
<1>7. ASSUME NEW n \in 1 .. MaxSize, Lo!append_from_buf(o, n)
      PROVE  LoInv'
  BY <1>2, <1>4, <1>7 DEF Lo!append_from_buf
<1> QED
  BY <1>5, <1>6, <1>7

LEMMA LoAppends ==
  ASSUME LoInv, NEW o, NEW offset, NEW most, Lo!append_to_buf(o, offset, most)
  PROVE  LoInv'
<1>1. PICK chunk : chunk = Lo!Max({0, Lo!Min({most, v2[o] - offset})})
  OBVIOUS
<1>2. v1 # "none" /\ v2' = v2 /\ v4' = v4 /\ v5' = v5 /\ v6' = v6 /\ v7' = v7 /\ v9' = v9
  BY DEF Lo!append_to_buf
<1>3. \/ /\ v1' = v1
         /\ v8' = [was |-> v8.is, is |-> v8.is + chunk, asked |-> chunk, threw |-> FALSE]
      \/ v1' = "failed" /\ v8' = v8
  BY <1>1 DEF Lo!append_to_buf
<1>4. v8' = v8 \/ v8'.is = v8'.was + v8'.asked
  BY <1>3
<1> QED
  BY <1>2, <1>3, <1>4, LoFacts, LoCalls

LEMMA LoBegins ==
  ASSUME LoInv, Lo!Begin
  PROVE  LoInv'
<1>1. /\ v1 = "none" /\ v1' = "open" /\ v2' = v2 /\ v4' = v4 /\ v5' = v5 /\ v6' = v6 /\ v7' = v7
      /\ v8' = v8 /\ v9' = v9
  BY DEF Lo!Begin
<1>2. DOMAIN v5 = {} /\ \A b \in Blobs : v6[b].fd = -1
  BY <1>1, LoFacts DEF Paired
<1>3. Paired(v1', v5', v6')
  BY <1>1, <1>2 DEF Paired
<1> QED
  BY <1>1, <1>3, LoFacts, LoPrimed

LEMMA LoEnds ==
  ASSUME LoInv, NEW commit \in BOOLEAN, Lo!End(commit)
  PROVE  LoInv'
<1>1. /\ v1' = "none" /\ v5' = Lo!Empty /\ v6' = v6 /\ v7' = v7 /\ v8' = v8 /\ v9' = v9
      /\ \A b \in Blobs : v6[b].fd = -1
  BY DEF Lo!End
<1>2. DOMAIN v2' = v4'
  <2>1. (v2' = v2 /\ v4' = v4) \/ (v2' = v3 /\ v4' = DOMAIN v3)
    BY DEF Lo!End
  <2> QED
    BY <2>1, LoFacts
<1>3. DOMAIN v5' = {}
  BY <1>1 DEF Lo!Empty
<1>4. Paired(v1', v5', v6')
  BY <1>1, <1>3 DEF Paired
<1>5. IsFiniteSet(DOMAIN v5') /\ Cardinality(DOMAIN v5') <= v7'
  BY <1>1, <1>3, LoFacts, FS_EmptySet
<1> QED
  BY <1>1, <1>2, <1>3, <1>4, <1>5, LoFacts, LoPrimed

LEMMA LoInit == Lo!Init => LoInv
<1> SUFFICES ASSUME Lo!Init
             PROVE  LoInv
  OBVIOUS
<1>1. /\ v1 = "none" /\ v2 = Lo!Empty /\ v4 = {} /\ v5 = Lo!Empty
      /\ v6 = [b \in Blobs |-> Lo!NoBlob] /\ v7 = 0
      /\ v8 = [was |-> 0, is |-> 0, asked |-> 0, threw |-> FALSE] /\ v9 = FALSE
  BY DEF Lo!Init
<1>2. DOMAIN v5 = {} /\ DOMAIN v2 = {}
  BY <1>1 DEF Lo!Empty
<1>3. Lo!NoBlob \in BlobObject /\ Lo!NoBlob.fd = -1
  BY DEF Lo!NoBlob, BlobObject
<1>4. LoTypes(v1, v5, v6, v7)
  BY <1>1, <1>2, <1>3, FS_EmptySet DEF LoTypes
<1>5. Paired(v1, v5, v6)
  BY <1>1, <1>2, <1>3 DEF Paired
<1>6. Lo!NoLeftovers /\ Lo!BufferExact
  BY <1>1, <1>2 DEF Lo!NoLeftovers, Lo!BufferExact
<1> QED
  BY <1>1, <1>4, <1>5, <1>6 DEF LoInv

LEMMA LoStep == LoInv /\ (Lo!Next \/ UNCHANGED partVars) => LoInv'
<1> SUFFICES ASSUME LoInv, Lo!Next \/ UNCHANGED partVars
             PROVE  LoInv'
  OBVIOUS
<1>1. ASSUME NEW b \in Blobs, NEW o \in Oids, Lo!Open(b, o) \/ Lo!OpenAccess(b, o)
      PROVE  LoInv'
  BY <1>1, LoOpens DEF Lo!Open, Lo!OpenAccess
<1>2. CASE Lo!Create \/ (\E n \in 1 .. MaxSize : Lo!Import(n)) \/ (\E o \in Oids : Lo!Remove(o))
  BY <1>2, LoCreates, LoChanges DEF Lo!Create, Lo!Import, Lo!Remove
<1>3. CASE UNCHANGED partVars
  <2>1. v1' = v1 /\ v2' = v2 /\ v4' = v4 /\ v5' = v5 /\ v6' = v6 /\ v7' = v7 /\ v8' = v8 /\ v9' = v9
    BY <1>3 DEF partVars
  <2> QED
    BY <2>1, LoFacts, LoPrimed
<1>4. ASSUME NEW id, Lo!create(id) \/ (\E n \in 1 .. MaxSize + 1 : Lo!from_buf(id, n))
                     \/ (\E n \in 1 .. MaxSize : Lo!from_file(id, n))
      PROVE  LoInv'
  BY <1>4, LoCreates
<1>5. ASSUME NEW o, Lo!remove(o) \/ Lo!ReadWhole(o)
                    \/ (\E n \in 1 .. MaxSize : Lo!append_from_buf(o, n))
      PROVE  LoInv'
  BY <1>5, LoChanges
<1> QED
  BY <1>1, <1>2, <1>3, <1>4, <1>5, LoMoveSteps, LoCloses, LoUses, LoAppends, LoBegins, LoEnds
  DEF Lo!Next

LEMMA LoExact ==
  ASSUME LoInv
  PROVE  Lo!OwnDescriptor /\ Lo!DescriptorsOwned /\ Lo!NoLeftovers /\ Lo!BufferExact
<1>1. Lo!OwnDescriptor /\ Lo!NoLeftovers /\ Lo!BufferExact
  BY DEF LoInv, Lo!OwnDescriptor
<1>2. ASSUME v1 = "open", NEW f \in DOMAIN v5
      PROVE  Lo!Cardinality({b \in Blobs : v6[b].fd = f /\ v6[b].token = v5[f]}) = 1
  <2>1. PICK b \in Blobs : v6[b].fd = f
    BY <1>2, LoFacts DEF Paired
  <2>2. f # -1
    BY <1>2, LoFacts
  <2>3. v6[b].token = v5[f] /\ \A c \in Blobs : v6[c].fd = f => c = b
    BY <1>2, <2>1, <2>2, LoFacts DEF Paired
  <2>4. {c \in Blobs : v6[c].fd = f /\ v6[c].token = v5[f]} = {b}
    BY <2>1, <2>3
  <2>5. Cardinality({b}) = 1
    BY FS_Singleton
  <2> QED
    BY <2>4, <2>5, LoSizes
<1>3. Lo!DescriptorsOwned
  BY <1>2 DEF Lo!DescriptorsOwned
<1> QED
  BY <1>1, <1>3

-----------------------------------------------------------------------------
(* Streams on large objects.                                               *)

\* A reader's get area is what lies before the descriptor's position, and the
\* file's position is within it.
ReaderAt(obj, pos, get, gptr, data, at) ==
  /\ obj = data /\ pos \in 0 .. Len(obj) /\ get \in Seq(Bytes) /\ Len(get) <= pos
  /\ gptr \in 0 .. Len(get) /\ at = pos - Len(get) + gptr
  /\ \A i \in 1 .. Len(get) : get[i] = obj[pos - Len(get) + i]

\* A writer's file is the object with the put area written at the position.
WriterAt(obj, pos, put, data, at) ==
  /\ put \in Seq(Bytes) /\ pos \in 0 .. Len(obj)
  /\ data = Los!Overwrite(obj, pos, put) /\ at = pos + Len(put)

LosInv ==
  /\ v1 \in {"in", "out"} /\ v2 \in Seq(Bytes) /\ v7 \in Seq(Bytes)
  /\ v10 \in {"good", "bad", "closed"}
  /\ v1 = "in" /\ v10 = "good" => ReaderAt(v2, v3, v4, v5, v7, v8)
  /\ v1 = "out" /\ v10 = "good" => WriterAt(v2, v3, v6, v7, v8)
  /\ v10 = "closed" => v2 = v7
  /\ v9.got = v9.want

LEMMA LosAssumed == Start \in Seq(Bytes) /\ BufSize \in Nat /\ BufSize > 0
  BY SessionAssumption DEF Los!LargeObjectStreamAssumption

LEMMA LosMin ==
  ASSUME NEW a \in Int, NEW b \in Int
  PROVE  Los!Min({a, b}) = IF a <= b THEN a ELSE b
<1>1. \E x \in {a, b} : \A y \in {a, b} : x <= y
  OBVIOUS
<1>2. PICK m : m = CHOOSE x \in {a, b} : \A y \in {a, b} : x <= y
  OBVIOUS
<1>3. m \in {a, b} /\ \A y \in {a, b} : m <= y
  BY <1>1, <1>2
<1> QED
  BY <1>2, <1>3 DEF Los!Min

\* What lo_write makes of an object.
LEMMA OverwriteIs ==
  ASSUME NEW B, NEW s \in Seq(B), NEW p \in 0 .. Len(s), NEW x \in Seq(B),
         NEW r, r = Los!Overwrite(s, p, x)
  PROVE  /\ r \in Seq(B) /\ Len(r) = IF p + Len(x) <= Len(s) THEN Len(s) ELSE p + Len(x)
         /\ \A i \in 1 .. Len(r) :
               r[i] = IF i <= p THEN s[i] ELSE IF i <= p + Len(x) THEN x[i - p] ELSE s[i]
<1>1. p \in Nat /\ p <= Len(s) /\ Len(s) \in Nat /\ Len(x) \in Nat
  OBVIOUS
<1>2. PICK front : front = SubSeq(s, 1, p)
  OBVIOUS
<1>3. PICK q : q = p + Len(x) + 1
  OBVIOUS
<1>4. PICK back : back = SubSeq(s, q, Len(s))
  OBVIOUS
<1>5. q \in Nat /\ q >= 1
  BY <1>1, <1>3
<1>6. front \in Seq(B) /\ Len(front) = p /\ \A i \in 1 .. p : front[i] = s[i]
  BY <1>1, <1>2, SubSeqProperties
<1>7. /\ back \in Seq(B) /\ Len(back) = (IF q <= Len(s) THEN Len(s) - q + 1 ELSE 0)
      /\ \A i \in 1 .. Len(back) : back[i] = s[q + i - 1]
  <2>1. \A i \in q .. Len(s) : s[i] \in B
    BY <1>1, <1>5
  <2>2. /\ back \in Seq(B) /\ Len(back) = (IF q <= Len(s) THEN Len(s) - q + 1 ELSE 0)
        /\ \A i \in 1 .. Len(s) - q + 1 : back[i] = s[q + i - 1]
    BY <1>1, <1>4, <1>5, <2>1, SubSeqProperties
  <2> QED
    BY <1>1, <1>5, <2>2
<1>8. PICK head : head = front \o x
  OBVIOUS
<1>9. /\ head \in Seq(B) /\ Len(head) = p + Len(x)
      /\ \A i \in 1 .. p + Len(x) : head[i] = IF i <= p THEN s[i] ELSE x[i - p]
  <2>1. /\ head \in Seq(B) /\ Len(head) = p + Len(x)
        /\ \A i \in 1 .. p + Len(x) : head[i] = IF i <= p THEN front[i] ELSE x[i - p]
    BY <1>1, <1>6, <1>8, ConcatProperties
  <2>2. ASSUME NEW i \in 1 .. p + Len(x)
        PROVE  head[i] = IF i <= p THEN s[i] ELSE x[i - p]
    <3>1. i <= p => front[i] = s[i]
      BY <1>1, <1>6
    <3> QED
      BY <2>1, <3>1
  <2> QED
    BY <2>1, <2>2
<1>10. r = head \o back
  BY <1>2, <1>3, <1>4, <1>8 DEF Los!Overwrite
<1>11. /\ r \in Seq(B) /\ Len(r) = p + Len(x) + Len(back)
       /\ \A i \in 1 .. Len(r) : r[i] = IF i <= p + Len(x) THEN head[i] ELSE back[i - (p + Len(x))]
  <2>1. PICK n : n = p + Len(x)
    OBVIOUS
  <2>2. head \in Seq(B) /\ back \in Seq(B) /\ Len(head) = n
    BY <1>7, <1>9, <2>1
  <2>3. /\ r \in Seq(B) /\ Len(r) = n + Len(back)
        /\ \A i \in 1 .. n + Len(back) : r[i] = IF i <= n THEN head[i] ELSE back[i - n]
    BY <1>10, <2>2, ConcatProperties
  <2> QED
    BY <2>1, <2>3
<1>12. Len(r) = IF p + Len(x) <= Len(s) THEN Len(s) ELSE p + Len(x)
  <2>1. PICK n \in Nat : n = p + Len(x)
    BY <1>1
  <2>2. PICK l \in Nat : l = Len(s)
    BY <1>1
  <2>3. PICK k : k = Len(back)
    OBVIOUS
  <2>4. q = n + 1 /\ k = (IF q <= l THEN l - q + 1 ELSE 0)
    BY <1>3, <1>7, <2>1, <2>2, <2>3
  <2>5. Len(r) = n + k
    BY <1>11, <2>1, <2>3
  <2>6. n + k = IF n <= l THEN l ELSE n
    BY <2>4
  <2> QED
    BY <2>1, <2>2, <2>5, <2>6
<1>13. ASSUME NEW i \in 1 .. Len(r)
       PROVE  r[i] = IF i <= p THEN s[i] ELSE IF i <= p + Len(x) THEN x[i - p] ELSE s[i]
  <2>1. CASE i <= p + Len(x)
    <3>1. r[i] = head[i] /\ i \in 1 .. p + Len(x)
      BY <1>1, <1>11, <2>1
    <3> QED
      BY <1>9, <2>1, <3>1
  <2>2. CASE i > p + Len(x)
    <3>1. PICK j : j = i - (p + Len(x))
      OBVIOUS
    <3>2. j \in 1 .. Len(back) /\ q + j - 1 = i
      <4>1. PICK n \in Nat : n = p + Len(x)
        BY <1>1
      <4>2. PICK k \in Nat : k = Len(back)
        BY <1>7
      <4>3. i \in Int /\ i <= n + k /\ i > n /\ j = i - n /\ q = n + 1
        BY <1>3, <1>11, <2>2, <3>1, <4>1, <4>2
      <4> QED
        BY <4>2, <4>3
    <3>3. r[i] = back[j] /\ back[j] = s[q + j - 1]
      BY <1>1, <1>7, <1>11, <2>2, <3>1, <3>2
    <3> QED
      BY <1>1, <2>2, <3>2, <3>3
  <2> QED
    BY <1>1, <2>1, <2>2
<1> QED
  BY <1>11, <1>12, <1>13

\* Nothing written changes nothing.
LEMMA OverwriteNothing ==
  ASSUME NEW B, NEW s \in Seq(B), NEW p \in 0 .. Len(s)
  PROVE  Los!Overwrite(s, p, <<>>) = s
<1>1. PICK x : x = <<>>
  OBVIOUS
<1>2. x \in Seq(B) /\ Len(x) = 0
  BY <1>1
<1>3. PICK r : r = Los!Overwrite(s, p, x)
  OBVIOUS
<1>4. /\ r \in Seq(B) /\ Len(r) = (IF p + Len(x) <= Len(s) THEN Len(s) ELSE p + Len(x))
      /\ \A i \in 1 .. Len(r) :
            r[i] = IF i <= p THEN s[i] ELSE IF i <= p + Len(x) THEN x[i - p] ELSE s[i]
  <2>1. x \in Seq(B)
    BY <1>2
  <2> QED
    BY <1>3, <2>1, OverwriteIs
<1>5. Len(r) = Len(s) /\ \A i \in 1 .. Len(r) : r[i] = s[i]
  BY <1>2, <1>4
<1>6. r = s
  BY <1>4, <1>5, SeqEqual
<1> QED
  BY <1>1, <1>6, <1>3

\* Writing a byte after what was written is writing both at once.
LEMMA OverwriteOneMore ==
  ASSUME NEW B, NEW s \in Seq(B), NEW p \in 0 .. Len(s), NEW x \in Seq(B), NEW c \in B
  PROVE  Los!Overwrite(s, p, Append(x, c)) = Los!Overwrite(Los!Overwrite(s, p, x), p + Len(x), <<c>>)
<1>0. p \in Nat /\ p <= Len(s) /\ Len(s) \in Nat /\ Len(x) \in Nat
  OBVIOUS
<1>1. PICK y : y = Append(x, c)
  OBVIOUS
<1>2. /\ y \in Seq(B) /\ Len(y) = Len(x) + 1 /\ y[Len(x) + 1] = c
      /\ \A i \in 1 .. Len(x) : y[i] = x[i]
  BY <1>1, AppendProperties
<1>3. PICK z : z = <<c>>
  OBVIOUS
<1>4. z \in Seq(B) /\ Len(z) = 1 /\ z[1] = c
  BY <1>3
<1>5. PICK r : r = Los!Overwrite(s, p, x)
  OBVIOUS
<1>6. PICK q : q = p + Len(x)
  OBVIOUS
<1>7. /\ r \in Seq(B) /\ Len(r) = (IF p + Len(x) <= Len(s) THEN Len(s) ELSE p + Len(x))
      /\ \A i \in 1 .. Len(r) :
            r[i] = IF i <= p THEN s[i] ELSE IF i <= p + Len(x) THEN x[i - p] ELSE s[i]
  BY <1>5, OverwriteIs
<1>8. q \in 0 .. Len(r) /\ q \in Nat
  BY <1>0, <1>6, <1>7
<1>9. PICK t : t = Los!Overwrite(s, p, y)
  OBVIOUS
<1>10. /\ t \in Seq(B) /\ Len(t) = (IF p + Len(y) <= Len(s) THEN Len(s) ELSE p + Len(y))
      /\ \A i \in 1 .. Len(t) :
            t[i] = IF i <= p THEN s[i] ELSE IF i <= p + Len(y) THEN y[i - p] ELSE s[i]
  BY <1>2, <1>9, OverwriteIs
<1>11. PICK u : u = Los!Overwrite(r, q, z)
  OBVIOUS
<1>12. /\ u \in Seq(B) /\ Len(u) = (IF q + Len(z) <= Len(r) THEN Len(r) ELSE q + Len(z))
       /\ \A i \in 1 .. Len(u) :
             u[i] = IF i <= q THEN r[i] ELSE IF i <= q + Len(z) THEN z[i - q] ELSE r[i]
  <2>1. r \in Seq(B) /\ q \in 0 .. Len(r) /\ z \in Seq(B)
    BY <1>4, <1>7, <1>8
  <2> QED
    BY <1>11, <2>1, OverwriteIs
<1>13. Len(t) = Len(u)
  BY <1>0, <1>2, <1>4, <1>6, <1>7, <1>10, <1>12
<1>14. ASSUME NEW i \in 1 .. Len(t)
       PROVE  t[i] = u[i]
  <2>1. i \in Nat /\ i >= 1 /\ i \in 1 .. Len(u)
    BY <1>13
  <2>2. CASE i <= q
    <3>1. u[i] = r[i] /\ i \in 1 .. Len(r)
      BY <1>8, <1>12, <2>1, <2>2
    <3>2. CASE i <= p
      BY <1>0, <1>6, <1>7, <1>10, <3>1, <3>2
    <3>3. CASE i > p
      <4>1. i - p \in 1 .. Len(x) /\ i <= p + Len(y)
        BY <1>0, <1>2, <1>6, <2>1, <2>2, <3>3
      <4>2. r[i] = x[i - p]
        BY <1>0, <1>6, <1>7, <2>2, <3>1, <3>3
      <4>3. t[i] = y[i - p]
        BY <1>0, <1>10, <3>3, <4>1
      <4> QED
        BY <1>2, <3>1, <4>1, <4>2, <4>3
    <3> QED
      BY <1>0, <2>1, <3>2, <3>3
  <2>3. CASE i = q + 1
    <3>1. u[i] = c
      <4>1. i - q = 1 /\ ~(i <= q) /\ i <= q + Len(z)
        BY <1>4, <1>8, <2>3
      <4>2. u[i] = z[i - q]
        BY <1>12, <2>1, <4>1
      <4> QED
        BY <1>4, <4>1, <4>2
    <3>2. t[i] = c
      <4>1. i - p = Len(x) + 1 /\ ~(i <= p) /\ i <= p + Len(y)
        BY <1>0, <1>2, <1>6, <2>3
      <4>2. t[i] = y[i - p]
        BY <1>10, <4>1
      <4> QED
        BY <1>2, <4>1, <4>2
    <3> QED
      BY <3>1, <3>2
  <2>4. CASE i > q + 1
    <3>1. u[i] = r[i] /\ i \in 1 .. Len(r)
      BY <1>4, <1>8, <1>12, <2>1, <2>4
    <3>2. r[i] = s[i]
      BY <1>0, <1>6, <1>7, <2>4, <3>1
    <3>3. t[i] = s[i]
      BY <1>0, <1>2, <1>6, <1>10, <2>4
    <3> QED
      BY <3>1, <3>2, <3>3
  <2> QED
    BY <1>8, <2>1, <2>2, <2>3, <2>4
<1>15. t = u
  BY <1>10, <1>12, <1>13, <1>14, SeqEqual
<1> QED
  BY <1>1, <1>5, <1>6, <1>9, <1>11, <1>15, <1>3

\* What a writer's put area, written out, makes of the object: the file.
LEMMA WriterFlushed ==
  ASSUME LosInv, v1 = "out", v10 = "good"
  PROVE  /\ Los!Overwrite(v2, v3, v6) = v7 /\ v3 + Len(v6) = v8 /\ v8 \in 0 .. Len(v7)
         /\ v6 \in Seq(Bytes) /\ v3 \in 0 .. Len(v2) /\ v2 \in Seq(Bytes) /\ v7 \in Seq(Bytes)
<1>1. /\ WriterAt(v2, v3, v6, v7, v8) /\ v2 \in Seq(Bytes) /\ v7 \in Seq(Bytes)
  BY DEF LosInv
<1>2. /\ v6 \in Seq(Bytes) /\ v3 \in 0 .. Len(v2) /\ v7 = Los!Overwrite(v2, v3, v6)
      /\ v8 = v3 + Len(v6)
  BY <1>1 DEF WriterAt
<1>3. Len(v7) = IF v3 + Len(v6) <= Len(v2) THEN Len(v2) ELSE v3 + Len(v6)
  BY <1>1, <1>2, OverwriteIs
<1>4. v8 \in 0 .. Len(v7)
  BY <1>1, <1>2, <1>3
<1> QED
  BY <1>1, <1>2, <1>4

\* overflow() empties the put area, of which c is the new content, or fails.
LEMMA OverflowIs ==
  ASSUME LosInv, v1 = "out", v10 = "good", NEW c, Los!overflow(c)
  PROVE  \/ v2' = v7 /\ v3' = v8 /\ v6' = c /\ v10' = "good"
         \/ v10' = "bad" /\ v2' = v2
  BY WriterFlushed DEF Los!overflow

LEMMA LosPuts ==
  ASSUME LosInv, NEW c \in Bytes, Los!Put(c)
  PROVE  LosInv'
<1>1. PICK x : x = <<c>>
  OBVIOUS
<1>2. x \in Seq(Bytes) /\ Len(x) = 1
  BY <1>1
<1>3. /\ v10 = "good" /\ v1 = "out" /\ v1' = v1 /\ v9' = v9
      /\ v7' = Los!Overwrite(v7, v8, x) /\ v8' = v8 + 1
      /\ IF Len(v6) < BufSize
         THEN v6' = Append(v6, c) /\ v2' = v2 /\ v3' = v3 /\ v10' = v10
         ELSE Los!overflow(x)
  BY <1>1 DEF Los!Put, Los!Writes
<1>4. /\ Los!Overwrite(v2, v3, v6) = v7 /\ v3 + Len(v6) = v8 /\ v8 \in 0 .. Len(v7)
      /\ v6 \in Seq(Bytes) /\ v3 \in 0 .. Len(v2) /\ v2 \in Seq(Bytes) /\ v7 \in Seq(Bytes)
  BY <1>3, WriterFlushed
<1>5. v7' \in Seq(Bytes)
  <2>1. x \in Seq(Bytes)
    BY <1>2
  <2> QED
    BY <1>3, <1>4, <2>1, OverwriteIs
<1>6. v9'.got = v9'.want
  BY <1>3 DEF LosInv
<1>7. CASE Len(v6) < BufSize
  <2>1. v6' = Append(v6, c) /\ v2' = v2 /\ v3' = v3 /\ v10' = "good"
    BY <1>3, <1>7
  <2>2. v6' \in Seq(Bytes) /\ Len(v6') = Len(v6) + 1
    BY <1>4, <2>1, AppendProperties
  <2>3. Los!Overwrite(v2, v3, Append(v6, c)) = Los!Overwrite(Los!Overwrite(v2, v3, v6), v3 + Len(v6), <<c>>)
    BY <1>4, OverwriteOneMore
  <2>4. v7' = Los!Overwrite(v2', v3', v6')
    BY <1>1, <1>3, <1>4, <2>1, <2>3
  <2>5. v8' = v3' + Len(v6')
    <3>1. Len(v6) \in Nat /\ v3 \in Nat
      BY <1>4
    <3> QED
      BY <1>3, <1>4, <2>1, <2>2, <3>1
  <2>6. WriterAt(v2', v3', v6', v7', v8')
    BY <1>4, <2>1, <2>2, <2>4, <2>5 DEF WriterAt
  <2>7. WriterAt(v2, v3, v6, v7, v8)'
    BY <2>6 DEF WriterAt
  <2> QED
    BY <1>3, <1>4, <1>5, <1>6, <2>1, <2>7 DEF LosInv
<1>8. CASE ~(Len(v6) < BufSize)
  <2>1. \/ v2' = v7 /\ v3' = v8 /\ v6' = x /\ v10' = "good"
        \/ v10' = "bad" /\ v2' = v2
    BY <1>3, <1>8, OverflowIs
  <2>2. CASE v2' = v7 /\ v3' = v8 /\ v6' = x /\ v10' = "good"
    <3>1. WriterAt(v2, v3, v6, v7, v8)'
      BY <1>2, <1>3, <1>4, <2>2 DEF WriterAt
    <3> QED
      BY <1>3, <1>4, <1>5, <1>6, <2>2, <3>1 DEF LosInv
  <2>3. CASE v10' = "bad" /\ v2' = v2
    BY <1>3, <1>4, <1>5, <1>6, <2>3 DEF LosInv
  <2> QED
    BY <2>1, <2>2, <2>3
<1> QED
  BY <1>7, <1>8

LEMMA LosSyncs ==
  ASSUME LosInv, Los!Sync
  PROVE  LosInv'
<1>1. v10 = "good" /\ v1' = v1 /\ v7' = v7 /\ v8' = v8 /\ v9' = v9
  BY DEF Los!Sync
<1>2. v1 \in {"in", "out"} /\ v2 \in Seq(Bytes) /\ v7 \in Seq(Bytes) /\ v9.got = v9.want
  BY DEF LosInv
<1>3. CASE v1 = "in"
  <2>1. v10' = "bad" /\ v2' = v2
    BY <1>3 DEF Los!Sync, Los!Writes
  <2> QED
    BY <1>1, <1>2, <2>1 DEF LosInv
<1>4. CASE v1 = "out"
  <2>1. \/ v2' = v7 /\ v3' = v8 /\ v6' = <<>> /\ v10' = "good"
        \/ v10' = "bad" /\ v2' = v2
    <3>1. Los!overflow(<<>>)
      BY <1>4 DEF Los!Sync, Los!Writes
    <3> QED
      BY <1>1, <1>4, <3>1, OverflowIs
  <2>2. CASE v2' = v7 /\ v3' = v8 /\ v6' = <<>> /\ v10' = "good"
    <3>1. v8 \in 0 .. Len(v7) /\ v7 \in Seq(Bytes)
      BY <1>1, <1>4, WriterFlushed
    <3>2. v7 = Los!Overwrite(v7, v8, <<>>)
      BY <3>1, OverwriteNothing
    <3>3. v6' \in Seq(Bytes) /\ v8' = v3' + Len(v6')
      BY <1>1, <2>2, <3>1
    <3>4. WriterAt(v2, v3, v6, v7, v8)'
      BY <1>1, <2>2, <3>1, <3>2, <3>3 DEF WriterAt
    <3> QED
      BY <1>1, <1>2, <1>4, <2>2, <3>4 DEF LosInv
  <2>3. CASE v10' = "bad" /\ v2' = v2
    BY <1>1, <1>2, <2>3 DEF LosInv
  <2> QED
    BY <2>1, <2>2, <2>3
<1> QED
  BY <1>2, <1>3, <1>4

LEMMA LosCloses ==
  ASSUME LosInv, Los!Close
  PROVE  LosInv'
<1>1. v10 = "good" /\ v1' = v1 /\ v7' = v7 /\ v9' = v9
  BY DEF Los!Close
<1>2. v1 \in {"in", "out"} /\ v2 \in Seq(Bytes) /\ v7 \in Seq(Bytes) /\ v9.got = v9.want
  BY DEF LosInv
<1>3. (v10' = "closed" /\ v2' = v7) \/ (v10' = "bad" /\ v2' = v2)
  <2>1. CASE v1 = "in"
    <3>1. v2 = v7
      BY <1>1, <2>1 DEF LosInv, ReaderAt
    <3> QED
      BY <2>1, <3>1 DEF Los!Close, Los!Writes
  <2>2. CASE v1 = "out"
    <3>1. Los!Overwrite(v2, v3, v6) = v7
      BY <1>1, <2>2, WriterFlushed
    <3> QED
      BY <2>2, <3>1 DEF Los!Close, Los!Writes
  <2> QED
    BY <1>2, <2>1, <2>2
<1> QED
  BY <1>1, <1>2, <1>3 DEF LosInv

\* What underflow() fetches.
LEMMA UnderflowIs ==
  ASSUME v2 \in Seq(Bytes), v3 \in 0 .. Len(v2), NEW bytes, bytes = Los!underflow
  PROVE  /\ bytes \in Seq(Bytes) /\ v3 + Len(bytes) <= Len(v2)
         /\ Len(bytes) = 0 <=> v3 = Len(v2)
         /\ \A i \in 1 .. Len(bytes) : bytes[i] = v2[v3 + i]
<1>1. v3 \in Nat /\ v3 <= Len(v2) /\ Len(v2) \in Nat /\ BufSize \in Nat /\ BufSize > 0
  BY LosAssumed
<1>2. PICK m : m = Los!Min({v3 + BufSize, Len(v2)})
  OBVIOUS
<1>3. m = (IF v3 + BufSize <= Len(v2) THEN v3 + BufSize ELSE Len(v2)) /\ m \in Int
  BY <1>1, <1>2, LosMin
<1>4. bytes = SubSeq(v2, v3 + 1, m)
  BY <1>2 DEF Los!underflow
<1>5. PICK k \in Nat : k = v3 + 1
  BY <1>1
<1>6. m <= Len(v2) /\ v3 <= m /\ (m = v3 <=> v3 = Len(v2)) /\ k = v3 + 1
  BY <1>1, <1>3, <1>5
<1>7. \A i \in k .. m : v2[i] \in Bytes
  BY <1>1, <1>3, <1>6
<1>8. /\ bytes \in Seq(Bytes) /\ Len(bytes) = (IF k <= m THEN m - k + 1 ELSE 0)
      /\ \A i \in 1 .. m - k + 1 : bytes[i] = v2[k + i - 1]
  <2>1. bytes = SubSeq(v2, k, m)
    BY <1>4, <1>5
  <2> QED
    BY <1>3, <1>5, <1>7, <2>1, SubSeqProperties
<1>9. Len(bytes) = m - v3
  BY <1>1, <1>3, <1>6, <1>8
<1>10. ASSUME NEW i \in 1 .. Len(bytes)
       PROVE  bytes[i] = v2[v3 + i]
  <2>1. i \in 1 .. m - k + 1 /\ k + i - 1 = v3 + i
    BY <1>1, <1>3, <1>6, <1>9
  <2> QED
    BY <1>8, <2>1
<1> QED
  BY <1>1, <1>3, <1>6, <1>8, <1>9, <1>10

LEMMA LosGets ==
  ASSUME LosInv, Los!Get
  PROVE  LosInv'
<1>1. PICK bytes : bytes = IF v5 = Len(v4) THEN Los!underflow ELSE v4
  OBVIOUS
<1>2. PICK next : next = IF v5 = Len(v4) THEN 1 ELSE v5 + 1
  OBVIOUS
<1>3. /\ v10 = "good" /\ v1 = "in" /\ v1' = v1 /\ v2' = v2 /\ v7' = v7 /\ v10' = v10
      /\ v4' = bytes /\ v5' = IF next <= Len(bytes) THEN next ELSE Len(bytes)
      /\ v3' = IF v5 = Len(v4) THEN v3 + Len(bytes) ELSE v3
      /\ v9' = [got |-> IF next <= Len(bytes) THEN bytes[next] ELSE Los!Eof,
                want |-> IF v8 < Len(v7) THEN v7[v8 + 1] ELSE Los!Eof]
      /\ v8' = IF v8 < Len(v7) THEN v8 + 1 ELSE v8
  BY <1>1, <1>2 DEF Los!Get, Los!Reads
<1>4. /\ v2 = v7 /\ v3 \in 0 .. Len(v2) /\ v4 \in Seq(Bytes) /\ Len(v4) <= v3
      /\ v5 \in 0 .. Len(v4) /\ v8 = v3 - Len(v4) + v5 /\ v2 \in Seq(Bytes)
      /\ \A i \in 1 .. Len(v4) : v4[i] = v2[v3 - Len(v4) + i]
  BY <1>3 DEF LosInv, ReaderAt
<1>5. PICK l \in Nat : l = Len(v4)
  BY <1>4
<1>6. PICK k \in Nat : k = Len(v2)
  BY <1>4
<1>7. v3 \in Nat /\ v3 <= k /\ l <= v3 /\ v5 \in Nat /\ v5 <= l /\ v8 = v3 - l + v5
  BY <1>4, <1>5, <1>6
\* The file's next byte is in the area, or there is none.
<1>8. /\ bytes \in Seq(Bytes) /\ Len(bytes) <= v3' /\ v3' \in 0 .. k /\ next \in Nat /\ next >= 1
      /\ v8 = v3' - Len(bytes) + next - 1
      /\ next <= Len(bytes) <=> v8 < k
      /\ next > Len(bytes) => next = Len(bytes) + 1
      /\ \A i \in 1 .. Len(bytes) : bytes[i] = v2[v3' - Len(bytes) + i]
  <2>1. CASE v5 = l
    <3>1. bytes = Los!underflow /\ next = 1 /\ v3' = v3 + Len(bytes)
      BY <1>1, <1>2, <1>3, <1>5, <2>1
    <3>2. /\ bytes \in Seq(Bytes) /\ v3 + Len(bytes) <= Len(v2)
          /\ Len(bytes) = 0 <=> v3 = Len(v2)
          /\ \A i \in 1 .. Len(bytes) : bytes[i] = v2[v3 + i]
      BY <1>4, <3>1, UnderflowIs
    <3>3. PICK n \in Nat : n = Len(bytes)
      BY <3>2
    <3>4. /\ v8 = v3 /\ v3' = v3 + n /\ v3 + n <= k /\ (n = 0 <=> v3 = k)
      BY <1>6, <1>7, <2>1, <3>1, <3>2, <3>3
    <3>5. v3' - n = v3
      BY <1>7, <3>4
    <3>6. \A i \in 1 .. n : bytes[i] = v2[v3' - n + i]
      BY <3>2, <3>3, <3>5
    <3>7. n <= v3' /\ v3' \in 0 .. k /\ v8 = v3' - n + next - 1 /\ (next <= n <=> v8 < k)
          /\ (next > n => next = n + 1)
      BY <1>7, <3>1, <3>4
    <3> QED
      BY <3>1, <3>2, <3>3, <3>6, <3>7
  <2>2. CASE v5 # l
    <3>1. bytes = v4 /\ next = v5 + 1 /\ v3' = v3 /\ Len(bytes) = l
      BY <1>1, <1>2, <1>3, <1>5, <2>2
    <3>2. /\ l <= v3' /\ v3' \in 0 .. k /\ next \in Nat /\ next >= 1 /\ v8 = v3' - l + next - 1
          /\ next <= l /\ v8 < k
      BY <1>7, <2>2, <3>1
    <3>3. \A i \in 1 .. l : bytes[i] = v2[v3' - l + i]
      BY <1>4, <1>5, <3>1
    <3> QED
      BY <1>4, <1>7, <3>1, <3>2, <3>3
  <2> QED
    BY <2>1, <2>2
<1>9. PICK n \in Nat : n = Len(bytes)
  BY <1>8
<1>10. PICK q : q = v3'
  OBVIOUS
<1>11. /\ q \in Int /\ n <= q /\ next \in Nat /\ next >= 1 /\ v8 = q - n + next - 1
       /\ next <= n <=> v8 < k
       /\ next > n => next = n + 1
  BY <1>8, <1>9, <1>10
<1>12. v9'.got = v9'.want
  <2>1. CASE next <= n
    <3>1. next \in 1 .. n /\ q - n + next = v8 + 1
      BY <1>7, <1>11, <2>1
    <3>2. bytes[next] = v2[q - n + next]
      BY <1>8, <1>9, <1>10, <3>1
    <3>3. v8 < Len(v7)
      BY <1>4, <1>6, <1>11, <2>1
    <3>4. bytes[next] = v7[v8 + 1]
      BY <1>4, <3>1, <3>2
    <3> QED
      BY <1>3, <1>9, <2>1, <3>3, <3>4
  <2>2. CASE ~(next <= n)
    <3>1. ~(v8 < Len(v7))
      BY <1>4, <1>6, <1>11, <2>2
    <3> QED
      BY <1>3, <1>9, <2>2, <3>1
  <2> QED
    BY <2>1, <2>2
<1>13. v5' \in 0 .. n /\ v8' = q - n + v5'
  <2>1. /\ v5' = (IF next <= n THEN next ELSE n)
        /\ v8' = (IF v8 < k THEN v8 + 1 ELSE v8)
    BY <1>3, <1>4, <1>6, <1>9
  <2>2. CASE next <= n
    <3>1. v5' = next /\ v8' = v8 + 1
      BY <1>11, <2>1, <2>2
    <3> QED
      BY <1>11, <2>2, <3>1
  <2>3. CASE ~(next <= n)
    <3>1. v5' = n /\ v8' = v8
      BY <1>11, <2>1, <2>3
    <3> QED
      BY <1>11, <2>3, <3>1
  <2> QED
    BY <2>2, <2>3
<1>14. ReaderAt(v2, v3, v4, v5, v7, v8)'
  BY <1>3, <1>4, <1>6, <1>8, <1>9, <1>10, <1>13 DEF ReaderAt
<1> QED
  BY <1>3, <1>4, <1>12, <1>14 DEF LosInv

LEMMA LosInit == Los!Init => LosInv
<1> SUFFICES ASSUME Los!Init
             PROVE  LosInv
  OBVIOUS
<1>1. /\ v1 \in {"in", "out"} /\ v2 = Start /\ v3 = 0 /\ v4 = <<>> /\ v5 = 0 /\ v6 = <<>>
      /\ v7 = Start /\ v8 = 0 /\ v9.got = v9.want /\ v10 = "good"
  BY DEF Los!Init
<1>2. Start \in Seq(Bytes) /\ 0 \in 0 .. Len(Start) /\ <<>> \in Seq(Bytes) /\ Len(<<>>) = 0
  BY LosAssumed
<1>3. ReaderAt(v2, v3, v4, v5, v7, v8)
  <2>1. v4 \in Seq(Bytes) /\ Len(v4) = 0
    BY <1>1, <1>2
  <2>2. v3 \in 0 .. Len(v2)
    BY <1>1, <1>2
  <2>3. PICK n : n = Len(v4)
    OBVIOUS
  <2>4. n = 0 /\ v3 = 0 /\ v5 = 0 /\ v8 = 0
    BY <1>1, <2>1, <2>3
  <2>5. n <= v3 /\ v5 \in 0 .. n /\ v8 = v3 - n + v5
    BY <2>4
  <2>6. \A i \in 1 .. n : v4[i] = v2[v3 - n + i]
    BY <2>4
  <2> QED
    BY <1>1, <2>1, <2>2, <2>3, <2>5, <2>6 DEF ReaderAt
<1>4. Los!Overwrite(Start, 0, <<>>) = Start
  BY <1>2, OverwriteNothing
<1>5. WriterAt(v2, v3, v6, v7, v8)
  BY <1>1, <1>2, <1>4 DEF WriterAt
<1> QED
  BY <1>1, <1>2, <1>3, <1>5 DEF LosInv

LEMMA LosStep == LosInv /\ (Los!Next \/ UNCHANGED partVars) => LosInv'
<1> SUFFICES ASSUME LosInv, Los!Next \/ UNCHANGED partVars
             PROVE  LosInv'
  OBVIOUS
<1>1. ASSUME NEW p, Los!Seek(p)
      PROVE  LosInv'
  BY <1>1 DEF Los!Seek
<1>2. CASE UNCHANGED partVars
  <2>1. v1' = v1 /\ v2' = v2 /\ v3' = v3 /\ v4' = v4 /\ v5' = v5 /\ v6' = v6 /\ v7' = v7
        /\ v8' = v8 /\ v9' = v9 /\ v10' = v10
    BY <1>2 DEF partVars
  <2> QED
    BY <2>1 DEF LosInv, ReaderAt, WriterAt
<1> QED
  BY <1>1, <1>2, LosPuts, LosSyncs, LosCloses, LosGets DEF Los!Next

-----------------------------------------------------------------------------
\* Whatever is opened, moved, assigned, closed and destroyed within a
\* transaction, a blob uses the descriptor it has opened, every descriptor has
\* one object to close it, and a call that fails leaves no large object behind;
\* a stream that does not seek reads and writes the bytes of its large object in
\* order, for every size of buffer and however often it is flushed.
THEOREM TransactionLargeObjectsExact == RunSpec => []LargeObjectsExact
<1> DEFINE Good == /\ part = "large_object" => LoInv
                   /\ part = "large_object_stream" => LosInv
<1>1. RunInit => Good
  BY LoInit, LosInit DEF RunInit
<1>2. Good /\ [RunNext]_runVars => Good'
  <2>1. part = "large_object" /\ [RunNext]_runVars => Lo!Next \/ UNCHANGED partVars
    BY DEF RunNext, runVars, partVars
  <2>2. part = "large_object_stream" /\ [RunNext]_runVars => Los!Next \/ UNCHANGED partVars
    BY DEF RunNext, runVars, partVars
  <2> QED
    BY <2>1, <2>2, PartStays, LoStep, LosStep
<1>3. Good => LargeObjectsExact
  <2>1. LosInv => Los!WrittenExact /\ Los!ReadExact
    BY DEF LosInv, Los!WrittenExact, Los!ReadExact
  <2> QED
    BY <2>1, LoExact DEF LargeObjectsExact
<1> QED
  BY <1>1, <1>2, <1>3, PTL DEF RunSpec
=============================================================================
