------------------------------ MODULE Register ------------------------------
(***************************************************************************)
(* What a cash register promises about the sale it is ringing up, whatever *)
(* its screen looks like: units are rung up one at a time, a void only     *)
(* takes units of one product off, the slip lists exactly the sale, the    *)
(* sale does not change while its slip is out, and it ends only when its   *)
(* slip is out or the register goes down.                                  *)
(***************************************************************************)
EXTENDS Naturals

CONSTANT Code

VARIABLES
  sale,     \* units of each product rung up
  slip,     \* the sale as printed, Empty when no slip is out
  up        \* is the register running?

vars == <<sale, slip, up>>

Sales == [Code -> Nat]

Empty == [c \in Code |-> 0]

Init == sale = Empty /\ slip = Empty /\ up = TRUE

Ring(c) ==
  /\ up /\ slip = Empty
  /\ sale' = [sale EXCEPT ![c] = @ + 1]
  /\ UNCHANGED <<slip, up>>

Void(c) ==
  /\ up /\ slip = Empty
  /\ \E n \in 0 .. (sale[c] - 1) : sale' = [sale EXCEPT ![c] = n]
  /\ UNCHANGED <<slip, up>>

\* A slip is printed, for the first time or again.
PrintSlip ==
  /\ up
  /\ sale # Empty
  /\ slip' = sale
  /\ UNCHANGED <<sale, up>>

\* The sale goes on although its slip was printed.
KeepSale ==
  /\ up /\ slip # Empty
  /\ slip' = Empty
  /\ UNCHANGED <<sale, up>>

CloseSale ==
  /\ up /\ slip # Empty /\ slip = sale
  /\ sale' = Empty /\ slip' = Empty
  /\ UNCHANGED up

GoDown == up /\ up' = FALSE /\ sale' = Empty /\ slip' = Empty

ComeUp == ~up /\ up' = TRUE /\ UNCHANGED <<sale, slip>>

Next ==
  \/ \E c \in Code : Ring(c) \/ Void(c)
  \/ PrintSlip \/ KeepSale \/ CloseSale
  \/ GoDown \/ ComeUp

Spec == Init /\ [][Next]_vars

=============================================================================
