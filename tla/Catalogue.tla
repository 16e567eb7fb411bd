----------------------------- MODULE Catalogue -----------------------------
(***************************************************************************)
(* What the products table promises its terminals: for each code at most   *)
(* one product, put or removed in one step.                                *)
(***************************************************************************)
CONSTANTS Code, Version

VARIABLE shelf   \* for each code, the product there: one version or none

Init == shelf \in [Code -> {{}} \cup {{v} : v \in Version}]

Put(c, v) == shelf' = [shelf EXCEPT ![c] = {v}]

Remove(c) == shelf' = [shelf EXCEPT ![c] = {}]

Next == \E c \in Code : Remove(c) \/ \E v \in Version : Put(c, v)

Spec == Init /\ [][Next]_shelf
=============================================================================
