----------------------------- MODULE MCTerminal -----------------------------
(***************************************************************************)
(* Terminal on small tables: Prices rows for each of the codes 1 .. Goods, *)
(* named in the order of their codes, plus one code no product has.        *)
(***************************************************************************)
EXTENDS Terminal

CONSTANTS
  Goods,    \* number of products
  Prices    \* the prices a product may have; discounts follow from them

MCCode == 1 .. (Goods + 1)

MCProducts ==
  {[code |-> c, name |-> c, price |-> p, discount |-> 10 * (p - 1)] :
     c \in 1 .. Goods, p \in Prices}

=============================================================================
