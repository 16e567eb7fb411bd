--------------------------- MODULE MCBinarySearch ---------------------------
(***************************************************************************)
(* Every ascending list of at most MaxLength names over all strings of one *)
(* or two characters of a two-letter alphabet.  That is enough for equal   *)
(* names, for names that are prefixes of others, and for every shape of    *)
(* the search from zero to three iterations.                               *)
(***************************************************************************)
EXTENDS BinarySearch, FiniteSets, SequencesExt

CONSTANT MaxLength

MCStrings == TupleOf({1, 2}, 1) \cup TupleOf({1, 2}, 2)

\* Byte order with a prefix before its extensions: the C collation.
SortedBefore(s, t) ==
  s = t \/ IsStrictPrefix(s, t) \/ compare_string(t, s)

MCNameLists ==
  {list \in BoundedSeq(MCStrings, MaxLength) :
     \A i, j \in DOMAIN list : i < j => SortedBefore(list[i], list[j])}

MCUninitialized == {-7, 0, 7}

=============================================================================
