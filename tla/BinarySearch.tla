---------------------------- MODULE BinarySearch ----------------------------
(***************************************************************************)
(* The product search of binary_search.cpp: compare_string and the loop of *)
(* binary_search, one step per iteration.  A string is a sequence of       *)
(* character codes, so that "is a prefix of" means what it means in C++.   *)
(* Indices are 0-based as in the code; v[i] of the code is v[i + 1] here.  *)
(***************************************************************************)
EXTENDS Integers, Sequences

CONSTANTS
  Strings,        \* the strings a name or a search word may be
  NameLists,      \* what name_list() may return: the inputs of a search
  Uninitialized   \* the values the uninitialised int `mid' may hold

ASSUME StringsAssumption == Strings \subseteq Seq(Int)

ASSUME NameListsAssumption == NameLists \subseteq Seq(Strings)

ASSUME UninitializedAssumption == Uninitialized \subseteq Int

VARIABLES
  v,              \* the list searched
  search_word,
  start, mid, end,
  pc              \* "loop" or "returned"; the value returned is mid

vars == <<v, search_word, start, mid, end, pc>>

(***************************************************************************)
(* compare_string(s1, s2): the first position at which the two differ,     *)
(* within the shorter of them, holds a larger character in s1.  Equal up   *)
(* to the end of the shorter one counts as not larger, whichever of the    *)
(* two is the longer string.                                               *)
(***************************************************************************)
compare_string(s1, s2) ==
  \E i \in DOMAIN s1 :
    /\ i \in DOMAIN s2
    /\ s1[i] > s2[i]
    /\ \A j \in 1 .. (i - 1) : s1[j] = s2[j]

-----------------------------------------------------------------------------

Init ==
  /\ v \in NameLists
  /\ search_word \in Strings
  /\ start = 0
  /\ end = Len(v) - 1
  /\ mid \in Uninitialized
  /\ pc = "loop"

\* The probe of one iteration.
Middle == start + (end - start) \div 2

\* Mutant of Iterate: the probe stays in the interval when going left.
Iterate_KeepsProbe ==
  /\ pc = "loop"
  /\ start <= end
  /\ mid' = Middle
  /\ pc' = IF v[mid' + 1] = search_word THEN "returned" ELSE "loop"
  /\ IF compare_string(search_word, v[mid' + 1])
       THEN start' = mid' + 1 /\ end' = end
       ELSE start' = start /\ end' = mid'
  /\ UNCHANGED <<v, search_word>>

\* Mutant of Iterate: going right, the name after the probe is left out too.
Iterate_SkipsName ==
  /\ pc = "loop"
  /\ start <= end
  /\ mid' = Middle
  /\ pc' = IF v[mid' + 1] = search_word THEN "returned" ELSE "loop"
  /\ IF compare_string(search_word, v[mid' + 1])
       THEN start' = mid' + 2 /\ end' = end
       ELSE start' = start /\ end' = mid' - 1
  /\ UNCHANGED <<v, search_word>>

\* One iteration of the while loop.
Iterate ==
  /\ pc = "loop"
  /\ start <= end
  /\ mid' = Middle
  /\ \/ /\ v[mid' + 1] = search_word
        /\ pc' = "returned"
        /\ UNCHANGED <<start, end>>
     \/ /\ v[mid' + 1] # search_word
        /\ compare_string(search_word, v[mid' + 1])
        /\ start' = mid' + 1
        /\ UNCHANGED <<end, pc>>
     \/ /\ v[mid' + 1] # search_word
        /\ ~compare_string(search_word, v[mid' + 1])
        /\ end' = mid' - 1
        /\ UNCHANGED <<start, pc>>
  /\ UNCHANGED <<v, search_word>>

\* Mutant of Exhausted: the place to insert the word is returned.
Exhausted_ReturnsStart ==
  /\ pc = "loop"
  /\ start > end
  /\ mid' = start
  /\ pc' = "returned"
  /\ UNCHANGED <<v, search_word, start, end>>

\* The loop ends without a match: the last probe is returned.
Exhausted ==
  /\ pc = "loop"
  /\ start > end
  /\ pc' = "returned"
  /\ UNCHANGED <<v, search_word, start, mid, end>>

Next == Iterate \/ Exhausted

\* The loop runs on the caller's thread and nothing suspends it.
Spec == Init /\ [][Next]_vars /\ WF_vars(Next)

-----------------------------------------------------------------------------

\* The types of the locals of binary_search().
TypeOK ==
  /\ v \in NameLists
  /\ search_word \in Strings
  /\ start \in Int /\ mid \in Int /\ end \in Int
  /\ pc \in {"loop", "returned"}

(***************************************************************************)
(* What ORDER BY name ASC gives under the C collation: no name is larger   *)
(* than a later one.                                                       *)
(***************************************************************************)
Ascending(list) ==
  \A i, j \in DOMAIN list : i < j => ~compare_string(list[i], list[j])

(***************************************************************************)
(* Any two different names differ within the length of the shorter one, so *)
(* that compare_string orders them.                                        *)
(***************************************************************************)
Comparable(list) ==
  \A i, j \in DOMAIN list :
    \/ list[i] = list[j]
    \/ compare_string(list[i], list[j])
    \/ compare_string(list[j], list[i])

(***************************************************************************)
(* The index main() uses on product_codes is an index of the list searched *)
(* whenever that list has an element.  With an empty list `mid' is         *)
(* returned uninitialised.                                                 *)
(***************************************************************************)
ResultInRange ==
  pc = "returned" /\ v # <<>> => mid \in 0 .. (Len(v) - 1)

(***************************************************************************)
(* In an ascending list of comparable names a name that is present is      *)
(* found, whichever position it has and whatever the other names are.      *)
(***************************************************************************)
FindsComparableNames ==
  /\ pc = "returned"
  /\ Ascending(v) /\ Comparable(v)
  /\ \E k \in DOMAIN v : v[k] = search_word
  => v[mid + 1] = search_word

(***************************************************************************)
(* Searching a product by its name finds it.                               *)
(***************************************************************************)
FindsEveryName ==
  /\ pc = "returned"
  /\ Ascending(v)
  /\ \E k \in DOMAIN v : v[k] = search_word
  => v[mid + 1] = search_word

(***************************************************************************)
(* The loop returns, for every list and every word.                        *)
(***************************************************************************)
Returns == <>(pc = "returned")

=============================================================================
