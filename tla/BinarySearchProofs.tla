------------------------- MODULE BinarySearchProofs -------------------------
(***************************************************************************)
(* Proofs about binary_search for every set of strings, every list and     *)
(* every word: the index returned is in range, and in an ascending list of *)
(* comparable names a name that is present is found.  That the loop ends   *)
(* is a liveness property and stays with TLC.                              *)
(***************************************************************************)
EXTENDS BinarySearch, TLAPS

(***************************************************************************)
(* The interval start..end stays inside the list, and after the first      *)
(* probe so does mid.  ResultInRange alone says nothing of the loop, so it *)
(* is not inductive.                                                       *)
(***************************************************************************)
Interval ==
  /\ 0 <= start
  /\ end < Len(v)
  /\ start <= end + 1
  /\ \/ mid \in 0 .. (Len(v) - 1)
     \/ start = 0 /\ end = Len(v) - 1 /\ (pc = "returned" => v = <<>>)

\* While the loop runs, an occurrence of the word is between start and end.
Pending ==
  \E k \in DOMAIN v : v[k] = search_word /\ start <= k - 1 /\ k - 1 <= end

SearchHypothesis ==
  /\ Ascending(v) /\ Comparable(v)
  /\ \E k \in DOMAIN v : v[k] = search_word

Hunt ==
  SearchHypothesis =>
    /\ pc = "loop" => Pending
    /\ pc = "returned" => mid + 1 \in DOMAIN v /\ v[mid + 1] = search_word

IInv == TypeOK /\ Interval /\ Hunt

-----------------------------------------------------------------------------

\* The list is a sequence; its indices are 1..Len(v).
LEMMA ListType ==
  ASSUME TypeOK
  PROVE  /\ v \in Seq(Strings)
         /\ Len(v) \in Nat
         /\ DOMAIN v = 1 .. Len(v)
  <1>1. v \in Seq(Strings)
    BY NameListsAssumption DEF TypeOK
  <1>2. QED
    BY <1>1

\* The probe lies between start and end.
LEMMA MiddleInInterval ==
  ASSUME start \in Int, end \in Int, start <= end
  PROVE  Middle \in start .. end
  BY DEF Middle

\* The arithmetic of one iteration on a list of n names.
LEMMA ProbeInList ==
  ASSUME NEW n \in Nat, NEW s \in Int, NEW e \in Int, NEW m \in s .. e,
         0 <= s, e < n
  PROVE  /\ m \in 0 .. (n - 1)
         /\ m + 1 \in 1 .. n
         /\ 0 <= m + 1 /\ m - 1 < n
         /\ m + 1 <= e + 1 /\ s <= (m - 1) + 1
  OBVIOUS

\* The whole list can only be an empty interval if it has no element.
LEMMA EmptyInterval ==
  ASSUME NEW n \in Nat, 0 > n - 1
  PROVE  n = 0
  OBVIOUS

\* Initially the interval is the whole list.
LEMMA InitIInv == Init => IInv
  <1> SUFFICES ASSUME Init PROVE IInv
    OBVIOUS
  <1>1. v \in Seq(Strings) /\ Len(v) \in Nat /\ DOMAIN v = 1 .. Len(v)
    BY NameListsAssumption DEF Init
  <1>2. TypeOK
    BY <1>1, UninitializedAssumption DEF Init, TypeOK
  <1>3. Interval
    BY <1>1 DEF Init, Interval
  <1>4. Hunt
    BY <1>1 DEF Init, Hunt, Pending, SearchHypothesis
  <1>5. QED
    BY <1>2, <1>3, <1>4 DEF IInv

(***************************************************************************)
(* Halving keeps an occurrence k of the word: the half thrown away holds   *)
(* only names the comparison has told apart from it.                       *)
(***************************************************************************)
LEMMA HalvingKeeps ==
  ASSUME Ascending(v), Comparable(v),
         NEW k \in DOMAIN v, v[k] = search_word,
         NEW m \in DOMAIN v, v[m] # search_word,
         DOMAIN v \subseteq Int
  PROVE  /\ compare_string(search_word, v[m]) => m < k
         /\ ~compare_string(search_word, v[m]) => k < m
  <1>1. k # m
    OBVIOUS
  <1>2. ASSUME compare_string(search_word, v[m]) PROVE m < k
    <2>1. ~(k < m)
      BY <1>2 DEF Ascending
    <2>2. QED
      BY <1>1, <2>1
  <1>3. ASSUME ~compare_string(search_word, v[m]) PROVE k < m
    <2>1. compare_string(v[m], v[k])
      BY <1>3 DEF Comparable
    <2>2. ~(m < k)
      BY <2>1 DEF Ascending
    <2>3. QED
      BY <1>1, <2>2
  <1>4. QED
    BY <1>2, <1>3

\* Every step preserves the invariant.
LEMMA NextIInv == IInv /\ [Next]_vars => IInv'
  <1> SUFFICES ASSUME IInv, [Next]_vars PROVE IInv'
    OBVIOUS
  <1> USE DEF IInv
  <1>0. v \in Seq(Strings) /\ Len(v) \in Nat /\ DOMAIN v = 1 .. Len(v)
    BY ListType
  <1>1. CASE Iterate
    <2>1. /\ start \in Int /\ end \in Int /\ start <= end
          /\ pc = "loop" /\ mid' = Middle
          /\ v' = v /\ search_word' = search_word
      BY <1>1 DEF Iterate, TypeOK
    <2>2. mid' \in start .. end
      BY <2>1, MiddleInInterval
    <2>3. mid' \in 0 .. (Len(v) - 1) /\ mid' + 1 \in DOMAIN v
      BY <1>0, <2>1, <2>2, ProbeInList DEF Interval
    <2>4. start' \in Int /\ end' \in Int /\ pc' \in {"loop", "returned"}
      BY <1>1, <2>1, <2>3 DEF Iterate
    <2>5. TypeOK'
      BY <2>1, <2>3, <2>4 DEF TypeOK
    <2>6. 0 <= start' /\ end' < Len(v) /\ start' <= end' + 1
      <3>1. /\ 0 <= mid' + 1 /\ mid' - 1 < Len(v)
            /\ mid' + 1 <= end + 1 /\ start <= (mid' - 1) + 1
        BY <1>0, <2>1, <2>2, ProbeInList DEF Interval
      <3>2. QED
        BY <1>1, <3>1 DEF Iterate, Interval
    <2>7. Interval'
      BY <2>1, <2>3, <2>6 DEF Interval
    <2>8. ASSUME SearchHypothesis PROVE Hunt'
      <3>1. PICK k \in DOMAIN v :
              v[k] = search_word /\ start <= k - 1 /\ k - 1 <= end
        BY <2>1, <2>8 DEF Hunt, Pending
      <3>2. CASE v[mid' + 1] = search_word
        BY <1>1, <2>1, <2>3, <3>2 DEF Iterate, Hunt
      <3>3. CASE v[mid' + 1] # search_word
        <4>1. /\ compare_string(search_word, v[mid' + 1]) => mid' + 1 < k
              /\ ~compare_string(search_word, v[mid' + 1]) => k < mid' + 1
          BY <1>0, <2>3, <2>8, <3>1, <3>3, HalvingKeeps
             DEF SearchHypothesis
        <4>2. pc' = "loop" /\ start' <= k - 1 /\ k - 1 <= end'
          BY <1>0, <1>1, <2>1, <2>3, <3>1, <3>3, <4>1 DEF Iterate
        <4>3. QED
          BY <2>1, <3>1, <4>2 DEF Hunt, Pending
      <3>4. QED
        BY <3>2, <3>3
    <2>9. Hunt'
      <3>1. SearchHypothesis' = SearchHypothesis
        BY <2>1 DEF SearchHypothesis, Ascending, Comparable
      <3>2. QED
        BY <2>8, <3>1 DEF Hunt
    <2>10. QED
      BY <2>5, <2>7, <2>9
  <1>2. CASE Exhausted
    <2>1. TypeOK'
      BY <1>2 DEF Exhausted, TypeOK
    <2>2. Interval'
      <3>1. start = 0 /\ end = Len(v) - 1 => v = <<>>
        <4>1. start = 0 /\ end = Len(v) - 1 => Len(v) = 0
          BY <1>0, <1>2, EmptyInterval DEF Exhausted
        <4>2. QED
          BY <1>0, <4>1
      <3>2. QED
        BY <1>2, <3>1 DEF Exhausted, Interval
    <2>3. ~Pending
      BY <1>0, <1>2 DEF Exhausted, Pending, TypeOK
    <2>4. ~SearchHypothesis'
      BY <1>2, <2>3
         DEF Exhausted, Hunt, SearchHypothesis, Ascending, Comparable
    <2>5. QED
      BY <2>1, <2>2, <2>4 DEF Hunt
  <1>3. CASE UNCHANGED vars
    BY <1>3 DEF vars, TypeOK, Interval, Hunt, Pending, SearchHypothesis,
                Ascending, Comparable
  <1>4. QED
    BY <1>1, <1>2, <1>3 DEF Next

\* The strengthened invariant holds throughout every search.
THEOREM SearchInvariant == Spec => []IInv
  <1>1. QED
    BY InitIInv, NextIInv, PTL DEF Spec

(***************************************************************************)
(* binary_search never hands main() an index outside a non-empty list.     *)
(***************************************************************************)
THEOREM SearchResultInRange == Spec => []ResultInRange
  <1>1. IInv => ResultInRange
    BY ListType DEF IInv, Interval, ResultInRange
  <1>2. QED
    BY <1>1, SearchInvariant, PTL

(***************************************************************************)
(* binary_search finds every name of an ascending list of comparable names *)
(* of any length.                                                          *)
(***************************************************************************)
THEOREM SearchFindsComparableNames == Spec => []FindsComparableNames
  <1>1. IInv => FindsComparableNames
    BY DEF IInv, Hunt, SearchHypothesis, FindsComparableNames
  <1>2. QED
    BY <1>1, SearchInvariant, PTL

=============================================================================
