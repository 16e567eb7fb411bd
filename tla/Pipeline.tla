------------------------------ MODULE Pipeline ------------------------------
(***************************************************************************)
(* pqxx::pipeline: queries go in, are sent in batches, and their results   *)
(* are retrieved in any order.  A public call is one step; what it finds   *)
(* of the results that are still under way is a choice.                    *)
(*                                                                         *)
(* The private functions map a pipeline's state to the set of states they  *)
(* may leave it in; Then chains them, and a state in which an exception is *)
(* on its way stops the chain.  Iterators into m_queries are the keys they *)
(* point to, End for std::end.                                             *)
(*                                                                         *)
(* A query is one statement, as the class asks for.  It is "ok", fails     *)
(* when it is run ("fails"), or is refused when its batch is parsed        *)
(* ("syntax").  The server runs a batch outside a block as one transaction.*)
(***************************************************************************)
EXTENDS Integers, Sequences, FiniteSets, FiniteSetsExt, SequencesExt

CONSTANTS
    MaxQueries,     \* queries per pipeline, the bound of the model
    Kinds,          \* of queries, a subset of {"ok", "fails", "syntax"}
    Retains,        \* arguments of retain()
    Transactional,  \* the pipeline is in a backend transaction
    Transient,      \* a whole batch may fail for a passing reason
    Cancels         \* the program uses cancel()

PipelineAssumption ==
    /\ MaxQueries \in Nat \ {0}
    /\ Kinds \subseteq {"ok", "fails", "syntax"}
    /\ Retains \subseteq Nat
    /\ {Transactional, Transient, Cancels} \subseteq BOOLEAN

VARIABLES
    p,          \* the pipeline, with libpq's results and the server behind it
    answer      \* what the last call told the program

vars == <<p, answer>>

Ids == 1 .. MaxQueries
End == MaxQueries + 1
Limit == MaxQueries + 1     \* qid_limit()

NoResult == [of |-> 0, status |-> "none"]
Result(q, status) == [of |-> q, status |-> status]
NoAnswer == [call |-> "none", q |-> 0, res |-> NoResult]

Init ==
    /\ p = [kind |-> [q \in {} |-> "ok"], res |-> [q \in {} |-> NoResult],
            first |-> End, second |-> End, retain |-> 0, waiting |-> 0, last |-> 0,
            dummy |-> FALSE, error |-> Limit, registered |-> TRUE,
            wire |-> <<>>, idle |-> TRUE, failed |-> FALSE,
            effects |-> [q \in Ids |-> 0], threw |-> FALSE, got |-> FALSE, wild |-> FALSE]
    /\ answer = NoAnswer

-----------------------------------------------------------------------------
(* m_queries and m_issuedrange.                                            *)

Queries(st) == DOMAIN st.kind
After(st, q) == LET later == {i \in Queries(st) : i > q} IN IF later = {} THEN End ELSE Min(later)
QueriesFrom(st, i) == {q \in Queries(st) : q >= i}
Between(st, i, j) == {q \in Queries(st) : i <= q /\ q < j}
have_pending(st) == st.second # st.first
Erase(st, gone) ==
    [st EXCEPT !.kind = [q \in Queries(st) \ gone |-> st.kind[q]],
               !.res = [q \in Queries(st) \ gone |-> st.res[q]]]

set_error_at(st, q) == [st EXCEPT !.error = IF q < @ THEN q ELSE @]
Throw(st) == [st EXCEPT !.threw = TRUE]
Wild(st) == [st EXCEPT !.threw = TRUE, !.wild = TRUE]

Then(states, Op(_)) == UNION {IF st.threw THEN {st} ELSE Op(st) : st \in states}

-----------------------------------------------------------------------------
(* The server.                                                             *)

Ran(st, done) ==
    [st EXCEPT !.effects = [q \in Ids |-> IF q \in done THEN @[q] + 1 ELSE @[q]]]
Broken(st) == [st EXCEPT !.failed = Transactional]

\* The results of a batch, in libpq's hands.
Send(st, batch, dummy) ==
    LET failing == {q \in batch : st.kind[q] = "fails"}
        shown   == IF failing = {} THEN batch ELSE {q \in batch : q <= Min(failing)}
        results == [i \in 1 .. Cardinality(shown) |->
                      LET q == SetToSortSeq(shown, <)[i]
                      IN  Result(q, IF q \in failing THEN "error" ELSE "ok")]
        head    == IF dummy THEN <<Result(0, "ok")>> ELSE <<>>
        sent    == [st EXCEPT !.idle = FALSE]
        refused == Broken([sent EXCEPT !.wire = <<Result(IF dummy THEN 0 ELSE Min(batch), "error")>>])
        run     == [sent EXCEPT !.wire = head \o results]
    IN  (IF st.failed \/ \E q \in batch : st.kind[q] = "syntax" THEN {refused}
         ELSE {IF failing = {} THEN Ran(run, batch) ELSE Broken(run)})
        \cup IF Transient THEN {refused} ELSE {}

\* transaction_base::exec() of one query; PQexec drops what was under way.
Exec(st, q) ==
    LET clear == [st EXCEPT !.wire = <<>>, !.idle = TRUE]
    IN  IF st.kind[q] = "ok" /\ ~st.failed
        THEN [Ran(clear, {q}) EXCEPT !.res[q] = Result(q, "ok")]
        ELSE Throw(Broken(clear))

-----------------------------------------------------------------------------
(* Receiving.                                                              *)

\* PQgetResult gave null.
NoneLeft(st, expect_none) ==
    LET null == [st EXCEPT !.idle = TRUE, !.got = FALSE]
    IN  CASE ~(have_pending(st) /\ ~expect_none) -> null
          [] have_pending(st) /\ ~expect_none /\ st.first = End -> Wild(null)
          [] OTHER -> [set_error_at(null, st.first) EXCEPT !.second = st.first]

\* A result for the oldest pending query.
Deliver(st) == [st EXCEPT !.res[st.first] = Head(st.wire), !.wire = Tail(@),
                          !.first = After(st, st.first), !.got = TRUE]

\* The query that a result should be for has one already.
MultipleResults(st) == st.res[st.first].status = "ok"

obtain_result(st, expect_none) ==
    CASE st.wire = <<>> -> NoneLeft(st, expect_none)
      [] st.wire # <<>> /\ Queries(st) = {} -> Wild(st)
      [] st.wire # <<>> /\ Queries(st) # {} /\ ~have_pending(st) ->
            Throw(set_error_at([st EXCEPT !.wire = Tail(@)], Min(Queries(st))))
      [] OTHER ->
            IF st.first = End THEN Wild(st)
            ELSE IF MultipleResults(st) THEN Throw(set_error_at([st EXCEPT !.wire = Tail(@)], 0))
            ELSE Deliver(st)

\* The queries of a failed batch, one at a time.
RECURSIVE Replay(_, _)
Replay(st, stop) ==
    LET q    == st.first
        tried == Exec([st EXCEPT !.waiting = @ - 1], q)
        next == After(st, q)
    IN  CASE tried.threw ->
                set_error_at([tried EXCEPT !.threw = FALSE, !.first = next, !.second = next],
                             IF next = End THEN q + 1 ELSE next)
          [] ~tried.threw /\ next # stop -> Replay([tried EXCEPT !.first = next], stop)
          [] OTHER -> [tried EXCEPT !.first = next]

\* A batch that failed as a whole: every query has its message, and then they
\* are run again.
BatchFailed(st) ==
    LET batch == Between(st, st.first, st.second)
        told  == [st EXCEPT !.res = [q \in Queries(st) |->
                                        IF q \in batch THEN Result(q, "error") ELSE @[q]]]
        none  == obtain_result(told, TRUE)
        reset == [none EXCEPT !.waiting = @ + Cardinality(batch),
                              !.second = none.first, !.registered = FALSE]
    IN  IF none.threw THEN none ELSE Replay(reset, st.second)

obtain_dummy(st) ==
    LET taken == [st EXCEPT !.dummy = FALSE, !.wire = IF @ = <<>> THEN @ ELSE Tail(@)]
    IN  CASE st.wire = <<>> -> Throw(set_error_at(taken, 0))
          [] st.wire # <<>> /\ Head(st.wire).status = "ok" -> taken
          [] OTHER -> BatchFailed(taken)

\* Receiving without the dummy query's result in mind.
Dummy_Forgotten(st) == {st}

Dummy(st) == {IF st.dummy THEN obtain_dummy(st) ELSE st}

\* Results that have come in meanwhile: none, some or all.
RECURSIVE get_further_available_results(_)
get_further_available_results(st) ==
    LET next == obtain_result(st, FALSE)
    IN  {st} \cup IF next.threw \/ ~next.got THEN {next} ELSE get_further_available_results(next)

receive_if_available(st) ==
    {st} \cup Then(Dummy(st), LAMBDA s :
                  IF have_pending(s) THEN get_further_available_results(s) ELSE {s})

RECURSIVE ReceiveUntil(_, _)
ReceiveUntil(st, stop) ==
    LET next == obtain_result(st, FALSE)
    IN  IF next.threw \/ ~next.got \/ next.first = stop THEN next ELSE ReceiveUntil(next, stop)

receive(st, stop) ==
    Then(Then(Dummy(st), LAMBDA s : {ReceiveUntil(s, stop)}),
         LAMBDA s : IF s.first = stop THEN get_further_available_results(s) ELSE {s})

-----------------------------------------------------------------------------
(* Issuing.                                                                *)

\* The bookkeeping once a batch is sent.
Issued(st, batch) ==
    [st EXCEPT !.dummy = Cardinality(batch) > 1, !.first = st.second, !.second = End,
               !.waiting = @ - Cardinality(batch)]

\* issue() that starts from the oldest query it has.
issue_FromOldest(st) ==
    Then({obtain_result(st, FALSE)}, LAMBDA s :
        LET batch == Queries(s)
        IN  CASE s.error < Limit -> {s}
              [] s.error = Limit /\ ~s.idle -> {Throw(s)}
              [] OTHER -> {Issued(r, batch) : r \in Send(s, batch, Cardinality(batch) > 1)})

\* The null result of the last batch is read first; after an error nothing
\* more is sent.
issue(st) ==
    Then({obtain_result(st, FALSE)}, LAMBDA s :
        LET batch == QueriesFrom(s, s.second)
        IN  CASE s.error < Limit -> {s}
              [] s.error = Limit /\ ~s.idle -> {Throw(s)}
              [] OTHER -> {Issued(r, batch) : r \in Send(s, batch, Cardinality(batch) > 1)})

-----------------------------------------------------------------------------
(* The public calls.                                                       *)

\* The call is over; an exception was passed to the program.
Leaves(states) == \E st \in states : p' = [st EXCEPT !.threw = FALSE, !.got = FALSE]

Attached(st) == [st EXCEPT !.registered = TRUE]
Detached(st) == [st EXCEPT !.registered = FALSE]

Inserted(st, q, kind) ==
    [st EXCEPT !.kind = [i \in Queries(st) \cup {q} |-> IF i = q THEN kind ELSE st.kind[i]],
               !.res = [i \in Queries(st) \cup {q} |-> IF i = q THEN NoResult ELSE st.res[i]],
               !.last = q,
               !.second = IF @ = End THEN q ELSE @,
               !.first = IF st.second = End /\ @ = End THEN q ELSE @,
               !.waiting = @ + 1]

insert(kind) ==
    /\ p.last < MaxQueries
    /\ LET added == Inserted(Attached(p), p.last + 1, kind)
           ready == IF have_pending(added) THEN receive_if_available(added) ELSE {added}
       IN  Leaves(IF added.waiting > added.retain
                  THEN Then(ready, LAMBDA s : IF have_pending(s) THEN {s} ELSE issue(s))
                  ELSE {added})
    /\ answer' = NoAnswer

\* complete() that leaves the queries that are not sent yet.
complete_Pending ==
    \E st \in Then(IF have_pending(p) THEN receive(p, p.second) ELSE {p}, LAMBDA s : {Detached(s)}) :
        /\ p' = [st EXCEPT !.threw = FALSE, !.got = FALSE]
        /\ answer' = [NoAnswer EXCEPT !.call = IF st.threw THEN "none" ELSE "complete"]

complete ==
    LET got    == IF have_pending(p) THEN receive(p, p.second) ELSE {p}
        rest   == Then(got, LAMBDA s :
                      IF s.waiting > 0 /\ s.error = Limit
                      THEN Then(issue(s), LAMBDA r : receive(r, End)) ELSE {s})
    IN  \E st \in Then(rest, LAMBDA s : {Detached(s)}) :
            /\ p' = [st EXCEPT !.threw = FALSE, !.got = FALSE]
            /\ answer' = [NoAnswer EXCEPT !.call = IF st.threw THEN "none" ELSE "complete"]

flush ==
    LET got  == IF have_pending(p) THEN receive(p, p.second) ELSE {p}
        none == Then(got, LAMBDA s :
                    {Erase([s EXCEPT !.first = End, !.second = End, !.waiting = 0, !.dummy = FALSE],
                           Queries(s))})
    IN  /\ Leaves(Then(IF Queries(p) = {} THEN {p} ELSE none, LAMBDA s : {Detached(s)}))
        /\ answer' = [NoAnswer EXCEPT !.call = "flush"]

\* The queries that are under way are forgotten, their results are not read.
cancel ==
    /\ Cancels
    /\ LET gone == Between(p, p.first, p.second)
       IN  p' = Erase([p EXCEPT !.first = p.second], gone)
    /\ answer' = NoAnswer

\* The query's result is taken out of the pipeline.
TakeOut(st, q) == Erase(st, {q})

RetrieveFrom(q) ==
    LET unissued == p.second # End /\ q >= p.second
        sent == IF ~unissued THEN {p}
                ELSE Then(IF have_pending(p) THEN receive(p, p.second) ELSE {p},
                          LAMBDA s : IF s.error = Limit THEN issue(s) ELSE {s})
        got  == Then(sent, LAMBDA s :
                    CASE ~have_pending(s) -> {s}
                      [] have_pending(s) /\ q >= s.first -> receive(s, After(s, q))
                      [] OTHER -> receive_if_available(s))
    IN  Then(Then(got, LAMBDA s : {IF q >= s.error THEN Throw(s) ELSE s}), LAMBDA s :
            IF s.waiting > 0 /\ ~have_pending(s) /\ s.error = Limit THEN issue(s) ELSE {s})

retrieve(q) ==
    /\ q \in Queries(p)
    /\ IF q >= p.error
       THEN UNCHANGED p /\ answer' = NoAnswer
       ELSE \E st \in RetrieveFrom(q) :
              IF st.threw
              THEN p' = [st EXCEPT !.threw = FALSE, !.got = FALSE] /\ answer' = NoAnswer
              ELSE /\ p' = [TakeOut(st, q) EXCEPT !.got = FALSE]
                   /\ answer' = [call |-> "retrieve", q |-> q, res |-> st.res[q]]

Resumed(st) ==
    Then(IF have_pending(st) THEN receive_if_available(st) ELSE {st}, LAMBDA s :
        IF ~have_pending(s) /\ s.waiting > 0 THEN Then(issue(s), receive_if_available) ELSE {s})

resume == Leaves(Resumed(p)) /\ answer' = NoAnswer

retain(n) ==
    /\ LET set == [p EXCEPT !.retain = n]
       IN  Leaves(IF set.waiting >= n THEN Resumed(set) ELSE {set})
    /\ answer' = NoAnswer

is_finished(q) == p.first = End \/ (q < p.first /\ q < p.error)

Next ==
    \/ \E kind \in Kinds : insert(kind)
    \/ \E q \in Ids : retrieve(q)
    \/ \E n \in Retains : retain(n)
    \/ complete
    \/ flush
    \/ cancel
    \/ resume

Spec == Init /\ [][Next]_vars

-----------------------------------------------------------------------------
(* Properties.                                                             *)

\* No iterator is used that points nowhere, the issued range is a range, and
\* as long as no query has failed m_num_waiting counts exactly the queries
\* behind it: a count that is off leaves queries unsent or sends an empty
\* batch.
RangeExact ==
    /\ ~p.wild
    /\ p.first \in Queries(p) \cup {End} /\ p.second \in Queries(p) \cup {End}
    /\ p.first <= p.second
    /\ p.error = Limit => p.waiting = Cardinality(QueriesFrom(p, p.second))

\* What is retrieved for a query is the result of that query, whatever order
\* they are asked for in, and whichever batch failed in between.
OwnResult == answer.call = "retrieve" => answer.res.of = answer.q /\ answer.res.status # "none"

\* No query takes effect twice, although a failed batch is run again.
RunsOnce == \A q \in Ids : p.effects[q] <= 1

\* "Any query executed in a nontransaction is committed immediately": a query
\* whose result says so has taken effect.
RetrievedIsDone ==
    answer.call = "retrieve" /\ answer.res.status = "ok" => p.effects[answer.q] >= 1

\* A query that is_finished() calls finished has a result to retrieve.
FinishedHasResult ==
    \A q \in Queries(p) : is_finished(q) /\ q < p.error => p.res[q].status # "none"

\* complete() without an exception leaves nothing to wait for: every query
\* has its result or comes after one that failed.
CompleteIsComplete ==
    answer.call = "complete" =>
        ~have_pending(p) /\ \A q \in Queries(p) : q < p.error => p.res[q].status # "none"

\* "Any error state (unless caused by an internal error) will also be
\* cleared" by flush().
FlushClears == answer.call = "flush" => p.error \in {0, Limit}
=============================================================================
