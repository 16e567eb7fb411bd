------------------------------ MODULE MCRows --------------------------------
(***************************************************************************)
(* What reaches the program from the server piece by piece, and the        *)
(* objects it is read through: results, cursor streams and pipelines.      *)
(* None of these parts shares state with another; each is run by itself.   *)
(***************************************************************************)
EXTENDS ResultSet, Parts, TLC

CONSTANTS NoObject, o1, o2, o3, d1, d2, c1

\* Objects of the program are only names.
Symmetric == Permutations({o1, o2, o3})

\* Every query is made on the one connection.
MCFrom == [d \in Data |-> c1]

Icurs == INSTANCE CursorStream WITH
    stream <- v1, it <- v2, out <- v3,
    Iters <- {o1, o2, o3}, Null <- NoObject, Rows <- 4, Strides <- {1, 2}, MaxPos <- 6,
    ReadFirst <- FALSE

Pipe == INSTANCE Pipeline WITH
    p <- v1, answer <- v2,
    MaxQueries <- 4, Kinds <- {"ok", "fails", "syntax"}, Retains <- 0 .. 2, Transactional <-
    FALSE, Transient <- FALSE, Cancels <- TRUE

PipeInBlock == INSTANCE Pipeline WITH
    p <- v1, answer <- v2,
    MaxQueries <- 4, Kinds <- {"ok", "fails", "syntax"}, Retains <- 0 .. 2, Transactional <-
    TRUE, Transient <- FALSE, Cancels <- FALSE

ASSUME RowsAssumption ==
    /\ ResultSetAssumption /\ Icurs!CursorStreamAssumption
    /\ Pipe!PipelineAssumption /\ PipeInBlock!PipelineAssumption

-----------------------------------------------------------------------------
runVars == <<vars, partVars>>

RunInit ==
    /\ Init
    /\ \/ part = "results" /\ Unused(0)
       \/ part = "cursor_stream" /\ Icurs!Init /\ Unused(3)
       \/ part = "pipeline" /\ Pipe!Init /\ Unused(2)
       \/ part = "block" /\ PipeInBlock!Init /\ Unused(2)

RunNext ==
    \/ part = "results" /\ Next /\ Keep(0)
    \/ part = "cursor_stream" /\ Icurs!Next /\ Keep(3) /\ UNCHANGED vars
    \/ part = "pipeline" /\ Pipe!Next /\ Keep(2) /\ UNCHANGED vars
    \/ part = "block" /\ PipeInBlock!Next /\ Keep(2) /\ UNCHANGED vars

RunSpec == RunInit /\ [][RunNext]_runVars

-----------------------------------------------------------------------------
(* Properties of the parts.                                                *)

\* Iterators on one cursor stream each show the rows of their own position, as
\* long as the stream is read through them only, and the stream's list holds
\* those that are alive, each once, whatever is copied, assigned, moved and
\* destroyed.
CursorStreamsExact ==
    part = "cursor_stream" => Icurs!ListExact /\ Icurs!ShowsBlock /\ Icurs!RealposExact

\* A pipeline runs no query twice, also when a batch failed and its queries
\* were sent again one by one (and the one that failed fails again); the range
\* of queries it has issued is the range the server has; retrieve() returns the
\* result of the query it was asked for, and is_finished() says so only of
\* queries whose result is there; complete() returns with nothing left to wait
\* for.
PipelineExact ==
    /\ part = "pipeline" =>
        /\ Pipe!RunsOnce /\ Pipe!RangeExact
        /\ Pipe!OwnResult /\ Pipe!FinishedHasResult /\ Pipe!CompleteIsComplete
    /\ part = "block" => PipeInBlock!RangeExact /\ PipeInBlock!CompleteIsComplete
=============================================================================
