---------------------------- MODULE MCProgress ------------------------------
(***************************************************************************)
(* What must come to an end: leaving the menus, the commit of a            *)
(* robusttransaction, the delivery of notifications, the parsing of COPY   *)
(* lines and the loops over results.  None of these parts shares state     *)
(* with another; each is run by itself.                                    *)
(***************************************************************************)
EXTENDS Transaction, Parts



Menus == INSTANCE Menu WITH
    stack <- v1, at <- v2, texts <- v3, numbers <- v4, prefix <- v5, opened <- v6,
    Texts <- {"lp3", "lp0"}, Numbers <- {0, 15, 31}, Default <- "lp3"

Subs == INSTANCE Notification WITH
    handlers <- v1, receivers <- v2, trans <- v3, listening <- v4, pending <- v5, queue <-
    v6, call <- v7, sent <- v8, inside <- v9,
    Channels <- 1 .. 3, HandlerChannels <- 1 .. 3, Receivers <- {}, ChannelOf <- <<>>, Kinds
    <- {"work", "nontransaction"}, MaxSent <- 4, Careful <- FALSE, Throws <- TRUE

Copy == INSTANCE CopyText WITH
    row <- v1, stage <- v2, fails <- v3, filled <- v4, m_buffer <- v5, line <- v6, reader <-
    v7, offset <- v8, m_row <- v9, begin <- v10, m_fields <- v11,
    Chars <- {"t", "N", "tab", "backslash"}, MaxLen <- 1, MaxFields <- 2, MaxFails <- 2,
    Null <- NoObject

Iter == INSTANCE ResultIterators WITH
    size <- v1, it <- v2, rit <- v3, back <- v4, loop <- v5, source <- v6, seen <- v7,
    MaxSize <- 4, Over <- "fields"

ASSUME ProgressAssumption ==
    /\ Menus!SettingsAssumption
    /\ TransactionAssumption
    /\ Subs!NotificationAssumption
    /\ Copy!CopyTextAssumption
    /\ Iter!ResultIteratorsAssumption

-----------------------------------------------------------------------------
runVars == <<vars, partVars>>

RunInit ==
    /\ Init
    /\ \/ part = "transaction" /\ Unused(0)
       \/ part = "menu" /\ Menus!Init /\ Unused(6)
       \/ part = "handlers" /\ Subs!Init /\ Unused(9)
       \/ part = "copy" /\ Copy!Init /\ Unused(11)
       \/ part = "iterators" /\ Iter!Init /\ Unused(7)

RunNext ==
    \/ part = "transaction" /\ Next /\ Keep(0)
    \/ part = "menu" /\ Menus!Next /\ Keep(6) /\ UNCHANGED vars
    \/ part = "handlers" /\ Subs!Next /\ Keep(9) /\ UNCHANGED vars
    \/ part = "copy" /\ Copy!Next /\ Keep(11) /\ UNCHANGED vars
    \/ part = "iterators" /\ Iter!Next /\ Keep(7) /\ UNCHANGED vars

\* What a part does by itself goes on, as in its own specification: the
\* program does not stop between two keys, nor inside a call of libpqxx; it
\* ends its transactions, and calls get_notifs() again and again outside of
\* them, as the documentation asks.
Fairness ==
    /\ WF_runVars(part = "menu" /\ Menus!Unwind /\ UNCHANGED vars /\ Keep(6))
    /\ \A o \in Objects : WF_vars(Ask(o) \/ GiveUp(o))
    /\ WF_runVars(part = "handlers" /\ Subs!Finish /\ UNCHANGED vars /\ Keep(9))
    /\ WF_runVars(part = "handlers" /\ Subs!End /\ UNCHANGED vars /\ Keep(9))
    /\ SF_runVars(part = "handlers" /\ Subs!Poll /\ UNCHANGED vars /\ Keep(9))
    /\ WF_runVars(part = "copy" /\ Copy!Next /\ UNCHANGED vars /\ Keep(11))
    /\ WF_runVars(part = "iterators" /\ Iter!Advance /\ UNCHANGED vars /\ Keep(7))

RunSpec == RunInit /\ [][RunNext]_runVars /\ Fairness

-----------------------------------------------------------------------------
(* Properties of the parts.                                                *)

\* "exit" in any menu leads back to the list of products without another key,
\* however deep the menu was (run_menu hands it up call by call).
ExitLeavesAll == (part = "menu" /\ Menus!Exiting) ~> (part = "menu" /\ Menus!Closed)

\* Every notification is taken from the queue in the end, whichever handlers
\* throw and whatever transactions are in the way of get_notifs().
NotificationsTaken == []<>(part = "handlers" => Subs!AllTaken)

\* Reading comes to its end: every row that is written to a COPY gets through
\* the parsers, unless the server refuses it, and so does every loop over a
\* result.
ReadersEnd ==
    /\ <>(part = "copy" => Copy!Parsed)
    /\ (part = "iterators" /\ Iter!Looping) ~> (part = "iterators" /\ ~Iter!Looping)
=============================================================================
