---------------------------- MODULE Notification ----------------------------
(***************************************************************************)
(* Notifications on one connection: the handlers of connection::listen(),  *)
(* the older notification_receiver objects, get_notifs() and the           *)
(* transactions it has to stay out of.  Other sessions send notifications  *)
(* at any time, in particular after the server has carried out a LISTEN or *)
(* UNLISTEN and before the call that sent it is over.                      *)
(*                                                                         *)
(* Channels are numbers: std::map keeps its keys in order, and listen()    *)
(* looks one up with lower_bound.  The queue holds the notifications that  *)
(* the server sent and the client did not look at yet.                     *)
(***************************************************************************)
EXTENDS Naturals, Sequences, FiniteSetsExt

CONSTANTS
    Channels,
    HandlerChannels,    \* the channels the program gives handlers
    Receivers,
    ChannelOf,      \* notification_receiver::channel
    Kinds,          \* the transactions the program uses
    MaxSent,        \* bound on the notifications of other sessions
    Careful,        \* the program cancels only its own subscriptions
    Throws          \* handlers may throw

NotificationAssumption ==
    /\ Channels \subseteq Nat /\ HandlerChannels \subseteq Channels
    /\ ChannelOf \in [Receivers -> Channels]
    /\ Kinds \subseteq {"work", "nontransaction", "robust"}
    /\ MaxSent \in Nat
    /\ Careful \in BOOLEAN /\ Throws \in BOOLEAN

VARIABLES
    handlers,   \* the keys of connection::m_notification_handlers
    receivers,  \* connection::m_receivers
    trans,      \* the program's transaction, "none" without one
    listening,  \* the session's channels
    pending,    \* LISTEN and UNLISTEN of the open block, in order
    queue,
    call,       \* the call between its command and the end of it
    sent,
    inside      \* a handler or receiver was called inside a transaction

vars == <<handlers, receivers, trans, listening, pending, queue, call, sent, inside>>

Idle == [op |-> "none", channel |-> 0]

Init ==
    /\ handlers = {} /\ receivers = {}
    /\ trans = "none"
    /\ listening = {} /\ pending = <<>>
    /\ queue = <<>>
    /\ call = Idle
    /\ sent = 0
    /\ inside = FALSE

-----------------------------------------------------------------------------
(* The server.                                                             *)

Block == trans \in {"work", "robust"}
Apply(on, op) == IF op[1] = "LISTEN" THEN on \cup {op[2]} ELSE on \ {op[2]}

\* LISTEN and UNLISTEN take effect at the end of the block.
Command(op, c) ==
    IF Block
    THEN pending' = Append(pending, <<op, c>>) /\ UNCHANGED listening
    ELSE listening' = Apply(listening, <<op, c>>) /\ UNCHANGED pending

\* The last command of the block on a channel decides.
Applied ==
    {c \in Channels :
        LET ops == {i \in DOMAIN pending : pending[i][2] = c}
        IN  IF ops = {} THEN c \in listening ELSE pending[Max(ops)][1] = "LISTEN"}

\* Another session notifies; the server holds it back during a block, which
\* the client cannot tell from a late one.
Notify(c) ==
    /\ sent < MaxSent
    /\ sent' = sent + 1
    /\ queue' = IF c \in listening /\ ~Block THEN Append(queue, c) ELSE queue
    /\ UNCHANGED <<handlers, receivers, trans, listening, pending, call, inside>>

-----------------------------------------------------------------------------
(* get_notifs().                                                           *)

\* connection::m_trans: a robusttransaction is not registered.
Registered == trans \in {"work", "nontransaction"}

\* The number of notifications a call takes from the queue, and whether a
\* handler's exception ended it.  Receivers' exceptions only cause a notice.
AllDrained == [taken |-> Len(queue), threw |-> FALSE]
Thrown == {[taken |-> i, threw |-> TRUE] : i \in {j \in DOMAIN queue : Throws /\ queue[j] \in handlers}}

\* get_notifs() that does not look for a transaction.
Drains_Always == {AllDrained} \cup Thrown

Drains == IF Registered THEN {[taken |-> 0, threw |-> FALSE]} ELSE {AllDrained} \cup Thrown

Called(d) ==
    {i \in 1 .. d.taken : queue[i] \in handlers \/ \E r \in receivers : ChannelOf[r] = queue[i]}

Take(d) ==
    /\ queue' = SubSeq(queue, d.taken + 1, Len(queue))
    /\ inside' = (inside \/ (Block /\ Called(d) # {}))

GetNotifs ==
    /\ call = Idle
    /\ \E d \in Drains : Take(d)
    /\ UNCHANGED <<handlers, receivers, trans, listening, pending, call, sent>>

-----------------------------------------------------------------------------
(* listen() with a handler, and with an empty one.                         *)

\* usage_error inside a registered transaction; otherwise LISTEN, unless the
\* channel has a handler already.
Listen(c) ==
    /\ call = Idle /\ ~Registered /\ c \notin handlers
    /\ Command("LISTEN", c)
    /\ call' = [op |-> "listen", channel |-> c]
    /\ UNCHANGED <<handlers, receivers, trans, queue, sent, inside>>

\* exec() has its result, looks for notifications, and only then is the
\* handler there; an exception of another handler leaves listen() before.
Installed(d) == IF d.threw THEN handlers ELSE handlers \cup {call.channel}

FinishListen ==
    /\ call.op = "listen"
    /\ \E d \in Drains : Take(d) /\ handlers' = Installed(d)
    /\ call' = Idle
    /\ UNCHANGED <<receivers, trans, listening, pending, sent>>

\* lower_bound: the handler that an empty one removes.
Position(c) == {h \in handlers : h >= c}

Unlisten(c) ==
    /\ call = Idle /\ ~Registered /\ Position(c) # {}
    /\ Careful => c \in handlers
    /\ Command("UNLISTEN", c)
    /\ call' = [op |-> "unlisten", channel |-> c]
    /\ UNCHANGED <<handlers, receivers, trans, queue, sent, inside>>

FinishUnlisten ==
    /\ call.op = "unlisten"
    /\ \E d \in Drains :
          /\ Take(d)
          /\ handlers' = IF d.threw THEN handlers ELSE handlers \ {Min(Position(call.channel))}
    /\ call' = Idle
    /\ UNCHANGED <<receivers, trans, listening, pending, sent>>

-----------------------------------------------------------------------------
(* Receivers.                                                              *)

Others(r) == {q \in receivers \ {r} : ChannelOf[q] = ChannelOf[r]}

AddReceiver(r) ==
    /\ call = Idle /\ r \notin receivers
    /\ IF Others(r) = {} THEN Command("LISTEN", ChannelOf[r]) ELSE UNCHANGED <<listening, pending>>
    /\ receivers' = receivers \cup {r}
    /\ UNCHANGED <<handlers, trans, queue, call, sent, inside>>

\* remove_receiver() that cancels the subscription with any receiver.
UnlistenNeeded_Always(r) == TRUE

\* Only the last receiver of a channel cancels the subscription.
UnlistenNeeded(r) == Others(r) = {}

\* The receiver goes first, then UNLISTEN, then get_notifs.
RemoveReceiver(r) ==
    /\ call = Idle /\ r \in receivers
    /\ receivers' = receivers \ {r}
    /\ IF UnlistenNeeded(r)
       THEN Command("UNLISTEN", ChannelOf[r]) /\ call' = [op |-> "drain", channel |-> 0]
       ELSE UNCHANGED <<listening, pending, call>>
    /\ UNCHANGED <<handlers, trans, queue, sent, inside>>

FinishDrain ==
    /\ call.op = "drain"
    /\ \E d \in Drains : Take(d)
    /\ call' = Idle
    /\ UNCHANGED <<handlers, receivers, trans, listening, pending, sent>>

-----------------------------------------------------------------------------
(* The program's transactions.  BEGIN looks for notifications too.         *)

Begin(kind) ==
    /\ call = Idle /\ trans = "none"
    /\ trans' = kind
    /\ call' = IF kind = "nontransaction" THEN Idle ELSE [op |-> "drain", channel |-> 0]
    /\ UNCHANGED <<handlers, receivers, listening, pending, queue, sent, inside>>

\* The end of a transaction that leaves it registered.
Ended_Registered == IF trans = "nontransaction" THEN trans ELSE "none"

Ended == "none"

End ==
    /\ call = Idle /\ trans # "none"
    /\ \E kept \in BOOLEAN : listening' = IF kept THEN Applied ELSE listening
    /\ trans' = Ended
    /\ pending' = <<>>
    /\ UNCHANGED <<handlers, receivers, queue, call, sent, inside>>

Finish == FinishListen \/ FinishUnlisten \/ FinishDrain

Next ==
    \/ \E c \in Channels : Notify(c)
    \/ \E c \in HandlerChannels : Listen(c) \/ Unlisten(c)
    \/ \E r \in Receivers : AddReceiver(r) \/ RemoveReceiver(r)
    \/ \E kind \in Kinds : Begin(kind)
    \/ End
    \/ Finish
    \/ GetNotifs

Poll == trans = "none" /\ GetNotifs

\* Calls end, the program ends its transactions and, as the documentation
\* asks, calls get_notifs() again and again outside of them.
Spec ==
    /\ Init /\ [][Next]_vars
    /\ WF_vars(Finish) /\ WF_vars(End) /\ SF_vars(Poll)

\* A program that polls, also from inside a nontransaction it may never end.
SpecPolling ==
    /\ Init /\ [][Next]_vars
    /\ WF_vars(Finish) /\ SF_vars(GetNotifs)

-----------------------------------------------------------------------------
(* Properties.                                                             *)

Subscribed == handlers \cup {ChannelOf[r] : r \in receivers}

\* Each handler "corresponds to a LISTEN we have executed", and each receiver
\* as well: between calls, no subscriber waits on a channel that the server
\* does not send.
SubscribersListen == call = Idle /\ trans = "none" => Subscribed \subseteq listening

\* "Notifications never arrive inside a transaction": nobody's handler runs,
\* or throws, in the middle of another piece of code's block.
NotInTransaction == ~inside

AllTaken == queue = <<>>

\* Every notification is taken from the queue in the end, whichever handlers
\* throw and whatever transactions are in the way.
NotificationsTaken == []<>AllTaken

\* Cancelling a subscription, even one that never was, touches no other
\* channel.
CancelsOnlyThat ==
    [][\A c \in Channels : FinishUnlisten /\ call.channel = c =>
          handlers \ {c} \subseteq handlers']_vars
=============================================================================
