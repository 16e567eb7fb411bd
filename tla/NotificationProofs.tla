------------------------- MODULE NotificationProofs -------------------------
(***************************************************************************)
(* Notifications, for any channels, receivers and number of notifications, *)
(* in programs whose handlers do not throw, whose handlers and receivers   *)
(* keep to channels of their own, and whose receivers stay out of blocks.  *)
(* Between the commands every subscriber's channel is one the session      *)
(* listens to; a call that cancels a handler is the one exception, and     *)
(* only for its own channel (Listening).                                   *)
(***************************************************************************)
EXTENDS Notification, TLAPS

Ruled ==
  /\ Careful = TRUE /\ Throws = FALSE /\ "robust" \notin Kinds
  /\ \A r \in Receivers : ChannelOf[r] \notin HandlerChannels
  /\ Receivers = {} \/ "work" \notin Kinds

Types ==
  /\ handlers \subseteq HandlerChannels /\ receivers \subseteq Receivers
  /\ listening \subseteq Channels
  /\ trans \in Kinds \cup {"none"}
  /\ call \in [op : {"none", "listen", "unlisten", "drain"}, channel : Nat]

\* No command waits for the end of a block.
NonePending == pending = <<>>

Listening ==
  /\ \A r \in receivers : ChannelOf[r] \in listening
  /\ \A h \in handlers : h \in listening \/ (call.op = "unlisten" /\ call.channel = h)
  /\ call.op = "listen" => call.channel \in listening \cap HandlerChannels
  /\ call.op = "unlisten" => call.channel \in handlers

Heard == Types /\ NonePending /\ Listening /\ NotInTransaction

-----------------------------------------------------------------------------
\* LISTEN and UNLISTEN outside of a block.
LEMMA CommandIs ==
  ASSUME NEW c, NEW op \in {"LISTEN", "UNLISTEN"}, ~Block, Command(op, c)
  PROVE  /\ pending' = pending
         /\ op = "LISTEN" => listening' = listening \cup {c}
         /\ op = "UNLISTEN" => listening' = listening \ {c}
  BY DEF Command, Apply

\* A block is a registered transaction, and a drain there takes nothing.
LEMMA TakeQuiet ==
  ASSUME NotificationAssumption, Ruled, Types, NotInTransaction, NEW d \in Drains, Take(d)
  PROVE  NotInTransaction' /\ ~d.threw
<1>1. Block => Registered
  BY DEF Block, Registered, Types, Ruled
<1>2. CASE Registered
  <2>1. d = [taken |-> 0, threw |-> FALSE]
    BY <1>2 DEF Drains
  <2>2. 1 .. 0 = {}
    OBVIOUS
  <2>3. Called(d) = {}
    BY <2>1, <2>2 DEF Called
  <2> QED
    BY <2>1, <2>3 DEF Take, NotInTransaction
<1>3. CASE ~Registered
  <2>1. d \in {AllDrained} \cup Thrown
    BY <1>3 DEF Drains
  <2>2. Thrown = {}
    BY DEF Thrown, Ruled
  <2> QED
    <3>1. ~d.threw
      BY <2>1, <2>2 DEF AllDrained
    <3>2. ~Block /\ ~inside
      BY <1>1, <1>3 DEF NotInTransaction
    <3>3. inside' = (inside \/ (Block /\ Called(d) # {}))
      BY DEF Take
    <3>4. ~inside'
      BY <3>2, <3>3, Zenon
    <3> QED
      BY <3>1, <3>4 DEF NotInTransaction
<1> QED
  BY <1>2, <1>3

\* The handler that an empty one removes is the one of its channel.
LEMMA PositionIs ==
  ASSUME NotificationAssumption, Types, NEW c \in handlers
  PROVE  Min(Position(c)) = c
<1>1. \A h \in handlers : h \in Nat
  BY DEF NotificationAssumption, Types
<1>2. c \in Position(c) /\ \A h \in Position(c) : h \in Nat /\ c <= h
  BY <1>1 DEF Position
<1>3. \A x \in Position(c) : (\A y \in Position(c) : x =< y) => x = c
  BY <1>1, <1>2
<1> QED
  BY <1>2, <1>3 DEF Min

LEMMA HeardStep ==
  ASSUME NotificationAssumption, Ruled, Heard, [Next]_vars
  PROVE  Heard'
<1> USE DEF Heard
<1>0. ~Registered => ~Block
  BY DEF Registered, Block, Types, Ruled
<1>1. ASSUME NEW c \in Channels, Notify(c) PROVE Heard'
  BY <1>1 DEF Notify, Types, NonePending, Listening, NotInTransaction
<1>2. ASSUME NEW c \in HandlerChannels, Listen(c) PROVE Heard'
  <2>1. pending' = pending /\ listening' = listening \cup {c}
    BY <1>0, <1>2, CommandIs DEF Listen
  <2>2. c \in Channels /\ c \in Nat
    BY DEF NotificationAssumption
  <2>3. /\ call.op = "none" /\ call'.op = "listen" /\ call'.channel = c
        /\ call' \in [op : {"none", "listen", "unlisten", "drain"}, channel : Nat]
    BY <1>2, <2>2 DEF Listen, Idle
  <2>4. UNCHANGED <<handlers, receivers, trans, inside>>
    BY <1>2 DEF Listen
  <2> QED
    BY <2>1, <2>2, <2>3, <2>4 DEF Types, NonePending, Listening, NotInTransaction
<1>3. ASSUME NEW c \in HandlerChannels, Unlisten(c) PROVE Heard'
  <2>1. pending' = pending /\ listening' = listening \ {c}
    BY <1>0, <1>3, CommandIs DEF Unlisten
  <2>2. c \in Channels /\ c \in Nat /\ \A r \in Receivers : ChannelOf[r] # c
    BY DEF NotificationAssumption, Ruled
  <2>3. /\ call.op = "none" /\ call'.op = "unlisten" /\ call'.channel = c
        /\ call' \in [op : {"none", "listen", "unlisten", "drain"}, channel : Nat]
        /\ c \in handlers
    BY <1>3, <2>2 DEF Unlisten, Idle, Ruled
  <2>4. UNCHANGED <<handlers, receivers, trans, inside>>
    BY <1>3 DEF Unlisten
  <2> QED
    BY <2>1, <2>2, <2>3, <2>4 DEF Types, NonePending, Listening, NotInTransaction
<1>4. ASSUME NEW r \in Receivers, AddReceiver(r) PROVE Heard'
  <2>1. ~Block
    BY <1>4 DEF Ruled, Types, Block
  <2>2. ChannelOf[r] \in Channels
    BY DEF NotificationAssumption
  <2>3. pending' = pending /\ listening' = listening \cup {ChannelOf[r]}
    <3>1. CASE Others(r) = {}
      BY <1>4, <2>1, <3>1, CommandIs DEF AddReceiver
    <3>2. CASE Others(r) # {}
      <4>1. ChannelOf[r] \in listening
        BY <3>2 DEF Others, Listening
      <4> QED
        BY <1>4, <3>2, <4>1 DEF AddReceiver
    <3> QED
      BY <3>1, <3>2
  <2>4. receivers' = receivers \cup {r} /\ UNCHANGED <<handlers, trans, call, inside>>
    BY <1>4 DEF AddReceiver
  <2> QED
    BY <2>2, <2>3, <2>4 DEF Types, NonePending, Listening, NotInTransaction
<1>5. ASSUME NEW r \in Receivers, RemoveReceiver(r) PROVE Heard'
  <2>1. ~Block
    BY <1>5 DEF Ruled, Types, Block
  <2>2. /\ receivers' = receivers \ {r} /\ call.op = "none"
        /\ UNCHANGED <<handlers, trans, inside>>
    BY <1>5 DEF RemoveReceiver, Idle
  <2>3. CASE Others(r) = {}
    <3>1. pending' = pending /\ listening' = listening \ {ChannelOf[r]}
      BY <1>5, <2>1, <2>3, CommandIs DEF RemoveReceiver, UnlistenNeeded
    <3>2. \A q \in receivers' : ChannelOf[q] # ChannelOf[r]
      BY <2>2, <2>3 DEF Others
    <3>3. \A h \in handlers : h # ChannelOf[r]
      BY DEF Ruled, Types
    <3>4. call' = [op |-> "drain", channel |-> 0]
      BY <1>5, <2>3 DEF RemoveReceiver, UnlistenNeeded
    <3> QED
      BY <2>2, <3>1, <3>2, <3>3, <3>4 DEF Types, NonePending, Listening, NotInTransaction
  <2>4. CASE Others(r) # {}
    <3>1. UNCHANGED <<listening, pending, call>>
      BY <1>5, <2>4 DEF RemoveReceiver, UnlistenNeeded
    <3> QED
      BY <2>2, <3>1 DEF Types, NonePending, Listening, NotInTransaction
  <2> QED
    BY <2>3, <2>4
<1>6. ASSUME NEW kind \in Kinds, Begin(kind) PROVE Heard'
  <2>1. /\ call.op = "none" /\ call'.op \in {"none", "drain"} /\ trans' = kind
        /\ call' \in [op : {"none", "listen", "unlisten", "drain"}, channel : Nat]
    BY <1>6 DEF Begin, Idle
  <2>2. UNCHANGED <<handlers, receivers, listening, pending, inside>>
    BY <1>6 DEF Begin
  <2> QED
    BY <2>1, <2>2 DEF Types, NonePending, Listening, NotInTransaction
<1>7. ASSUME End PROVE Heard'
  <2>1. Applied = listening
    <3>1. DOMAIN pending = {}
      BY DEF NonePending
    <3>2. Applied = {c \in Channels : c \in listening}
      BY <3>1 DEF Applied
    <3> QED
      BY <3>2 DEF Types
  <2>2. listening' = listening /\ pending' = <<>> /\ trans' = "none"
    BY <1>7, <2>1 DEF End, Ended
  <2>3. UNCHANGED <<handlers, receivers, call, inside>>
    BY <1>7 DEF End
  <2> QED
    BY <2>2, <2>3 DEF Types, NonePending, Listening, NotInTransaction
<1>8. ASSUME FinishListen PROVE Heard'
  <2>1. PICK d \in Drains : Take(d) /\ handlers' = Installed(d)
    BY <1>8 DEF FinishListen
  <2>2. NotInTransaction' /\ ~d.threw
    BY <2>1, TakeQuiet
  <2>3. handlers' = handlers \cup {call.channel} /\ call.op = "listen"
    BY <1>8, <2>1, <2>2 DEF Installed, FinishListen
  <2>4. call' = Idle /\ UNCHANGED <<receivers, trans, listening, pending>>
    BY <1>8 DEF FinishListen
  <2> QED
    BY <2>2, <2>3, <2>4 DEF Types, NonePending, Listening, Idle
<1>9. ASSUME FinishUnlisten PROVE Heard'
  <2>1. PICK d \in Drains :
          /\ Take(d)
          /\ handlers' = IF d.threw THEN handlers ELSE handlers \ {Min(Position(call.channel))}
    BY <1>9 DEF FinishUnlisten
  <2>2. NotInTransaction' /\ ~d.threw
    BY <2>1, TakeQuiet
  <2>3. call.op = "unlisten" /\ call.channel \in handlers
    BY <1>9 DEF FinishUnlisten, Listening
  <2>4. handlers' = handlers \ {call.channel}
    BY <2>1, <2>2, <2>3, PositionIs
  <2>5. call' = Idle /\ UNCHANGED <<receivers, trans, listening, pending>>
    BY <1>9 DEF FinishUnlisten
  <2> QED
    BY <2>2, <2>3, <2>4, <2>5 DEF Types, NonePending, Listening, Idle
<1>10. ASSUME FinishDrain \/ GetNotifs PROVE Heard'
  <2>1. /\ \E d \in Drains : Take(d)
        /\ call.op \in {"none", "drain"} /\ call' \in {call, Idle}
        /\ UNCHANGED <<handlers, receivers, trans, listening, pending>>
    BY <1>10 DEF FinishDrain, GetNotifs, Idle
  <2>2. NotInTransaction'
    BY <2>1, TakeQuiet
  <2> QED
    BY <2>1, <2>2 DEF Types, NonePending, Listening, Idle
<1>11. CASE UNCHANGED vars
  BY <1>11 DEF vars, Types, NonePending, Listening, NotInTransaction
<1> QED
  BY <1>1, <1>2, <1>3, <1>4, <1>5, <1>6, <1>7, <1>8, <1>9, <1>10, <1>11 DEF Next, Finish

(***************************************************************************)
(* Between calls, no handler or receiver waits on a channel that the       *)
(* server does not send, and none is ever called in the middle of a block, *)
(* whenever the notifications come.                                        *)
(***************************************************************************)
THEOREM NotificationSubscribersListen ==
  ASSUME NotificationAssumption, Ruled
  PROVE  Spec => [](SubscribersListen /\ NotInTransaction)
<1>1. Init => Heard
  BY DEF Init, Heard, Types, NonePending, Listening, NotInTransaction, Idle
<1>2. Heard /\ [Next]_vars => Heard'
  BY HeardStep
<1>3. Heard => SubscribersListen /\ NotInTransaction
  BY DEF Heard, Listening, SubscribersListen, Subscribed, Idle
<1> QED
  BY <1>1, <1>2, <1>3, PTL DEF Spec
=============================================================================
