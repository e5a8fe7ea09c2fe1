--------------------------- MODULE JobConsumerProofs ---------------------------
(***************************************************************************)
(* The job consumer, for any number of messages, disruptions and failing   *)
(* handlers: its recovery, its deliveries, and the promise of module       *)
(* Delivery.                                                               *)
(***************************************************************************)
EXTENDS JobConsumer, TLAPS
-----------------------------------------------------------------------------
(***************************************************************************)
(* The recovery.                                                           *)
(***************************************************************************)

Owns == [connection : Ids, owned : BOOLEAN, channel : Ids, version : Nat,
         cancelled : BOOLEAN]

\* The types of what the recovery reads.
RecoveryTypes ==
  /\ connection \in Ids
  /\ channel \in Ids
  /\ subscription \in Subscriptions
  /\ subscriptionVersion \in Nat
  /\ opened \in Nat
  /\ own \in Owns

\* The consumer's channel is one of its connection.
OneConnection ==
  /\ connection = ConnectionOf(connection)
  /\ channel # None => connection = ConnectionOf(channel)

OnChannel == {"checking", "rechecking", "prefetching", "consuming"}

\* A recovery works on its own connection and channel, and nobody installs
\* another channel while it runs.
RecoveryOwns ==
  /\ step # "idle" => own.connection = ConnectionOf(own.connection)
  /\ step \in OnChannel =>
       /\ own.channel # None
       /\ own.connection = ConnectionOf(own.channel)
       /\ channel \in {None, own.channel}
  /\ step \notin OnChannel \cup {"idle"} => channel = None

\* Only a call that is awaited has a reply.
RepliesAwaited ==
  /\ None \notin open
  /\ reply # "none" => step \in OnChannel \cup {"creating"}

\* stop() has settled the activation.
StopSettled ==
  /\ closed => activation # "pending"
  /\ stopping # "no" => closed

RecoveryInv ==
  /\ RecoveryTypes /\ OneConnection /\ RecoveryOwns
  /\ RepliesAwaited /\ StopSettled /\ RecoveryIsOwed

-----------------------------------------------------------------------------
\* What a recovery does to its local variables.
LEMMA OwnUpdates ==
  ASSUME NEW o \in Owns
  PROVE  /\ o.connection \in Ids /\ o.channel \in Ids /\ o.version \in Nat
         /\ \A k \in Ids : [o EXCEPT !.connection = k, !.owned = TRUE] \in Owns
         /\ \A c \in Ids : [o EXCEPT !.channel = c] \in Owns
         /\ [o EXCEPT !.cancelled = TRUE] \in Owns
         /\ \A v \in Nat :
              [connection |-> o.connection, owned |-> o.owned, channel |-> o.channel,
               version |-> v, cancelled |-> FALSE] \in Owns
BY DEF Owns

LEMMA NoOwnType == NoOwn \in Owns /\ None \in Ids
BY DEF NoOwn, Owns, None, Ids

\* Steps that have nothing to do with the recovery.
LEMMA Unrelated ==
  ASSUME RecoveryInv, UNCHANGED <<clientVars, step, own, subscriptionVersion, stopVars,
                              opened>>,
         open' \subseteq open, reply' # reply => step \in OnChannel
  PROVE  RecoveryInv' /\ subscription' = subscription
BY DEF RecoveryInv, RecoveryTypes, OneConnection, RecoveryOwns, RepliesAwaited,
   StopSettled, RecoveryIsOwed, Available, OnChannel, clientVars, stopVars, None,
   ConnectionOf

\* The first lines of recover() leave an attempt behind when one is needed.
LEMMA StartRecoveryEffect ==
  ASSUME RecoveryInv, NEW begun, StartRecovery(begun),
         UNCHANGED <<connection, channel, open>>
  PROVE  /\ RecoveryOwns' /\ RepliesAwaited'
         /\ step = "idle" /\ ~closed /\ ~Available(begun) => step' # "idle"
         /\ step # "idle" => step' # "idle"
         /\ own' \in Owns
         /\ subscriptionVersion' \in Nat
<1> USE DEF RecoveryInv, RecoveryTypes, OneConnection, RecoveryOwns, OnChannel,
        RepliesAwaited, ConnectionOf, None
<1>1. CASE step # "idle" \/ closed \/ Available(begun)
  BY <1>1 DEF StartRecovery, recoverVars
<1>2. CASE ~(step # "idle" \/ closed \/ Available(begun)) /\ channel # None
  <2>1. Subscribe(connection, FALSE, channel) /\ reply' = "none"
    BY <1>2 DEF StartRecovery
  <2>2. own' \in Owns /\ subscriptionVersion' \in Nat
    BY <2>1 DEF Subscribe, Owns
  <2> QED
    BY <1>2, <2>1, <2>2 DEF Subscribe
<1>3. CASE ~(step # "idle" \/ closed \/ Available(begun)) /\ channel = None
  BY <1>3 DEF StartRecovery, NoOwn, Ids, Owns
<1> QED
  BY <1>1, <1>2, <1>3

\* The end of an attempt.
LEMMA SettleEffect ==
  ASSUME RecoveryInv, Settle, UNCHANGED <<stopVars, opened>>, open' \subseteq open,
         UNCHANGED connection, channel' = channel, subscription' = subscription,
         activation' = activation \/ activation' = "rejected"
  PROVE  RecoveryInv'
BY DEF RecoveryInv, RecoveryTypes, OneConnection, RecoveryOwns, RepliesAwaited,
   StopSettled, stopVars, RecoveryIsOwed, Available, Settle, NoOwn, None, Ids, Owns, ConnectionOf, OnChannel

LEMMA GiveUpChannelEffect ==
  ASSUME RecoveryInv, GiveUpChannel, step # "idle", UNCHANGED <<stopVars, opened>>,
         open' \subseteq open
  PROVE  RecoveryInv' /\ subscription' = subscription
<1> USE DEF RecoveryInv, GiveUpChannel, GoTo, FailActivation, stopVars
<1>1. RecoveryTypes' /\ RepliesAwaited' /\ StopSettled' /\ RecoveryIsOwed'
  BY DEF RecoveryTypes, RepliesAwaited, StopSettled, RecoveryIsOwed, None, Ids
<1>2. OneConnection' /\ RecoveryOwns'
  BY DEF OneConnection, RecoveryOwns, OnChannel
<1> QED
  BY <1>1, <1>2

LEMMA GiveUpEffect ==
  ASSUME RecoveryInv, GiveUp, step \notin OnChannel \cup {"idle"},
         UNCHANGED <<stopVars, opened>>,
         open' \subseteq open
  PROVE  RecoveryInv' /\ subscription' = subscription
<1>1. CASE own.owned
  <2> USE <1>1 DEF RecoveryInv, GiveUp, GoTo, FailActivation, stopVars
  <2>1. RecoveryTypes' /\ RepliesAwaited' /\ StopSettled' /\ RecoveryIsOwed'
    BY DEF RecoveryTypes, RepliesAwaited, StopSettled, RecoveryIsOwed, None, Ids
  <2>2. OneConnection' /\ RecoveryOwns'
    BY DEF OneConnection, RecoveryOwns, OnChannel, None, ConnectionOf
  <2> QED
    BY <2>1, <2>2
<1>2. CASE ~own.owned
  BY <1>2, SettleEffect DEF GiveUp, FailActivation
<1> QED
  BY <1>1, <1>2

\* What the property asks of a step.
Accepting ==
  subscription' \notin {subscription, NoSubscription} =>
    /\ channel' = subscription'.channel
    /\ connection' = ConnectionOf(channel')
    /\ subscription'.version = subscriptionVersion'
    /\ activation' # "pending"

\* The subscription is accepted behind the last await.
LEMMA ActivateEffect ==
  ASSUME RecoveryInv, Activate, step = "consuming", ~Withdrawn,
         connection = own.connection, channel = own.channel,
         UNCHANGED <<stopVars, opened>>,
         open' \subseteq open
  PROVE  RecoveryInv' /\ Accepting
<1> USE DEF RecoveryInv, Activate
<1>1. RecoveryTypes' /\ RepliesAwaited' /\ StopSettled'
  BY DEF RecoveryTypes, RepliesAwaited, StopSettled, stopVars, NoOwn, None, Ids,
     Owns, Subscriptions
<1>2. OneConnection' /\ RecoveryOwns'
  BY DEF OneConnection, RecoveryOwns, OnChannel
<1>3. channel' # None /\ subscription'.channel = channel'
  BY DEF RecoveryOwns, OnChannel
<1>4. RecoveryIsOwed'
  BY <1>3 DEF RecoveryIsOwed, Available, NoSubscription
<1>5. Accepting
  BY DEF Accepting, RecoveryOwns, OnChannel, Withdrawn, StopSettled, stopVars,
     RecoveryTypes
<1> QED
  BY <1>1, <1>2, <1>4, <1>5

-----------------------------------------------------------------------------
LEMMA Steps ==
  ASSUME RecoveryInv, [Next]_vars
  PROVE  RecoveryInv' /\ Accepting
<1>1. CASE UNCHANGED vars
  BY <1>1, Unrelated DEF vars, recoverVars, stopVars, netVars, Accepting
<1>2. CASE StartConsumer
  <2>1. StartRecovery(TRUE) /\ UNCHANGED <<connection, channel, subscription, opened, open>>
    BY <1>2 DEF StartConsumer, netVars
  <2>2. /\ RecoveryOwns' /\ RepliesAwaited'
        /\ step = "idle" /\ ~closed /\ ~Available(TRUE) => step' # "idle"
        /\ step # "idle" => step' # "idle"
        /\ own' \in Owns
        /\ subscriptionVersion' \in Nat
    BY <2>1, StartRecoveryEffect
  <2>3. RecoveryTypes' /\ OneConnection'
    BY <2>1, <2>2 DEF RecoveryInv, RecoveryTypes, OneConnection, ConnectionOf, None
  <2>4. StopSettled'
    BY <1>2 DEF StartConsumer, RecoveryInv, StopSettled
  <2>5. RecoveryIsOwed' /\ Accepting
    BY <1>2, <2>1, <2>2 DEF StartConsumer, RecoveryInv, RecoveryIsOwed, Available,
       Accepting
  <2>6. RecoveryOwns' /\ RepliesAwaited'
    BY <2>2
  <2> QED
    BY <2>3, <2>4, <2>5, <2>6 DEF RecoveryInv
<1>3. CASE TimerFires
  <2>1. StartRecovery(started) /\ UNCHANGED <<connection, channel, subscription, opened, open>>
    BY <1>3 DEF TimerFires, netVars
  <2>2. /\ RecoveryOwns' /\ RepliesAwaited'
        /\ step = "idle" /\ ~closed /\ ~Available(started) => step' # "idle"
        /\ step # "idle" => step' # "idle"
        /\ own' \in Owns
        /\ subscriptionVersion' \in Nat
    BY <2>1, StartRecoveryEffect
  <2>3. RecoveryTypes' /\ OneConnection'
    BY <2>1, <2>2 DEF RecoveryInv, RecoveryTypes, OneConnection, ConnectionOf, None
  <2>4. StopSettled'
    BY <1>3 DEF TimerFires, stopVars, RecoveryInv, StopSettled
  <2>5. RecoveryIsOwed' /\ Accepting
    BY <1>3, <2>1, <2>2 DEF TimerFires, stopVars, RecoveryInv, RecoveryIsOwed,
       Available,
       Accepting
  <2>6. RecoveryOwns' /\ RepliesAwaited'
    BY <2>2
  <2> QED
    BY <2>3, <2>4, <2>5, <2>6 DEF RecoveryInv
<1>4. CASE Connect
  <2> USE <1>4 DEF Connect, GoTo, RecoveryInv
  <2>1. channel = None /\ UNCHANGED <<channel, subscription, activation, started, closed>>
    BY DEF RecoveryOwns, OnChannel, stopVars
  <2>2. RecoveryTypes' /\ RepliesAwaited' /\ StopSettled' /\ RecoveryIsOwed' /\ Accepting
    <3>1. RecoveryTypes'
      <4>1. <<opened + 1, 0>> \in Ids /\ opened + 1 \in Nat
        BY DEF RecoveryTypes, Ids
      <4>2. own' \in Owns
        BY <4>1, OwnUpdates DEF RecoveryTypes
      <4> QED
        BY <2>1, <4>1, <4>2, NoOwnType DEF RecoveryTypes
    <3>2. RepliesAwaited'
      BY <2>1 DEF RepliesAwaited, RecoveryTypes, OnChannel, None
    <3>3. StopSettled'
      BY <2>1 DEF StopSettled, stopVars
    <3>4. RecoveryIsOwed' /\ Accepting
      BY <2>1 DEF RecoveryIsOwed, Available, Accepting, stopVars
    <3> QED
      BY <3>1, <3>2, <3>3, <3>4
  <2>3. OneConnection' /\ RecoveryOwns'
    BY <2>1 DEF RecoveryTypes, OneConnection, RecoveryOwns, OnChannel, None,
       ConnectionOf
  <2> QED
    BY <2>2, <2>3
<1>5. CASE ConnectFails
  BY <1>5, GiveUpEffect DEF ConnectFails, OnChannel, stopVars, netVars, Accepting
<1>6. CASE CreateChannel
  <2> USE <1>6 DEF CreateChannel, GoTo, FailActivation, RecoveryInv
  <2>1. channel = None /\ UNCHANGED <<connection, subscription, started, closed>>
    BY DEF RecoveryOwns, OnChannel, stopVars
  <2>2. RecoveryTypes' /\ RepliesAwaited' /\ StopSettled' /\ RecoveryIsOwed' /\ Accepting
    <3>1. RecoveryTypes'
      <4>1. <<own.connection[1], opened + 1>> \in Ids /\ opened + 1 \in Nat
        BY DEF RecoveryTypes, Owns, Ids
      <4>2. own' \in Owns
        BY <4>1, OwnUpdates DEF RecoveryTypes
      <4> QED
        BY <2>1, <4>1, <4>2 DEF RecoveryTypes
    <3>2. RepliesAwaited'
      BY <2>1 DEF RepliesAwaited, RecoveryTypes, OnChannel, None
    <3>3. StopSettled'
      BY <2>1 DEF StopSettled, stopVars
    <3>4. RecoveryIsOwed' /\ Accepting
      BY <2>1 DEF RecoveryIsOwed, Available, Accepting, stopVars
    <3> QED
      BY <3>1, <3>2, <3>3, <3>4
  <2>3. OneConnection' /\ RecoveryOwns'
    BY <2>1 DEF RecoveryTypes, OneConnection, RecoveryOwns, OnChannel, None,
       ConnectionOf, Ids
  <2> QED
    BY <2>2, <2>3
<1>7. CASE Answer
  BY <1>7, Unrelated DEF Answer, OnChannel, netVars, Accepting
<1>8. CASE Checked
  <2>1. step = "checking" /\ UNCHANGED <<stopVars, opened, open>>
    BY <1>8 DEF Checked, netVars
  <2>2. CASE Interrupted
    BY <1>8, <2>1, <2>2, GiveUpChannelEffect DEF Checked, Accepting
  <2>3. CASE ~Interrupted /\ started
    <3> USE <1>8, <2>1, <2>3 DEF Checked, Subscribe, clientVars, RecoveryInv
    <3>1. RecoveryTypes' /\ RepliesAwaited' /\ StopSettled' /\ RecoveryIsOwed' /\ Accepting
      <4>1. RecoveryTypes'
        <5>1. subscriptionVersion + 1 \in Nat
          BY DEF RecoveryTypes
        <5>2. own' \in Owns
          BY <5>1, OwnUpdates DEF RecoveryTypes
        <5> QED
          BY <5>1, <5>2 DEF RecoveryTypes
      <4>2. RepliesAwaited'
        BY DEF RepliesAwaited, RecoveryTypes, OnChannel, None
      <4>3. StopSettled'
        BY DEF StopSettled, stopVars
      <4>4. RecoveryIsOwed' /\ Accepting
        BY DEF RecoveryIsOwed, Available, Accepting, stopVars
      <4> QED
        BY <4>1, <4>2, <4>3, <4>4
    <3>2. OneConnection' /\ RecoveryOwns'
      BY DEF OneConnection, RecoveryOwns, OnChannel, None, ConnectionOf
    <3> QED
      BY <3>1, <3>2
  <2>4. CASE ~Interrupted /\ ~started
    BY <1>8, <2>1, <2>4, SettleEffect DEF Checked, Accepting
  <2> QED
    BY <2>2, <2>3, <2>4
<1>9. CASE GoOn
  <2>1. step \in OnChannel /\ UNCHANGED <<stopVars, opened, open>>
    BY <1>9 DEF GoOn, OnChannel, stopVars, netVars
  <2>2. CASE Interrupted
    BY <1>9, <2>1, <2>2, GiveUpChannelEffect DEF GoOn, OnChannel, Accepting
  <2>3. CASE ~Interrupted
    BY <1>9, <2>1, <2>3 DEF GoOn, GoTo, clientVars, RecoveryInv, RecoveryTypes,
       OneConnection, RecoveryOwns, OnChannel, RepliesAwaited, StopSettled,
       stopVars, RecoveryIsOwed, Available, Accepting, None, ConnectionOf
  <2> QED
    BY <2>2, <2>3
<1>10. CASE Subscribed
  <2>1. step = "consuming" /\ UNCHANGED <<stopVars, opened, open>>
    BY <1>10 DEF Subscribed, stopVars, netVars
  <2>2. CASE Withdrawn
    BY <1>10, <2>1, <2>2, GiveUpChannelEffect DEF Subscribed, Accepting
  <2>3. CASE ~Withdrawn /\ (connection # own.connection \/ channel # own.channel)
    <3> USE <1>10, <2>1, <2>3 DEF Subscribed, GoTo, FailActivation, RecoveryInv
    <3>1. RecoveryTypes' /\ RepliesAwaited' /\ StopSettled' /\ RecoveryIsOwed' /\ Accepting
      BY DEF RecoveryTypes, RepliesAwaited, OnChannel, StopSettled, stopVars,
         RecoveryIsOwed, Accepting
    <3>2. channel = None
      BY DEF OneConnection, RecoveryOwns, OnChannel
    <3>3. OneConnection' /\ RecoveryOwns'
      BY <3>2 DEF OneConnection, RecoveryOwns, OnChannel, None, ConnectionOf
    <3> QED
      BY <3>1, <3>3
  <2>4. CASE ~Withdrawn /\ connection = own.connection /\ channel = own.channel
    BY <1>10, <2>1, <2>4, ActivateEffect DEF Subscribed
  <2> QED
    BY <2>2, <2>3, <2>4
<1>11. CASE CallFails
  <2>1. UNCHANGED <<stopVars, opened, open>>
    BY <1>11 DEF CallFails, stopVars, netVars
  <2>2. CASE step = "creating"
    BY <1>11, <2>1, <2>2, GiveUpEffect DEF CallFails, OnChannel, Accepting
  <2>3. CASE step # "creating"
    BY <1>11, <2>1, <2>3, GiveUpChannelEffect DEF CallFails, Accepting,
       RecoveryInv, RepliesAwaited, OnChannel
  <2> QED
    BY <2>2, <2>3
<1>12. CASE ChannelClosed
  BY <1>12, GiveUpEffect DEF ChannelClosed, Close, Closed, OnChannel, Accepting
<1>13. CASE ConnectionClosed \/ SubscriptionClosed
  BY <1>13, SettleEffect DEF ConnectionClosed, SubscriptionClosed, Close, Closed,
     Accepting
<1>14. ASSUME NEW x \in open, CloseNoticed(x) PROVE RecoveryInv' /\ Accepting
  <2> USE <1>14 DEF CloseNoticed, FailActivation, ScheduleRecovery, RecoveryInv
  <2>1. UNCHANGED <<started, closed, opened, step, own, subscriptionVersion>>
    BY DEF stopVars
  <2>2. RecoveryTypes' /\ StopSettled' /\ Accepting
    BY <2>1 DEF RecoveryTypes, StopSettled, stopVars, Accepting, None, Ids,
       NoSubscription,
       Subscriptions
  <2>3. OneConnection' /\ RecoveryOwns'
    BY <2>1 DEF OneConnection, RecoveryOwns, OnChannel, None, ConnectionOf
  <2>4. RecoveryIsOwed'
    BY <2>1 DEF RecoveryIsOwed, Available
  <2>5. RepliesAwaited'
    BY <2>1 DEF RepliesAwaited, Closed, Family, Awaited, OnChannel
  <2> QED
    BY <2>2, <2>3, <2>4, <2>5
<1>15. ASSUME NEW c \in notices, CancelNoticed(c) PROVE RecoveryInv' /\ Accepting
  <2> USE <1>15 DEF CancelNoticed, FailActivation, ScheduleRecovery, RecoveryInv
  <2>1. UNCHANGED <<connection, channel, started, closed, opened, step>>
    BY DEF stopVars
  <2>2. RecoveryTypes' /\ RepliesAwaited' /\ StopSettled' /\ RecoveryIsOwed' /\ Accepting
    <3>1. RecoveryTypes'
      <4>1. own' \in Owns
        BY OwnUpdates DEF RecoveryTypes
      <4>2. subscriptionVersion' \in Nat /\ subscription' \in Subscriptions
        BY NoOwnType DEF RecoveryTypes, NoSubscription, Subscriptions
      <4> QED
        BY <2>1, <4>1, <4>2 DEF RecoveryTypes
    <3>2. RepliesAwaited'
      BY <2>1 DEF RepliesAwaited, RecoveryTypes, OnChannel, None
    <3>3. StopSettled'
      BY <2>1 DEF StopSettled, stopVars
    <3>4. RecoveryIsOwed'
      BY <2>1 DEF RecoveryIsOwed, Available
    <3>5. Accepting
      BY <2>1 DEF Accepting
    <3> QED
      BY <3>1, <3>2, <3>3, <3>4, <3>5
  <2>3. OneConnection' /\ RecoveryOwns'
    BY <2>1 DEF RecoveryTypes, OneConnection, RecoveryOwns, OnChannel, None,
       ConnectionOf
  <2> QED
    BY <2>2, <2>3
<1>16. CASE Stop
  BY <1>16 DEF Stop, FailActivation, recoverVars, netVars, RecoveryInv,
     RecoveryTypes, OneConnection, RecoveryOwns, OnChannel, RepliesAwaited,
     StopSettled, RecoveryIsOwed, Accepting, None, ConnectionOf
<1>17. CASE StopCancels
  BY <1>17 DEF StopCancels, recoverVars, netVars, NoSubscription, Subscriptions,
     None, Ids, RecoveryInv, RecoveryTypes, OneConnection, RecoveryOwns, OnChannel,
     RepliesAwaited, StopSettled, RecoveryIsOwed, Available, Accepting, ConnectionOf
<1>18. CASE StopCloses
  <2> USE <1>18 DEF StopCloses, RecoveryInv
  <2>1. RecoveryTypes' /\ RepliesAwaited' /\ StopSettled' /\ RecoveryIsOwed' /\ Accepting
    BY DEF RecoveryTypes, RepliesAwaited, StopSettled, RecoveryIsOwed, Accepting,
       Close, Closed, recoverVars, None, Ids
  <2>2. OneConnection' /\ RecoveryOwns'
    BY DEF OneConnection, RecoveryOwns, OnChannel, None, ConnectionOf, recoverVars
  <2> QED
    BY <2>1, <2>2
<1>19. CASE \/ \E x \in open : Drop(x)
            \/ \E s \in consumers : CancelConsumer(s)
            \/ \E s \in consumers, m \in Messages : Deliver(s, m)
            \/ \E d \in wire : Receive(d)
            \/ HandlerSucceeds \/ HandlerFails
            \/ \E a \in answers : BrokerSettles(a)
  BY <1>19, Unrelated DEF Drop, CancelConsumer, Deliver, Receive, HandlerSucceeds,
     HandlerFails, HandlerEnds, BrokerSettles, recoverVars, stopVars, netVars, Accepting
<1> QED
  BY <1>1, <1>2, <1>3, <1>4, <1>5, <1>6, <1>7, <1>8, <1>9, <1>10, <1>11, <1>12,
     <1>13, <1>14, <1>15, <1>16, <1>17, <1>18, <1>19 DEF Next
-----------------------------------------------------------------------------
LEMMA Initially == Init => RecoveryInv
BY NoOwnType DEF Init, RecoveryInv, RecoveryTypes, OneConnection, RecoveryOwns,
   RepliesAwaited, StopSettled, RecoveryIsOwed, Available, NoSubscription,
   Subscriptions, OnChannel, ConnectionOf, None, Ids

LEMMA Invariance == Spec => []RecoveryInv
<1>1. RecoveryInv /\ [Next]_vars => RecoveryInv'
  BY Steps
<1> QED
  BY Initially, <1>1, PTL DEF Spec

\* Whatever closes, is cancelled or fails at whichever await of a recovery: the
\* consumer is never left without a channel or a wanted subscription and without
\* an attempt to get it.
THEOREM Owed == Spec => []RecoveryIsOwed
<1>1. RecoveryInv => RecoveryIsOwed
  BY DEF RecoveryInv
<1> QED
  BY <1>1, Invariance, PTL

\* No recovery installs a subscription on a channel or connection that was lost
\* or replaced during its last await, or one that was cancelled meanwhile.
THEOREM Accepted == Spec => AcceptedIsCurrent
<1>1. RecoveryInv /\ [Next]_vars =>
        [subscription' \notin {subscription, NoSubscription} =>
           /\ channel' = subscription'.channel
           /\ connection' = ConnectionOf(channel')
           /\ subscription'.version = subscriptionVersion'
           /\ activation' # "pending"]_vars
  BY Steps DEF Accepting
<1> QED
  BY <1>1, Invariance, PTL DEF Spec, AcceptedIsCurrent

-----------------------------------------------------------------------------
(***************************************************************************)
(* The deliveries: none is stranded.                                       *)
(***************************************************************************)

\* The call to consume is answered, and the code behind it has yet to run.
SettingUp == step = "consuming" /\ reply = "ok" /\ own.channel = channel

Closing(c) == step \in {"closingChannel", "withdrawing"} /\ own.channel = c

Typed ==
  /\ tail \in Seq(Deliveries)
  /\ consumers \subseteq Subscriptions
  /\ unacked \subseteq Deliveries
  /\ wire \subseteq Deliveries
  /\ open \subseteq Ids
  /\ lost \subseteq open
  /\ notices \subseteq open

\* The numbers of later connections and channels are not used yet, and a lost
\* connection has lost its channels.
Numbered ==
  /\ \A x \in open : x[1] <= opened /\ x[2] <= opened
  /\ \A x \in open : ConnectionOf(x) \in lost => x \in lost

\* The broker delivers to channels it still has: the consumer's channel, or one
\* that recover() is about to close.
Placed(S) ==
  \A x \in S : x.channel \in open \ lost /\ (x.channel = channel \/ Closing(x.channel))

\* It has one subscription of the consumer's channel, the newest.
Newest ==
  \A s \in consumers : s.channel = channel =>
    /\ s.version = subscriptionVersion
    /\ s = subscription \/ (SettingUp /\ s.version = own.version)

\* A cancel notice means that this subscription is gone, and the consumer still
\* believes in it.
Cancelled ==
  channel \in notices =>
    /\ \A s \in consumers : s.channel # channel
    /\ subscription # NoSubscription \/ SettingUp

\* There is no attempt to replace a subscription the consumer believes in.
OneAtATime ==
  subscription # NoSubscription =>
    step = "idle" /\ channel # None /\ subscription.channel = channel

\* An attempt whose channel was replaced has lost it, and its version is the
\* newest until consume is answered.
Attempt ==
  /\ step \in OnChannel /\ channel # own.channel => own.channel \notin open
  /\ /\ step \in {"rechecking", "prefetching", "consuming"}
     /\ channel = own.channel
     /\ ~SettingUp
     => own.version = subscriptionVersion

\* A delivery is accepted, answered, on its way to the newest subscription, or
\* about to be returned.
Held ==
  \A d \in unacked :
    \/ d \in Range(tail)
    \/ \E a \in answers : a.delivery = d
    \/ Closing(d.channel)
    \/ /\ d \in wire
       /\ d.version = subscriptionVersion
       /\ subscription # NoSubscription \/ SettingUp

DeliveryInv ==
  closed \/
    /\ Typed /\ Numbered /\ Placed(consumers) /\ Placed(unacked)
    /\ Newest /\ Cancelled /\ OneAtATime /\ Attempt /\ Held

Inv == RecoveryInv /\ DeliveryInv

-----------------------------------------------------------------------------
\* Appending to a sequence and taking its head away change its range by one.
LEMMA Ranges ==
  ASSUME NEW S, NEW q \in Seq(S)
  PROVE  /\ \A e \in S : Range(q) \subseteq Range(Append(q, e))
                         /\ e \in Range(Append(q, e))
                         /\ Append(q, e) \in Seq(S)
         /\ q # <<>> => /\ Range(q) \subseteq Range(Tail(q)) \cup {Head(q)}
                        /\ Tail(q) \in Seq(S)
<1>1. ASSUME NEW e \in S
      PROVE  /\ Range(q) \subseteq Range(Append(q, e))
             /\ e \in Range(Append(q, e))
             /\ Append(q, e) \in Seq(S)
  BY SMTT(30) DEF Range
<1>2. ASSUME q # <<>>
      PROVE  /\ Range(q) \subseteq Range(Tail(q)) \cup {Head(q)}
             /\ Tail(q) \in Seq(S)
  <2>1. ASSUME NEW i \in DOMAIN q, i # 1 PROVE q[i] \in Range(Tail(q))
    <3>1. i - 1 \in DOMAIN Tail(q) /\ Tail(q)[i - 1] = q[i]
      BY <1>2, <2>1
    <3> QED
      BY <3>1 DEF Range
  <2> QED
    BY <1>2, <2>1 DEF Range
<1> QED
  BY <1>1, <1>2

\* Without a channel of the consumer nothing is delivered but to the channel
\* that is being closed.
LEMMA Nothing ==
  ASSUME Inv, ~closed, channel = None
  PROVE  \A x \in consumers \cup unacked : Closing(x.channel)
BY DEF Inv, RecoveryInv, RepliesAwaited, DeliveryInv, Placed

LEMMA Initial == Init => DeliveryInv
BY DEF Init, DeliveryInv, Typed, Numbered, Placed, Newest, Cancelled, OneAtATime,
   Attempt, Held, OnChannel, Ids, Deliveries, Subscriptions, ConnectionOf

\* Handlers end and the broker settles.
LEMMA Handled ==
  ASSUME Inv, ~closed, \/ \E d \in wire : Receive(d)
                       \/ HandlerSucceeds \/ HandlerFails
                       \/ \E a \in answers : BrokerSettles(a)
  PROVE  DeliveryInv'
<1> USE DEF Inv, RecoveryInv, DeliveryInv
<1>1. UNCHANGED <<clientVars, recoverVars, stopVars, netVars, consumers>>
      /\ unacked' \subseteq unacked /\ wire' \subseteq wire
  BY DEF Receive, HandlerSucceeds, HandlerFails, HandlerEnds, BrokerSettles
<1>2. /\ Numbered' /\ Placed(consumers)' /\ Placed(unacked)' /\ Newest' /\ Cancelled'
      /\ OneAtATime' /\ Attempt'
  BY <1>1 DEF clientVars, recoverVars, stopVars, netVars, Numbered, Placed, Newest, Cancelled,
     OneAtATime, Attempt, SettingUp, Closing
<1>3. Typed'
  <2>1. tail' \in Seq(Deliveries)
    <3>1. ASSUME NEW d \in wire, Receive(d) PROVE tail' \in Seq(Deliveries)
      BY <3>1, Ranges DEF Receive, Typed
    <3> QED
      BY <3>1, Ranges DEF HandlerSucceeds, HandlerFails, HandlerEnds, BrokerSettles, Typed
  <2> QED
    BY <1>1, <2>1 DEF Typed, netVars
<1>4. ASSUME NEW d \in wire, Receive(d) PROVE Held'
  <2>1. UNCHANGED <<unacked, answers>> /\ d \in Deliveries /\ tail \in Seq(Deliveries)
    BY <1>4 DEF Receive, Typed
  <2>2. Range(tail) \subseteq Range(tail') /\ (Acceptable(d) => d \in Range(tail'))
    BY <1>4, <2>1, Ranges DEF Receive
  <2>3. ASSUME NEW e \in unacked, e # d PROVE e \in wire <=> e \in wire'
    BY <1>4, <2>3 DEF Receive
  <2>4. d \in unacked => Acceptable(d) \/ d.version # subscriptionVersion \/ Closing(d.channel)
    BY DEF Placed, Acceptable
  <2> QED
    BY <1>1, <2>1, <2>2, <2>3, <2>4
    DEF Held, Closing, SettingUp, clientVars, recoverVars
<1>5. ASSUME NEW ok \in BOOLEAN, HandlerEnds(ok) PROVE Held'
  <2>1. UNCHANGED <<unacked, wire>> /\ answers \subseteq answers'
    BY <1>5 DEF HandlerEnds
  <2>2. Range(tail) \subseteq Range(tail') \cup {Head(tail)}
    BY <1>5, Ranges DEF HandlerEnds, Typed
  <2>3. Head(tail) \in unacked =>
          \/ Closing(Head(tail).channel)
          \/ \E a \in answers' : a.delivery = Head(tail)
    <3>1. [delivery |-> Head(tail), ok |-> ok].delivery = Head(tail)
      OBVIOUS
    <3>2. CASE channel = Head(tail).channel /\ channel \notin lost
      BY <1>5, <3>1, <3>2 DEF HandlerEnds
    <3>3. CASE ~(channel = Head(tail).channel /\ channel \notin lost)
      BY <3>3 DEF Placed
    <3> QED
      BY <3>2, <3>3
  <2> QED
    BY <1>1, <2>1, <2>2, <2>3 DEF Held, Closing, SettingUp, clientVars, recoverVars
<1>6. ASSUME NEW a \in answers, BrokerSettles(a) PROVE Held'
  BY <1>1, <1>6 DEF BrokerSettles, Held, Closing, SettingUp, clientVars, recoverVars
<1>7. Held'
  BY <1>4, <1>5, <1>6 DEF HandlerSucceeds, HandlerFails
<1> QED
  BY <1>2, <1>3, <1>7

\* The broker delivers, loses a channel or connection, or cancels.
LEMMA AtBroker ==
  ASSUME Inv, ~closed, \/ \E s \in consumers, m \in Messages : Deliver(s, m)
                       \/ \E x \in open : Drop(x)
                       \/ \E s \in consumers : CancelConsumer(s)
  PROVE  DeliveryInv'
<1> USE DEF Inv, RecoveryInv, DeliveryInv
<1>1. ASSUME NEW s \in consumers, NEW m \in Messages, Deliver(s, m) PROVE DeliveryInv'
  <2> DEFINE d == [channel |-> s.channel, version |-> s.version, message |-> m]
  <2>1. UNCHANGED <<clientVars, recoverVars, stopVars, tail, netVars, consumers, answers>>
    BY <1>1 DEF Deliver
  <2>2. /\ d \in Deliveries /\ d.channel = s.channel /\ d.version = s.version
        /\ unacked' = unacked \cup {d} /\ wire' = wire \cup {d}
    BY <1>1 DEF Deliver, Typed, Subscriptions, Deliveries
  <2> HIDE DEF d
  <2>3. Numbered' /\ Placed(consumers)' /\ Newest' /\ Cancelled' /\ OneAtATime' /\ Attempt'
    BY <2>1 DEF clientVars, recoverVars, stopVars, netVars, Numbered, Placed, Newest, Cancelled,
       OneAtATime, Attempt, SettingUp, Closing
  <2>4. Typed' /\ Placed(unacked)'
    BY <2>1, <2>2 DEF clientVars, recoverVars, netVars, Typed, Placed, Closing
  <2>5. \/ Closing(d.channel)
        \/ d.version = subscriptionVersion /\ (subscription # NoSubscription \/ SettingUp)
    BY <2>2, NoOwnType DEF Placed, Newest, NoSubscription, RepliesAwaited
  <2>6. Held'
    BY <2>1, <2>2, <2>5 DEF Held, Closing, SettingUp, clientVars, recoverVars
  <2> QED
    BY <2>3, <2>4, <2>6
<1>2. ASSUME NEW x \in open, Drop(x) PROVE DeliveryInv'
  <2>1. PICK S \in SUBSET open :
          /\ lost' = lost \cup S /\ Released(S)
          /\ \A y \in open : ConnectionOf(y) \in S => y \in S
    BY <1>2 DEF Drop, Family, ConnectionOf
  <2>2. UNCHANGED <<clientVars, recoverVars, stopVars, tail, opened, open, notices, wire>>
    BY <1>2 DEF Drop
  <2>3. Typed' /\ Numbered'
    BY <2>1, <2>2 DEF Released, Typed, Numbered
  <2>4. Placed(consumers)' /\ Placed(unacked)'
    BY <2>1, <2>2 DEF Released, Placed, Closing, clientVars, recoverVars
  <2>5. Newest' /\ Cancelled' /\ OneAtATime' /\ Attempt'
    BY <2>1, <2>2 DEF Released, Newest, Cancelled, OneAtATime, Attempt, SettingUp,
       clientVars, recoverVars
  <2>6. Held'
    BY <2>1, <2>2 DEF Released, Held, Closing, SettingUp, clientVars, recoverVars
  <2> QED
    BY <2>3, <2>4, <2>5, <2>6
<1>3. ASSUME NEW s \in consumers, CancelConsumer(s) PROVE DeliveryInv'
  <2>1. /\ UNCHANGED <<clientVars, recoverVars, stopVars, tail, opened, open, lost,
                       unacked, wire, answers>>
        /\ consumers' = consumers \ {s}
        /\ notices' = notices \cup {s.channel}
    BY <1>3 DEF CancelConsumer
  <2>2. Typed' /\ Numbered' /\ Placed(consumers)' /\ Placed(unacked)'
    BY <2>1 DEF Typed, Numbered, Placed, Closing, clientVars, recoverVars
  <2>3. Newest' /\ OneAtATime' /\ Attempt' /\ Held'
    BY <2>1 DEF Newest, OneAtATime, Attempt, Held, SettingUp, Closing, clientVars, recoverVars
  <2>4. ASSUME NEW t \in consumers, t.channel = channel, s.channel = channel PROVE t = s
    BY <2>4 DEF Newest, OneAtATime, SettingUp, Typed, Subscriptions
  <2>5. s.channel = channel => subscription # NoSubscription \/ SettingUp
    BY NoOwnType DEF Placed, Newest, NoSubscription, RepliesAwaited
  <2>6. Cancelled'
    BY <2>1, <2>4, <2>5 DEF Cancelled, SettingUp, clientVars, recoverVars
  <2> QED
    BY <2>2, <2>3, <2>6
<1> QED
  BY <1>1, <1>2, <1>3

-----------------------------------------------------------------------------
\* The local variables and the newest version change, but nothing in flight.
Still == UNCHANGED <<tail, netVars, queueVars>>

\* An attempt that begins on the consumer's channel meets no subscription of it
\* and no delivery on its way.
LEMMA SubscribeEffect ==
  ASSUME Inv, ~closed, closed' = closed, NEW k \in Ids, NEW o,
         Subscribe(k, o, channel), reply' = "none", channel # None,
         subscription = NoSubscription, ~SettingUp, ~(step \in {"closingChannel", "withdrawing"}),
         UNCHANGED <<connection, channel, subscription>>, Still
  PROVE  DeliveryInv'
<1> USE DEF Inv, RecoveryInv, DeliveryInv, Subscribe, Still, netVars, queueVars
<1>0. own'.channel = channel /\ own'.version = subscriptionVersion' /\ channel \in Ids
      /\ ~SettingUp' /\ \A c : ~Closing(c) /\ ~Closing(c)'
  BY DEF SettingUp, Closing, RecoveryTypes
<1>1. Typed' /\ Numbered'
  BY DEF Typed, Numbered
<1>2. Placed(consumers)' /\ Placed(unacked)'
  BY <1>0 DEF Placed
<1>3. \A s \in consumers : s.channel # channel
  BY <1>0, NoOwnType DEF Newest, Placed, NoSubscription, RepliesAwaited
<1>4. Newest' /\ Cancelled' /\ OneAtATime' /\ Attempt'
  BY <1>0, <1>3 DEF Newest, Cancelled, OneAtATime, Attempt, OnChannel
<1>5. Held'
  BY <1>0 DEF Held
<1> QED
  BY <1>1, <1>2, <1>4, <1>5

LEMMA Started ==
  ASSUME Inv, ~closed, StartConsumer \/ TimerFires
  PROVE  DeliveryInv'
<1> USE DEF Inv, RecoveryInv, DeliveryInv
<1>1. PICK begun : StartRecovery(begun)
  BY DEF StartConsumer, TimerFires
<1>2. /\ UNCHANGED <<connection, channel, subscription>> /\ closed' = closed /\ Still
  BY DEF StartConsumer, TimerFires, Still, stopVars
<1>3. CASE step # "idle" \/ closed \/ Available(begun)
  BY <1>1, <1>2, <1>3 DEF StartRecovery, recoverVars, Still, netVars, queueVars, Typed, Numbered,
     Placed, Newest, Cancelled, OneAtATime, Attempt, Held, SettingUp, Closing
<1>4. CASE ~(step # "idle" \/ closed \/ Available(begun)) /\ channel # None
  <2>1. Subscribe(connection, FALSE, channel) /\ reply' = "none" /\ subscription = NoSubscription
    BY <1>1, <1>4 DEF StartRecovery, Available
  <2> QED
    BY <1>2, <1>4, <2>1, SubscribeEffect DEF SettingUp, RecoveryTypes
<1>5. CASE ~(step # "idle" \/ closed \/ Available(begun)) /\ channel = None
  <2>1. step' \in {"connecting", "creating"} /\ subscriptionVersion' = subscriptionVersion
    BY <1>1, <1>5 DEF StartRecovery
  <2>2. consumers = {} /\ unacked = {} /\ subscription = NoSubscription
    BY <1>5, Nothing DEF Closing, OneAtATime
  <2> QED
    BY <1>2, <1>5, <2>1, <2>2 DEF Still, netVars, queueVars, Typed, Numbered,
       Placed, Newest, Cancelled, OneAtATime, Attempt, OnChannel, Held, SettingUp, Closing
<1> QED
  BY <1>3, <1>4, <1>5

\* An attempt that has no channel in use leaves nothing to be delivered.
LEMMA Detached ==
  ASSUME Inv, ~closed, closed' = closed, channel = None, channel' = None,
         UNCHANGED <<subscription, tail>>,
         consumers' \subseteq consumers, unacked' \subseteq unacked, wire' \subseteq wire,
         \A x \in consumers' \cup unacked' : Closing(x.channel) => Closing(x.channel)',
         \A x \in consumers' \cup unacked' : x.channel \in open' \ lost',
         Typed', Numbered', None \notin open',
         step' \notin OnChannel
  PROVE  DeliveryInv'
<1> USE DEF Inv, RecoveryInv, DeliveryInv
<1>1. subscription = NoSubscription /\ \A x \in consumers' \cup unacked' : Closing(x.channel)'
  BY Nothing DEF OneAtATime
<1>2. channel' \notin notices'
  BY DEF Typed
<1>3. Placed(consumers)' /\ Placed(unacked)'
  BY <1>1 DEF Placed
<1>4. Newest' /\ Cancelled' /\ OneAtATime' /\ Attempt' /\ Held'
  BY <1>1, <1>2 DEF Newest, Placed, RepliesAwaited, Cancelled, OneAtATime, Attempt, OnChannel, Held
<1> QED
  BY <1>1, <1>3, <1>4

\* What recover() closes takes its deliveries and subscriptions along.
LEMMA CloseEffect ==
  ASSUME Inv, ~closed, NEW S, Close(S), UNCHANGED <<tail, opened>>
  PROVE  /\ Typed' /\ Numbered' /\ None \notin open'
         /\ consumers' \subseteq consumers /\ unacked' \subseteq unacked /\ wire' \subseteq wire
         /\ \A x \in consumers' \cup unacked' : x.channel \notin S /\ x.channel \in open' \ lost'
BY DEF Inv, RecoveryInv, DeliveryInv, RepliesAwaited, Placed, Close, Released, Closed, Typed,
   Numbered, ConnectionOf

\* The channel of the attempt is given up.
LEMMA GivenUp ==
  ASSUME Inv, ~closed, closed' = closed, step \in OnChannel, GiveUpChannel, Still
  PROVE  DeliveryInv'
<1> USE DEF Inv, RecoveryInv, DeliveryInv, GiveUpChannel, GoTo, Still, netVars, queueVars
<1>1. /\ channel' = None /\ channel \in {None, own.channel} /\ None \notin open
      /\ subscription = NoSubscription
  BY DEF RecoveryOwns, RepliesAwaited, OneAtATime, OnChannel
<1>2. \A x \in consumers \cup unacked : Closing(x.channel)'
  BY <1>1 DEF Placed, Closing, OnChannel
<1>3. Typed' /\ Numbered' /\ Placed(consumers)' /\ Placed(unacked)'
  BY <1>2 DEF Typed, Numbered, Placed
<1>4. Newest' /\ Cancelled' /\ OneAtATime' /\ Attempt' /\ Held'
  BY <1>1, <1>2 DEF Newest, Placed, Cancelled, Typed, OneAtATime, Attempt, OnChannel, Held
<1> QED
  BY <1>3, <1>4

\* An attempt gets a connection and a channel.
LEMMA Connecting ==
  ASSUME Inv, ~closed, Connect \/ ConnectFails \/ CreateChannel
  PROVE  DeliveryInv'
<1> USE DEF Inv, RecoveryInv, DeliveryInv
<1>1. /\ channel = None /\ subscription = NoSubscription
      /\ consumers = {} /\ unacked = {} /\ closed' = closed
      /\ UNCHANGED <<subscription, tail, lost, notices, queueVars>>
  BY Nothing DEF Connect, ConnectFails, CreateChannel, RecoveryOwns, OnChannel, Closing, OneAtATime,
     stopVars, GiveUp, Settle, GoTo, netVars
<1>2. CASE Connect
  <2>1. Typed' /\ Numbered' /\ None \notin open'
    BY <1>1, <1>2 DEF Connect, Typed, Numbered, Ids, queueVars, None, RepliesAwaited, RecoveryTypes,
       ConnectionOf
  <2>2. channel' = None /\ step' \notin OnChannel
    BY <1>1, <1>2 DEF Connect, GoTo, OnChannel
  <2> QED
    BY <1>1, <2>1, <2>2, Detached DEF queueVars
<1>3. CASE ConnectFails
  <2>1. Typed' /\ Numbered' /\ None \notin open'
    BY <1>1, <1>3 DEF ConnectFails, netVars, queueVars, Typed, Numbered, RepliesAwaited
  <2>2. channel' = None /\ step' \notin OnChannel
    BY <1>1, <1>3 DEF ConnectFails, GiveUp, GoTo, Settle, OnChannel
  <2> QED
    BY <1>1, <2>1, <2>2, Detached DEF queueVars
<1>4. CASE CreateChannel
  <2> DEFINE c == <<own.connection[1], opened + 1>>
  <2>1. c \in Ids /\ c \notin open /\ c # None /\ own.connection[1] <= opened /\ opened \in Nat
    BY <1>4 DEF CreateChannel, Typed, Numbered, Ids, None, RecoveryTypes
  <2>2. /\ opened' = opened + 1 /\ open' = open \cup {c} /\ own'.channel = c
        /\ \/ channel' = None /\ step' = "closingChannel"
           \/ channel' = c /\ step' = "checking"
    BY <1>1, <1>4 DEF CreateChannel, GoTo, RecoveryTypes, Owns
  <2>3. ConnectionOf(c) = own.connection /\ own.connection \in open \ lost
    BY <1>4 DEF CreateChannel, RecoveryOwns, ConnectionOf
  <2> HIDE DEF c
  <2>4. Typed' /\ Numbered' /\ None \notin open'
    <3>1. Typed' /\ None \notin open'
      BY <1>1, <2>1, <2>2 DEF queueVars, Typed, RepliesAwaited
    <3>2. c[1] = own.connection[1] /\ c[2] = opened + 1
      BY DEF c
    <3>3. \A x \in open : x[1] \in Nat /\ x[2] \in Nat
      BY DEF Typed, Ids
    <3>4. \A x \in open' : x[1] <= opened' /\ x[2] <= opened'
      BY <2>1, <2>2, <2>3, <3>2, <3>3 DEF Numbered
    <3>5. \A x \in open' : ConnectionOf(x) \in lost' => x \in lost'
      BY <1>1, <2>2, <2>3 DEF Numbered
    <3> QED
      BY <3>1, <3>4, <3>5 DEF Numbered
  <2>5. channel' \notin notices'
    BY <1>1, <2>1, <2>2 DEF Typed, RepliesAwaited
  <2>6. /\ Placed(consumers)' /\ Placed(unacked)' /\ Newest' /\ Cancelled'
        /\ OneAtATime' /\ Attempt' /\ Held'
    BY <1>1, <2>2, <2>5 DEF queueVars, Placed, Newest, Cancelled, OneAtATime, Attempt, Held, OnChannel
  <2> QED
    BY <2>4, <2>6
<1> QED
  BY <1>2, <1>3, <1>4

\* The broker answers.
LEMMA Answered ==
  ASSUME Inv, ~closed, Answer
  PROVE  DeliveryInv'
<1> USE DEF Inv, RecoveryInv, DeliveryInv
<1>1. /\ UNCHANGED <<clientVars, step, own, subscriptionVersion, stopVars, tail, netVars,
                     unacked, wire, answers>>
      /\ reply = "none" /\ reply' = "ok" /\ step \in OnChannel
  BY DEF Answer, OnChannel
<1>2. channel = own.channel /\ subscription = NoSubscription /\ ~SettingUp
      /\ own.channel \in open \ lost
  BY <1>1 DEF Answer, Attempt, OneAtATime, OnChannel, SettingUp
<1>3. CASE step # "consuming"
  BY <1>1, <1>3 DEF Answer, clientVars, netVars, stopVars, Typed, Numbered, Placed, Newest,
     Cancelled, OneAtATime, Attempt, Held, SettingUp, Closing
<1>4. CASE step = "consuming"
  <2> DEFINE s == [channel |-> own.channel, version |-> own.version]
  <2>1. s.channel = channel /\ s.version = own.version /\ s \in Subscriptions
        /\ own.version = subscriptionVersion
    BY <1>2, <1>4, OwnUpdates DEF RecoveryTypes, Subscriptions, Attempt
  <2>2. consumers' = consumers \cup {s}
    BY <1>4 DEF Answer
  <2> HIDE DEF s
  <2>3. SettingUp' /\ \A c : Closing(c)' <=> Closing(c)
    BY <1>1, <1>2, <1>4 DEF SettingUp, Closing, clientVars
  <2>4. Typed' /\ Numbered' /\ Placed(consumers)' /\ Placed(unacked)'
    BY <1>1, <1>2, <2>1, <2>2, <2>3 DEF clientVars, netVars, Typed, Numbered, Placed
  <2>5. \A t \in consumers : t.channel # channel
    BY <1>2, NoOwnType DEF Newest, Placed, NoSubscription, RepliesAwaited
  <2>6. channel \notin notices
    BY <1>2 DEF Cancelled
  <2>7. Newest' /\ Cancelled' /\ OneAtATime' /\ Attempt' /\ Held'
    BY <1>1, <1>2, <2>1, <2>2, <2>3, <2>5, <2>6
    DEF clientVars, netVars, Newest, Cancelled, OneAtATime, Attempt, OnChannel, Held
  <2> QED
    BY <2>4, <2>7
<1> QED
  BY <1>3, <1>4

\* The code behind an answer.
LEMMA WentOn ==
  ASSUME Inv, ~closed, Checked \/ GoOn \/ Subscribed \/ CallFails
  PROVE  DeliveryInv'
<1> USE DEF Inv, RecoveryInv, DeliveryInv
<1>1. Still /\ closed' = closed /\ step # "idle" /\ subscription = NoSubscription
  BY DEF Checked, GoOn, Subscribed, CallFails, Still, stopVars, RepliesAwaited, OnChannel, OneAtATime
<1>2. CASE GiveUpChannel /\ step \in OnChannel
  BY <1>1, <1>2, GivenUp
<1>3. CASE CallFails /\ step = "creating"
  <2>1. channel = None /\ consumers = {} /\ unacked = {}
    BY <1>3, Nothing DEF RecoveryOwns, OnChannel, Closing
  <2>2. channel' = None /\ UNCHANGED <<subscription, tail>> /\ step' \notin OnChannel
    BY <1>3, <2>1 DEF CallFails, GiveUp, GoTo, Settle, OnChannel
  <2>3. Typed' /\ Numbered' /\ None \notin open'
    BY <1>1, <1>3 DEF Still, netVars, queueVars, Typed, Numbered, RepliesAwaited
  <2> QED
    BY <1>1, <2>1, <2>2, <2>3, Detached DEF Still, netVars, queueVars
<1>4. CASE Checked /\ ~Interrupted /\ started
  <2>1. /\ Subscribe(own.connection, own.owned, channel) /\ reply' = "none" /\ channel # None
        /\ UNCHANGED <<connection, channel, subscription>> /\ step = "checking"
    BY <1>4 DEF Checked, Interrupted, clientVars, RecoveryOwns, OnChannel
  <2> QED
    BY <1>1, <2>1, OwnUpdates, SubscribeEffect DEF RecoveryTypes, SettingUp
<1>5. CASE Checked /\ ~Interrupted /\ ~started
  <2>1. /\ Settle /\ UNCHANGED <<connection, channel, subscription>> /\ step = "checking"
    BY <1>5 DEF Checked
  <2>2. ~SettingUp /\ \A c : ~Closing(c) /\ ~Closing(c)'
    BY <2>1 DEF SettingUp, Closing, Settle
  <2> QED
    BY <1>1, <2>1, <2>2 DEF Settle, Still, netVars, queueVars, Typed, Numbered, Placed,
       Newest, Cancelled, OneAtATime, Attempt, OnChannel, Held
<1>6. CASE GoOn /\ ~Interrupted
  <2>1. /\ step \in {"rechecking", "prefetching"} /\ step' \in {"prefetching", "consuming"}
        /\ reply' = "none" /\ UNCHANGED <<clientVars, own, subscriptionVersion>>
        /\ channel = own.channel
    BY <1>6 DEF GoOn, GoTo, Interrupted
  <2>2. ~SettingUp /\ ~SettingUp' /\ \A c : ~Closing(c) /\ ~Closing(c)'
    BY <2>1 DEF SettingUp, Closing
  <2> QED
    BY <1>1, <2>1, <2>2 DEF Still, netVars, queueVars, clientVars, Typed, Numbered, Placed,
       Newest, Cancelled, OneAtATime, Attempt, OnChannel, Held
<1>7. CASE Subscribed /\ ~Withdrawn /\ (connection # own.connection \/ channel # own.channel)
  <2>1. /\ step = "consuming" /\ step' = "withdrawing" /\ channel = None
        /\ UNCHANGED <<channel, subscription>>
    BY <1>7 DEF Subscribed, GoTo, OneConnection, RecoveryOwns, OnChannel
  <2>2. consumers = {} /\ unacked = {}
    BY <2>1, Nothing DEF Closing
  <2>3. Typed' /\ Numbered' /\ None \notin open'
    BY <1>1 DEF Still, netVars, queueVars, Typed, Numbered, RepliesAwaited
  <2> QED
    BY <1>1, <2>1, <2>2, <2>3, Detached DEF Still, netVars, queueVars, OnChannel
<1>8. CASE Subscribed /\ ~Withdrawn /\ connection = own.connection /\ channel = own.channel
  <2>1. /\ Activate /\ SettingUp /\ own.version = subscriptionVersion /\ channel # None
        /\ step = "consuming"
    BY <1>8 DEF Subscribed, Withdrawn, SettingUp, RecoveryOwns, OnChannel
  <2>2. /\ subscription'.channel = channel /\ subscription'.version = subscriptionVersion
        /\ subscription' # NoSubscription /\ ~SettingUp' /\ \A c : ~Closing(c) /\ ~Closing(c)'
        /\ UNCHANGED <<channel, subscriptionVersion>> /\ step' = "idle"
        /\ subscription' \in Subscriptions
    BY <2>1, OwnUpdates DEF Activate, NoSubscription, SettingUp, Closing, RecoveryTypes,
       Subscriptions
  <2>3. Typed' /\ Numbered' /\ Placed(consumers)' /\ Placed(unacked)'
    BY <1>1, <2>2 DEF Still, netVars, queueVars, Typed, Numbered, Placed
  <2>4. Newest'
    BY <1>1, <2>2 DEF Still, queueVars, Newest, Typed, Subscriptions
  <2>5. Cancelled' /\ OneAtATime' /\ Attempt' /\ Held'
    BY <1>1, <2>1, <2>2 DEF Still, netVars, queueVars, Cancelled, OneAtATime, Attempt, OnChannel, Held
  <2> QED
    BY <2>3, <2>4, <2>5
<1> QED
  BY <1>2, <1>3, <1>4, <1>5, <1>6, <1>7, <1>8
  DEF Checked, GoOn, Subscribed, CallFails, RepliesAwaited, OnChannel

\* What an attempt opened is closed.
LEMMA CleanedUp ==
  ASSUME Inv, ~closed, ChannelClosed \/ ConnectionClosed \/ SubscriptionClosed
  PROVE  DeliveryInv'
<1> USE DEF Inv, RecoveryInv, DeliveryInv
<1>1. /\ channel = None /\ channel' = None /\ closed' = closed
      /\ UNCHANGED <<subscription, tail, opened>>
      /\ step' \notin OnChannel
  BY DEF ChannelClosed, ConnectionClosed, SubscriptionClosed, RecoveryOwns, OnChannel, stopVars,
     GiveUp, Settle, GoTo
<1>2. PICK S : Close(S) /\ \A x \in consumers \cup unacked : x.channel \in S
  <2>1. CASE ChannelClosed \/ SubscriptionClosed
    BY <1>1, <2>1, Nothing DEF ChannelClosed, SubscriptionClosed, Closing
  <2>2. CASE ConnectionClosed
    BY <1>1, <2>2, Nothing DEF ConnectionClosed, Closing
  <2> QED
    BY <2>1, <2>2
<1>3. /\ Typed' /\ Numbered' /\ None \notin open'
      /\ consumers' \subseteq consumers /\ unacked' \subseteq unacked /\ wire' \subseteq wire
      /\ \A x \in consumers' \cup unacked' : x.channel \notin S
  BY <1>1, <1>2, CloseEffect
<1> QED
  BY <1>1, <1>2, <1>3, Detached

\* The client hears that a channel or connection is gone, or a subscription.
LEMMA Noticed ==
  ASSUME Inv, ~closed, \/ \E x \in open : CloseNoticed(x)
                       \/ \E c \in notices : CancelNoticed(c)
  PROVE  DeliveryInv'
<1> USE DEF Inv, RecoveryInv, DeliveryInv
<1>1. ASSUME NEW x \in open, CloseNoticed(x) PROVE DeliveryInv'
  <2>1. PICK S :
          /\ S = IF x = ConnectionOf(x) THEN Family(x) ELSE {x}
          /\ Closed(S)
          /\ connection' = IF connection \in S THEN None ELSE connection
          /\ channel' = IF connection \in S \/ channel \in S THEN None ELSE channel
          /\ subscription' = IF connection \in S \/ (channel \in S /\ subscription.channel \in S)
                             THEN NoSubscription ELSE subscription
          /\ reply' = IF reply = "none" /\ Awaited \in S THEN "error" ELSE reply
    BY <1>1 DEF CloseNoticed
  <2>2. UNCHANGED <<step, own, subscriptionVersion, stopVars, tail, opened, consumers, unacked, answers>>
    BY <1>1 DEF CloseNoticed
  <2>3. x \in lost /\ S \subseteq lost
    BY <1>1, <2>1 DEF CloseNoticed, Family, Numbered
  <2>4. \A y \in consumers \cup unacked : y.channel \in open /\ y.channel \notin S
    BY <2>3 DEF Placed
  <2>5. channel \in open /\ connection \in S => channel \in S
    <3> SUFFICES ASSUME channel \in open, connection \in S PROVE channel \in S
      OBVIOUS
    <3>1. connection = ConnectionOf(connection) /\ connection = ConnectionOf(channel)
      BY DEF OneConnection, RepliesAwaited
    <3> QED
      BY <2>1, <3>1 DEF Family
  <2>6. Typed' /\ Numbered'
    BY <2>1, <2>2 DEF Closed, Typed, Numbered
  <2>7. \A y \in consumers \cup unacked : y.channel = channel => channel' = channel /\ subscription' = subscription
    BY <2>1, <2>4, <2>5
  <2>8. Placed(consumers)' /\ Placed(unacked)'
    BY <2>1, <2>2, <2>3, <2>4, <2>7 DEF Closed, Placed, Closing
  <2>9. channel' \in {None, channel} /\ None \notin open'
    BY <2>1 DEF RepliesAwaited, Closed
  <2>10. SettingUp /\ channel' = channel => SettingUp'
    BY <2>1, <2>2 DEF SettingUp
  <2>11. Newest'
    BY <2>2, <2>4, <2>7, <2>9, <2>10 DEF Newest, RepliesAwaited
  <2>12. channel' \in notices' => channel' = channel /\ channel \in notices /\ channel \in open /\ channel \notin S
    BY <2>1, <2>6, <2>9 DEF Closed, Typed
  <2>13. Cancelled'
    BY <2>1, <2>2, <2>5, <2>10, <2>12 DEF Cancelled
  <2>14. OneAtATime'
    BY <2>1, <2>2 DEF OneAtATime
  <2>15. step \in OnChannel /\ channel' # own.channel => own.channel \notin open'
    <3> SUFFICES ASSUME step \in OnChannel, channel' # own.channel, own.channel \in open
                 PROVE  own.channel \in S
      BY <2>1 DEF Closed
    <3>1. channel = own.channel
      BY DEF Attempt
    <3> QED
      BY <2>1, <2>5, <3>1
  <2>16. Attempt'
    <3>1. channel' = own.channel /\ step \in OnChannel => channel = own.channel
      BY <2>9 DEF RecoveryOwns
    <3> QED
      BY <2>1, <2>2, <2>10, <2>15, <3>1 DEF Attempt, OnChannel
  <2>17. Held'
    <3> SUFFICES ASSUME NEW d \in unacked
                 PROVE  \/ d \in Range(tail)
                        \/ \E a \in answers : a.delivery = d
                        \/ Closing(d.channel)
                        \/ /\ d \in wire'
                           /\ d.version = subscriptionVersion
                           /\ subscription' # NoSubscription \/ SettingUp'
      BY <2>2 DEF Held, Closing
    <3>1. d \in wire => d \in wire'
      BY <2>1, <2>4 DEF Closed
    <3>2. Closing(d.channel) \/ (channel' = channel /\ subscription' = subscription)
      BY <2>7 DEF Placed
    <3> QED
      BY <2>10, <3>1, <3>2 DEF Held
  <2> QED
    BY <2>6, <2>8, <2>11, <2>13, <2>14, <2>16, <2>17
<1>2. ASSUME NEW c \in notices, CancelNoticed(c) PROVE DeliveryInv'
  <2>1. /\ UNCHANGED <<connection, channel, step, reply, stopVars, tail, opened, open, lost, queueVars>>
        /\ notices' = notices \ {c}
        /\ \A d \in wire : d.channel # c
        /\ channel # c => UNCHANGED <<subscriptionVersion, subscription>>
        /\ channel = c => subscription' = NoSubscription
    BY <1>2 DEF CancelNoticed
  <2>2. own'.channel = own.channel /\ own'.version = own.version
    BY <1>2 DEF CancelNoticed, RecoveryTypes, Owns
  <2>3. \A y : Closing(y)' <=> Closing(y)
    BY <2>1, <2>2 DEF Closing
  <2>4. SettingUp' <=> SettingUp
    BY <2>1, <2>2 DEF SettingUp
  <2>5. Typed' /\ Numbered' /\ Placed(consumers)' /\ Placed(unacked)'
    BY <2>1, <2>3 DEF queueVars, Typed, Numbered, Placed
  <2>6. channel = c => \A s \in consumers : s.channel # channel
    BY DEF Cancelled
  <2>7. Newest'
    BY <2>1, <2>2, <2>4, <2>6 DEF queueVars, Newest
  <2>8. Cancelled' /\ OneAtATime'
    BY <2>1, <2>4 DEF queueVars, Cancelled, OneAtATime
  <2>9. channel = c => subscription # NoSubscription \/ SettingUp
    BY DEF Cancelled
  <2>10. Attempt'
    BY <2>1, <2>2, <2>4, <2>9 DEF Attempt, OneAtATime, OnChannel
  <2>11. Held'
    BY <2>1, <2>3, <2>4 DEF queueVars, Held, Placed
  <2> QED
    BY <2>5, <2>7, <2>8, <2>10, <2>11
<1> QED
  BY <1>1, <1>2

-----------------------------------------------------------------------------
LEMMA DeliverySteps ==
  ASSUME Inv, [Next]_vars
  PROVE  DeliveryInv'
<1>1. CASE closed
  <2>1. closed'
    BY <1>1 DEF Next, vars, stopVars, StartConsumer, TimerFires, Connect, ConnectFails, CreateChannel,
       Answer, Checked, GoOn, Subscribed, CallFails, ChannelClosed, ConnectionClosed,
       SubscriptionClosed, Drop, CloseNoticed, CancelConsumer, CancelNoticed, Deliver, Receive,
       HandlerSucceeds, HandlerFails, HandlerEnds, BrokerSettles, Stop, StopCancels, StopCloses
  <2> QED
    BY <2>1 DEF DeliveryInv
<1>2. CASE ~closed /\ UNCHANGED vars
  BY <1>2 DEF Inv, DeliveryInv, vars, clientVars, recoverVars, stopVars, netVars, queueVars, Typed,
     Numbered, Placed, Newest, Cancelled, OneAtATime, Attempt, Held, SettingUp, Closing
<1>3. CASE Stop \/ (~closed /\ (StopCancels \/ StopCloses))
  BY <1>3 DEF Stop, StopCancels, StopCloses, Inv, RecoveryInv, StopSettled, DeliveryInv
<1> QED
  BY <1>1, <1>2, <1>3, Handled, AtBroker, Started, Connecting, Answered, WentOn, CleanedUp, Noticed
  DEF Next

LEMMA DeliveryInvariance == Spec => []Inv
<1>1. Init => Inv
  BY Initially, Initial DEF Inv
<1>2. Inv /\ [Next]_vars => Inv'
  BY Steps, DeliverySteps DEF Inv
<1> QED
  BY <1>1, <1>2, PTL DEF Spec

\* The consume callback drops no delivery that the broker would wait for for
\* ever, whatever is lost, cancelled or set up anew around it.
THEOREM NotStranded == Spec => []NoStrandedDelivery
<1>1. Inv => NoStrandedDelivery
  BY DEF Inv, DeliveryInv, Placed, Held, NoStrandedDelivery, Acceptable, Doomed, Closing
<1> QED
  BY <1>1, DeliveryInvariance, PTL

-----------------------------------------------------------------------------
(***************************************************************************)
(* The refinement of Delivery.                                             *)
(***************************************************************************)

\* What the consumer does not know: the messages in the queue, in somebody's
\* hands, and in the hands of somebody whose handler succeeded.
HeldMessages == {d.message : d \in unacked}
FinishedMessages == {a.delivery.message : a \in {b \in answers : b.ok}}

ThingTypes ==
  /\ tail \in Seq(Deliveries)
  /\ consumers \subseteq Subscriptions
  /\ unacked \subseteq Deliveries
  /\ wire \subseteq Deliveries
  /\ open \subseteq Ids
  /\ lost \subseteq open
  /\ \A a \in answers : a.delivery \in unacked /\ a.ok \in BOOLEAN

\* Where the client has deliveries that are neither settled nor answered.
Inside == wire \cup Range(tail)

\* Numbers are used once.
Fresh ==
  /\ Numbered
  /\ \A d \in Inside : /\ d.channel # None
                       /\ d.channel[1] <= opened /\ d.channel[2] <= opened
  /\ channel # None => channel \in open

\* The broker has deliveries and subscriptions on channels it still has.
Served == \A x \in consumers \cup unacked : x.channel \in open \ lost

\* A message is in one place.
OneHolder ==
  \A d \in unacked :
    /\ d.message \notin queued
    /\ \A e \in unacked : d.message = e.message => d = e

\* A delivery is answered once, after it was accepted once; one on a channel the
\* broker still has is one the broker waits for.
OnePlace ==
  /\ wire \cap Range(tail) = {}
  /\ \A i, j \in DOMAIN tail : i # j => tail[i] # tail[j]
  /\ \A a \in answers : a.delivery \notin Inside
  /\ \A a, b \in answers : a.delivery = b.delivery => a = b
  /\ \A d \in Inside : d.channel \in open \ lost => d \in unacked

Traced == ThingTypes /\ Fresh /\ Served /\ OneHolder /\ OnePlace

All == RecoveryInv /\ Traced

Promised == AtLeastOnce!Next \/ UNCHANGED AtLeastOnce!vars

-----------------------------------------------------------------------------
LEMMA InitialTrace == Init => Traced /\ AtLeastOnce!Init
<1> SUFFICES ASSUME Init PROVE Traced /\ AtLeastOnce!Init
  OBVIOUS
<1>1. Range(tail) = {} /\ tail \in Seq(Deliveries)
  BY DEF Init, Range
<1>2. Traced
  BY <1>1 DEF Init, Traced, ThingTypes, Fresh, Numbered, Inside, Served, OneHolder, OnePlace, Ids,
     Deliveries, Subscriptions, ConnectionOf
<1>3. AtLeastOnce!Init
  BY DEF Init, AtLeastOnce!Init
<1> QED
  BY <1>2, <1>3

\* Nothing of what the broker, the network and the handlers have changes.
LEMMA Quiet ==
  ASSUME All, Still, channel' \in {channel, None}
  PROVE  Traced' /\ Promised
<1> USE DEF All, Traced, Still, netVars, queueVars
<1>1. Traced'
  BY DEF ThingTypes, Fresh, Numbered, Inside, Served, OneHolder, OnePlace
<1>2. Promised
  BY DEF Promised, AtLeastOnce!vars
<1> QED
  BY <1>1, <1>2

\* The broker takes back what it delivered to S.
LEMMA ReleasedReturns ==
  ASSUME All, NEW S, Released(S)
  PROVE  Promised /\ OneHolder'
<1> USE DEF All, Traced, Released
<1>1. PICK M : M = {d.message : d \in {e \in unacked : e.channel \in S}}
  OBVIOUS
<1>2. M \in SUBSET HeldMessages /\ queued' = queued \cup M /\ done' = done
  BY <1>1 DEF HeldMessages
<1>3. HeldMessages' = HeldMessages \ M
  BY <1>1 DEF HeldMessages, OneHolder
<1>4. FinishedMessages' = FinishedMessages \ M
  BY <1>1 DEF FinishedMessages, OneHolder, ThingTypes
<1>5. AtLeastOnce!Return(M)
  BY <1>2, <1>3, <1>4 DEF HeldMessages, FinishedMessages, AtLeastOnce!Return
<1>6. Promised
  BY <1>2, <1>5 DEF Promised, AtLeastOnce!Next, HeldMessages
<1>7. OneHolder'
  BY DEF OneHolder
<1> QED
  BY <1>6, <1>7

\* The client closes S, or hears that S is gone.
LEMMA ClosedTrace ==
  ASSUME All, NEW S, Closed(S), UNCHANGED <<tail, opened>>,
         \/ Released(S)
         \/ S \subseteq lost /\ UNCHANGED <<consumers, queued, unacked, answers, done>>,
         channel' = None \/ (channel' = channel /\ channel \notin S)
  PROVE  Traced' /\ Promised
<1> USE DEF All, Traced, Closed
<1>1. /\ consumers' \subseteq consumers /\ unacked' \subseteq unacked /\ answers' \subseteq answers
      /\ wire' \subseteq wire /\ open' = open \ S /\ lost' = lost \ S
      /\ \A d \in unacked : d.channel \notin S => d \in unacked'
      /\ \A x \in consumers' \cup unacked' : x.channel \notin S
      /\ \A a \in answers' : a.delivery \in unacked'
  BY DEF Released, Served, ThingTypes
<1>2. ThingTypes'
  BY <1>1 DEF ThingTypes
<1>3. Fresh'
  BY <1>1 DEF Fresh, Numbered, Inside
<1>4. Served'
  BY <1>1 DEF Served
<1>5. OnePlace'
  BY <1>1 DEF OnePlace, Inside
<1>6. OneHolder' /\ Promised
  <2>1. CASE Released(S)
    BY <2>1, ReleasedReturns
  <2>2. CASE UNCHANGED <<consumers, queued, unacked, answers, done>>
    BY <2>2 DEF OneHolder, Promised, AtLeastOnce!vars
  <2> QED
    BY <2>1, <2>2
<1> QED
  BY <1>2, <1>3, <1>4, <1>5, <1>6

\* A connection or channel gets a number of its own.
LEMMA OpenedTrace ==
  ASSUME All, Connect \/ CreateChannel
  PROVE  Traced' /\ Promised
<1> USE DEF All, Traced, RecoveryInv, RecoveryTypes
<1>1. \A x \in open : x \in Ids /\ x[1] \in Nat /\ x[2] \in Nat
  BY DEF ThingTypes, Ids
<1>2. \A d \in Inside : d.channel[1] \in Nat /\ d.channel[2] \in Nat
  <2>1. Range(tail) \subseteq Deliveries
    BY DEF ThingTypes, Range
  <2> QED
    BY <2>1 DEF Inside, ThingTypes, Deliveries, Ids
<1>3. PICK c \in Ids :
        /\ open' = open \cup {c} /\ opened' = opened + 1
        /\ c[1] <= opened + 1 /\ c[2] <= opened + 1
        /\ c[1] = opened + 1 \/ c[2] = opened + 1
        /\ ConnectionOf(c) = c \/ ConnectionOf(c) \in open \ lost
        /\ channel' \in {None, c}
  <2>1. CASE Connect
    <3>1. PICK k : k = <<opened + 1, 0>>
      OBVIOUS
    <3>2. k \in Ids /\ k[1] = opened + 1 /\ k[2] = 0 /\ ConnectionOf(k) = k
      BY <3>1 DEF Ids, ConnectionOf
    <3>3. open' = open \cup {k} /\ opened' = opened + 1 /\ channel' = None
      BY <2>1, <3>1 DEF Connect, RecoveryOwns, OnChannel
    <3> QED
      BY <3>2, <3>3
  <2>2. CASE CreateChannel
    <3>1. PICK k : k = <<own.connection[1], opened + 1>>
      OBVIOUS
    <3>2. own.connection \in open \ lost
      BY <2>2 DEF CreateChannel
    <3>3. own.connection[1] \in Nat /\ own.connection[1] <= opened
      BY <1>1, <3>2 DEF Fresh, Numbered
    <3>4. /\ k \in Ids /\ k[1] = own.connection[1] /\ k[2] = opened + 1
          /\ ConnectionOf(k) = own.connection
      BY <2>2, <3>1, <3>3 DEF Ids, ConnectionOf, RecoveryOwns, CreateChannel
    <3>5. open' = open \cup {k} /\ opened' = opened + 1 /\ channel' \in {None, k}
      BY <2>2, <3>1 DEF CreateChannel, RecoveryOwns, OnChannel
    <3> QED
      BY <3>2, <3>3, <3>4, <3>5
  <2> QED
    BY <2>1, <2>2
<1>4. c \notin open /\ c \notin lost /\ \A d \in Inside : d.channel # c
  BY <1>1, <1>2, <1>3 DEF Fresh, Numbered, ThingTypes
<1>5. UNCHANGED <<tail, lost, queueVars>>
  BY DEF Connect, CreateChannel
<1>6. ThingTypes'
  BY <1>3, <1>5 DEF ThingTypes, queueVars
<1>7. Fresh'
  <2>1. \A x \in open' : x[1] <= opened' /\ x[2] <= opened'
    BY <1>1, <1>3 DEF Fresh, Numbered
  <2>2. \A x \in open' : ConnectionOf(x) \in lost' => x \in lost'
    BY <1>3, <1>4, <1>5 DEF Fresh, Numbered
  <2>3. \A d \in Inside : d.channel[1] <= opened + 1 /\ d.channel[2] <= opened + 1
    BY <1>2 DEF Fresh
  <2> QED
    BY <1>3, <1>5, <2>1, <2>2, <2>3 DEF Fresh, Numbered, Inside, queueVars
<1>8. Served' /\ OneHolder' /\ OnePlace'
  BY <1>3, <1>4, <1>5 DEF Served, OneHolder, OnePlace, Inside, queueVars
<1>9. Promised
  BY <1>5 DEF Promised, AtLeastOnce!vars, queueVars
<1> QED
  BY <1>6, <1>7, <1>8, <1>9

\* The broker gains or loses a subscription.
LEMMA SubscriptionTrace ==
  ASSUME All, NEW s \in Subscriptions, s.channel \in open \ lost,
         consumers' \subseteq consumers \cup {s},
         UNCHANGED <<channel, tail, opened, open, lost, queued, unacked, wire, answers, done>>
  PROVE  Traced' /\ Promised
BY DEF All, Traced, ThingTypes, Fresh, Numbered, Inside, Served, OneHolder, OnePlace, Promised,
   AtLeastOnce!vars

LEMMA DropTrace ==
  ASSUME All, NEW x \in open, Drop(x)
  PROVE  Traced' /\ Promised
<1> USE DEF All, Traced
<1>1. PICK S \in SUBSET open :
        /\ lost' = lost \cup S /\ Released(S)
        /\ \A y \in open : ConnectionOf(y) \in S => y \in S
  BY DEF Drop, Family, ConnectionOf
<1>2. UNCHANGED <<channel, tail, opened, open, wire>>
  BY DEF Drop, clientVars
<1>3. ThingTypes' /\ Served'
  BY <1>1, <1>2 DEF Released, ThingTypes, Served
<1>4. Fresh'
  BY <1>1, <1>2 DEF Fresh, Numbered, Inside
<1>5. OnePlace'
  BY <1>1, <1>2 DEF Released, OnePlace, Inside
<1> QED
  BY <1>1, <1>3, <1>4, <1>5, ReleasedReturns

\* A delivery that the broker sends is a new one.
LEMMA DeliverTrace ==
  ASSUME All, NEW s \in consumers, NEW m \in Messages, Deliver(s, m)
  PROVE  Traced' /\ Promised
<1> USE DEF All, Traced
<1>1. PICK d : d = [channel |-> s.channel, version |-> s.version, message |-> m]
  OBVIOUS
<1>2. /\ d \in Deliveries /\ d.channel = s.channel /\ d.message = m /\ m \in queued
      /\ s.channel \in open \ lost /\ s.channel \in Ids
  BY <1>1 DEF Deliver, ThingTypes, Served, Subscriptions, Deliveries
<1>3. /\ unacked' = unacked \cup {d} /\ wire' = wire \cup {d} /\ queued' = queued \ {m}
      /\ UNCHANGED <<channel, tail, opened, open, lost, consumers, answers, done>>
  BY <1>1 DEF Deliver, clientVars, netVars
<1>4. d \notin unacked /\ d \notin Inside /\ \A a \in answers : a.delivery # d
  BY <1>2 DEF OneHolder, OnePlace, ThingTypes
<1>5. ThingTypes' /\ Served' /\ OneHolder'
  BY <1>2, <1>3 DEF ThingTypes, Served, OneHolder
<1>6. Fresh'
  <2>1. d.channel # None /\ d.channel[1] <= opened /\ d.channel[2] <= opened
    BY <1>2 DEF Fresh, Numbered, RecoveryInv, RepliesAwaited
  <2> QED
    BY <1>3, <2>1 DEF Fresh, Numbered, Inside
<1>7. OnePlace'
  BY <1>3, <1>4 DEF OnePlace, Inside
<1>8. Promised
  <2>1. HeldMessages' = HeldMessages \cup {m} /\ FinishedMessages' = FinishedMessages
    BY <1>2, <1>3 DEF HeldMessages, FinishedMessages
  <2>2. AtLeastOnce!Take(m)
    BY <1>2, <1>3, <2>1 DEF HeldMessages, FinishedMessages, AtLeastOnce!Take
  <2> QED
    BY <2>2 DEF Promised, AtLeastOnce!Next
<1> QED
  BY <1>5, <1>6, <1>7, <1>8

LEMMA ReceiveTrace ==
  ASSUME All, NEW d \in wire, Receive(d)
  PROVE  Traced' /\ Promised
<1> USE DEF All, Traced
<1>1. /\ wire' = wire \ {d} /\ d \in Deliveries /\ tail \in Seq(Deliveries)
      /\ tail' = tail \/ tail' = Append(tail, d)
      /\ UNCHANGED <<channel, opened, open, lost, consumers, queued, unacked, answers, done>>
  BY DEF Receive, ThingTypes, clientVars, netVars
<1>2. Range(tail') \subseteq Range(tail) \cup {d} /\ tail' \in Seq(Deliveries)
  BY <1>1 DEF Range
<1>3. d \notin Range(tail)
  BY DEF OnePlace
<1>4. \A i, j \in DOMAIN tail' : i # j => tail'[i] # tail'[j]
  <2>1. CASE tail' = tail
    BY <2>1 DEF OnePlace
  <2>2. CASE tail' = Append(tail, d)
    BY <1>1, <1>3, <2>2 DEF OnePlace, Range
  <2> QED
    BY <1>1, <2>1, <2>2
<1>5. ThingTypes' /\ Served' /\ OneHolder'
  BY <1>1, <1>2 DEF ThingTypes, Served, OneHolder
<1>6. Inside' \subseteq Inside
  BY <1>1, <1>2 DEF Inside
<1>7. Fresh' /\ OnePlace'
  BY <1>1, <1>2, <1>4, <1>6 DEF Fresh, Numbered, OnePlace
<1>8. Promised
  BY <1>1 DEF Promised, AtLeastOnce!vars
<1> QED
  BY <1>5, <1>7, <1>8

\* A handler that succeeded lets its own delivery be acknowledged.
LEMMA HandlerTrace ==
  ASSUME All, NEW ok \in BOOLEAN, HandlerEnds(ok)
  PROVE  Traced' /\ Promised
<1> USE DEF All, Traced
<1>1. PICK a : a = [delivery |-> Head(tail), ok |-> ok]
  OBVIOUS
<1>2. /\ a.delivery = Head(tail) /\ a.ok = ok /\ tail # <<>> /\ tail' = Tail(tail)
      /\ tail \in Seq(Deliveries)
      /\ \/ answers' = answers
         \/ answers' = answers \cup {a} /\ channel = Head(tail).channel /\ channel \notin lost
      /\ UNCHANGED <<channel, opened, open, lost, consumers, queued, unacked, wire, done>>
  BY <1>1 DEF HandlerEnds, ThingTypes, clientVars, netVars
<1>3. Head(tail) \in Range(tail) /\ Range(tail') \subseteq Range(tail) /\ tail' \in Seq(Deliveries)
      /\ Head(tail) \notin Range(tail')
      /\ \A i, j \in DOMAIN tail' : i # j => tail'[i] # tail'[j]
  <2>1. \A i \in DOMAIN tail' : i + 1 \in DOMAIN tail /\ tail'[i] = tail[i + 1] /\ i + 1 # 1 /\ i \in Nat
    BY <1>2
  <2>2. 1 \in DOMAIN tail /\ Head(tail) = tail[1] /\ tail' \in Seq(Deliveries)
    BY <1>2
  <2> QED
    BY <2>1, <2>2 DEF Range, OnePlace
<1>4. answers' = answers \/ Head(tail) \in unacked
  BY <1>2, <1>3 DEF Fresh, Inside, OnePlace
<1>5. ThingTypes' /\ Served' /\ OneHolder'
  BY <1>2, <1>3, <1>4 DEF ThingTypes, Served, OneHolder
<1>6. Inside' \subseteq Inside
  BY <1>2, <1>3 DEF Inside
<1>7. Fresh'
  BY <1>2, <1>6 DEF Fresh, Numbered
<1>8. Head(tail) \in Inside /\ Head(tail) \notin Inside' /\ \A b \in answers : b.delivery # Head(tail)
  BY <1>2, <1>3 DEF Inside, OnePlace
<1>9. OnePlace'
  <2>1. \A b \in answers' : b.delivery \notin Inside'
    BY <1>2, <1>6, <1>8 DEF OnePlace
  <2>2. \A b, c \in answers' : b.delivery = c.delivery => b = c
    BY <1>2, <1>8 DEF OnePlace
  <2>3. wire' \cap Range(tail') = {} /\ \A d \in Inside' : d.channel \in open' \ lost' => d \in unacked'
    BY <1>2, <1>3, <1>6 DEF OnePlace
  <2> QED
    BY <1>3, <2>1, <2>2, <2>3 DEF OnePlace
<1>10. Promised
  <2>1. CASE answers' = answers
    BY <1>2, <2>1 DEF Promised, AtLeastOnce!vars
  <2>2. CASE answers' = answers \cup {a} /\ ~ok
    <3>1. FinishedMessages' = FinishedMessages
      BY <1>2, <2>2 DEF FinishedMessages
    <3> QED
      BY <1>2, <3>1 DEF FinishedMessages, Promised, AtLeastOnce!vars
  <2>3. CASE answers' = answers \cup {a} /\ ok /\ Head(tail) \in unacked
    <3>1. PICK m : m = Head(tail).message
      OBVIOUS
    <3>2. m \in Messages /\ m \in HeldMessages
      BY <2>3, <3>1 DEF ThingTypes, Deliveries, HeldMessages
    <3>3. FinishedMessages' = FinishedMessages \cup {m}
      BY <1>2, <2>3, <3>1 DEF FinishedMessages
    <3>4. AtLeastOnce!Finish(m)
      BY <1>2, <3>2, <3>3 DEF HeldMessages, FinishedMessages, AtLeastOnce!Finish
    <3> QED
      BY <3>2, <3>4 DEF Promised, AtLeastOnce!Next
  <2> QED
    BY <1>2, <1>4, <2>1, <2>2, <2>3
<1> QED
  BY <1>5, <1>7, <1>9, <1>10

\* The broker acknowledges exactly the message of the delivery that is answered.
LEMMA SettleTrace ==
  ASSUME All, NEW a \in answers, BrokerSettles(a)
  PROVE  Traced' /\ Promised
<1> USE DEF All, Traced
<1>1. PICK m : m = a.delivery.message
  OBVIOUS
<1>2. /\ answers' = answers \ {a} /\ unacked' = unacked \ {a.delivery}
      /\ done' = (IF a.ok THEN done \cup {m} ELSE done)
      /\ queued' = (IF a.ok THEN queued ELSE queued \cup {m})
      /\ UNCHANGED <<channel, tail, opened, open, lost, consumers, wire>>
      /\ a.delivery \in unacked /\ m \in Messages /\ a.ok \in BOOLEAN
  BY <1>1 DEF BrokerSettles, clientVars, netVars, ThingTypes, Deliveries
<1>3. ThingTypes' /\ Served'
  BY <1>2 DEF ThingTypes, Served, OnePlace
<1>4. OneHolder'
  BY <1>1, <1>2 DEF OneHolder
<1>5. Fresh' /\ OnePlace'
  BY <1>2 DEF Fresh, Numbered, OnePlace, Inside
<1>6. HeldMessages' = HeldMessages \ {m} /\ m \in HeldMessages
  BY <1>1, <1>2 DEF HeldMessages, OneHolder
<1>7. FinishedMessages' = FinishedMessages \ {m}
  <2>1. \A b \in answers : b.delivery.message = m => b = a
    BY <1>1, <1>2 DEF OneHolder, OnePlace, ThingTypes
  <2> QED
    BY <1>1, <1>2, <2>1 DEF FinishedMessages
<1>8. Promised
  <2>1. CASE a.ok
    <3>1. m \in FinishedMessages
      BY <1>1, <2>1 DEF FinishedMessages
    <3>2. AtLeastOnce!Settle(m)
      BY <1>2, <1>6, <1>7, <2>1, <3>1 DEF HeldMessages, FinishedMessages, AtLeastOnce!Settle
    <3> QED
      BY <1>2, <3>2 DEF Promised, AtLeastOnce!Next
  <2>2. CASE ~a.ok
    <3>1. PICK M : M = {m}
      OBVIOUS
    <3>2. AtLeastOnce!Return(M) /\ M \in SUBSET HeldMessages
      BY <1>2, <1>6, <1>7, <2>2, <3>1 DEF HeldMessages, FinishedMessages, AtLeastOnce!Return
    <3> QED
      BY <3>2 DEF HeldMessages, Promised, AtLeastOnce!Next
  <2> QED
    BY <2>1, <2>2
<1> QED
  BY <1>3, <1>4, <1>5, <1>8

-----------------------------------------------------------------------------
LEMMA TraceSteps ==
  ASSUME All, [Next]_vars
  PROVE  Traced' /\ Promised
<1> USE DEF All, RecoveryInv
<1>1. CASE UNCHANGED vars \/ StartConsumer \/ TimerFires \/ ConnectFails \/ Checked \/ GoOn
            \/ Subscribed \/ CallFails \/ Stop
  <2>1. Still
    BY <1>1 DEF vars, StartConsumer, TimerFires, ConnectFails, Checked, GoOn, Subscribed, CallFails,
       Stop, Still
  <2>2. channel' \in {channel, None}
    BY <1>1 DEF vars, clientVars, StartConsumer, TimerFires, ConnectFails, Checked, GoOn, Subscribed,
       CallFails, Stop, GiveUp, GiveUpChannel, Settle, Activate
  <2> QED
    BY <2>1, <2>2, Quiet
<1>2. CASE Connect \/ CreateChannel
  BY <1>2, OpenedTrace
<1>3. ASSUME NEW c \in notices, CancelNoticed(c) PROVE Traced' /\ Promised
  BY <1>3 DEF CancelNoticed, queueVars, Traced, ThingTypes, Fresh, Numbered, Inside, Served,
     OneHolder, OnePlace, Promised, AtLeastOnce!vars
<1>4. CASE Answer
  <2>1. PICK s : s = [channel |-> own.channel, version |-> own.version]
    OBVIOUS
  <2>2. s \in Subscriptions /\ s.channel = own.channel
    BY <2>1, OwnUpdates DEF RecoveryTypes, Subscriptions
  <2> QED
    BY <1>4, <2>1, <2>2, SubscriptionTrace DEF Answer, clientVars, netVars
<1>5. ASSUME NEW s \in consumers, CancelConsumer(s) PROVE Traced' /\ Promised
  BY <1>5, SubscriptionTrace DEF CancelConsumer, clientVars, Traced, ThingTypes, Served
<1>6. CASE StopCancels
  BY <1>6 DEF StopCancels, netVars, Traced, ThingTypes, Fresh, Numbered, Inside, Served,
     OneHolder, OnePlace, Promised, AtLeastOnce!vars
<1>7. CASE ChannelClosed \/ ConnectionClosed \/ SubscriptionClosed
  <2>1. channel' = None /\ UNCHANGED <<tail, opened>>
    BY <1>7 DEF ChannelClosed, ConnectionClosed, SubscriptionClosed, RecoveryOwns, OnChannel, GiveUp
  <2>2. PICK S : Close(S)
    BY <1>7 DEF ChannelClosed, ConnectionClosed, SubscriptionClosed
  <2> QED
    BY <2>1, <2>2, ClosedTrace DEF Close
<1>8. CASE StopCloses
  <2>1. PICK S : Close(S)
    BY <1>8 DEF StopCloses
  <2> QED
    BY <1>8, <2>1, ClosedTrace DEF StopCloses, Close
<1>9. ASSUME NEW x \in open, CloseNoticed(x) PROVE Traced' /\ Promised
  <2>1. PICK S :
          /\ S = IF x = ConnectionOf(x) THEN Family(x) ELSE {x}
          /\ Closed(S)
          /\ channel' = IF connection \in S \/ channel \in S THEN None ELSE channel
    BY <1>9 DEF CloseNoticed
  <2>2. S \subseteq lost
    BY <1>9, <2>1 DEF CloseNoticed, Family, Traced, Fresh, Numbered
  <2>3. UNCHANGED <<tail, opened, consumers, queued, unacked, answers, done>>
    BY <1>9 DEF CloseNoticed
  <2> QED
    BY <2>1, <2>2, <2>3, ClosedTrace
<1> QED
  BY <1>1, <1>2, <1>3, <1>4, <1>5, <1>6, <1>7, <1>8, <1>9, DropTrace, DeliverTrace, ReceiveTrace,
     HandlerTrace, SettleTrace
  DEF Next, HandlerSucceeds, HandlerFails

\* The consumer implements Delivery: a message is acknowledged only after the
\* handler of that same delivery succeeded, and returns to the queue otherwise,
\* whatever is lost on the way.
THEOREM DeliversAtLeastOnce == Spec => ImplementsDelivery
<1>1. Init => All /\ AtLeastOnce!Init
  BY Initially, InitialTrace DEF All
<1>2. All /\ [Next]_vars => All' /\ [AtLeastOnce!Next]_(AtLeastOnce!vars)
  BY Steps, TraceSteps DEF All, Promised
<1> QED
  BY <1>1, <1>2, PTL DEF Spec, ImplementsDelivery, AtLeastOnce!Spec
-----------------------------------------------------------------------------
(***************************************************************************)
(* stop().                                                                 *)
(***************************************************************************)

\* What is open belongs to the consumer's connection, or to the one that the
\* recovery is about to close.
NothingLeaks ==
  /\ step = "connecting" => connection = None
  /\ \A x \in open :
       /\ ConnectionOf(x) # None
       /\ \/ ConnectionOf(x) = connection
          \/ step = "closingConnection" /\ ConnectionOf(x) = own.connection

\* stop() waits for the recovery that is running, and none starts afterwards.
StopWaits ==
  /\ closed => ~recoveryTimer
  /\ stopping \in {"draining", "stopped"} => step = "idle" /\ closed
  /\ stopping = "stopped" => tail = <<>> /\ open = {}

\* No message is lost.
Accounted == queued \cup done \cup HeldMessages = Messages

StopInv == All /\ NothingLeaks /\ StopWaits /\ Accounted

LEMMA InitialStop == Init => NothingLeaks /\ StopWaits /\ Accounted
BY DEF Init, NothingLeaks, StopWaits, Accounted, HeldMessages, ConnectionOf, None

\* The steps of recover() that set no connection aside.
LEMMA NothingLeaksOn ==
  ASSUME NothingLeaks, open' \subseteq open, UNCHANGED connection,
         step # "closingConnection",
         step' # "connecting" \/ connection = None
  PROVE  NothingLeaks'
BY DEF NothingLeaks, ConnectionOf

\* The attempt is given up, and its own connection closed in the next step.
LEMMA NothingLeaksGivenUp ==
  ASSUME NothingLeaks, open' \subseteq open, GiveUp, step # "closingConnection"
  PROVE  NothingLeaks'
BY DEF NothingLeaks, GiveUp, Settle, GoTo, ConnectionOf

LEMMA LeakSteps ==
  ASSUME All, NothingLeaks, StopWaits, [Next]_vars
  PROVE  NothingLeaks'
<1> USE DEF All, RecoveryInv
<1>1. CASE \/ UNCHANGED vars \/ Answer \/ Stop \/ StopCancels
           \/ \E x \in open : Drop(x)
           \/ \E s \in consumers : CancelConsumer(s)
           \/ \E s \in consumers, m \in Messages : Deliver(s, m)
           \/ \E d \in wire : Receive(d)
           \/ HandlerSucceeds \/ HandlerFails
           \/ \E a \in answers : BrokerSettles(a)
  <2>1. UNCHANGED <<connection, step, own, open>>
    BY <1>1 DEF vars, clientVars, recoverVars, netVars, Answer, Stop, StopCancels, Drop,
       CancelConsumer, Deliver, Receive, HandlerSucceeds, HandlerFails, HandlerEnds, BrokerSettles
  <2> QED
    BY <2>1 DEF NothingLeaks, ConnectionOf
<1>2. CASE StartConsumer \/ TimerFires
  <2>1. PICK begun : StartRecovery(begun)
    BY <1>2 DEF StartConsumer, TimerFires
  <2>2. UNCHANGED <<connection, open>>
    BY <1>2 DEF StartConsumer, TimerFires, netVars
  <2> QED
    BY <2>1, <2>2 DEF StartRecovery, Subscribe, recoverVars, NothingLeaks, ConnectionOf
<1>3. CASE Connect
  <2>1. open = {}
    BY <1>3 DEF Connect, NothingLeaks
  <2>2. opened \in Nat /\ own \in Owns
    BY DEF RecoveryTypes
  <2>3. own'.connection = <<opened + 1, 0>>
    BY <1>3, <2>2 DEF Connect, Owns
  <2>4. /\ open' = {<<opened + 1, 0>>}
        /\ connection' = (IF closed THEN None ELSE <<opened + 1, 0>>)
        /\ step' = (IF closed THEN "closingConnection" ELSE "creating")
    BY <1>3, <2>1 DEF Connect, GoTo
  <2> QED
    BY <2>2, <2>3, <2>4 DEF NothingLeaks, ConnectionOf, None
<1>4. CASE ConnectFails
  BY <1>4, NothingLeaksGivenUp DEF ConnectFails, netVars
<1>5. CASE CreateChannel
  <2>1. PICK c : c = <<own.connection[1], opened + 1>>
    OBVIOUS
  <2>2. ConnectionOf(c) = own.connection /\ own.connection \in open
    BY <1>5, <2>1 DEF CreateChannel, RecoveryOwns, ConnectionOf
  <2>3. connection = own.connection /\ connection # None
    BY <1>5, <2>2 DEF CreateChannel, RecoveryOwns, NothingLeaks
  <2>4. open' = open \cup {c} /\ step' # "connecting" /\ UNCHANGED connection
    BY <1>5, <2>1 DEF CreateChannel, GoTo
  <2>5. step # "closingConnection"
    BY <1>5 DEF CreateChannel
  <2> QED
    BY <2>2, <2>3, <2>4, <2>5 DEF NothingLeaks, ConnectionOf
<1>6. CASE Checked \/ GoOn \/ Subscribed
  <2>1. UNCHANGED <<connection, open>> /\ step' # "connecting" /\ step # "closingConnection"
    BY <1>6 DEF Checked, GoOn, Subscribed, GiveUpChannel, Settle, Subscribe, GoTo, Activate,
       clientVars, netVars
  <2> QED
    BY <2>1, NothingLeaksOn
<1>7. CASE CallFails
  <2>1. step \notin {"closingConnection", "idle"} /\ UNCHANGED open
    BY <1>7 DEF CallFails, RepliesAwaited, OnChannel, netVars
  <2> QED
    BY <1>7, <2>1, NothingLeaksOn, NothingLeaksGivenUp DEF CallFails, GiveUpChannel, GoTo
<1>8. CASE ChannelClosed
  BY <1>8, NothingLeaksGivenUp DEF ChannelClosed, Close, Closed
<1>9. CASE ConnectionClosed
  BY <1>9 DEF ConnectionClosed, Close, Closed, Settle, Family, NothingLeaks, ConnectionOf
<1>10. CASE SubscriptionClosed
  BY <1>10, NothingLeaksOn DEF SubscriptionClosed, Close, Closed, Settle
<1>11. ASSUME NEW x \in open, CloseNoticed(x) PROVE NothingLeaks'
  <2>1. PICK S : S = IF x = ConnectionOf(x) THEN Family(x) ELSE {x}
    OBVIOUS
  <2>2. /\ open' = open \ S /\ UNCHANGED <<step, own>>
        /\ connection' = (IF connection \in S THEN None ELSE connection)
    BY <1>11, <2>1 DEF CloseNoticed, Closed
  <2>3. connection \in S => S = Family(connection)
    BY <2>1 DEF Family, OneConnection, ConnectionOf
  <2> QED
    BY <2>2, <2>3 DEF NothingLeaks, Family, ConnectionOf
<1>12. ASSUME NEW c \in notices, CancelNoticed(c) PROVE NothingLeaks'
  <2>1. UNCHANGED <<connection, step, open>> /\ own'.connection = own.connection
    BY <1>12 DEF CancelNoticed, RecoveryTypes, Owns
  <2> QED
    BY <2>1 DEF NothingLeaks, ConnectionOf
<1>13. CASE StopCloses
  BY <1>13 DEF StopCloses, StopWaits, Close, Closed, Family, NothingLeaks, recoverVars
<1> QED
  BY <1>1, <1>2, <1>3, <1>4, <1>5, <1>6, <1>7, <1>8, <1>9, <1>10, <1>11, <1>12, <1>13 DEF Next

LEMMA WaitSteps ==
  ASSUME All, NothingLeaks, StopWaits, [Next]_vars
  PROVE  StopWaits'
<1> USE DEF All, RecoveryInv
<1>1. CASE \/ UNCHANGED vars \/ Answer
           \/ \E x \in open : Drop(x)
           \/ \E s \in consumers : CancelConsumer(s)
           \/ \E s \in consumers, m \in Messages : Deliver(s, m)
           \/ \E a \in answers : BrokerSettles(a)
  <2>1. UNCHANGED <<stopVars, recoveryTimer, step, tail, open>>
    BY <1>1 DEF vars, clientVars, recoverVars, netVars, Answer, Drop,
       CancelConsumer, Deliver, BrokerSettles
  <2> QED
    BY <2>1 DEF StopWaits, stopVars
<1>2. CASE StartConsumer
  BY <1>2 DEF StartConsumer, StopWaits
<1>3. CASE TimerFires
  BY <1>3 DEF TimerFires, StopWaits, stopVars
<1>4. CASE Connect \/ CreateChannel
  BY <1>4 DEF Connect, CreateChannel, StopWaits, stopVars
<1>5. CASE ConnectFails \/ Checked \/ GoOn \/ Subscribed \/ CallFails
  <2>1. step # "idle" /\ UNCHANGED <<stopVars, tail, open>>
    BY <1>5 DEF ConnectFails, Checked, GoOn, Subscribed, CallFails, RepliesAwaited, OnChannel, netVars
  <2>2. closed /\ ~recoveryTimer => ~recoveryTimer'
    BY <1>5 DEF ConnectFails, Checked, GoOn, Subscribed, CallFails, GiveUp, GiveUpChannel, Settle,
       Subscribe, Activate, clientVars
  <2> QED
    BY <2>1, <2>2 DEF StopWaits, stopVars
<1>6. CASE ChannelClosed \/ ConnectionClosed \/ SubscriptionClosed
  <2>1. step # "idle" /\ UNCHANGED stopVars
    BY <1>6 DEF ChannelClosed, ConnectionClosed, SubscriptionClosed
  <2>2. closed /\ ~recoveryTimer => ~recoveryTimer'
    BY <1>6 DEF ChannelClosed, ConnectionClosed, SubscriptionClosed, GiveUp, Settle
  <2> QED
    BY <2>1, <2>2 DEF StopWaits, stopVars
<1>7. ASSUME NEW x \in open, CloseNoticed(x) PROVE StopWaits'
  BY <1>7 DEF CloseNoticed, ScheduleRecovery, Closed, StopWaits, stopVars
<1>8. ASSUME NEW c \in notices, CancelNoticed(c) PROVE StopWaits'
  BY <1>8 DEF CancelNoticed, StopWaits, stopVars
<1>9. ASSUME NEW d \in wire, Receive(d) PROVE StopWaits'
  BY <1>9 DEF Receive, Acceptable, StopWaits, stopVars, clientVars, recoverVars, netVars
<1>10. CASE HandlerSucceeds \/ HandlerFails
  BY <1>10 DEF HandlerSucceeds, HandlerFails, HandlerEnds, StopWaits, stopVars, clientVars,
     recoverVars
<1>11. CASE Stop \/ StopCancels
  BY <1>11 DEF Stop, StopCancels, StopWaits, StopSettled, recoverVars
<1>12. CASE StopCloses
  <2>1. open' = {}
    BY <1>12 DEF StopCloses, StopWaits, Close, Closed, Family, NothingLeaks
  <2> QED
    BY <1>12, <2>1 DEF StopCloses, StopWaits, recoverVars
<1> QED
  BY <1>1, <1>2, <1>3, <1>4, <1>5, <1>6, <1>7, <1>8, <1>9, <1>10, <1>11, <1>12 DEF Next

\* Every step keeps the messages that are queued, held or done.
LEMMA AccountSteps ==
  ASSUME All, Accounted, Promised
  PROVE  Accounted'
<1> USE DEF Accounted
<1>1. ASSUME NEW m \in Messages, AtLeastOnce!Take(m) PROVE Accounted'
  BY <1>1 DEF AtLeastOnce!Take, HeldMessages
<1>2. ASSUME NEW m \in Messages, AtLeastOnce!Finish(m) PROVE Accounted'
  BY <1>2 DEF AtLeastOnce!Finish, HeldMessages
<1>3. ASSUME NEW m \in Messages, AtLeastOnce!Settle(m) PROVE Accounted'
  BY <1>3 DEF AtLeastOnce!Settle, HeldMessages
<1>4. ASSUME NEW M \in SUBSET HeldMessages, AtLeastOnce!Return(M) PROVE Accounted'
  BY <1>4 DEF AtLeastOnce!Return, HeldMessages
<1> QED
  BY <1>1, <1>2, <1>3, <1>4 DEF Promised, AtLeastOnce!Next, AtLeastOnce!vars, HeldMessages

LEMMA StopInvariance == Spec => []StopInv
<1>1. Init => StopInv
  BY Initially, InitialTrace, InitialStop DEF StopInv, All
<1>2. StopInv /\ [Next]_vars => StopInv'
  BY Steps, TraceSteps, LeakSteps, WaitSteps, AccountSteps DEF StopInv, All
<1> QED
  BY <1>1, <1>2, PTL DEF Spec

\* Whatever recover() was doing when stop() was called: when stop() has resolved,
\* no handler runs, nothing is open at the broker, and no message is lost.
THEOREM CleanWhenStopped == Spec => []StoppedIsClean
<1>1. StopInv => StoppedIsClean
  BY DEF StopInv, All, Traced, Served, StopWaits, Accounted, HeldMessages, StoppedIsClean, Clean
<1> QED
  BY <1>1, StopInvariance, PTL

\* No delivery is accepted once stop() was called, also none of a subscription
\* that the consume call of a running recovery still acquires.
THEOREM NoneAfterStop == Spec => NothingAcceptedAfterStop
<1>1. All /\ [Next]_vars => [closed => Len(tail') <= Len(tail)]_vars
  <2> SUFFICES ASSUME All, [Next]_vars, closed PROVE Len(tail') <= Len(tail)
    OBVIOUS
  <2>1. tail \in Seq(Deliveries) /\ Len(tail) \in Nat
    BY DEF All, Traced, ThingTypes
  <2>2. ASSUME NEW d \in wire, Receive(d) PROVE tail' = tail
    BY <2>2 DEF Receive, Acceptable
  <2>3. CASE HandlerSucceeds \/ HandlerFails
    <3>1. tail # <<>> /\ tail' = Tail(tail)
      BY <2>3 DEF HandlerSucceeds, HandlerFails, HandlerEnds
    <3> QED
      BY <2>1, <3>1
  <2>4. CASE ~(HandlerSucceeds \/ HandlerFails \/ \E d \in wire : Receive(d))
    <3>1. tail' = tail
      BY <2>4 DEF Next, vars, StartConsumer, TimerFires, Connect, ConnectFails, CreateChannel, Answer,
         Checked, GoOn, Subscribed, CallFails, ChannelClosed, ConnectionClosed, SubscriptionClosed,
         Drop, CloseNoticed, CancelConsumer, CancelNoticed, Deliver, BrokerSettles, Stop,
         StopCancels, StopCloses
    <3> QED
      BY <2>1, <3>1
  <2> QED
    BY <2>1, <2>2, <2>3, <2>4
<1>2. Spec => []All
  BY StopInvariance, PTL DEF StopInv
<1> QED
  BY <1>1, <1>2, PTL DEF Spec, NothingAcceptedAfterStop
================================================================================
