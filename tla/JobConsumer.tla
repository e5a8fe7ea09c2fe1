----------------------------- MODULE JobConsumer -----------------------------
(***************************************************************************)
(* The job consumer of packages/jobs/src/consumer.ts after its creation:   *)
(* one connection, one channel and one subscription that the broker may    *)
(* take away at any await, the recovery that replaces them, the deliveries *)
(* that are processed one after the other, start() and stop().             *)
(*                                                                         *)
(* An event handler runs at once; the code behind an await runs later.  So *)
(* an answered call (reply) and the code that goes on with it are two      *)
(* steps, and a close or cancel event may come in between.  Whatever is    *)
(* lost is lost at the broker first and noticed by the client later.       *)
(*                                                                         *)
(* A connection is the pair <<k, 0>>, a channel of it a pair <<k, n>>.  The*)
(* delay of a recovery is not modelled.  A message that no handler accepts *)
(* is rejected like one whose handler fails.                               *)
(*                                                                         *)
(* A definition whose name ends in Slip is the one after it with a mistake;*)
(* the specification does not use it.                                      *)
(***************************************************************************)
EXTENDS Naturals, Sequences, Functions

CONSTANTS
  Messages,        \* the jobs in the queue
  MaxDisruptions,  \* bound: lost channels and connections, cancelled
                   \* subscriptions and failed connection attempts
  MaxFailures      \* bound: handlers that fail

ASSUME BoundsAssumption == MaxDisruptions \in Nat /\ MaxFailures \in Nat

VARIABLES
  connection,          \* the consumer's variables of these names
  channel,
  subscription,
  subscriptionVersion,
  recoveryTimer,
  started,
  closed,
  activation,          \* the promise of waitForInitialActivation()
  tail,                \* accepted deliveries; the first is being handled
  step,                \* the await recover() is at; "idle": it is not running
  reply,               \* what became of the call it awaits
  own,                 \* its local variables
  stopping,            \* where stop() is
  opened,              \* how many connections and channels there were
  open,                \* connections and channels the client takes for open
  lost,                \* those of them that the broker has dropped
  consumers,           \* subscriptions the broker delivers to
  notices,             \* channels with a cancel notice on its way
  queued,              \* messages in the queue
  unacked,             \* deliveries the broker waits for
  wire,                \* deliveries on their way to the client
  answers,             \* acks and rejects on their way to the broker
  done,                \* acknowledged messages
  disruptions,
  failures

clientVars == <<connection, channel, subscription, recoveryTimer, activation>>
recoverVars == <<step, reply, own, subscriptionVersion>>
stopVars == <<started, closed, stopping>>
netVars == <<opened, open, lost, notices>>
queueVars == <<consumers, queued, unacked, wire, answers, done>>
countVars == <<disruptions, failures>>
vars == <<clientVars, recoverVars, stopVars, tail, netVars, queueVars, countVars>>

None == <<0, 0>>
NoSubscription == [channel |-> None, version |-> 0]
\* recoveryConnection, ownsRecoveryConnection, nextChannel, version, cancelled.
NoOwn == [connection |-> None, owned |-> FALSE, channel |-> None,
          version |-> 0, cancelled |-> FALSE]

ConnectionOf(c) == <<c[1], 0>>
\* A connection and its channels.
Family(k) == {x \in open : ConnectionOf(x) = k}

\* createJobConsumer() has connected and checked the queue.
Init ==
  /\ connection = <<1, 0>>
  /\ channel = <<1, 1>>
  /\ subscription = NoSubscription
  /\ subscriptionVersion = 0
  /\ recoveryTimer = FALSE
  /\ started = FALSE
  /\ closed = FALSE
  /\ activation = "none"
  /\ tail = <<>>
  /\ step = "idle"
  /\ reply = "none"
  /\ own = NoOwn
  /\ stopping = "no"
  /\ opened = 1
  /\ open = {<<1, 0>>, <<1, 1>>}
  /\ lost = {}
  /\ consumers = {}
  /\ notices = {}
  /\ queued = Messages
  /\ unacked = {}
  /\ wire = {}
  /\ answers = {}
  /\ done = {}
  /\ disruptions = 0
  /\ failures = 0

-----------------------------------------------------------------------------
(***************************************************************************)
(* Pieces of the handlers.                                                 *)
(***************************************************************************)
FailActivation ==
  activation' = IF activation = "pending" THEN "rejected" ELSE activation

\* scheduleRecovery(), when `needed`.
ScheduleRecovery(needed) ==
  recoveryTimer' = (recoveryTimer \/ (needed /\ ~closed /\ step = "idle"))

\* What the broker does with the channels in S when they are gone.
Released(S) ==
  /\ consumers' = {s \in consumers : s.channel \notin S}
  /\ unacked' = {d \in unacked : d.channel \notin S}
  /\ queued' = queued \cup {d.message : d \in {e \in unacked : e.channel \in S}}
  /\ answers' = {a \in answers : a.delivery.channel \notin S}
  /\ done' = done

\* The client sees the connections and channels in S close.
Closed(S) ==
  /\ open' = open \ S
  /\ lost' = lost \ S
  /\ notices' = notices \ S
  /\ wire' = {d \in wire : d.channel \notin S}

\* The client closes S: what it sent before is carried out before.
Close(S) ==
  /\ \A a \in answers : a.delivery.channel \notin S
  /\ Released(S)
  /\ Closed(S)

-----------------------------------------------------------------------------
(***************************************************************************)
(* start(), the timer, and the first lines of recover().                   *)
(***************************************************************************)
Available(begun) == channel # None /\ (begun => subscription # NoSubscription)

\* subscribe() on channel c.
Subscribe(k, owned, c) ==
  /\ step' = "rechecking"
  /\ subscriptionVersion' = subscriptionVersion + 1
  /\ own' = [connection |-> k, owned |-> owned, channel |-> c,
             version |-> subscriptionVersion + 1, cancelled |-> FALSE]

StartRecovery(begun) ==
  IF step # "idle" \/ closed \/ Available(begun)
  THEN UNCHANGED recoverVars
  ELSE /\ reply' = "none"
       /\ \/ /\ channel # None
             /\ Subscribe(connection, FALSE, channel)
          \/ /\ channel = None
             /\ step' = IF connection = None THEN "connecting" ELSE "creating"
             /\ own' = [NoOwn EXCEPT !.connection = connection]
             /\ UNCHANGED subscriptionVersion

StartConsumer ==
  /\ ~started
  /\ ~closed
  /\ started' = TRUE
  /\ activation' = "pending"
  /\ StartRecovery(TRUE)
  /\ UNCHANGED <<connection, channel, subscription, recoveryTimer, closed,
                 stopping, tail, netVars, queueVars, countVars>>

TimerFires ==
  /\ recoveryTimer
  /\ recoveryTimer' = FALSE
  /\ StartRecovery(started)
  /\ UNCHANGED <<connection, channel, subscription, activation, stopVars, tail,
                 netVars, queueVars, countVars>>

-----------------------------------------------------------------------------
(***************************************************************************)
(* recover().  It waits for                                                *)
(*   connecting, creating   a connection, a channel                        *)
(*   checking               checkQueue of createCheckedChannel()           *)
(*   rechecking, prefetching, consuming   the calls of subscribe()         *)
(*   closingChannel, closingConnection    the clean-up of a failure        *)
(*   withdrawing            the end of a subscription it cannot use        *)
(***************************************************************************)
SettleSlip ==
  /\ step' = "idle"
  /\ reply' = "none"
  /\ own' = NoOwn
  /\ UNCHANGED <<subscriptionVersion, recoveryTimer>>
\* The attempt is over; what was lost meanwhile is taken up again.
Settle ==
  /\ step' = "idle"
  /\ reply' = "none"
  /\ own' = NoOwn
  /\ recoveryTimer' = (recoveryTimer \/
       (~closed /\ (channel' = None \/ (started /\ subscription' = NoSubscription))))
  /\ UNCHANGED subscriptionVersion

GoTo(place) == step' = place /\ reply' = "none" /\ UNCHANGED subscriptionVersion

\* The channel cannot be used: it is given up and closed.
GiveUpChannel ==
  /\ FailActivation
  /\ channel' = IF channel = own.channel THEN None ELSE channel
  /\ GoTo("closingChannel")
  /\ UNCHANGED <<connection, subscription, recoveryTimer, own>>

\* The end of the catch block: a connection of its own is closed as well.
GiveUp ==
  /\ FailActivation
  /\ IF own.owned
     THEN /\ connection' = IF connection = own.connection THEN None ELSE connection
          /\ GoTo("closingConnection")
          /\ UNCHANGED <<channel, subscription, recoveryTimer, own>>
     ELSE /\ UNCHANGED <<connection, channel, subscription>>
          /\ Settle

\* What createCheckedChannel() and subscribe() look at after each await.
Interrupted ==
  closed \/ connection # own.connection \/ channel # own.channel

Connect ==
  /\ step = "connecting"
  /\ opened' = opened + 1
  /\ LET k == <<opened + 1, 0>> IN
       /\ open' = open \cup {k}
       /\ own' = [own EXCEPT !.connection = k, !.owned = TRUE]
       /\ connection' = IF closed THEN None ELSE k
  /\ GoTo(IF closed THEN "closingConnection" ELSE "creating")
  /\ UNCHANGED <<channel, subscription, recoveryTimer, activation, stopVars, tail,
                 lost, notices, queueVars, countVars>>

ConnectFails ==
  /\ step = "connecting"
  /\ disruptions < MaxDisruptions
  /\ disruptions' = disruptions + 1
  /\ GiveUp
  /\ UNCHANGED <<stopVars, tail, netVars, queueVars, failures>>

CreateChannel ==
  /\ step = "creating"
  /\ own.connection \in open \ lost
  /\ opened' = opened + 1
  /\ LET c == <<own.connection[1], opened + 1>> IN
       /\ open' = open \cup {c}
       /\ own' = [own EXCEPT !.channel = c]
       /\ IF closed \/ connection # own.connection
          THEN /\ FailActivation
               /\ GoTo("closingChannel")
               /\ UNCHANGED channel
          ELSE /\ channel' = c
               /\ GoTo("checking")
               /\ UNCHANGED activation
  /\ UNCHANGED <<connection, subscription, recoveryTimer, stopVars, tail,
                 lost, notices, queueVars, countVars>>

\* The broker answers a call on the channel.
Answer ==
  /\ step \in {"checking", "rechecking", "prefetching", "consuming"}
  /\ reply = "none"
  /\ own.channel \in open \ lost
  /\ reply' = "ok"
  /\ consumers' = IF step = "consuming"
                  THEN consumers \cup {[channel |-> own.channel, version |-> own.version]}
                  ELSE consumers
  /\ UNCHANGED <<clientVars, step, own, subscriptionVersion, stopVars, tail,
                 netVars, queued, unacked, wire, answers, done, countVars>>

Checked ==
  /\ step = "checking"
  /\ reply = "ok"
  /\ IF Interrupted
     THEN GiveUpChannel
     ELSE IF started
          THEN /\ Subscribe(own.connection, own.owned, own.channel)
               /\ reply' = "none"
               /\ UNCHANGED clientVars
          ELSE /\ UNCHANGED <<connection, channel, subscription, activation>>
               /\ Settle
  /\ UNCHANGED <<stopVars, tail, netVars, queueVars, countVars>>

GoOn ==
  /\ step \in {"rechecking", "prefetching"}
  /\ reply = "ok"
  /\ IF Interrupted
     THEN GiveUpChannel
     ELSE /\ GoTo(IF step = "rechecking" THEN "prefetching" ELSE "consuming")
          /\ UNCHANGED <<clientVars, own>>
  /\ UNCHANGED <<stopVars, tail, netVars, queueVars, countVars>>

\* The subscription is accepted for a channel that is still the current one.
Activate ==
  /\ subscription' = [channel |-> own.channel, version |-> own.version]
  /\ activation' = IF activation = "pending" /\ ~closed THEN "resolved" ELSE activation
  /\ recoveryTimer' = FALSE
  /\ step' = "idle"
  /\ reply' = "none"
  /\ own' = NoOwn
  /\ UNCHANGED <<connection, channel, subscriptionVersion>>

\* The broker has cancelled the subscription that is being set up.
Withdrawn == own.cancelled \/ own.version # subscriptionVersion

SubscribedSlip ==
  /\ step = "consuming"
  /\ reply = "ok"
  /\ IF Withdrawn THEN GiveUpChannel ELSE Activate
  /\ UNCHANGED <<stopVars, tail, netVars, queueVars, countVars>>
Subscribed ==
  /\ step = "consuming"
  /\ reply = "ok"
  /\ IF Withdrawn
     THEN GiveUpChannel
     ELSE IF connection # own.connection \/ channel # own.channel
          THEN /\ FailActivation
               /\ GoTo("withdrawing")
               /\ UNCHANGED <<connection, channel, subscription, recoveryTimer, own>>
          ELSE Activate
  /\ UNCHANGED <<stopVars, tail, netVars, queueVars, countVars>>

\* A call rejects because its connection or channel closed.
CallFails ==
  /\ reply = "error"
  /\ IF step = "creating" THEN GiveUp ELSE GiveUpChannel
  /\ UNCHANGED <<stopVars, tail, netVars, queueVars, countVars>>

ChannelClosed ==
  /\ step = "closingChannel"
  /\ Close({own.channel})
  /\ GiveUp
  /\ UNCHANGED <<stopVars, tail, opened, countVars>>

ConnectionClosed ==
  /\ step = "closingConnection"
  /\ Close(Family(own.connection))
  /\ UNCHANGED <<connection, channel, subscription, activation>>
  /\ Settle
  /\ UNCHANGED <<stopVars, tail, opened, countVars>>

SubscriptionClosed ==
  /\ step = "withdrawing"
  /\ Close({own.channel})
  /\ UNCHANGED <<connection, channel, subscription, activation>>
  /\ Settle
  /\ UNCHANGED <<stopVars, tail, opened, countVars>>

-----------------------------------------------------------------------------
(***************************************************************************)
(* Connections and channels are lost, and subscriptions cancelled, at the  *)
(* broker first; the close and cancel events follow.                       *)
(***************************************************************************)
Drop(x) ==
  /\ x \in open \ lost
  /\ disruptions < MaxDisruptions
  /\ disruptions' = disruptions + 1
  /\ LET S == IF x = ConnectionOf(x) THEN Family(x) ELSE {x} IN
       /\ lost' = lost \cup S
       /\ Released(S)
  /\ UNCHANGED <<clientVars, recoverVars, stopVars, tail, opened, open, notices,
                 wire, failures>>

\* What recover() waits for and a close event makes fail.
Awaited ==
  CASE step = "creating" -> own.connection
    [] step \in {"checking", "rechecking", "prefetching", "consuming"} -> own.channel
    [] OTHER -> None

\* handleConnectionClose(), handleChannelClose(): a closed connection closes
\* its channels first.
CloseNoticed(x) ==
  /\ x \in lost
  /\ x # ConnectionOf(x) => ConnectionOf(x) \notin lost
  /\ LET S == IF x = ConnectionOf(x) THEN Family(x) ELSE {x}
         Affected == connection \in S \/ channel \in S
     IN
       /\ Closed(S)
       /\ connection' = IF connection \in S THEN None ELSE connection
       /\ channel' = IF Affected THEN None ELSE channel
       /\ subscription' = IF connection \in S \/ (Affected /\ subscription.channel \in S)
                          THEN NoSubscription ELSE subscription
       /\ IF Affected THEN FailActivation ELSE UNCHANGED activation
       /\ ScheduleRecovery(Affected)
       /\ reply' = IF reply = "none" /\ Awaited \in S THEN "error" ELSE reply
  /\ UNCHANGED <<step, own, subscriptionVersion, stopVars, tail, opened,
                 consumers, queued, unacked, answers, done, countVars>>

CancelConsumer(s) ==
  /\ s \in consumers
  /\ disruptions < MaxDisruptions
  /\ disruptions' = disruptions + 1
  /\ consumers' = consumers \ {s}
  /\ notices' = notices \cup {s.channel}
  /\ UNCHANGED <<clientVars, recoverVars, stopVars, tail, opened, open, lost,
                 queued, unacked, wire, answers, done, failures>>

\* The consume callback with null and handleSubscriptionCancellation(); the
\* notice comes after the deliveries that the broker sent before it.
CancelNoticed(c) ==
  /\ c \in notices
  /\ \A d \in wire : d.channel # c
  /\ notices' = notices \ {c}
  /\ own' = IF step = "consuming" /\ own.channel = c
            THEN [own EXCEPT !.cancelled = TRUE] ELSE own
  /\ IF channel = c /\ ~closed
     THEN /\ subscriptionVersion' = subscriptionVersion + 1
          /\ subscription' = NoSubscription
          /\ FailActivation
          /\ ScheduleRecovery(TRUE)
     ELSE UNCHANGED <<subscriptionVersion, subscription, activation, recoveryTimer>>
  /\ UNCHANGED <<connection, channel, step, reply, stopVars, tail, opened, open,
                 lost, queueVars, countVars>>

-----------------------------------------------------------------------------
(***************************************************************************)
(* Deliveries.                                                             *)
(***************************************************************************)

\* Prefetch 1: a subscription has at most one delivery that is not settled.
Deliver(s, m) ==
  /\ m \in queued
  /\ \A d \in unacked : d.channel # s.channel \/ d.version # s.version
  /\ LET d == [channel |-> s.channel, version |-> s.version, message |-> m] IN
       /\ unacked' = unacked \cup {d}
       /\ wire' = wire \cup {d}
  /\ queued' = queued \ {m}
  /\ UNCHANGED <<clientVars, recoverVars, stopVars, tail, netVars, consumers,
                 answers, done, countVars>>

AcceptableSlip(d) ==
  d.version = subscription.version /\ ~closed /\ channel = d.channel
AcceptableLateSlip(d) ==
  d.version = subscriptionVersion /\ channel = d.channel
Acceptable(d) ==
  d.version = subscriptionVersion /\ ~closed /\ channel = d.channel

\* The consume callback; queueMessage().
Receive(d) ==
  /\ d \in wire
  /\ wire' = wire \ {d}
  /\ tail' = IF Acceptable(d) THEN Append(tail, d) ELSE tail
  /\ UNCHANGED <<clientVars, recoverVars, stopVars, netVars, consumers, queued,
                 unacked, answers, done, countVars>>

HandlerEndsSlip(ok) ==
  /\ tail # <<>>
  /\ tail' = Tail(tail)
  /\ answers' = answers \cup {[delivery |-> Head(tail), ok |-> ok]}
  /\ UNCHANGED <<clientVars, recoverVars, stopVars, netVars, consumers, queued,
                 unacked, wire, done, disruptions>>
\* processMessage() ends: an ack or reject is written to the channel that the
\* delivery came from, if that is still the current one.
HandlerEnds(ok) ==
  /\ tail # <<>>
  /\ tail' = Tail(tail)
  /\ answers' = IF channel = Head(tail).channel /\ channel \notin lost
                THEN answers \cup {[delivery |-> Head(tail), ok |-> ok]}
                ELSE answers
  /\ UNCHANGED <<clientVars, recoverVars, stopVars, netVars, consumers, queued,
                 unacked, wire, done, disruptions>>

HandlerSucceeds == HandlerEnds(TRUE) /\ UNCHANGED failures

HandlerFails ==
  /\ failures < MaxFailures
  /\ failures' = failures + 1
  /\ HandlerEnds(FALSE)

\* An ack or a reject with requeue reaches the broker.
BrokerSettles(a) ==
  /\ a \in answers
  /\ answers' = answers \ {a}
  /\ unacked' = unacked \ {a.delivery}
  /\ done' = IF a.ok THEN done \cup {a.delivery.message} ELSE done
  /\ queued' = IF a.ok THEN queued ELSE queued \cup {a.delivery.message}
  /\ UNCHANGED <<clientVars, recoverVars, stopVars, tail, netVars, consumers,
                 wire, countVars>>

-----------------------------------------------------------------------------
(***************************************************************************)
(* stop().                                                                 *)
(***************************************************************************)
StopSlip ==
  /\ stopping = "no"
  /\ stopping' = "recovering"
  /\ closed' = TRUE
  /\ recoveryTimer' = FALSE
  /\ UNCHANGED <<connection, channel, subscription, activation, recoverVars,
                 started, tail, netVars, queueVars, countVars>>
Stop ==
  /\ stopping = "no"
  /\ stopping' = "recovering"
  /\ closed' = TRUE
  /\ FailActivation
  /\ recoveryTimer' = FALSE
  /\ UNCHANGED <<connection, channel, subscription, recoverVars, started, tail,
                 netVars, queueVars, countVars>>

\* The recovery that was running has ended; the subscription is cancelled.
StopCancelsSlip ==
  /\ stopping = "recovering"
  /\ stopping' = "draining"
  /\ subscription' = NoSubscription
  /\ consumers' = consumers \ {subscription}
  /\ UNCHANGED <<connection, channel, recoveryTimer, activation, recoverVars,
                 started, closed, tail, netVars, queued, unacked, wire, answers,
                 done, countVars>>
StopCancels ==
  /\ stopping = "recovering"
  /\ step = "idle"
  /\ stopping' = "draining"
  /\ subscription' = NoSubscription
  /\ consumers' = consumers \ {subscription}
  /\ UNCHANGED <<connection, channel, recoveryTimer, activation, recoverVars,
                 started, closed, tail, netVars, queued, unacked, wire, answers,
                 done, countVars>>

\* The accepted deliveries are drained; channel and connection are closed.
StopCloses ==
  /\ stopping = "draining"
  /\ tail = <<>>
  /\ stopping' = "stopped"
  /\ channel' = None
  /\ connection' = None
  /\ Close({channel} \cup Family(connection))
  /\ UNCHANGED <<subscription, recoveryTimer, activation, recoverVars, started,
                 closed, tail, opened, countVars>>

-----------------------------------------------------------------------------
Recovering ==
  \/ Connect \/ ConnectFails \/ CreateChannel \/ Answer
  \/ Checked \/ GoOn \/ Subscribed \/ CallFails
  \/ ChannelClosed \/ ConnectionClosed \/ SubscriptionClosed

Next ==
  \/ StartConsumer \/ TimerFires
  \/ Connect \/ ConnectFails \/ CreateChannel \/ Answer
  \/ Checked \/ GoOn \/ Subscribed \/ CallFails
  \/ ChannelClosed \/ ConnectionClosed \/ SubscriptionClosed
  \/ \E x \in open : Drop(x) \/ CloseNoticed(x)
  \/ \E s \in consumers : CancelConsumer(s)
  \/ \E c \in notices : CancelNoticed(c)
  \/ \E s \in consumers, m \in Messages : Deliver(s, m)
  \/ \E d \in wire : Receive(d)
  \/ HandlerSucceeds \/ HandlerFails
  \/ \E a \in answers : BrokerSettles(a)
  \/ Stop \/ StopCancels \/ StopCloses

Spec == Init /\ [][Next]_vars

\* Every call is answered or fails, every handler ends (the package has no time
\* limit of its own, docs/job-queue.md), and the event loop gets to every event.
Fairness ==
  /\ WF_vars(TimerFires)
  /\ WF_vars(Recovering)
  /\ WF_vars(\E x \in open : CloseNoticed(x))
  /\ WF_vars(\E c \in notices : CancelNoticed(c))
  /\ WF_vars(\E s \in consumers, m \in Messages : Deliver(s, m))
  /\ WF_vars(\E d \in wire : Receive(d))
  /\ WF_vars(HandlerSucceeds \/ HandlerFails)
  /\ WF_vars(\E a \in answers : BrokerSettles(a))
  /\ WF_vars(StopCancels)
  /\ WF_vars(StopCloses)

FairSpec == Spec /\ Fairness

-----------------------------------------------------------------------------
(***************************************************************************)
(* Properties.                                                             *)
(***************************************************************************)
Ids == Nat \X Nat
Subscriptions == [channel : Ids, version : Nat]
Deliveries == [channel : Ids, version : Nat, message : Messages]

\* Every variable has its type.
TypeOK ==
  /\ {connection, channel} \subseteq Ids
  /\ subscription \in Subscriptions
  /\ subscriptionVersion \in Nat
  /\ {recoveryTimer, started, closed} \subseteq BOOLEAN
  /\ activation \in {"none", "pending", "resolved", "rejected"}
  /\ tail \in Seq(Deliveries)
  /\ step \in {"idle", "connecting", "creating", "checking", "rechecking",
               "prefetching", "consuming", "closingChannel",
               "closingConnection", "withdrawing"}
  /\ reply \in {"none", "ok", "error"}
  /\ own \in [connection : Ids, owned : BOOLEAN, channel : Ids, version : Nat,
              cancelled : BOOLEAN]
  /\ stopping \in {"no", "recovering", "draining", "stopped"}
  /\ opened \in Nat
  /\ open \subseteq Ids
  /\ lost \subseteq open
  /\ consumers \subseteq Subscriptions
  /\ notices \subseteq open
  /\ queued \subseteq Messages
  /\ {unacked, wire} \subseteq SUBSET Deliveries
  /\ answers \subseteq [delivery : unacked, ok : BOOLEAN]
  /\ done \subseteq Messages
  /\ disruptions \in 0 .. MaxDisruptions
  /\ failures \in 0 .. MaxFailures

\* The event handlers and the end of recover() leave no gap: as long as the
\* consumer lacks a channel or a wanted subscription, an attempt to get it is
\* running or scheduled, whatever was lost at whichever await.
RecoveryIsOwed ==
  ~closed /\ ~Available(started) => recoveryTimer \/ step # "idle"

\* On channels that recover() or the broker is about to close.
Doomed(c) ==
  \/ c \in lost
  \/ step \in {"closingChannel", "withdrawing"} /\ own.channel = c
  \/ step = "closingConnection" /\ own.connection = ConnectionOf(c)

\* The consume callback never drops a delivery that nothing else returns to the
\* queue: with prefetch 1 that would silence the subscription for good.  A
\* delivery the broker waits for is on its way and will be accepted, is queued
\* or handled, has its answer on its way, or its channel is about to close.
NoStrandedDelivery ==
  \A d \in unacked :
    \/ d \in Range(tail)
    \/ \E a \in answers : a.delivery = d
    \/ d \in wire /\ Acceptable(d)
    \/ Doomed(d.channel)
    \/ closed

\* Once stop() was called no delivery is accepted any more, also none of a
\* subscription that a pending consume call still acquires.
NothingAcceptedAfterStop == [][closed => Len(tail') <= Len(tail)]_vars

\* When stop() has resolved, nothing it acquired is left behind: no handler
\* runs, no connection, channel or subscription is open, no recovery goes on,
\* and every message is back in the queue or acknowledged.
Clean ==
  /\ tail = <<>>
  /\ open = {} /\ consumers = {} /\ unacked = {}
  /\ step = "idle" /\ ~recoveryTimer
  /\ queued \cup done = Messages
StoppedIsClean == stopping = "stopped" => Clean

\* A subscription is accepted only on the channel and connection that are the
\* current ones behind the last await, and only if no cancellation came in
\* between; the activation promise has its outcome then.
AcceptedIsCurrent ==
  [][subscription' \notin {subscription, NoSubscription} =>
       /\ channel' = subscription'.channel
       /\ connection' = ConnectionOf(channel')
       /\ subscription'.version = subscriptionVersion'
       /\ activation' # "pending"]_vars

\* The promise to the queue (module Delivery): a message is acknowledged only
\* after the handler of that delivery succeeded, and goes back otherwise.
AtLeastOnce == INSTANCE Delivery WITH
  held <- {d.message : d \in unacked},
  finished <- {a.delivery.message : a \in {b \in answers : b.ok}}
ImplementsDelivery == AtLeastOnce!Spec

\* A consumer that was started and is not stopped always gets back to a
\* subscription on a channel that the broker serves.
Live ==
  /\ channel \in open \ lost
  /\ subscription \in consumers
  /\ subscription.channel = channel
SubscribesAgain == started ~> [](closed \/ Live)

\* A started consumer that is not stopped gets every message done.
EveryJobDone == \A m \in Messages : started ~> (closed \/ m \in done)

\* waitForInitialActivation() always has an outcome.
ActivationSettles == activation = "pending" ~> activation # "pending"

\* stop() always resolves, whatever recover() is waiting for when it is called,
\* and nothing it acquired is left behind or comes up afterwards.
StopResolves == closed ~> [](stopping = "stopped" /\ Clean)

=============================================================================
