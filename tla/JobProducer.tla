----------------------------- MODULE JobProducer -----------------------------
(***************************************************************************)
(* The job producer of packages/jobs/src/producer.ts: the connection and   *)
(* confirm channel it publishes on, their recovery, mandatory returns and  *)
(* publisher confirmations, the full write buffer, and close().            *)
(*                                                                         *)
(* As in JobConsumer an event handler runs at once and the code behind an  *)
(* await runs later: the answer to a call (reply) and the code that goes   *)
(* on with it are two steps, with events in between.  A connection is the  *)
(* pair <<k, 0>>, a channel of it a pair <<k, n>>; the broker loses them   *)
(* first and the client notices later.  The delay of a recovery is left    *)
(* out.  A refused publish() changes nothing and is no action.             *)
(*                                                                         *)
(* A definition whose name ends in Slip is the one after it with a mistake;*)
(* the specification does not use it.                                      *)
(***************************************************************************)
EXTENDS Naturals, FiniteSets

CONSTANTS
  Events,          \* the job events that are published
  LateChannelLoss, \* may a channel alone be seen to close between the answer
                   \* to its exchange check and the code that goes on with it?
  MaxAttempts,     \* bound: accepted calls of publish()
  MaxRefusals,     \* bound: publishes that the broker returns or nacks
  MaxDisruptions   \* bound: lost channels and connections, failed connects

ASSUME ConstantsAssumption ==
  /\ LateChannelLoss \in BOOLEAN
  /\ {MaxAttempts, MaxRefusals, MaxDisruptions} \subseteq Nat

VARIABLES
  connection,      \* the producer's variables of these names
  channel,
  ready,
  established,
  closed,
  recoveryTimer,
  backpressured,   \* backpressuredChannel
  pending,         \* pendingPublishes
  step,            \* the await of the setup or of recover(); "idle": neither
                   \* runs; "failed": the setup has thrown
  reply,           \* what became of the call it awaits
  own,             \* its local variables
  stopping,        \* where close() is
  active,          \* its activeChannel and activeConnection
  opened,          \* how many connections and channels there were
  open,            \* connections and channels the client takes for open
  lost,            \* those of them that the broker has dropped
  full,            \* channels whose write buffer is full
  sent,            \* attempts on their way to the broker
  returns,         \* mandatory returns on their way to the client
  confirms,        \* confirmations on their way to the client
  routed,          \* attempts that reached the queue
  nacked,          \* attempts the broker refused with a negative confirmation
  resolved,        \* attempts whose promise was resolved
  attempts,
  refusals,
  disruptions

clientVars == <<connection, channel, ready, established, recoveryTimer>>
recoverVars == <<step, reply, own>>
closeVars == <<closed, stopping, active>>
publishVars == <<backpressured, pending, resolved>>
netVars == <<opened, open, lost>>
trafficVars == <<full, sent, returns, confirms>>
countVars == <<attempts, refusals, disruptions>>
brokerVars == <<routed, nacked>>
vars == <<clientVars, recoverVars, closeVars, publishVars, netVars, trafficVars,
          brokerVars, countVars>>

None == <<0, 0>>
\* recoveryConnection, ownsRecoveryConnection and nextChannel.
NoOwn == [connection |-> None, owned |-> FALSE, channel |-> None]
NoActive == [connection |-> None, channel |-> None]

ConnectionOf(c) == <<c[1], 0>>
\* A connection and its channels; a channel alone.
Family(x) == IF x = ConnectionOf(x) THEN {y \in open : ConnectionOf(y) = x} ELSE {x}

On(A, S) == {a \in A : a.channel \in S}

\* createJobProducer() is about to connect.
Init ==
  /\ connection = None
  /\ channel = None
  /\ ready = FALSE
  /\ established = FALSE
  /\ closed = FALSE
  /\ recoveryTimer = FALSE
  /\ backpressured = None
  /\ pending = {}
  /\ step = "connecting"
  /\ reply = "none"
  /\ own = NoOwn
  /\ stopping = "no"
  /\ active = NoActive
  /\ opened = 0
  /\ open = {}
  /\ lost = {}
  /\ full = {}
  /\ sent = {}
  /\ returns = {}
  /\ confirms = {}
  /\ routed = {}
  /\ nacked = {}
  /\ resolved = {}
  /\ attempts = 0
  /\ refusals = 0
  /\ disruptions = 0

-----------------------------------------------------------------------------
(***************************************************************************)
(* Pieces of the handlers.                                                 *)
(***************************************************************************)
\* scheduleRecovery(), when `needed`.
ScheduleRecovery(needed) ==
  recoveryTimer' = (recoveryTimer \/ (needed /\ ~closed))

\* The client sees the connections and channels in S close.
Gone(S) ==
  /\ open' = open \ S
  /\ lost' = lost \ S
  /\ full' = full \ S
  /\ sent' = sent \ On(sent, S)
  /\ returns' = returns \ On(returns, S)
  /\ confirms' = {c \in confirms : c.attempt.channel \notin S}

-----------------------------------------------------------------------------
(***************************************************************************)
(* The setup and recover().  They wait for                                 *)
(*   connecting, creating   a connection, a channel                        *)
(*   checking               checkExchange of createCheckedChannel()        *)
(*   closingChannel, closingConnection    the clean-up of a failure        *)
(***************************************************************************)
\* startRecovery() and the first lines of recover(); a timer that fires during
\* an attempt is spent.
TimerFires ==
  /\ recoveryTimer
  /\ recoveryTimer' = FALSE
  /\ IF step # "idle" \/ closed \/ ready
     THEN UNCHANGED recoverVars
     ELSE /\ step' = IF connection = None THEN "connecting" ELSE "creating"
          /\ own' = [NoOwn EXCEPT !.connection = connection]
          /\ reply' = "none"
  /\ UNCHANGED <<connection, channel, ready, established, closeVars, publishVars,
                 netVars, trafficVars, brokerVars, countVars>>

GoTo(place) == step' = place /\ reply' = "none"

SettleSlip ==
  /\ step' = IF established THEN "idle" ELSE "failed"
  /\ reply' = "none"
  /\ own' = NoOwn
  /\ UNCHANGED recoveryTimer
\* The attempt has failed: createJobProducer() throws, recover() tries again.
Settle ==
  /\ step' = IF established THEN "idle" ELSE "failed"
  /\ reply' = "none"
  /\ own' = NoOwn
  /\ ScheduleRecovery(established)

\* The catch block: a connection of its own is forgotten and closed.
GiveUp ==
  IF own.owned
  THEN /\ connection' = IF connection = own.connection THEN None ELSE connection
       /\ GoTo("closingConnection")
       /\ UNCHANGED <<own, recoveryTimer>>
  ELSE /\ UNCHANGED connection
       /\ Settle

Connect ==
  /\ step = "connecting"
  /\ opened' = opened + 1
  /\ LET k == <<opened + 1, 0>> IN
       /\ open' = open \cup {k}
       /\ own' = [own EXCEPT !.connection = k, !.owned = TRUE]
       /\ connection' = IF closed THEN None ELSE k
  /\ GoTo(IF closed THEN "closingConnection" ELSE "creating")
  /\ UNCHANGED <<channel, ready, established, recoveryTimer, closeVars, publishVars,
                 lost, trafficVars, brokerVars, countVars>>

ConnectFails ==
  /\ step = "connecting"
  /\ disruptions < MaxDisruptions
  /\ disruptions' = disruptions + 1
  /\ GiveUp
  /\ UNCHANGED <<channel, ready, established, closeVars, publishVars, netVars,
                 trafficVars, brokerVars, attempts, refusals>>

CreateChannel ==
  /\ step = "creating"
  /\ own.connection \in open \ lost
  /\ opened' = opened + 1
  /\ LET c == <<own.connection[1], opened + 1>> IN
       /\ open' = open \cup {c}
       /\ own' = [own EXCEPT !.channel = c]
  /\ GoTo("checking")
  /\ UNCHANGED <<clientVars, closeVars, publishVars, lost, trafficVars, brokerVars,
                 countVars>>

\* The broker finds the exchange.
Answer ==
  /\ step = "checking"
  /\ reply = "none"
  /\ own.channel \in open \ lost
  /\ reply' = "ok"
  /\ UNCHANGED <<clientVars, step, own, closeVars, publishVars, netVars,
                 trafficVars, brokerVars, countVars>>

\* The exchange was found; the channel is taken if its connection still counts.
Checked ==
  /\ step = "checking"
  /\ reply = "ok"
  /\ IF closed \/ connection # own.connection
     THEN /\ GoTo("closingChannel")
          /\ UNCHANGED <<clientVars, own>>
     ELSE /\ channel' = own.channel
          /\ ready' = TRUE
          /\ established' = TRUE
          /\ recoveryTimer' = FALSE
          /\ GoTo("idle")
          /\ own' = NoOwn
          /\ UNCHANGED connection
  /\ UNCHANGED <<closeVars, publishVars, netVars, trafficVars, brokerVars, countVars>>

\* createConfirmChannel() or checkExchange() rejects.
CallFails ==
  /\ reply = "error"
  /\ IF step = "checking"
     THEN /\ GoTo("closingChannel")
          /\ UNCHANGED <<connection, own, recoveryTimer>>
     ELSE GiveUp
  /\ UNCHANGED <<channel, ready, established, closeVars, publishVars, netVars,
                 trafficVars, brokerVars, countVars>>

ChannelClosed ==
  /\ step = "closingChannel"
  /\ Gone({own.channel})
  /\ GiveUp
  /\ UNCHANGED <<channel, ready, established, closeVars, publishVars, opened,
                 brokerVars, countVars>>

ConnectionClosed ==
  /\ step = "closingConnection"
  /\ Gone(Family(own.connection))
  /\ Settle
  /\ UNCHANGED <<connection, channel, ready, established, closeVars, publishVars,
                 opened, brokerVars, countVars>>

-----------------------------------------------------------------------------
(***************************************************************************)
(* publish(), the broker's side of it, and the events that settle it.      *)
(***************************************************************************)
\* An accepted call of publish().  A channel that the client has seen close
\* throws, which rejects the call at once.
Publish(e, writable) ==
  /\ ready
  /\ channel # None
  /\ backpressured # channel
  /\ attempts < MaxAttempts
  /\ attempts' = attempts + 1
  /\ LET a == [id |-> attempts + 1, event |-> e, channel |-> channel] IN
       IF channel \in open
       THEN /\ pending' = pending \cup {a}
            /\ sent' = IF channel \in lost THEN sent ELSE sent \cup {a}
            /\ full' = IF writable THEN full ELSE full \cup {channel}
            /\ backpressured' = IF writable THEN backpressured ELSE channel
       ELSE UNCHANGED <<pending, sent, full, backpressured>>
  /\ UNCHANGED <<clientVars, recoverVars, closeVars, resolved, netVars, returns,
                 confirms, brokerVars, refusals, disruptions>>

\* A channel hands its publishes to the broker in order.
IsFirst(a, A) == \A b \in On(A, {a.channel}) : a.id <= b.id

BrokerRoutes(a) ==
  /\ a \in sent
  /\ IsFirst(a, sent)
  /\ sent' = sent \ {a}
  /\ routed' = routed \cup {a}
  /\ confirms' = confirms \cup {[attempt |-> a, ok |-> TRUE]}
  /\ UNCHANGED <<clientVars, recoverVars, closeVars, publishVars, netVars, full,
                 returns, nacked, countVars>>

\* No queue is bound: the message is returned, and confirmed after that.
BrokerReturns(a) ==
  /\ a \in sent
  /\ IsFirst(a, sent)
  /\ refusals < MaxRefusals
  /\ refusals' = refusals + 1
  /\ sent' = sent \ {a}
  /\ returns' = returns \cup {a}
  /\ UNCHANGED <<clientVars, recoverVars, closeVars, publishVars, netVars, full,
                 confirms, brokerVars, attempts, disruptions>>

BrokerNacks(a) ==
  /\ a \in sent
  /\ IsFirst(a, sent)
  /\ refusals < MaxRefusals
  /\ refusals' = refusals + 1
  /\ sent' = sent \ {a}
  /\ nacked' = nacked \cup {a}
  /\ confirms' = confirms \cup {[attempt |-> a, ok |-> FALSE]}
  /\ UNCHANGED <<clientVars, recoverVars, closeVars, publishVars, netVars, full,
                 returns, routed, attempts, disruptions>>

\* Confirmations of one channel may overtake each other, but not its returns.
ReturnedAttemptSlip(a) ==
  LET candidates == On(pending, {a.channel}) IN
  {b \in candidates : \A c \in candidates : b.id <= c.id}
\* handleReturnedMessage(): the oldest pending attempt of the channel for that
\* event; failing that, the oldest of the channel.
ReturnedAttempt(a) ==
  LET candidates == On(pending, {a.channel})
      same == {b \in candidates : b.event = a.event}
      chosen == IF same # {} THEN same ELSE candidates
  IN {b \in chosen : \A c \in chosen : b.id <= c.id}

ReturnNoticed(a) ==
  /\ a \in returns
  /\ IsFirst(a, returns)
  /\ returns' = returns \ {a}
  /\ confirms' = confirms \cup {[attempt |-> a, ok |-> TRUE]}
  /\ pending' = pending \ ReturnedAttempt(a)
  /\ UNCHANGED <<clientVars, recoverVars, closeVars, backpressured, resolved,
                 netVars, full, sent, brokerVars, countVars>>

\* waitForConfirms() of close() rejects with the first nack of its channel.
WaitFails(c) ==
  stopping = "confirming" /\ ~c.ok /\ c.attempt.channel = active.channel

\* The callback of publish().
ConfirmNoticed(c) ==
  /\ c \in confirms
  /\ confirms' = confirms \ {c}
  /\ resolved' = IF c.ok THEN resolved \cup ({c.attempt} \cap pending) ELSE resolved
  /\ pending' = pending \ ({c.attempt} \cup IF WaitFails(c)
                           THEN On(pending, {active.channel}) ELSE {})
  /\ stopping' = IF WaitFails(c) THEN "closingChannel" ELSE stopping
  /\ UNCHANGED <<clientVars, recoverVars, closed, active, backpressured, netVars,
                 full, sent, returns, brokerVars, countVars>>

DrainedSlip(c) ==
  /\ c \in full \ lost
  /\ full' = full \ {c}
  /\ UNCHANGED <<clientVars, recoverVars, closeVars, publishVars, netVars,
                 sent, returns, confirms, brokerVars, countVars>>
\* The drain event of a channel.
Drained(c) ==
  /\ c \in full \ lost
  /\ full' = full \ {c}
  /\ backpressured' = IF backpressured = c THEN None ELSE backpressured
  /\ UNCHANGED <<clientVars, recoverVars, closeVars, pending, resolved, netVars,
                 sent, returns, confirms, brokerVars, countVars>>

-----------------------------------------------------------------------------
(***************************************************************************)
(* Connections and channels are lost at the broker; the close events       *)
(* follow.                                                                 *)
(***************************************************************************)
Drop(x) ==
  /\ x \in open \ lost
  /\ disruptions < MaxDisruptions
  /\ disruptions' = disruptions + 1
  /\ lost' = lost \cup Family(x)
  /\ sent' = sent \ On(sent, Family(x))
  /\ UNCHANGED <<clientVars, recoverVars, closeVars, publishVars, opened, open,
                 full, returns, confirms, brokerVars, attempts, refusals>>

Awaited ==
  CASE step = "creating" -> own.connection
    [] step = "checking" -> own.channel
    [] OTHER -> None

\* The moment LateChannelLoss is about.
BetweenCheckAndUse(x) == step = "checking" /\ reply = "ok" /\ x = own.channel

RejectedSlip(S) == IF stopping = "confirming" THEN On(pending, S) ELSE {}
\* The attempts that fail when the channels in S close: those of the current
\* channel, or of the one whose confirmations close() waits for.
Rejected(S) ==
  On(pending, S \cap {IF stopping = "confirming" THEN active.channel ELSE channel})

\* handleChannelClose(), handleConnectionClose(): a closed connection closes
\* its channels first.  waitForConfirms() rejects when its channel is gone.
CloseNoticed(x) ==
  /\ x \in lost
  /\ x # ConnectionOf(x) => ConnectionOf(x) \notin lost
  /\ BetweenCheckAndUse(x) => LateChannelLoss
  /\ LET S == Family(x)
         affected == connection \in S \/ channel \in S
         waiting == stopping = "confirming" /\ active.channel \in S
     IN
       /\ Gone(S)
       /\ connection' = IF connection \in S THEN None ELSE connection
       /\ channel' = IF affected THEN None ELSE channel
       /\ ready' = (ready /\ ~affected)
       /\ backpressured' = IF affected THEN None ELSE backpressured
       /\ pending' = pending \ Rejected(S)
       /\ stopping' = IF waiting THEN "closingChannel" ELSE stopping
       /\ ScheduleRecovery(established /\ affected)
       /\ reply' = IF reply = "none" /\ Awaited \in S THEN "error" ELSE reply
  /\ UNCHANGED <<established, step, own, closed, active, resolved, opened, brokerVars,
                 countVars>>

-----------------------------------------------------------------------------
(***************************************************************************)
(* close().                                                                *)
(***************************************************************************)
CloseProducer ==
  /\ established
  /\ stopping = "no"
  /\ stopping' = "recovering"
  /\ closed' = TRUE
  /\ ready' = FALSE
  /\ recoveryTimer' = FALSE
  /\ UNCHANGED <<connection, channel, established, recoverVars, active, publishVars,
                 netVars, trafficVars, brokerVars, countVars>>

TakeOverSlip ==
  /\ stopping = "recovering"
  /\ active' = [connection |-> connection, channel |-> channel]
  /\ connection' = None
  /\ channel' = None
  /\ backpressured' = None
  /\ stopping' = IF channel = None THEN "closingConnection" ELSE "confirming"
  /\ pending' = IF channel = None THEN {} ELSE pending
  /\ UNCHANGED <<ready, established, recoveryTimer, recoverVars, closed, resolved,
                 netVars, trafficVars, brokerVars, countVars>>
\* The recovery that was running has ended.
TakeOver ==
  /\ stopping = "recovering"
  /\ step = "idle"
  /\ active' = [connection |-> connection, channel |-> channel]
  /\ connection' = None
  /\ channel' = None
  /\ backpressured' = None
  /\ stopping' = IF channel = None THEN "closingConnection" ELSE "confirming"
  /\ pending' = IF channel = None THEN {} ELSE pending
  /\ UNCHANGED <<ready, established, recoveryTimer, recoverVars, closed, resolved,
                 netVars, trafficVars, brokerVars, countVars>>

\* Nothing is unconfirmed on channel c.
AllConfirmed(c) ==
  /\ On(sent, {c}) = {} /\ On(returns, {c}) = {}
  /\ \A x \in confirms : x.attempt.channel # c
  /\ c \in lost => On(pending, {c}) = {}

\* waitForConfirms() resolves.
ConfirmsComplete ==
  /\ stopping = "confirming"
  /\ AllConfirmed(active.channel)
  /\ stopping' = "closingChannel"
  /\ resolved' = resolved \cup On(pending, {active.channel})
  /\ pending' = pending \ On(pending, {active.channel})
  /\ UNCHANGED <<clientVars, recoverVars, closed, active, backpressured, netVars,
                 trafficVars, brokerVars, countVars>>

\* A channel that is closed already cannot be closed, which is only logged.
CloseActiveChannel ==
  /\ stopping = "closingChannel"
  /\ stopping' = "closingConnection"
  /\ Gone({active.channel})
  /\ pending' = {}
  /\ UNCHANGED <<clientVars, recoverVars, closed, active, backpressured, resolved,
                 opened, brokerVars, countVars>>

CloseActiveConnection ==
  /\ stopping = "closingConnection"
  /\ stopping' = "closed"
  /\ Gone(Family(active.connection))
  /\ UNCHANGED <<clientVars, recoverVars, closed, active, publishVars, opened,
                 brokerVars, countVars>>

-----------------------------------------------------------------------------
Recovering ==
  \/ Connect \/ ConnectFails \/ CreateChannel \/ Answer \/ Checked \/ CallFails
  \/ ChannelClosed \/ ConnectionClosed

BrokerTakes(a) == BrokerRoutes(a) \/ BrokerReturns(a) \/ BrokerNacks(a)

Closing ==
  TakeOver \/ ConfirmsComplete \/ CloseActiveChannel \/ CloseActiveConnection

Next ==
  \/ TimerFires
  \/ Connect \/ ConnectFails \/ CreateChannel \/ Answer \/ Checked \/ CallFails
  \/ ChannelClosed \/ ConnectionClosed
  \/ \E e \in Events, writable \in BOOLEAN : Publish(e, writable)
  \/ \E a \in sent : BrokerRoutes(a) \/ BrokerReturns(a) \/ BrokerNacks(a)
  \/ \E a \in returns : ReturnNoticed(a)
  \/ \E c \in confirms : ConfirmNoticed(c)
  \/ \E c \in full : Drained(c)
  \/ \E x \in open : Drop(x) \/ CloseNoticed(x)
  \/ CloseProducer
  \/ TakeOver \/ ConfirmsComplete \/ CloseActiveChannel \/ CloseActiveConnection

Spec == Init /\ [][Next]_vars

\* Every call is answered or fails, the broker answers every publish, the
\* buffer of a live channel drains, and the event loop gets to every event.
Fairness ==
  /\ WF_vars(TimerFires)
  /\ WF_vars(Recovering)
  /\ WF_vars(\E a \in sent : BrokerTakes(a))
  /\ WF_vars(\E a \in returns : ReturnNoticed(a))
  /\ WF_vars(\E c \in confirms : ConfirmNoticed(c))
  /\ WF_vars(\E c \in full : Drained(c))
  /\ WF_vars(\E x \in open : CloseNoticed(x))
  /\ WF_vars(Closing)

FairSpec == Spec /\ Fairness

-----------------------------------------------------------------------------
(***************************************************************************)
(* Properties.                                                             *)
(***************************************************************************)
Ids == Nat \X Nat
Attempts == [id : Nat, event : Events, channel : Ids]

\* Every variable has its type.
TypeOK ==
  /\ {connection, channel, backpressured} \subseteq Ids
  /\ {ready, established, closed, recoveryTimer} \subseteq BOOLEAN
  /\ {pending, sent, returns, routed, nacked, resolved} \subseteq SUBSET Attempts
  /\ confirms \subseteq [attempt : Attempts, ok : BOOLEAN]
  /\ step \in {"idle", "failed", "connecting", "creating", "checking",
               "closingChannel", "closingConnection"}
  /\ reply \in {"none", "ok", "error"}
  /\ own \in [connection : Ids, owned : BOOLEAN, channel : Ids]
  /\ stopping \in {"no", "recovering", "confirming", "closingChannel",
                   "closingConnection", "closed"}
  /\ active \in [connection : Ids, channel : Ids]
  /\ {opened, attempts, refusals, disruptions} \subseteq Nat
  /\ {open, lost, full} \subseteq SUBSET Ids

\* After an interruption the producer reconnects (docs/job-queue.md,
\* "Producer"): a producer whose channel the client has seen close, or that
\* has none, has an attempt to get another one running or scheduled.
RecoveryIsOwed ==
  established /\ ~closed /\ channel \notin open => recoveryTimer \/ step # "idle"

\* publish() resolves only after the broker put that event on the queue, be it
\* by another attempt on the same channel: a return rejects one attempt for
\* every message that was not routed, before its confirmation is seen.  Only where
\* the same event was nacked on that channel as well may the return have
\* rejected the attempt the nack was about.
ResolvedWasRouted ==
  \A a \in resolved :
    \E b \in routed \cup nacked : b.event = a.event /\ b.channel = a.channel

\* No promise is forgotten: a pending attempt is on a channel whose end will be
\* noticed and will reject it, and close() leaves none.
NoAttemptForgotten ==
  \A a \in pending :
    /\ a.channel \in open
    /\ a.channel = channel \/ (a.channel = active.channel /\ stopping = "confirming")

\* When close() has resolved nothing is left open, pending or scheduled.
Clean == open = {} /\ pending = {} /\ step = "idle" /\ ~recoveryTimer
ClosedIsClean == stopping = "closed" => Clean

\* An open producer can always publish again some time later: it is connected
\* to a channel the broker serves, whose buffer is not taken to be full.
Usable == ready /\ channel \in open \ lost /\ backpressured = None
UsableAgain == established ~> [](closed \/ <>(closed \/ Usable))

\* close() always resolves, whatever recover() waits for when it is called, and
\* nothing is left or comes up afterwards.
CloseResolves == closed ~> [](stopping = "closed" /\ Clean)

=============================================================================
