-------------------------- MODULE JobProducerProofs --------------------------
(***************************************************************************)
(* The job producer for any number of events, publishes, refusals and      *)
(* disruptions: no recovery is lost, no publish is forgotten, none is      *)
(* resolved without its event.                                             *)
(***************************************************************************)
EXTENDS JobProducer, TLAPS

OwnType == [connection : Ids, owned : BOOLEAN, channel : Ids]

-----------------------------------------------------------------------------
(***************************************************************************)
(* What the connections, channels and locals have to do with one another.  *)
(***************************************************************************)
\* The producer's channel is one of its connection; what is lost was open.
OneConnection ==
  /\ connection = ConnectionOf(connection)
  /\ channel # None => ConnectionOf(channel) = connection
  /\ None \notin open
  /\ lost \subseteq open

\* A recovery works on its own connection and channel.
RecoveryOwns ==
  /\ step \in {"creating", "checking", "closingChannel"} =>
       /\ own.connection # None
       /\ own.connection = ConnectionOf(own.connection)
  /\ step \in {"checking", "closingChannel"} =>
       /\ own.channel # None
       /\ ConnectionOf(own.channel) = own.connection
  /\ reply # "none" => step \in {"creating", "checking"}

\* Nobody has a channel while a recovery runs, before one is ready, or after
\* close() has taken it over, which waits for the recovery.
Phases ==
  /\ step # "idle" => ~ready /\ channel = None
  /\ ~ready /\ ~closed => channel = None
  /\ closed => ~ready
  /\ closed <=> stopping # "no"
  /\ stopping \notin {"no", "recovering"} =>
       step = "idle" /\ channel = None /\ connection = None

Links == OneConnection /\ RecoveryOwns /\ Phases

-----------------------------------------------------------------------------
LEMMA NoneType == None \in Ids /\ NoOwn \in OwnType /\ ConnectionOf(None) = None
BY DEF None, NoOwn, OwnType, Ids, ConnectionOf

LEMMA ConnectionOfType ==
  ASSUME NEW c \in Ids
  PROVE  ConnectionOf(c) \in Ids /\ ConnectionOf(ConnectionOf(c)) = ConnectionOf(c)
BY DEF ConnectionOf, Ids

\* A connection, and a channel of it, that are new.
LEMMA NewPair ==
  ASSUME NEW k \in Nat, NEW n \in Nat
  PROVE  /\ <<k, n>> \in Ids
         /\ ConnectionOf(<<k, n>>) = <<k, 0>>
         /\ n > 0 \/ k > 0 => <<k, n>> # None
BY DEF ConnectionOf, Ids, None

LEMMA OwnUpdates ==
  ASSUME NEW o \in OwnType, NEW k \in Ids
  PROVE  /\ o.connection \in Ids /\ o.channel \in Ids /\ o.owned \in BOOLEAN
         /\ [o EXCEPT !.connection = k, !.owned = TRUE] \in OwnType
         /\ [o EXCEPT !.connection = k, !.owned = TRUE].connection = k
         /\ [o EXCEPT !.channel = k] \in OwnType
         /\ [o EXCEPT !.channel = k].channel = k
         /\ [o EXCEPT !.channel = k].connection = o.connection
         /\ [NoOwn EXCEPT !.connection = k] \in OwnType
         /\ [NoOwn EXCEPT !.connection = k].connection = k
BY DEF OwnType, NoOwn, None, Ids

LEMMA FamilyOpen ==
  ASSUME NEW x \in open
  PROVE  Family(x) \subseteq open
BY DEF Family

LEMMA AttemptType ==
  ASSUME NEW n \in Nat, NEW e \in Events, NEW c \in Ids
  PROVE  [id |-> n, event |-> e, channel |-> c] \in Attempts
BY DEF Attempts

LEMMA ConfirmType ==
  ASSUME NEW a \in Attempts, NEW b \in BOOLEAN
  PROVE  [attempt |-> a, ok |-> b] \in [attempt : Attempts, ok : BOOLEAN]
OBVIOUS

-----------------------------------------------------------------------------
(***************************************************************************)
(* Types                                                                   *)
(***************************************************************************)
LEMMA GoneTypes ==
  ASSUME TypeOK, NEW S, Gone(S)
  PROVE  /\ open' \subseteq Ids /\ lost' \subseteq Ids /\ full' \subseteq Ids
         /\ sent' \subseteq Attempts /\ returns' \subseteq Attempts
         /\ confirms' \subseteq [attempt : Attempts, ok : BOOLEAN]
BY DEF TypeOK, Gone

LEMMA SettleTypes ==
  ASSUME TypeOK, Settle
  PROVE  /\ step' \in {"idle", "failed"} /\ reply' = "none"
         /\ own' = NoOwn /\ recoveryTimer' \in BOOLEAN
BY DEF TypeOK, Settle, ScheduleRecovery

LEMMA GiveUpTypes ==
  ASSUME TypeOK, GiveUp
  PROVE  /\ step' \in {"idle", "failed", "closingConnection"} /\ reply' = "none"
         /\ own' \in OwnType /\ recoveryTimer' \in BOOLEAN
         /\ connection' \in {None, connection}
<1>1. CASE own.owned
  BY <1>1 DEF GiveUp, GoTo, TypeOK, OwnType
<1>2. CASE ~own.owned
  BY <1>2, SettleTypes, NoneType DEF GiveUp
<1> QED
  BY <1>1, <1>2

LEMMA TypeInit == Init => TypeOK
<1> SUFFICES ASSUME Init PROVE TypeOK
  OBVIOUS
<1>1. own \in OwnType /\ active \in [connection : Ids, channel : Ids]
  BY NoneType DEF Init, NoActive
<1>2. connection = None /\ channel = None /\ backpressured = None
  BY DEF Init
<1>3. {ready, established, closed, recoveryTimer} \subseteq BOOLEAN
  BY DEF Init
<1>4. {opened, attempts, refusals, disruptions} \subseteq Nat
  BY DEF Init
<1> QED
  BY <1>1, <1>2, <1>3, <1>4, NoneType DEF Init, TypeOK, OwnType

LEMMA TypeStep == TypeOK /\ [Next]_vars => TypeOK'
<1> SUFFICES ASSUME TypeOK, [Next]_vars PROVE TypeOK'
  OBVIOUS
<1> USE NoneType
<1>0. own \in OwnType
  BY DEF TypeOK, OwnType
<1>1. CASE TimerFires
  <2>1. connection \in Ids
    BY DEF TypeOK
  <2>2. [NoOwn EXCEPT !.connection = connection] \in OwnType
    BY <1>0, <2>1, OwnUpdates
  <2>3. own' \in {own, [NoOwn EXCEPT !.connection = connection]}
    BY <1>1 DEF TimerFires, recoverVars
  <2>4. own' \in OwnType
    BY <1>0, <2>2, <2>3
  <2> QED
    BY <1>1, <2>4 DEF TimerFires, TypeOK, OwnType, recoverVars, closeVars, publishVars,
       netVars, trafficVars, brokerVars, countVars
<1>2. CASE Connect
  <2>1. opened + 1 \in Nat /\ <<opened + 1, 0>> \in Ids
    BY NewPair DEF TypeOK
  <2>2. own' \in OwnType
    BY <1>0, <1>2, <2>1, OwnUpdates DEF Connect
  <2> QED
    BY <1>2, <2>1, <2>2 DEF Connect, GoTo, TypeOK, OwnType, closeVars, publishVars,
       trafficVars, brokerVars, countVars
<1>3. CASE ConnectFails
  BY <1>3, GiveUpTypes DEF ConnectFails, TypeOK, OwnType, closeVars, publishVars, netVars,
     trafficVars, brokerVars
<1>4. CASE CreateChannel
  <2>1. opened + 1 \in Nat /\ <<own.connection[1], opened + 1>> \in Ids
    BY NewPair DEF TypeOK, Ids
  <2>2. own' \in OwnType
    BY <1>0, <1>4, <2>1, OwnUpdates DEF CreateChannel
  <2> QED
    BY <1>4, <2>1, <2>2 DEF CreateChannel, GoTo, TypeOK, OwnType, clientVars, closeVars,
       publishVars, trafficVars, brokerVars, countVars
<1>5. CASE Answer
  BY <1>5 DEF Answer, TypeOK, clientVars, closeVars, publishVars, netVars, trafficVars,
     brokerVars, countVars
<1>6. CASE Checked
  <2>1. own.channel \in Ids
    BY <1>0 DEF OwnType
  <2> QED
    BY <1>6, <2>1 DEF Checked, GoTo, TypeOK, OwnType, clientVars, closeVars, publishVars,
       netVars, trafficVars, brokerVars, countVars
<1>7. CASE CallFails
  <2>1. CASE step = "checking"
    BY <1>7, <2>1 DEF CallFails, GoTo, TypeOK, closeVars, publishVars, netVars, trafficVars,
       brokerVars, countVars
  <2>2. CASE step # "checking"
    BY <1>7, <2>2, GiveUpTypes DEF CallFails, TypeOK, OwnType, closeVars, publishVars, netVars,
       trafficVars, brokerVars, countVars
  <2> QED
    BY <2>1, <2>2
<1>8. CASE ChannelClosed
  BY <1>8, GiveUpTypes, GoneTypes DEF ChannelClosed, TypeOK, OwnType, closeVars, publishVars,
     brokerVars, countVars
<1>9. CASE ConnectionClosed
  BY <1>9, SettleTypes, GoneTypes DEF ConnectionClosed, TypeOK, OwnType, closeVars,
     publishVars, brokerVars, countVars
<1>10. ASSUME NEW e \in Events, NEW writable \in BOOLEAN, Publish(e, writable)
       PROVE  TypeOK'
  <2>1. [id |-> attempts + 1, event |-> e, channel |-> channel] \in Attempts
    BY AttemptType DEF TypeOK
  <2> QED
    BY <1>10, <2>1 DEF Publish, TypeOK, clientVars, recoverVars, closeVars, netVars, brokerVars
<1>11. ASSUME NEW a \in sent, BrokerTakes(a)
       PROVE  TypeOK'
  <2>1. [attempt |-> a, ok |-> TRUE] \in [attempt : Attempts, ok : BOOLEAN]
        /\ [attempt |-> a, ok |-> FALSE] \in [attempt : Attempts, ok : BOOLEAN]
    BY ConfirmType DEF TypeOK
  <2>2. CASE BrokerRoutes(a)
    BY <2>1, <2>2, ZenonT(60) DEF BrokerRoutes, TypeOK, clientVars, recoverVars, closeVars,
       publishVars, netVars, countVars
  <2>3. CASE BrokerReturns(a)
    BY <2>1, <2>3 DEF BrokerReturns, TypeOK, clientVars, recoverVars, closeVars,
       publishVars, netVars, brokerVars
  <2>4. CASE BrokerNacks(a)
    <3>1. a \in Attempts
      BY DEF TypeOK
    <3>2. /\ sent' \subseteq Attempts /\ nacked' \subseteq Attempts
          /\ confirms' \subseteq [attempt : Attempts, ok : BOOLEAN]
          /\ refusals' \in Nat
      <4>1. sent' \subseteq Attempts /\ refusals' \in Nat
        BY <2>4 DEF BrokerNacks, TypeOK
      <4>2. nacked' \subseteq Attempts
        BY <2>4, <3>1 DEF BrokerNacks, TypeOK
      <4>3. confirms' = confirms \cup {[attempt |-> a, ok |-> FALSE]}
        BY <2>4 DEF BrokerNacks
      <4>4. confirms \subseteq [attempt : Attempts, ok : BOOLEAN]
        BY DEF TypeOK
      <4> QED
        BY <2>1, <4>1, <4>2, <4>3, <4>4
    <3>3. UNCHANGED <<clientVars, recoverVars, closeVars, publishVars, netVars, full,
                      returns, routed, attempts, disruptions>>
      BY <2>4 DEF BrokerNacks
    <3> QED
      BY <3>2, <3>3 DEF TypeOK, clientVars, recoverVars, closeVars, publishVars, netVars
  <2> QED
    BY <1>11, <2>2, <2>3, <2>4 DEF BrokerTakes
<1>12. ASSUME NEW a \in returns, ReturnNoticed(a)
       PROVE  TypeOK'
  <2>1. [attempt |-> a, ok |-> TRUE] \in [attempt : Attempts, ok : BOOLEAN]
    BY ConfirmType DEF TypeOK
  <2> QED
    BY <1>12, <2>1, ZenonT(60) DEF ReturnNoticed, TypeOK, clientVars, recoverVars, closeVars, netVars,
       brokerVars, countVars
<1>13. ASSUME NEW c \in confirms, ConfirmNoticed(c)
       PROVE  TypeOK'
  BY <1>13 DEF ConfirmNoticed, TypeOK, clientVars, recoverVars, netVars, brokerVars, countVars
<1>14. ASSUME NEW c \in full, Drained(c)
       PROVE  TypeOK'
  BY <1>14 DEF Drained, TypeOK, clientVars, recoverVars, closeVars, netVars, brokerVars,
     countVars
<1>15. ASSUME NEW x \in open, Drop(x)
       PROVE  TypeOK'
  BY <1>15, FamilyOpen DEF Drop, TypeOK, clientVars, recoverVars, closeVars, publishVars,
     brokerVars
<1>16. ASSUME NEW x \in open, CloseNoticed(x)
       PROVE  TypeOK'
  <2>1. /\ open' \subseteq Ids /\ lost' \subseteq Ids /\ full' \subseteq Ids
        /\ sent' \subseteq Attempts /\ returns' \subseteq Attempts
        /\ confirms' \subseteq [attempt : Attempts, ok : BOOLEAN]
    BY <1>16, GoneTypes DEF CloseNoticed
  <2>2. /\ connection' \in Ids /\ channel' \in Ids /\ backpressured' \in Ids
        /\ ready' \in BOOLEAN /\ recoveryTimer' \in BOOLEAN
    BY <1>16 DEF CloseNoticed, TypeOK, ScheduleRecovery
  <2>3. reply' \in {"none", "ok", "error"} /\ pending' \subseteq pending
        /\ stopping' \in {stopping, "closingChannel"}
    BY <1>16 DEF CloseNoticed, TypeOK
  <2>4. UNCHANGED <<established, step, own, closed, active, resolved, opened, routed,
                    nacked, attempts, refusals, disruptions>>
    BY <1>16 DEF CloseNoticed, brokerVars, countVars
  <2> QED
    BY <2>1, <2>2, <2>3, <2>4 DEF TypeOK
<1>17. CASE CloseProducer
  BY <1>17 DEF CloseProducer, TypeOK, recoverVars, publishVars, netVars, trafficVars,
     brokerVars, countVars
<1>18. CASE TakeOver
  BY <1>18 DEF TakeOver, TypeOK, recoverVars, netVars, trafficVars, brokerVars, countVars
<1>19. CASE ConfirmsComplete
  BY <1>19 DEF ConfirmsComplete, TypeOK, On, clientVars, recoverVars, netVars, trafficVars,
     brokerVars, countVars
<1>20. CASE CloseActiveChannel
  BY <1>20, GoneTypes DEF CloseActiveChannel, TypeOK, clientVars, recoverVars, brokerVars,
     countVars
<1>21. CASE CloseActiveConnection
  BY <1>21, GoneTypes DEF CloseActiveConnection, TypeOK, clientVars, recoverVars,
     publishVars, brokerVars, countVars
<1>22. CASE UNCHANGED vars
  BY <1>22 DEF TypeOK, vars, clientVars, recoverVars, closeVars, publishVars, netVars,
     trafficVars, brokerVars, countVars
<1> QED
  BY <1>1, <1>2, <1>3, <1>4, <1>5, <1>6, <1>7, <1>8, <1>9, <1>10, <1>11, <1>12, <1>13,
     <1>14, <1>15, <1>16, <1>17, <1>18, <1>19, <1>20, <1>21, <1>22 DEF Next, BrokerTakes

\* Every variable of the producer keeps its type.
THEOREM ProducerTypes == Spec => []TypeOK
BY TypeInit, TypeStep, PTL DEF Spec

-----------------------------------------------------------------------------
(***************************************************************************)
(* Links is inductive                                                      *)
(***************************************************************************)
\* Steps that leave the recovery and the connections alone.
LEMMA LinksKept ==
  ASSUME Links, UNCHANGED <<connection, channel, ready, closed, stopping, step, reply, own, open>>,
         lost' \subseteq open
  PROVE  Links'
BY DEF Links, OneConnection, RecoveryOwns, Phases

\* What is gone leaves a part of what was open.
LEMMA GoneLinks ==
  ASSUME OneConnection, NEW S, Gone(S)
  PROVE  open' = open \ S /\ None \notin open' /\ lost' \subseteq open'
BY DEF OneConnection, Gone

LEMMA SettleLinks ==
  ASSUME Links, Settle, step # "idle", UNCHANGED <<connection, channel, ready, closed, stopping>>,
         None \notin open', lost' \subseteq open'
  PROVE  Links'
BY DEF Links, Settle, OneConnection, RecoveryOwns, Phases

LEMMA GiveUpLinks ==
  ASSUME Links, GiveUp, step # "idle", UNCHANGED <<channel, ready, closed, stopping>>,
         None \notin open', lost' \subseteq open'
  PROVE  Links'
<1>1. CASE own.owned
  <2>1. /\ connection' \in {None, connection} /\ step' = "closingConnection"
        /\ reply' = "none"
    BY <1>1 DEF GiveUp, GoTo
  <2>2. channel = None /\ ~ready /\ stopping \in {"no", "recovering"}
    BY DEF Links, Phases
  <2> QED
    BY <2>1, <2>2, NoneType DEF Links, OneConnection, RecoveryOwns, Phases
<1>2. CASE ~own.owned
  BY <1>2, SettleLinks DEF GiveUp
<1> QED
  BY <1>1, <1>2

LEMMA LinksInit == Init => Links
BY NoneType DEF Init, Links, OneConnection, RecoveryOwns, Phases

LEMMA LinksStep == TypeOK /\ Links /\ [Next]_vars => Links'
<1> SUFFICES ASSUME TypeOK, Links, [Next]_vars PROVE Links'
  OBVIOUS
<1>0. /\ connection \in Ids /\ channel \in Ids /\ own \in OwnType /\ opened \in Nat
      /\ own.connection \in Ids /\ own.channel \in Ids
  BY DEF TypeOK, OwnType
<1>a. None \notin open /\ lost \subseteq open
  BY DEF Links, OneConnection
<1>1. CASE TimerFires
  <2>1. CASE step # "idle" \/ closed \/ ready
    BY <1>1, <2>1, LinksKept, <1>a DEF TimerFires, recoverVars, closeVars, netVars
  <2>2. CASE ~(step # "idle" \/ closed \/ ready)
    <3>1. own'.connection = connection
      BY <1>0, <1>1, <2>2, OwnUpdates DEF TimerFires
    <3>2. /\ step' = IF connection = None THEN "connecting" ELSE "creating"
          /\ reply' = "none"
          /\ UNCHANGED <<connection, channel, ready, closed, stopping, open, lost>>
      BY <1>1, <2>2 DEF TimerFires, closeVars, netVars
    <3> QED
      BY <2>2, <3>1, <3>2 DEF Links, OneConnection, RecoveryOwns, Phases
  <2> QED
    BY <2>1, <2>2
<1>2. CASE Connect
  <2> DEFINE k == <<opened + 1, 0>>
  <2>1. k \in Ids /\ k # None /\ ConnectionOf(k) = k
    BY <1>0, NewPair
  <2>2. own'.connection = k
    BY <1>0, <1>2, <2>1, OwnUpdates, ZenonT(60) DEF Connect
  <2>3. /\ open' = open \cup {k} /\ connection' \in {None, k} /\ reply' = "none"
        /\ step' \in {"closingConnection", "creating"}
        /\ UNCHANGED <<channel, ready, closed, stopping, lost>>
    BY <1>2 DEF Connect, GoTo, closeVars
  <2>4. channel = None /\ ~ready /\ stopping \in {"no", "recovering"}
    BY <1>2 DEF Links, Phases, Connect
  <2> HIDE DEF k
  <2> QED
    BY <1>a, <2>1, <2>2, <2>3, <2>4, NoneType DEF Links, OneConnection, RecoveryOwns, Phases
<1>3. CASE ConnectFails
  BY <1>3, <1>a, GiveUpLinks DEF ConnectFails, closeVars, netVars
<1>4. CASE CreateChannel
  <2> DEFINE c == <<own.connection[1], opened + 1>>
  <2>1. c \in Ids /\ c # None /\ ConnectionOf(c) = <<own.connection[1], 0>>
    BY <1>0, NewPair DEF Ids
  <2>2. own'.connection = own.connection /\ own'.channel = c
    BY <1>0, <1>4, <2>1, OwnUpdates, ZenonT(60) DEF CreateChannel
  <2>3. /\ open' = open \cup {c} /\ step' = "checking" /\ reply' = "none"
        /\ UNCHANGED <<connection, channel, ready, closed, stopping, lost>>
    BY <1>4 DEF CreateChannel, GoTo, closeVars, clientVars
  <2>4. /\ own.connection # None /\ own.connection = ConnectionOf(own.connection)
        /\ step = "creating"
    BY <1>4 DEF Links, RecoveryOwns, CreateChannel
  <2>5. ConnectionOf(c) = own.connection
    BY <2>1, <2>4 DEF ConnectionOf
  <2> HIDE DEF c
  <2> QED
    BY <1>a, <2>1, <2>2, <2>3, <2>4, <2>5 DEF Links, OneConnection, RecoveryOwns, Phases
<1>5. CASE Answer
  BY <1>5, <1>a DEF Answer, clientVars, closeVars, netVars, Links, OneConnection, RecoveryOwns,
     Phases
<1>6. CASE Checked
  <2>1. /\ step = "checking" /\ own.channel # None
        /\ ConnectionOf(own.channel) = own.connection
    BY <1>6 DEF Checked, Links, RecoveryOwns
  <2>2. CASE closed \/ connection # own.connection
    BY <1>6, <1>a, <2>1, <2>2 DEF Checked, GoTo, clientVars, closeVars, netVars, Links,
       OneConnection, RecoveryOwns, Phases
  <2>3. CASE ~(closed \/ connection # own.connection)
    BY <1>6, <1>a, <2>1, <2>3 DEF Checked, GoTo, clientVars, closeVars, netVars, Links,
       OneConnection, RecoveryOwns, Phases
  <2> QED
    BY <2>2, <2>3
<1>7. CASE CallFails
  <2>1. step # "idle"
    BY <1>7 DEF CallFails, Links, RecoveryOwns
  <2>2. CASE step = "checking"
    BY <1>7, <1>a, <2>2 DEF CallFails, GoTo, closeVars, netVars, Links, OneConnection,
       RecoveryOwns, Phases
  <2>3. CASE step # "checking"
    BY <1>7, <1>a, <2>1, <2>3, GiveUpLinks DEF CallFails, closeVars, netVars
  <2> QED
    BY <2>2, <2>3
<1>8. CASE ChannelClosed
  BY <1>8, GiveUpLinks, GoneLinks DEF ChannelClosed, closeVars, Links
<1>9. CASE ConnectionClosed
  BY <1>9, SettleLinks, GoneLinks DEF ConnectionClosed, closeVars, Links
<1>10. ASSUME NEW e \in Events, NEW writable \in BOOLEAN, Publish(e, writable)
       PROVE  Links'
  BY <1>10, <1>a, LinksKept DEF Publish, clientVars, recoverVars, closeVars, netVars
<1>11. ASSUME NEW a \in sent, BrokerTakes(a)
       PROVE  Links'
  BY <1>11, <1>a, LinksKept DEF BrokerTakes, BrokerRoutes, BrokerReturns, BrokerNacks, clientVars,
     recoverVars, closeVars, netVars
<1>12. ASSUME NEW a \in returns, ReturnNoticed(a)
       PROVE  Links'
  BY <1>12, <1>a, LinksKept DEF ReturnNoticed, clientVars, recoverVars, closeVars, netVars
<1>13. ASSUME NEW c \in confirms, ConfirmNoticed(c)
       PROVE  Links'
  <2>1. /\ stopping' = IF WaitFails(c) THEN "closingChannel" ELSE stopping
        /\ UNCHANGED <<connection, channel, ready, closed, step, reply, own, open, lost>>
    BY <1>13 DEF ConfirmNoticed, clientVars, recoverVars, netVars
  <2>2. WaitFails(c) => stopping = "confirming"
    BY DEF WaitFails
  <2> QED
    BY <1>a, <2>1, <2>2 DEF Links, OneConnection, RecoveryOwns, Phases
<1>14. ASSUME NEW c \in full, Drained(c)
       PROVE  Links'
  BY <1>14, <1>a, LinksKept DEF Drained, clientVars, recoverVars, closeVars, netVars
<1>15. ASSUME NEW x \in open, Drop(x)
       PROVE  Links'
  BY <1>15, <1>a, LinksKept, FamilyOpen DEF Drop, clientVars, recoverVars, closeVars
<1>16. ASSUME NEW x \in open, CloseNoticed(x)
       PROVE  Links'
  <2> DEFINE S == Family(x)
             affected == connection \in S \/ channel \in S
  <2>1. S \subseteq open /\ None \notin S
    BY <1>a, FamilyOpen
  <2>2. /\ connection' = IF connection \in S THEN None ELSE connection
        /\ channel' = IF affected THEN None ELSE channel
        /\ ready' = (ready /\ ~affected)
        /\ stopping' = IF stopping = "confirming" /\ active.channel \in S
                       THEN "closingChannel" ELSE stopping
        /\ reply' = IF reply = "none" /\ Awaited \in S THEN "error" ELSE reply
        /\ UNCHANGED <<step, own, closed>>
    BY <1>16 DEF CloseNoticed
  <2>3. None \notin open' /\ lost' \subseteq open'
    BY <1>16, GoneLinks DEF CloseNoticed, Links
  <2>4. Awaited \in S => step \in {"creating", "checking"}
    BY <2>1 DEF Awaited
  <2> HIDE DEF S
  <2>5. OneConnection'
    BY <2>2, <2>3, NoneType DEF Links, OneConnection
  <2>6. RecoveryOwns'
    BY <2>2, <2>4 DEF Links, RecoveryOwns
  <2>7. Phases'
    BY <2>2 DEF Links, Phases
  <2> QED
    BY <2>5, <2>6, <2>7 DEF Links
<1>17. CASE CloseProducer
  BY <1>17, <1>a DEF CloseProducer, recoverVars, netVars, Links, OneConnection, RecoveryOwns,
     Phases
<1>18. CASE TakeOver
  BY <1>18, <1>a, NoneType DEF TakeOver, recoverVars, netVars, Links, OneConnection, RecoveryOwns,
     Phases
<1>19. CASE ConfirmsComplete
  BY <1>19, <1>a DEF ConfirmsComplete, clientVars, recoverVars, netVars, Links, OneConnection,
     RecoveryOwns, Phases
<1>20. CASE CloseActiveChannel
  <2>1. None \notin open' /\ lost' \subseteq open'
    BY <1>20, GoneLinks DEF CloseActiveChannel, Links
  <2> QED
    BY <1>20, <2>1 DEF CloseActiveChannel, clientVars, recoverVars, Links, OneConnection,
       RecoveryOwns, Phases
<1>21. CASE CloseActiveConnection
  <2>1. None \notin open' /\ lost' \subseteq open'
    BY <1>21, GoneLinks DEF CloseActiveConnection, Links
  <2> QED
    BY <1>21, <2>1 DEF CloseActiveConnection, clientVars, recoverVars, Links, OneConnection,
       RecoveryOwns, Phases
<1>22. CASE UNCHANGED vars
  BY <1>22, <1>a, LinksKept DEF vars, clientVars, recoverVars, closeVars, netVars
<1> QED
  BY <1>1, <1>2, <1>3, <1>4, <1>5, <1>6, <1>7, <1>8, <1>9, <1>10, <1>11, <1>12, <1>13,
     <1>14, <1>15, <1>16, <1>17, <1>18, <1>19, <1>20, <1>21, <1>22 DEF Next, BrokerTakes

-----------------------------------------------------------------------------
(***************************************************************************)
(* No attempt is forgotten                                                 *)
(***************************************************************************)
\* An attempt may be settled, and channels other than its own come and go.
LEMMA PendingKept ==
  ASSUME NoAttemptForgotten, pending' \subseteq pending, UNCHANGED <<channel, active, stopping>>,
         open \subseteq open'
  PROVE  NoAttemptForgotten'
BY DEF NoAttemptForgotten

\* While a recovery runs there is no channel and nothing is pending on it.
LEMMA NothingPending ==
  ASSUME Links, NoAttemptForgotten,
         step # "idle" \/ stopping \in {"closingChannel", "closingConnection", "closed"}
  PROVE  pending = {}
BY DEF Links, OneConnection, Phases, NoAttemptForgotten

LEMMA PendingStep ==
  TypeOK /\ Links /\ NoAttemptForgotten /\ [Next]_vars => NoAttemptForgotten'
<1> SUFFICES ASSUME TypeOK, Links, NoAttemptForgotten, [Next]_vars
             PROVE  NoAttemptForgotten'
  OBVIOUS
<1>0. None \notin open
  BY DEF Links, OneConnection
<1>1. CASE TimerFires \/ Answer \/ UNCHANGED vars
  BY <1>1, PendingKept DEF TimerFires, Answer, vars, clientVars, recoverVars, closeVars,
     publishVars, netVars
<1>2. CASE Connect \/ ConnectFails \/ CreateChannel
  BY <1>2, PendingKept DEF Connect, ConnectFails, CreateChannel, clientVars, closeVars,
     publishVars, netVars
<1>3. CASE Checked \/ CallFails \/ ChannelClosed \/ ConnectionClosed
  <2>1. step # "idle"
    BY <1>3 DEF Checked, CallFails, ChannelClosed, ConnectionClosed, Links, RecoveryOwns
  <2>2. pending' = pending
    BY <1>3 DEF Checked, CallFails, ChannelClosed, ConnectionClosed, publishVars
  <2> QED
    BY <2>1, <2>2, NothingPending DEF NoAttemptForgotten
<1>4. ASSUME NEW e \in Events, NEW writable \in BOOLEAN, Publish(e, writable)
      PROVE  NoAttemptForgotten'
  <2>1. CASE channel \in open
    BY <1>4, <2>1 DEF Publish, NoAttemptForgotten, clientVars, closeVars, netVars
  <2>2. CASE channel \notin open
    BY <1>4, <2>2 DEF Publish, NoAttemptForgotten, clientVars, closeVars, netVars
  <2> QED
    BY <2>1, <2>2
<1>5. ASSUME NEW a \in sent, BrokerTakes(a)
      PROVE  NoAttemptForgotten'
  BY <1>5, PendingKept DEF BrokerTakes, BrokerRoutes, BrokerReturns, BrokerNacks, clientVars,
     closeVars, publishVars, netVars
<1>6. ASSUME NEW a \in returns, ReturnNoticed(a)
      PROVE  NoAttemptForgotten'
  BY <1>6, PendingKept DEF ReturnNoticed, clientVars, closeVars, netVars
<1>7. ASSUME NEW c \in confirms, ConfirmNoticed(c)
      PROVE  NoAttemptForgotten'
  BY <1>7 DEF ConfirmNoticed, NoAttemptForgotten, On, clientVars, netVars
<1>8. ASSUME NEW c \in full, Drained(c)
      PROVE  NoAttemptForgotten'
  BY <1>8, PendingKept DEF Drained, clientVars, closeVars, netVars
<1>9. ASSUME NEW x \in open, Drop(x)
      PROVE  NoAttemptForgotten'
  BY <1>9, PendingKept DEF Drop, clientVars, closeVars, publishVars
<1>10. ASSUME NEW x \in open, CloseNoticed(x)
       PROVE  NoAttemptForgotten'
  <2> DEFINE S == Family(x)
             current == IF stopping = "confirming" THEN active.channel ELSE channel
  <2>1. /\ channel' = IF connection \in S \/ channel \in S THEN None ELSE channel
        /\ stopping' = IF stopping = "confirming" /\ active.channel \in S
                       THEN "closingChannel" ELSE stopping
        /\ pending' = {a \in pending : a.channel \notin S \cap {current}}
        /\ open' = open \ S
        /\ active' = active
    BY <1>10 DEF CloseNoticed, Gone, Rejected, On
  <2>2. connection \in S /\ channel # None /\ channel \in open => channel \in S
    BY <1>0 DEF Family, Links, OneConnection
  <2>3. stopping = "confirming" => channel = None
    BY DEF Links, Phases
  <2> HIDE DEF S
  <2>4. \A a \in pending : a.channel # None
    BY <1>0 DEF NoAttemptForgotten
  <2> QED
    BY <1>0, <2>1, <2>2, <2>3, <2>4 DEF NoAttemptForgotten
<1>11. CASE CloseProducer
  BY <1>11 DEF CloseProducer, NoAttemptForgotten, publishVars, netVars, Links, Phases
<1>12. CASE TakeOver
  BY <1>0, <1>12 DEF TakeOver, NoAttemptForgotten, netVars
<1>13. CASE ConfirmsComplete
  BY <1>13 DEF ConfirmsComplete, NoAttemptForgotten, On, clientVars, netVars
<1>14. CASE CloseActiveChannel
  BY <1>14 DEF CloseActiveChannel, NoAttemptForgotten
<1>15. CASE CloseActiveConnection
  <2>1. pending = {} /\ pending' = pending
    BY <1>15, NothingPending DEF CloseActiveConnection, publishVars
  <2> QED
    BY <2>1 DEF NoAttemptForgotten
<1> QED
  BY <1>1, <1>2, <1>3, <1>4, <1>5, <1>6, <1>7, <1>8, <1>9, <1>10, <1>11, <1>12, <1>13,
     <1>14, <1>15 DEF Next, BrokerTakes

\* Whatever happens to connections and channels, and whenever close() comes, every
\* pending publish is on an open channel whose end rejects it.
THEOREM ProducerForgetsNothing == Spec => []NoAttemptForgotten
<1>1. Init => NoAttemptForgotten
  BY DEF Init, NoAttemptForgotten
<1> QED
  BY <1>1, TypeInit, TypeStep, LinksInit, LinksStep, PendingStep, PTL DEF Spec

-----------------------------------------------------------------------------
(***************************************************************************)
(* Recovery is owed                                                        *)
(***************************************************************************)
\* A channel in use, or about to be, is one the client takes for open.  This is
\* what a channel that closes between the answer and its use breaks.
InUse ==
  /\ ready => channel \in open
  /\ step = "checking" /\ reply = "ok" /\ connection = own.connection => own.channel \in open

Owed == InUse /\ RecoveryIsOwed

LEMMA OwedKept ==
  ASSUME Owed, UNCHANGED <<connection, channel, ready, established, closed, recoveryTimer,
                           step, reply, own>>,
         open \subseteq open'
  PROVE  Owed'
BY DEF Owed, InUse, RecoveryIsOwed

LEMMA SettleOwed ==
  ASSUME Links, Settle, step # "idle", UNCHANGED <<channel, ready, established, closed>>
  PROVE  Owed'
BY DEF Links, Phases, Owed, InUse, RecoveryIsOwed, Settle, ScheduleRecovery

LEMMA GiveUpOwed ==
  ASSUME Links, GiveUp, step # "idle", UNCHANGED <<channel, ready, established, closed>>
  PROVE  Owed'
<1>1. CASE own.owned
  BY <1>1 DEF Links, Phases, Owed, InUse, RecoveryIsOwed, GiveUp, GoTo
<1>2. CASE ~own.owned
  BY <1>2, SettleOwed DEF GiveUp
<1> QED
  BY <1>1, <1>2

LEMMA OwedStep ==
  ASSUME ~LateChannelLoss
  PROVE  TypeOK /\ Links /\ Owed /\ [Next]_vars => Owed'
<1> SUFFICES ASSUME TypeOK, Links, Owed, [Next]_vars PROVE Owed'
  OBVIOUS
<1>1. CASE TimerFires
  BY <1>1 DEF TimerFires, recoverVars, closeVars, netVars, Links, Phases, Owed, InUse,
     RecoveryIsOwed
<1>2. CASE Connect
  BY <1>2 DEF Connect, GoTo, closeVars, Links, Phases, Owed, InUse, RecoveryIsOwed
<1>3. CASE ConnectFails
  BY <1>3, GiveUpOwed DEF ConnectFails, closeVars
<1>4. CASE CreateChannel
  BY <1>4 DEF CreateChannel, GoTo, clientVars, closeVars, Links, Phases, Owed, InUse,
     RecoveryIsOwed
<1>5. CASE Answer
  BY <1>5 DEF Answer, clientVars, closeVars, netVars, Owed, InUse, RecoveryIsOwed
<1>6. CASE Checked
  BY <1>6 DEF Checked, GoTo, clientVars, closeVars, netVars, Links, Phases, Owed, InUse,
     RecoveryIsOwed
<1>7. CASE CallFails
  <2>1. step # "idle"
    BY <1>7 DEF CallFails, Links, RecoveryOwns
  <2>2. CASE step = "checking"
    BY <1>7, <2>2 DEF CallFails, GoTo, closeVars, Links, Phases, Owed, InUse, RecoveryIsOwed
  <2>3. CASE step # "checking"
    BY <1>7, <2>1, <2>3, GiveUpOwed DEF CallFails, closeVars
  <2> QED
    BY <2>2, <2>3
<1>8. CASE ChannelClosed
  BY <1>8, GiveUpOwed DEF ChannelClosed, closeVars
<1>9. CASE ConnectionClosed
  BY <1>9, SettleOwed DEF ConnectionClosed, closeVars
<1>10. ASSUME NEW e \in Events, NEW writable \in BOOLEAN, Publish(e, writable)
       PROVE  Owed'
  BY <1>10, OwedKept DEF Publish, clientVars, recoverVars, closeVars, netVars
<1>11. ASSUME NEW a \in sent, BrokerTakes(a)
       PROVE  Owed'
  BY <1>11, OwedKept DEF BrokerTakes, BrokerRoutes, BrokerReturns, BrokerNacks, clientVars,
     recoverVars, closeVars, netVars
<1>12. ASSUME NEW a \in returns, ReturnNoticed(a)
       PROVE  Owed'
  BY <1>12, OwedKept DEF ReturnNoticed, clientVars, recoverVars, closeVars, netVars
<1>13. ASSUME NEW c \in confirms, ConfirmNoticed(c)
       PROVE  Owed'
  BY <1>13, OwedKept DEF ConfirmNoticed, clientVars, recoverVars, netVars
<1>14. ASSUME NEW c \in full, Drained(c)
       PROVE  Owed'
  BY <1>14, OwedKept DEF Drained, clientVars, recoverVars, closeVars, netVars
<1>15. ASSUME NEW x \in open, Drop(x)
       PROVE  Owed'
  BY <1>15, OwedKept DEF Drop, clientVars, recoverVars, closeVars
<1>16. ASSUME NEW x \in open, CloseNoticed(x)
       PROVE  Owed'
  <2> DEFINE S == Family(x)
             affected == connection \in S \/ channel \in S
  <2>1. /\ connection' = IF connection \in S THEN None ELSE connection
        /\ channel' = IF affected THEN None ELSE channel
        /\ ready' = (ready /\ ~affected)
        /\ recoveryTimer' = (recoveryTimer \/ (established /\ affected /\ ~closed))
        /\ reply' = IF reply = "none" /\ Awaited \in S THEN "error" ELSE reply
        /\ open' = open \ S
        /\ UNCHANGED <<established, step, own, closed>>
    BY <1>16 DEF CloseNoticed, Gone, ScheduleRecovery
  <2>2. step = "checking" /\ reply = "ok" => x # own.channel
    BY <1>16 DEF CloseNoticed, BetweenCheckAndUse
  <2>3. step = "checking" /\ own.channel \in S /\ x # own.channel => own.connection \in S
    BY <1>16 DEF Family, Links, RecoveryOwns, OneConnection, CloseNoticed
  <2>4. step = "checking" => own.connection # None
    BY DEF Links, RecoveryOwns
  <2> HIDE DEF S
  <2>5. InUse'
    BY <2>1, <2>2, <2>3, <2>4 DEF Owed, InUse
  <2>6. RecoveryIsOwed'
    BY <2>1 DEF Owed, RecoveryIsOwed
  <2> QED
    BY <2>5, <2>6 DEF Owed
<1>17. CASE CloseProducer
  BY <1>17 DEF CloseProducer, recoverVars, netVars, Owed, InUse, RecoveryIsOwed
<1>18. CASE TakeOver \/ ConfirmsComplete \/ CloseActiveChannel \/ CloseActiveConnection
  <2>1. closed /\ ~ready /\ step = "idle"
    BY <1>18 DEF TakeOver, ConfirmsComplete, CloseActiveChannel, CloseActiveConnection, Links,
       Phases
  <2>2. UNCHANGED <<closed, ready, step>>
    BY <1>18 DEF TakeOver, ConfirmsComplete, CloseActiveChannel, CloseActiveConnection,
       clientVars, recoverVars
  <2> QED
    BY <2>1, <2>2 DEF Owed, InUse, RecoveryIsOwed
<1>19. CASE UNCHANGED vars
  BY <1>19, OwedKept DEF vars, clientVars, recoverVars, closeVars, netVars
<1> QED
  BY <1>1, <1>2, <1>3, <1>4, <1>5, <1>6, <1>7, <1>8, <1>9, <1>10, <1>11, <1>12, <1>13,
     <1>14, <1>15, <1>16, <1>17, <1>18, <1>19 DEF Next, BrokerTakes

\* If a channel alone does not close in the moment between the answer to its
\* check and its use, no order of events leaves a producer that is not closed
\* without a channel and without a recovery.
THEOREM ProducerRecovers == ~LateChannelLoss => (Spec => []RecoveryIsOwed)
<1> SUFFICES ASSUME ~LateChannelLoss PROVE Spec => []RecoveryIsOwed
  OBVIOUS
<1>1. Init => Owed
  BY DEF Init, Owed, InUse, RecoveryIsOwed
<1>2. TypeOK /\ Links /\ Owed /\ [Next]_vars => Owed'
  BY OwedStep
<1>3. Owed => RecoveryIsOwed
  BY DEF Owed
<1> QED
  BY <1>1, <1>2, <1>3, TypeInit, TypeStep, LinksInit, LinksStep, PTL DEF Spec

-----------------------------------------------------------------------------
(***************************************************************************)
(* What is resolved was routed                                             *)
(***************************************************************************)
Alike(a, b) == b.event = a.event /\ b.channel = a.channel
Evidence(a) == \E b \in routed \cup nacked : Alike(a, b)

\* Attempts are numbered in the order of their calls.
Numbered ==
  /\ \A a \in sent \cup returns : a.id <= attempts
  /\ \A x \in confirms : x.attempt.id <= attempts

\* Nothing more is sent on a channel that is lost.
SentIsLive == \A a \in sent : a.channel \notin lost

\* As long as the broker has neither routed nor nacked an event on a channel, all
\* pending attempts of it are with the broker or on their way back, the returns in
\* the order of the calls, so that each return meets its own attempt.
StillUnderWay ==
  \A b \in pending : b.channel \notin lost /\ ~Evidence(b) => b \in sent \cup returns
ReturnsInOrder ==
  \A a \in returns, b \in pending :
    Alike(a, b) /\ b.id < a.id /\ ~Evidence(a) => b \in returns
ConfirmedIsRejected ==
  \A x \in confirms : x.ok /\ ~Evidence(x.attempt) => x.attempt \notin pending
ResolvedHasEvidence == \A a \in resolved : Evidence(a)

OrderInv ==
  /\ Numbered /\ SentIsLive /\ StillUnderWay
  /\ ReturnsInOrder /\ ConfirmedIsRejected /\ ResolvedHasEvidence

-----------------------------------------------------------------------------
LEMMA EvidenceSame ==
  ASSUME UNCHANGED <<routed, nacked>>, NEW a
  PROVE  Evidence(a)' <=> Evidence(a)
BY DEF Evidence

LEMMA EvidenceAlike ==
  ASSUME NEW a, NEW b, Alike(a, b)
  PROVE  Evidence(a) <=> Evidence(b)
BY DEF Evidence, Alike

\* Attempts may be settled and confirmations be seen.
LEMMA OrderKept ==
  ASSUME OrderInv, pending' \subseteq pending, confirms' \subseteq confirms,
         UNCHANGED <<sent, returns, lost, routed, nacked, resolved, attempts>>
  PROVE  OrderInv'
BY EvidenceSame DEF OrderInv, Numbered, SentIsLive, StillUnderWay, ReturnsInOrder,
   ConfirmedIsRejected, ResolvedHasEvidence, Evidence, Alike

\* A channel that goes takes its traffic along, and what was pending on it.
LEMMA OrderGone ==
  ASSUME OrderInv, NEW S, Gone(S), NoAttemptForgotten', pending' \subseteq pending,
         UNCHANGED <<routed, nacked, resolved, attempts>>
  PROVE  OrderInv'
<1>1. /\ sent' = {a \in sent : a.channel \notin S} /\ lost' = lost \ S
      /\ returns' = {a \in returns : a.channel \notin S}
      /\ confirms' \subseteq confirms
      /\ \A b \in pending' : b.channel \notin S
  BY DEF Gone, On, NoAttemptForgotten
<1>2. Numbered' /\ SentIsLive' /\ ConfirmedIsRejected' /\ ResolvedHasEvidence'
  BY <1>1 DEF OrderInv, Numbered, SentIsLive, ConfirmedIsRejected, ResolvedHasEvidence, Evidence,
     Alike
<1>3. StillUnderWay' /\ ReturnsInOrder'
  BY <1>1 DEF OrderInv, StillUnderWay, ReturnsInOrder, Evidence, Alike
<1> QED
  BY <1>2, <1>3 DEF OrderInv

\* A return of an event that was neither routed nor nacked rejects its own attempt.
LEMMA ReturnMeetsItsAttempt ==
  ASSUME TypeOK, OrderInv, NEW a \in returns, IsFirst(a, returns), ~Evidence(a), a \in pending
  PROVE  a \in ReturnedAttempt(a)
<1> DEFINE same == {b \in On(pending, {a.channel}) : b.event = a.event}
<1>1. a \in same
  BY DEF On
<1>2. ASSUME NEW c \in same PROVE a.id <= c.id
  <2>1. c \in pending /\ Alike(a, c) /\ c.id \in Nat /\ a.id \in Nat
    BY DEF On, Alike, TypeOK, Attempts
  <2>2. CASE c.id < a.id
    <3>1. c \in On(returns, {a.channel})
      BY <2>1, <2>2 DEF OrderInv, ReturnsInOrder, On, Alike
    <3> QED
      BY <3>1 DEF IsFirst
  <2> QED
    BY <2>1, <2>2
<1> HIDE DEF same
<1>3. ReturnedAttempt(a) = {b \in same : \A c \in same : b.id <= c.id}
  BY <1>1 DEF ReturnedAttempt, same
<1> QED
  BY <1>1, <1>2, <1>3

\* What the broker does with an attempt that is next.
LEMMA BrokerOrder ==
  ASSUME TypeOK, OrderInv, NEW a \in sent, BrokerTakes(a)
  PROVE  OrderInv'
<1>1. /\ pending' = pending /\ resolved' = resolved /\ lost' = lost /\ attempts' = attempts
      /\ sent' = sent \ {a} /\ IsFirst(a, sent) /\ a \in Attempts
  BY DEF BrokerTakes, BrokerRoutes, BrokerReturns, BrokerNacks, publishVars, netVars, countVars,
     TypeOK
<1>2. CASE BrokerRoutes(a) \/ BrokerNacks(a)
  <2>1. /\ returns' = returns
        /\ \E ok \in BOOLEAN : confirms' = confirms \cup {[attempt |-> a, ok |-> ok]}
        /\ routed' \cup nacked' = routed \cup nacked \cup {a}
    BY <1>2 DEF BrokerRoutes, BrokerNacks
  <2>2. Evidence(a)' /\ \A b : Evidence(b) => Evidence(b)'
    BY <2>1 DEF Evidence, Alike
  <2>3. Numbered' /\ SentIsLive' /\ ResolvedHasEvidence'
    BY <1>1, <2>1, <2>2 DEF OrderInv, Numbered, SentIsLive, ResolvedHasEvidence
  <2>4. StillUnderWay' /\ ReturnsInOrder'
    BY <1>1, <2>1, <2>2 DEF OrderInv, StillUnderWay, ReturnsInOrder
  <2>5. ConfirmedIsRejected'
    BY <1>1, <2>1, <2>2 DEF OrderInv, ConfirmedIsRejected
  <2> QED
    BY <2>3, <2>4, <2>5 DEF OrderInv
<1>3. CASE BrokerReturns(a)
  <2>1. /\ returns' = returns \cup {a} /\ confirms' = confirms
        /\ UNCHANGED <<routed, nacked>>
    BY <1>3 DEF BrokerReturns, brokerVars
  <2>2. \A b : Evidence(b)' <=> Evidence(b)
    BY <2>1, EvidenceSame
  <2>3. Numbered' /\ SentIsLive' /\ ResolvedHasEvidence' /\ ConfirmedIsRejected'
    BY <1>1, <2>1, <2>2 DEF OrderInv, Numbered, SentIsLive, ResolvedHasEvidence,
       ConfirmedIsRejected
  <2>4. StillUnderWay'
    BY <1>1, <2>1, <2>2 DEF OrderInv, StillUnderWay
  <2>5. ASSUME NEW b \in pending, Alike(a, b), b.id < a.id, ~Evidence(a)
        PROVE  b \in returns
    <3>1. ~Evidence(b) /\ b.channel \notin lost /\ b.channel = a.channel
      BY <2>5, EvidenceAlike DEF OrderInv, SentIsLive, Alike
    <3>2. b \notin sent
      <4>1. b.id \in Nat /\ a.id \in Nat
        BY DEF TypeOK, Attempts
      <4> QED
        BY <1>1, <2>5, <3>1, <4>1 DEF IsFirst, On
    <3> QED
      BY <3>1, <3>2 DEF OrderInv, StillUnderWay
  <2>6. ReturnsInOrder'
    BY <1>1, <2>1, <2>2, <2>5 DEF OrderInv, ReturnsInOrder, Alike
  <2> QED
    BY <2>3, <2>4, <2>6 DEF OrderInv
<1> QED
  BY <1>2, <1>3 DEF BrokerTakes

LEMMA OrderStep ==
  TypeOK /\ Links /\ NoAttemptForgotten /\ OrderInv /\ [Next]_vars => OrderInv'
<1> SUFFICES ASSUME TypeOK, Links, NoAttemptForgotten, OrderInv, [Next]_vars
             PROVE  OrderInv'
  OBVIOUS
<1>0. NoAttemptForgotten'
  BY PendingStep
<1>1. CASE TimerFires \/ Connect \/ ConnectFails \/ CreateChannel \/ Answer \/ Checked \/ CallFails
  BY <1>1, OrderKept DEF TimerFires, Connect, ConnectFails, CreateChannel, Answer, Checked,
     CallFails, publishVars, netVars, trafficVars, brokerVars, countVars
<1>2. CASE ChannelClosed \/ ConnectionClosed
  BY <1>0, <1>2, OrderGone DEF ChannelClosed, ConnectionClosed, publishVars, brokerVars,
     countVars
<1>3. ASSUME NEW e \in Events, NEW writable \in BOOLEAN, Publish(e, writable)
      PROVE  OrderInv'
  <2> DEFINE new == [id |-> attempts + 1, event |-> e, channel |-> channel]
  <2>1. new.id = attempts + 1 /\ new.channel = channel /\ attempts \in Nat
    BY DEF TypeOK
  <2>2. /\ attempts' = attempts + 1
        /\ UNCHANGED <<returns, confirms, lost, routed, nacked, resolved>>
        /\ pending' \subseteq pending \cup {new}
        /\ sent' \in {sent, sent \cup {new}}
        /\ new \in pending' \ pending => channel \in lost \/ new \in sent'
        /\ channel \in lost => sent' = sent
    BY <1>3 DEF Publish, netVars, brokerVars
  <2>3. \A a \in sent \cup returns : a.id <= attempts /\ a.id \in Nat
    BY DEF OrderInv, Numbered, TypeOK, Attempts
  <2>4. \A x \in confirms : x.attempt.id <= attempts /\ x.attempt.id \in Nat
    BY DEF OrderInv, Numbered, TypeOK, Attempts
  <2> HIDE DEF new
  <2>5. Numbered'
    BY <2>1, <2>2, <2>3, <2>4 DEF Numbered
  <2>6. SentIsLive' /\ ResolvedHasEvidence'
    BY <2>1, <2>2, EvidenceSame DEF OrderInv, SentIsLive, ResolvedHasEvidence, Evidence, Alike
  <2>7. StillUnderWay'
    BY <2>1, <2>2 DEF OrderInv, StillUnderWay, Evidence, Alike
  <2>8. ReturnsInOrder'
    <3> SUFFICES ASSUME NEW a \in returns', NEW b \in pending', Alike(a, b), b.id < a.id,
                        ~Evidence(a)'
                 PROVE  b \in returns'
      BY DEF ReturnsInOrder, Alike
    <3>1. ~Evidence(a) /\ a \in returns
      BY <2>2, EvidenceSame
    <3>2. b # new
      BY <2>1, <2>3, <3>1
    <3> QED
      BY <2>2, <3>1, <3>2 DEF OrderInv, ReturnsInOrder
  <2>9. ConfirmedIsRejected'
    <3> SUFFICES ASSUME NEW x \in confirms', x.ok, ~Evidence(x.attempt)', x.attempt \in pending'
                 PROVE  FALSE
      BY DEF ConfirmedIsRejected
    <3>1. ~Evidence(x.attempt) /\ x \in confirms
      BY <2>2, EvidenceSame
    <3>2. x.attempt # new
      BY <2>1, <2>4, <3>1
    <3> QED
      BY <2>2, <3>1, <3>2 DEF OrderInv, ConfirmedIsRejected
  <2> QED
    BY <2>5, <2>6, <2>7, <2>8, <2>9 DEF OrderInv
<1>4. ASSUME NEW a \in sent, BrokerTakes(a)
      PROVE  OrderInv'
  BY <1>4, BrokerOrder
<1>5. ASSUME NEW a \in returns, ReturnNoticed(a)
      PROVE  OrderInv'
  <2>1. /\ IsFirst(a, returns) /\ returns' = returns \ {a}
        /\ confirms' = confirms \cup {[attempt |-> a, ok |-> TRUE]}
        /\ pending' = pending \ ReturnedAttempt(a)
        /\ UNCHANGED <<sent, lost, routed, nacked, resolved, attempts>>
    BY <1>5 DEF ReturnNoticed, netVars, brokerVars, countVars
  <2>2. ~Evidence(a) => a \notin pending'
    BY <2>1, ReturnMeetsItsAttempt
  <2>3. \A b : Evidence(b)' <=> Evidence(b)
    BY <2>1, EvidenceSame
  <2>4. Numbered' /\ SentIsLive' /\ ResolvedHasEvidence'
    BY <2>1, <2>3 DEF OrderInv, Numbered, SentIsLive, ResolvedHasEvidence
  <2>5. StillUnderWay'
    BY <2>1, <2>2, <2>3 DEF OrderInv, StillUnderWay
  <2>6. ReturnsInOrder'
    <3> SUFFICES ASSUME NEW r \in returns', NEW b \in pending', Alike(r, b), b.id < r.id,
                        ~Evidence(r)'
                 PROVE  b \in returns'
      BY DEF ReturnsInOrder, Alike
    <3>1. r \in returns /\ b \in pending /\ ~Evidence(r)
      BY <2>1, <2>3
    <3>2. b \in returns
      BY <3>1 DEF OrderInv, ReturnsInOrder
    <3>3. ~Evidence(b)
      BY <3>1, EvidenceAlike
    <3> QED
      BY <2>1, <2>2, <3>2, <3>3
  <2>7. ConfirmedIsRejected'
    BY <2>1, <2>2, <2>3 DEF OrderInv, ConfirmedIsRejected
  <2> QED
    BY <2>4, <2>5, <2>6, <2>7 DEF OrderInv
<1>6. ASSUME NEW c \in confirms, ConfirmNoticed(c)
      PROVE  OrderInv'
  <2>1. /\ confirms' = confirms \ {c} /\ pending' \subseteq pending
        /\ resolved' = IF c.ok THEN resolved \cup ({c.attempt} \cap pending) ELSE resolved
        /\ UNCHANGED <<sent, returns, lost, routed, nacked, attempts>>
    BY <1>6 DEF ConfirmNoticed, netVars, brokerVars, countVars
  <2>2. \A b : Evidence(b)' <=> Evidence(b)
    BY <2>1, EvidenceSame
  <2>3. c.ok /\ c.attempt \in pending => Evidence(c.attempt)
    BY DEF OrderInv, ConfirmedIsRejected
  <2>4. ResolvedHasEvidence'
    BY <2>1, <2>2, <2>3 DEF OrderInv, ResolvedHasEvidence
  <2>5. Numbered' /\ SentIsLive' /\ StillUnderWay' /\ ReturnsInOrder' /\ ConfirmedIsRejected'
    BY <2>1, <2>2 DEF OrderInv, Numbered, SentIsLive, StillUnderWay, ReturnsInOrder,
       ConfirmedIsRejected
  <2> QED
    BY <2>4, <2>5 DEF OrderInv
<1>7. ASSUME NEW c \in full, Drained(c)
      PROVE  OrderInv'
  BY <1>7, OrderKept DEF Drained, netVars, brokerVars, countVars
<1>8. ASSUME NEW x \in open, Drop(x)
      PROVE  OrderInv'
  <2>1. /\ lost' = lost \cup Family(x) /\ sent' = {a \in sent : a.channel \notin Family(x)}
        /\ UNCHANGED <<pending, resolved, returns, confirms, routed, nacked, attempts>>
    BY <1>8 DEF Drop, On, publishVars, brokerVars
  <2>2. Numbered' /\ SentIsLive' /\ ResolvedHasEvidence' /\ ConfirmedIsRejected'
    BY <2>1 DEF OrderInv, Numbered, SentIsLive, ResolvedHasEvidence, ConfirmedIsRejected,
       Evidence, Alike
  <2>3. StillUnderWay' /\ ReturnsInOrder'
    BY <2>1 DEF OrderInv, StillUnderWay, ReturnsInOrder, Evidence, Alike
  <2> QED
    BY <2>2, <2>3 DEF OrderInv
<1>9. ASSUME NEW x \in open, CloseNoticed(x)
      PROVE  OrderInv'
  BY <1>0, <1>9, OrderGone DEF CloseNoticed, brokerVars, countVars
<1>10. CASE CloseProducer \/ TakeOver \/ UNCHANGED vars
  BY <1>10, OrderKept DEF CloseProducer, TakeOver, vars, publishVars, netVars, trafficVars,
     brokerVars, countVars
<1>11. CASE ConfirmsComplete
  <2>1. /\ AllConfirmed(active.channel)
        /\ resolved' = resolved \cup On(pending, {active.channel})
        /\ pending' \subseteq pending
        /\ UNCHANGED <<sent, returns, confirms, lost, routed, nacked, attempts>>
    BY <1>11 DEF ConfirmsComplete, netVars, trafficVars, brokerVars, countVars
  <2>2. \A b : Evidence(b)' <=> Evidence(b)
    BY <2>1, EvidenceSame
  <2>3. ASSUME NEW b \in On(pending, {active.channel}) PROVE Evidence(b)
    BY <2>1 DEF AllConfirmed, On, OrderInv, StillUnderWay
  <2>4. ResolvedHasEvidence'
    BY <2>1, <2>2, <2>3 DEF OrderInv, ResolvedHasEvidence
  <2>5. Numbered' /\ SentIsLive' /\ StillUnderWay' /\ ReturnsInOrder' /\ ConfirmedIsRejected'
    BY <2>1, <2>2 DEF OrderInv, Numbered, SentIsLive, StillUnderWay, ReturnsInOrder,
       ConfirmedIsRejected
  <2> QED
    BY <2>4, <2>5 DEF OrderInv
<1>12. CASE CloseActiveChannel
  BY <1>0, <1>12, OrderGone DEF CloseActiveChannel, brokerVars, countVars
<1>13. CASE CloseActiveConnection
  BY <1>0, <1>13, OrderGone DEF CloseActiveConnection, publishVars, brokerVars, countVars
<1> QED
  BY <1>1, <1>2, <1>3, <1>4, <1>5, <1>6, <1>7, <1>8, <1>9, <1>10, <1>11, <1>12, <1>13
     DEF Next, BrokerTakes

\* However returns, confirmations and lost channels interleave, a publish is
\* resolved only after its event was routed, or nacked, on its channel.
THEOREM ProducerResolvesRouted == Spec => []ResolvedWasRouted
<1>1. Init => NoAttemptForgotten /\ OrderInv
  BY DEF Init, NoAttemptForgotten, OrderInv, Numbered, SentIsLive, StillUnderWay, ReturnsInOrder,
     ConfirmedIsRejected, ResolvedHasEvidence
<1>2. OrderInv => ResolvedWasRouted
  BY DEF OrderInv, ResolvedHasEvidence, Evidence, Alike, ResolvedWasRouted
<1> QED
  BY <1>1, <1>2, TypeInit, TypeStep, LinksInit, LinksStep, PendingStep, OrderStep, PTL DEF Spec
-----------------------------------------------------------------------------
(***************************************************************************)
(* close() leaves nothing behind                                           *)
(***************************************************************************)
\* What is open belongs to the producer's connection, to the one a recovery is
\* about to close, or to the one close() has taken over.
NothingLeaks ==
  /\ closed => ~recoveryTimer
  /\ step = "connecting" => connection = None
  /\ stopping = "closed" => open = {}
  /\ \A x \in open :
       /\ ConnectionOf(x) # None
       /\ \/ ConnectionOf(x) = connection
          \/ step = "closingConnection" /\ ConnectionOf(x) = own.connection
          \/ stopping \in {"confirming", "closingChannel", "closingConnection"}
             /\ ConnectionOf(x) = active.connection

\* The steps that leave the connections alone.
LEMMA LeaksKept ==
  ASSUME NothingLeaks, open' \subseteq open,
         UNCHANGED <<connection, closed, stopping, active, recoveryTimer>>,
         \/ UNCHANGED <<step, own>>
         \/ step # "closingConnection" /\ (step' = "connecting" => connection = None)
  PROVE  NothingLeaks'
BY DEF NothingLeaks, ConnectionOf

\* A failed attempt closes its own connection in the next step.
LEMMA GiveUpLeaks ==
  ASSUME NothingLeaks, GiveUp, step # "closingConnection", open' \subseteq open,
         UNCHANGED <<closed, stopping, active>>
  PROVE  NothingLeaks'
BY DEF NothingLeaks, GiveUp, GoTo, Settle, ScheduleRecovery, ConnectionOf

LEMMA LeaksStep == TypeOK /\ Links /\ NothingLeaks /\ [Next]_vars => NothingLeaks'
<1> SUFFICES ASSUME TypeOK, Links, NothingLeaks, [Next]_vars PROVE NothingLeaks'
  OBVIOUS
<1>1. CASE TimerFires
  BY <1>1 DEF TimerFires, recoverVars, closeVars, netVars, NothingLeaks, ConnectionOf
<1>2. CASE Connect
  <2> DEFINE k == <<opened + 1, 0>>
  <2>0. opened \in Nat /\ own \in OwnType
    BY DEF TypeOK, OwnType
  <2>1. k \in Ids /\ k # None /\ ConnectionOf(k) = k
    BY <2>0, NewPair
  <2>2. open = {}
    BY <1>2 DEF Connect, NothingLeaks, Links, Phases
  <2>3. own'.connection = k
    BY <1>2, <2>0, <2>1, OwnUpdates, ZenonT(60) DEF Connect
  <2>4. /\ open' = {k} /\ connection' = (IF closed THEN None ELSE k)
        /\ step' = (IF closed THEN "closingConnection" ELSE "creating")
        /\ UNCHANGED <<closed, stopping, active, recoveryTimer>>
    BY <1>2, <2>2 DEF Connect, GoTo, closeVars
  <2>5. stopping # "closed"
    BY <1>2 DEF Connect, Links, Phases
  <2> HIDE DEF k
  <2> QED
    BY <2>1, <2>3, <2>4, <2>5 DEF NothingLeaks, ConnectionOf
<1>3. CASE ConnectFails
  BY <1>3, GiveUpLeaks DEF ConnectFails, closeVars, netVars
<1>4. CASE CreateChannel
  <2> DEFINE c == <<own.connection[1], opened + 1>>
  <2>1. /\ open' = open \cup {c} /\ step' = "checking" /\ own.connection \in open
        /\ UNCHANGED <<connection, closed, stopping, active, recoveryTimer>>
    BY <1>4 DEF CreateChannel, GoTo, clientVars, closeVars
  <2>2. ConnectionOf(c) = ConnectionOf(own.connection)
    BY DEF ConnectionOf
  <2>3. step = "creating" /\ stopping \in {"no", "recovering"}
    BY <1>4 DEF CreateChannel, Links, Phases, TypeOK
  <2> HIDE DEF c
  <2> QED
    BY <2>1, <2>2, <2>3 DEF NothingLeaks, ConnectionOf
<1>5. CASE Answer
  BY <1>5, LeaksKept DEF Answer, clientVars, closeVars, netVars
<1>6. CASE Checked
  BY <1>6, LeaksKept DEF Checked, GoTo, clientVars, closeVars, netVars, NothingLeaks,
     ConnectionOf
<1>7. CASE CallFails
  <2>1. step \in {"creating", "checking"} /\ UNCHANGED <<closed, stopping, active, open>>
    BY <1>7 DEF CallFails, Links, RecoveryOwns, closeVars, netVars
  <2> QED
    BY <1>7, <2>1, LeaksKept, GiveUpLeaks DEF CallFails, GoTo
<1>8. CASE ChannelClosed
  BY <1>8, GiveUpLeaks DEF ChannelClosed, Gone, closeVars
<1>9. CASE ConnectionClosed
  <2>1. \A x \in open : ConnectionOf(x) = own.connection => x \in Family(own.connection)
    <3>1. \A x \in open : ConnectionOf(ConnectionOf(x)) = ConnectionOf(x)
      BY DEF ConnectionOf
    <3> QED
      BY <3>1 DEF Family
  <2>2. /\ open' = open \ Family(own.connection) /\ step = "closingConnection"
        /\ step' \in {"idle", "failed"}
        /\ closed /\ ~recoveryTimer => ~recoveryTimer'
        /\ UNCHANGED <<connection, closed, stopping, active>>
    BY <1>9 DEF ConnectionClosed, Gone, Settle, ScheduleRecovery, closeVars
  <2> QED
    BY <2>1, <2>2 DEF NothingLeaks, Links, Phases, ConnectionOf
<1>10. ASSUME NEW e \in Events, NEW writable \in BOOLEAN, Publish(e, writable)
       PROVE  NothingLeaks'
  BY <1>10, LeaksKept DEF Publish, clientVars, recoverVars, closeVars, netVars
<1>11. ASSUME NEW a \in sent, BrokerTakes(a)
       PROVE  NothingLeaks'
  BY <1>11, LeaksKept DEF BrokerTakes, BrokerRoutes, BrokerReturns, BrokerNacks, clientVars,
     recoverVars, closeVars, netVars
<1>12. ASSUME NEW a \in returns, ReturnNoticed(a)
       PROVE  NothingLeaks'
  BY <1>12, LeaksKept DEF ReturnNoticed, clientVars, recoverVars, closeVars, netVars
<1>13. ASSUME NEW c \in confirms, ConfirmNoticed(c)
       PROVE  NothingLeaks'
  BY <1>13 DEF ConfirmNoticed, WaitFails, clientVars, recoverVars, netVars, NothingLeaks,
     ConnectionOf
<1>14. ASSUME NEW c \in full, Drained(c)
       PROVE  NothingLeaks'
  BY <1>14, LeaksKept DEF Drained, clientVars, recoverVars, closeVars, netVars
<1>15. ASSUME NEW x \in open, Drop(x)
       PROVE  NothingLeaks'
  BY <1>15, LeaksKept DEF Drop, clientVars, recoverVars, closeVars
<1>16. ASSUME NEW x \in open, CloseNoticed(x)
       PROVE  NothingLeaks'
  <2>1. /\ open' = open \ Family(x)
        /\ connection' = (IF connection \in Family(x) THEN None ELSE connection)
        /\ stopping' \in {stopping, "closingChannel"}
        /\ stopping' # stopping => stopping = "confirming"
        /\ closed /\ ~recoveryTimer => ~recoveryTimer'
        /\ UNCHANGED <<step, own, closed, active>>
    BY <1>16 DEF CloseNoticed, Gone, ScheduleRecovery
  <2>2. connection \in Family(x) => Family(x) = {y \in open : ConnectionOf(y) = connection}
    BY DEF Family, Links, OneConnection, ConnectionOf
  <2> QED
    BY <2>1, <2>2 DEF NothingLeaks, ConnectionOf
<1>17. CASE CloseProducer
  BY <1>17 DEF CloseProducer, recoverVars, netVars, NothingLeaks, ConnectionOf
<1>18. CASE TakeOver
  <2>1. active'.connection = connection
    BY <1>18 DEF TakeOver
  <2> QED
    BY <1>18, <2>1 DEF TakeOver, recoverVars, netVars, NothingLeaks, ConnectionOf
<1>19. CASE ConfirmsComplete \/ CloseActiveChannel
  BY <1>19 DEF ConfirmsComplete, CloseActiveChannel, Gone, clientVars, recoverVars, netVars,
     NothingLeaks, ConnectionOf
<1>20. CASE CloseActiveConnection
  <2>1. step = "idle" /\ connection = None
    BY <1>20 DEF CloseActiveConnection, Links, Phases
  <2>2. \A x \in open : x \in Family(active.connection)
    <3>1. \A x \in open : ConnectionOf(x) = active.connection
      BY <1>20, <2>1 DEF NothingLeaks, CloseActiveConnection
    <3>2. \A x \in open : ConnectionOf(active.connection) = active.connection
      BY <3>1 DEF ConnectionOf
    <3> QED
      BY <3>1, <3>2 DEF Family
  <2>3. open' = {} /\ UNCHANGED <<connection, step, closed, recoveryTimer>>
    BY <1>20, <2>2 DEF CloseActiveConnection, Gone, clientVars, recoverVars
  <2> QED
    BY <2>3 DEF NothingLeaks
<1>21. CASE UNCHANGED vars
  BY <1>21, LeaksKept DEF vars, clientVars, recoverVars, closeVars, netVars
<1> QED
  BY <1>1, <1>2, <1>3, <1>4, <1>5, <1>6, <1>7, <1>8, <1>9, <1>10, <1>11, <1>12, <1>13,
     <1>14, <1>15, <1>16, <1>17, <1>18, <1>19, <1>20, <1>21 DEF Next, BrokerTakes

\* Whatever the recovery was doing when close() was called and whatever is lost
\* meanwhile: a closed producer has nothing open, pending or scheduled.
THEOREM ProducerClosesClean == Spec => []ClosedIsClean
<1>1. Init => NoAttemptForgotten /\ NothingLeaks
  BY DEF Init, NoAttemptForgotten, NothingLeaks
<1>2. Links /\ NoAttemptForgotten /\ NothingLeaks => ClosedIsClean
  BY NothingPending DEF Links, Phases, NothingLeaks, ClosedIsClean, Clean
<1> QED
  BY <1>1, <1>2, TypeInit, TypeStep, LinksInit, LinksStep, PendingStep, LeaksStep, PTL DEF Spec
=============================================================================
