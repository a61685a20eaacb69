---------------------------- MODULE StartupProofs ----------------------------
(***************************************************************************)
(* Proofs about Startup, for any number of inverters, any capacity and any *)
(* bounds: commands wait for the loop without loss or disorder, none that  *)
(* waits ends the loop, and an MQTT session that was set up once is never  *)
(* set up again.                                                           *)
(***************************************************************************)
EXTENDS Startup, BroadcastProofs

\* Until the coordinator subscribes nothing has come to it; the MQTT task has not been
\* started before its turn.
Unstarted ==
  /\ phase \in {"datalog", "mqtt", "influx", "databases"} =>
       /\ fromMqtt = Subscribed /\ fromInverter = Subscribed
       /\ heard = 0 /\ taken = <<>> /\ arrived = 0 /\ connected = 0
  /\ phase \in {"datalog", "mqtt"} => task = "none"

\* What was heard and not taken waits.
Waiting == Numbered(taken, fromMqtt.q, heard)

\* The loop's receiver lags when more has arrived than its channel keeps.
Overrun ==
  /\ Len(fromInverter.q) <= arrived
  /\ fromInverter.lagged => arrived > Capacity
  /\ phase = "left" => arrived > Capacity \/ taken # <<>>

StartupInvariant == TypeOK /\ Unstarted /\ Waiting /\ Overrun
------------------------------------------------------------------------------
LEMMA InitialQueue ==
  ASSUME NEW q, q = Subscribed
  PROVE  q.q = <<>> /\ q.lagged = FALSE /\ Numbered(<<>>, q.q, 0)
<1>1. q.q = <<>> /\ q.lagged = FALSE
  BY DEF Subscribed
<1>2. Numbered(<<>>, <<>>, 0)
  BY CapacityAssumption DEF Numbered, Ascending, Before, AtMost, Counting
<1> QED BY <1>1, <1>2

LEMMA SetupRequestsType == SetupRequests \in Seq(Requests)
<1>1. InverterCount \in Nat
  BY StartupAssumption
<1>2. \A k \in 1..(InverterCount + 2) : k - 1 \in Requests
  BY <1>1 DEF Requests, Topics, Online
<1>3. InverterCount + 2 \in Nat
  BY <1>1
<1>4. SetupRequests \in [1..(InverterCount + 2) -> Requests]
  BY <1>2 DEF SetupRequests
<1> QED BY <1>3, <1>4

\* What a lost connection leaves of the requests are requests.
LEMMA PendingType ==
  ASSUME TypeOK
  PROVE  \A k \in 0..Len((IF unacked THEN <<Online>> ELSE <<>>) \o requests) :
           SubSeq((IF unacked THEN <<Online>> ELSE <<>>) \o requests, k + 1,
                  Len((IF unacked THEN <<Online>> ELSE <<>>) \o requests)) \in Seq(Requests)
<1> DEFINE p == (IF unacked THEN <<Online>> ELSE <<>>) \o requests
<1>1. requests \in Seq(Requests) /\ Online \in Requests
  BY DEF TypeOK, Requests
<1>2. (IF unacked THEN <<Online>> ELSE <<>>) \in Seq(Requests)
  BY <1>1
<1>3. p \in Seq(Requests)
  BY <1>1, <1>2
<1> HIDE DEF p
<1>4. \A k \in 0..Len(p) : SubSeq(p, k + 1, Len(p)) \in Seq(Requests)
  <2>1. TAKE k \in 0..Len(p)
  <2>2. \A i \in (k + 1)..Len(p) : p[i] \in Requests
    BY <1>3
  <2> QED BY <1>3, <2>2
<1> QED BY <1>4 DEF p

\* The end of the MQTT task, and of a connection, keep the types.
LEMMA CloseSessionType ==
  ASSUME TypeOK, CloseSession
  PROVE  /\ session' = FALSE /\ topics' \subseteq Topics /\ unacked' \in BOOLEAN
         /\ status' \in {"none", "online", "offline"} /\ will' \in BOOLEAN
  BY DEF TypeOK, CloseSession

LEMMA EndTaskType ==
  ASSUME TypeOK, EndTask
  PROVE  /\ task' \in {"none", "running", "ended"} /\ requests' \in Seq(Requests)
         /\ session' = FALSE /\ topics' \subseteq Topics /\ unacked' \in BOOLEAN
         /\ status' \in {"none", "online", "offline"} /\ will' \in BOOLEAN
         /\ task = "none" => task' = "none"
<1>1. CloseSession /\ UNCHANGED requests
  BY DEF EndTask
<1> QED BY <1>1, CloseSessionType DEF TypeOK, EndTask
------------------------------------------------------------------------------
(* The invariant, one step per action. *)

LEMMA StartupInit == ASSUME Init PROVE StartupInvariant
<1> USE StartupAssumption, CapacityAssumption
<1>1. TypeOK
  <2>1. fromInverter \in Receivers(Inverters) /\ fromMqtt \in Receivers(Nat)
    BY SubscribedType DEF Init
  <2>2. requests \in Seq(Requests) /\ taken \in Seq(Nat)
    BY DEF Init
  <2>3. /\ connected \in 0..InverterCount /\ commands \in 0..MaxCommands
        /\ packets \in 0..MaxPackets /\ drops \in 0..MaxDrops
        /\ arrived \in Nat /\ heard \in Nat
    BY DEF Init
  <2>4. /\ enabled \in Setups /\ phase \in Phases /\ accepting \in SUBSET Inverters
        /\ task \in {"none", "running", "ended"} /\ session = FALSE
        /\ topics \subseteq Topics /\ unacked \in BOOLEAN
        /\ status \in {"none", "online", "offline"} /\ will \in BOOLEAN
    BY DEF Init, Phases
  <2> QED BY <2>1, <2>2, <2>3, <2>4 DEF TypeOK
<1>2. Unstarted
  BY DEF Init, Unstarted
<1>3. Waiting
  BY InitialQueue DEF Init, Waiting
<1>4. Overrun
  <2>1. fromInverter.q = <<>> /\ fromInverter.lagged = FALSE
    BY InitialQueue DEF Init
  <2>2. Len(fromInverter.q) = 0
    BY <2>1
  <2> QED BY <2>1, <2>2 DEF Init, Overrun
<1> QED BY <1>1, <1>2, <1>3, <1>4 DEF StartupInvariant

\* An action of the session that leaves the coordinator and what it has heard alone only
\* has to keep its types.
LEMMA CoordinatorUnchanged ==
  ASSUME StartupInvariant, UNCHANGED <<coordinator, arrived, heard>>,
         task = "none" => task' = "none"
  PROVE  Unstarted' /\ Waiting' /\ Overrun'
<1>1. /\ UNCHANGED <<phase, connected, fromInverter, fromMqtt, taken>>
      /\ UNCHANGED <<arrived, heard>>
  BY DEF coordinator
<1> QED BY <1>1 DEF StartupInvariant, Unstarted, Waiting, Overrun

LEMMA SessionStep ==
  ASSUME StartupInvariant, Session
  PROVE  StartupInvariant'
<1> USE StartupAssumption
<1>0. TypeOK /\ Unstarted /\ Waiting /\ Overrun
  BY DEF StartupInvariant
<1>1. CASE Connect
  <2>1. TypeOK'
    BY <1>0, <1>1 DEF TypeOK, Connect, coordinator, counters
  <2>2. Unstarted' /\ Waiting' /\ Overrun'
    BY <1>1, CoordinatorUnchanged DEF Connect
  <2> QED BY <2>1, <2>2 DEF StartupInvariant
<1>2. CASE SendRequest
  <2>1. requests \in Seq(Requests) /\ requests # <<>>
    BY <1>0, <1>2 DEF TypeOK, SendRequest
  <2>2. Tail(requests) \in Seq(Requests) /\ Head(requests) \in Requests
    BY <2>1
  <2>3. Head(requests) # Online => Head(requests) \in Topics
    BY <2>2 DEF Requests
  <2>4. TypeOK'
    BY <1>0, <1>2, <2>2, <2>3 DEF TypeOK, SendRequest, coordinator, counters
  <2>5. Unstarted' /\ Waiting' /\ Overrun'
    BY <1>2, CoordinatorUnchanged DEF SendRequest
  <2> QED BY <2>4, <2>5 DEF StartupInvariant
<1>3. CASE Acknowledge
  <2>1. TypeOK'
    BY <1>0, <1>3 DEF TypeOK, Acknowledge, coordinator, broker, counters
  <2>2. Unstarted' /\ Waiting' /\ Overrun'
    BY <1>3, CoordinatorUnchanged DEF Acknowledge
  <2> QED BY <2>1, <2>2 DEF StartupInvariant
<1>4. CASE Drop
  <2>1. requests' \in Seq(Requests)
    BY <1>0, <1>4, PendingType DEF Drop
  <2>2. CloseSession /\ drops' \in 0..MaxDrops
    BY <1>0, <1>4 DEF Drop, TypeOK
  <2>3. TypeOK'
    BY <1>0, <1>4, <2>1, <2>2, CloseSessionType DEF TypeOK, Drop, coordinator
  <2>4. Unstarted' /\ Waiting' /\ Overrun'
    BY <1>4, CoordinatorUnchanged DEF Drop
  <2> QED BY <2>3, <2>4 DEF StartupInvariant
<1>5. CASE BrokerNotices
  <2>1. TypeOK'
    BY <1>0, <1>5 DEF TypeOK, BrokerNotices, coordinator, mqtt, counters
  <2>2. Unstarted' /\ Waiting' /\ Overrun'
    BY <1>5, CoordinatorUnchanged DEF BrokerNotices, mqtt
  <2> QED BY <2>1, <2>2 DEF StartupInvariant
<1>6. CASE Receive
  <2>1. commands' \in 0..MaxCommands
    BY <1>0, <1>6 DEF Receive, TypeOK
  <2>2. ASSUME Listening, fromMqtt' = Push(fromMqtt, heard + 1), heard' = heard + 1,
               UNCHANGED <<mqtt, broker>>
        PROVE  StartupInvariant'
    <3>1. fromMqtt' \in Receivers(Nat) /\ heard' \in Nat
      BY <1>0, <2>2, PushType DEF TypeOK
    <3>2. TypeOK'
      BY <1>0, <1>6, <2>1, <2>2, <3>1 DEF TypeOK, Receive, mqtt, broker
    <3>3. Waiting'
      <4>1. taken \in Seq(Nat) /\ fromMqtt \in Receivers(Nat) /\ heard \in Nat
        BY <1>0 DEF TypeOK
      <4>2. Numbered(taken, Push(fromMqtt, heard + 1).q, heard + 1)
        BY <1>0, <4>1, PushNumbered DEF Waiting
      <4>3. taken' = taken
        BY <1>6 DEF Receive
      <4> QED BY <2>2, <4>2, <4>3 DEF Waiting
    <3>4. Unstarted' /\ Overrun'
      BY <1>0, <1>6, <2>2 DEF Unstarted, Overrun, Listening, Receive
    <3> QED BY <3>2, <3>3, <3>4 DEF StartupInvariant
  <2>3. ASSUME EndTask, UNCHANGED <<fromMqtt, heard>>
        PROVE  StartupInvariant'
    <3>1. TypeOK'
      BY <1>0, <1>6, <2>1, <2>3, EndTaskType DEF TypeOK, Receive
    <3>2. Unstarted' /\ Waiting' /\ Overrun'
      BY <1>0, <1>6, <2>3, CoordinatorUnchanged, EndTaskType DEF Receive, coordinator
    <3> QED BY <3>1, <3>2 DEF StartupInvariant
  <2> QED BY <1>6, <2>2, <2>3 DEF Receive
<1>7. CASE SenderEnds
  <2>1. TypeOK'
    BY <1>0, <1>7, EndTaskType DEF TypeOK, SenderEnds, coordinator, counters
  <2>2. Unstarted' /\ Waiting' /\ Overrun'
    BY <1>0, <1>7, CoordinatorUnchanged, EndTaskType DEF SenderEnds
  <2> QED BY <2>1, <2>2 DEF StartupInvariant
<1> QED BY <1>1, <1>2, <1>3, <1>4, <1>5, <1>6, <1>7 DEF Session

\* A message of an inverter is counted, and lost only when more have come than fit.
LEMMA PushOverrun ==
  ASSUME StartupInvariant, NEW i \in Inverters,
         fromInverter' = Push(fromInverter, i), arrived' = arrived + 1, phase' = phase,
         taken' = taken
  PROVE  Overrun' /\ fromInverter' \in Receivers(Inverters) /\ arrived' \in Nat
<1>1. /\ fromInverter \in Receivers(Inverters) /\ arrived \in Nat
      /\ Len(fromInverter.q) \in Nat /\ fromInverter.lagged \in BOOLEAN
  BY DEF StartupInvariant, TypeOK, Receivers
<1>2. /\ Len(fromInverter.q) <= arrived
      /\ fromInverter.lagged => arrived > Capacity
      /\ phase = "left" => arrived > Capacity \/ taken # <<>>
  BY DEF StartupInvariant, Overrun
<1>3. CASE /\ Longer(fromInverter.q, fromInverter'.q, i)
           /\ fromInverter'.lagged = fromInverter.lagged
  <2>1. Len(fromInverter'.q) <= arrived + 1
    BY <1>1, <1>2, <1>3 DEF Longer
  <2>2. /\ fromInverter.lagged => arrived + 1 > Capacity
        /\ phase = "left" => arrived + 1 > Capacity \/ taken # <<>>
    BY <1>1, <1>2, CapacityAssumption
  <2> QED BY <1>1, <1>3, <2>1, <2>2, PushType DEF Overrun
<1>4. CASE Shifted(fromInverter.q, fromInverter'.q, i) /\ fromInverter'.lagged = TRUE
  <2>1. arrived + 1 > Capacity /\ Len(fromInverter'.q) <= arrived + 1
    BY <1>1, <1>2, <1>4, CapacityAssumption DEF Shifted
  <2> QED BY <1>1, <1>4, <2>1, PushType DEF Overrun
<1> QED BY <1>1, <1>3, <1>4, PushElements

LEMMA StartStep ==
  ASSUME StartupInvariant, Start
  PROVE  StartupInvariant'
<1> USE StartupAssumption
<1>0. TypeOK /\ Unstarted /\ Waiting /\ Overrun
  BY DEF StartupInvariant
<1>1. CASE OpenDatalog
  <2>1. TypeOK'
    BY <1>0, <1>1 DEF TypeOK, OpenDatalog, Phases, mqtt, broker, counters
  <2>2. Unstarted' /\ Waiting' /\ Overrun'
    BY <1>0, <1>1 DEF OpenDatalog, Unstarted, Waiting, Overrun, mqtt
  <2> QED BY <2>1, <2>2 DEF StartupInvariant
<1>2. CASE OpenFails
  <2>1. TypeOK'
    BY <1>0, <1>2 DEF TypeOK, OpenFails, Phases, mqtt, broker, counters
  <2>2. Unstarted' /\ Waiting' /\ Overrun'
    BY <1>0, <1>2 DEF OpenFails, Unstarted, Waiting, Overrun
  <2> QED BY <2>1, <2>2 DEF StartupInvariant
<1>3. CASE SpawnMqtt
  <2>1. TypeOK'
    BY <1>0, <1>3, SetupRequestsType DEF TypeOK, SpawnMqtt, Phases, Unstarted, broker, counters
  <2>2. Unstarted' /\ Waiting' /\ Overrun'
    BY <1>0, <1>3 DEF SpawnMqtt, Unstarted, Waiting, Overrun
  <2> QED BY <2>1, <2>2 DEF StartupInvariant
<1>4. CASE TestInflux
  <2>1. TypeOK'
    BY <1>0, <1>4 DEF TypeOK, TestInflux, Phases, mqtt, broker, counters
  <2>2. Unstarted' /\ Waiting' /\ Overrun'
    BY <1>0, <1>4 DEF TestInflux, Unstarted, Waiting, Overrun
  <2> QED BY <2>1, <2>2 DEF StartupInvariant
<1>5. CASE TestFails
  <2>1. TypeOK'
    BY <1>0, <1>5, EndTaskType DEF TypeOK, TestFails, Phases, counters
  <2>2. Unstarted' /\ Waiting' /\ Overrun'
    BY <1>0, <1>5 DEF TestFails, Unstarted, Waiting, Overrun
  <2> QED BY <2>1, <2>2 DEF StartupInvariant
<1>6. CASE Subscribe
  <2>1. fromMqtt' = fromMqtt /\ fromInverter' = fromInverter
    BY <1>0, <1>6 DEF Subscribe, Unstarted
  <2>2. TypeOK'
    BY <1>0, <1>6, <2>1 DEF TypeOK, Subscribe, Phases, mqtt, broker, counters
  <2>3. Unstarted' /\ Waiting' /\ Overrun'
    BY <1>0, <1>6, <2>1 DEF Subscribe, Unstarted, Waiting, Overrun
  <2> QED BY <2>2, <2>3 DEF StartupInvariant
<1>7. CASE Accept
  <2>1. TypeOK'
    BY <1>0, <1>7 DEF TypeOK, Accept, coordinator, mqtt, broker, counters
  <2>2. Unstarted' /\ Waiting' /\ Overrun'
    BY <1>7, CoordinatorUnchanged DEF Accept, mqtt
  <2> QED BY <2>1, <2>2 DEF StartupInvariant
<1>8. CASE ConnectInverter
  <2>1. connected + 1 \in Inverters /\ phase' = phase
    BY <1>0, <1>8 DEF ConnectInverter, TypeOK, Inverters
  <2>2. Overrun' /\ fromInverter' \in Receivers(Inverters) /\ arrived' \in Nat
    BY <1>8, <2>1, PushOverrun DEF ConnectInverter
  <2>3. TypeOK'
    BY <1>0, <1>8, <2>1, <2>2 DEF TypeOK, ConnectInverter, Inverters, mqtt, broker, counters
  <2>4. Unstarted' /\ Waiting'
    BY <1>0, <1>8 DEF ConnectInverter, Unstarted, Waiting
  <2> QED BY <2>2, <2>3, <2>4 DEF StartupInvariant
<1>9. CASE Packet
  <2>1. PICK i \in 1..connected : fromInverter' = Push(fromInverter, i)
    BY <1>9 DEF Packet
  <2>2. i \in Inverters /\ phase' = phase /\ arrived' = arrived + 1 /\ taken' = taken
    BY <1>0, <1>9 DEF Packet, TypeOK, Inverters
  <2>3. Overrun' /\ fromInverter' \in Receivers(Inverters) /\ arrived' \in Nat
    BY <2>1, <2>2, PushOverrun
  <2>4. packets' \in 0..MaxPackets
    BY <1>0, <1>9 DEF Packet, TypeOK
  <2>5. TypeOK'
    BY <1>0, <1>9, <2>3, <2>4 DEF TypeOK, Packet, mqtt, broker
  <2>6. Unstarted' /\ Waiting'
    BY <1>0, <1>9 DEF Packet, Unstarted, Waiting, Listening
  <2> QED BY <2>3, <2>5, <2>6 DEF StartupInvariant
<1>10. CASE StartLoop
  <2>1. TypeOK'
    BY <1>0, <1>10 DEF TypeOK, StartLoop, Phases, mqtt, broker, counters
  <2>2. Unstarted' /\ Waiting' /\ Overrun'
    BY <1>0, <1>10 DEF StartLoop, Unstarted, Waiting, Overrun
  <2> QED BY <2>1, <2>2 DEF StartupInvariant
<1> QED BY <1>1, <1>2, <1>3, <1>4, <1>5, <1>6, <1>7, <1>8, <1>9, <1>10 DEF Start

LEMMA LoopStep ==
  ASSUME StartupInvariant, Loop
  PROVE  StartupInvariant'
<1> USE StartupAssumption
<1>0. TypeOK /\ Unstarted /\ Waiting /\ Overrun
  BY DEF StartupInvariant
<1>1. CASE TakePacket
  <2>1. fromInverter \in Receivers(Inverters) /\ HasMessage(fromInverter)
    BY <1>0, <1>1 DEF TypeOK, TakePacket
  <2>2. fromInverter' \in Receivers(Inverters)
    BY <1>1, <2>1, PoppedType DEF TakePacket
  <2>3. TypeOK'
    BY <1>0, <1>1, <2>2 DEF TypeOK, TakePacket, mqtt, broker, counters
  <2>4. Overrun'
    <3>1. /\ Len(fromInverter'.q) = Len(fromInverter.q) - 1 /\ Len(fromInverter.q) \in Nat
          /\ fromInverter'.lagged = fromInverter.lagged
      BY <1>1, <2>1 DEF TakePacket, Popped, HasMessage, Receivers
    <3>2. arrived \in Nat /\ arrived' = arrived /\ phase' = phase /\ taken' = taken
      BY <1>0, <1>1 DEF TakePacket, TypeOK
    <3> QED BY <1>0, <3>1, <3>2 DEF Overrun
  <2>5. Unstarted' /\ Waiting'
    BY <1>0, <1>1 DEF TakePacket, Unstarted, Waiting
  <2> QED BY <2>3, <2>4, <2>5 DEF StartupInvariant
<1>2. CASE LoopEnd
  <2>1. TypeOK'
    BY <1>0, <1>2 DEF TypeOK, LoopEnd, Phases, mqtt, broker, counters
  <2>2. Unstarted' /\ Waiting' /\ Overrun'
    BY <1>0, <1>2 DEF LoopEnd, HasLagged, Unstarted, Waiting, Overrun
  <2> QED BY <2>1, <2>2 DEF StartupInvariant
<1>3. CASE TakeCommand
  <2>1. /\ fromMqtt \in Receivers(Nat) /\ HasMessage(fromMqtt)
        /\ taken \in Seq(Nat) /\ heard \in Nat
    BY <1>0, <1>3 DEF TypeOK, TakeCommand
  <2>2. Popped(fromMqtt) \in Receivers(Nat) /\ Head(fromMqtt.q) \in Nat
    BY <2>1, PoppedType
  <2>3. taken' \in Seq(Nat) /\ fromMqtt' \in Receivers(Nat)
    BY <1>3, <2>1, <2>2 DEF TakeCommand
  <2>4. TypeOK'
    BY <1>0, <1>3, <2>3 DEF TypeOK, TakeCommand, mqtt, broker, counters
  <2>5. Waiting'
    <3>1. Numbered(Append(taken, Head(fromMqtt.q)), Popped(fromMqtt).q, heard)
      BY <1>0, <2>1, PopNumbered DEF Waiting
    <3>2. /\ taken' = Append(taken, Head(fromMqtt.q)) /\ fromMqtt' = Popped(fromMqtt)
          /\ heard' = heard
      BY <1>3 DEF TakeCommand
    <3> QED BY <3>1, <3>2 DEF Waiting
  <2>6. Unstarted' /\ Overrun'
    BY <1>0, <1>3 DEF TakeCommand, Unstarted, Overrun
  <2> QED BY <2>4, <2>5, <2>6 DEF StartupInvariant
<1>4. CASE CommandsLost
  <2>1. fromMqtt' \in Receivers(Nat) /\ fromMqtt'.q = fromMqtt.q
    BY <1>0, <1>4, CaughtUpType DEF TypeOK, CommandsLost
  <2>2. TypeOK'
    BY <1>0, <1>4, <2>1 DEF TypeOK, CommandsLost, mqtt, broker, counters
  <2>3. Unstarted' /\ Waiting' /\ Overrun'
    BY <1>0, <1>4, <2>1 DEF CommandsLost, Unstarted, Waiting, Overrun
  <2> QED BY <2>2, <2>3 DEF StartupInvariant
<1>5. CASE CommandEndsLoop
  <2>1. TypeOK'
    BY <1>0, <1>5 DEF TypeOK, CommandEndsLoop, Phases, mqtt, broker, counters
  <2>2. Unstarted' /\ Waiting' /\ Overrun'
    BY <1>0, <1>5 DEF CommandEndsLoop, Unstarted, Waiting, Overrun
  <2> QED BY <2>1, <2>2 DEF StartupInvariant
<1>6. CASE Stop
  <2>1. TypeOK'
    BY <1>0, <1>6, EndTaskType DEF TypeOK, Stop, Phases, counters
  <2>2. Unstarted' /\ Waiting' /\ Overrun'
    BY <1>0, <1>6 DEF Stop, Unstarted, Waiting, Overrun
  <2> QED BY <2>1, <2>2 DEF StartupInvariant
<1> QED BY <1>1, <1>2, <1>3, <1>4, <1>5, <1>6 DEF Loop

LEMMA StartupNext ==
  ASSUME StartupInvariant, [Next]_vars
  PROVE  StartupInvariant'
<1>1. CASE UNCHANGED vars
  <2>1. /\ UNCHANGED <<enabled, coordinator, accepting, arrived, heard>>
        /\ UNCHANGED <<mqtt, broker, counters>>
    BY <1>1 DEF vars
  <2>2. TypeOK'
    BY <2>1 DEF StartupInvariant, TypeOK, coordinator, mqtt, broker, counters
  <2>3. Unstarted' /\ Waiting' /\ Overrun'
    BY <2>1, CoordinatorUnchanged DEF mqtt
  <2> QED BY <2>2, <2>3 DEF StartupInvariant
<1> QED BY <1>1, SessionStep, StartStep, LoopStep DEF Next
------------------------------------------------------------------------------
(* Commands that wait are in order, from any numbered queue.               *)
LEMMA NumberedInOrder ==
  ASSUME NEW t \in Seq(Nat), NEW q \in Seq(Nat), NEW n \in Nat, Numbered(t, q, n)
  PROVE  LET all == t \o q
         IN /\ \A j \in 1..Len(all) : \A k \in 1..Len(all) : j < k => all[j] < all[k]
            /\ n <= Capacity => all = [k \in 1..n |-> k]
<1> DEFINE all == t \o q
<1>1. /\ all \in Seq(Nat) /\ Len(all) = Len(t) + Len(q)
      /\ Len(t) \in Nat /\ Len(q) \in Nat
  OBVIOUS
<1>2. \A k \in 1..Len(t) : all[k] = t[k]
  BY <1>1
<1>3. \A k \in 1..Len(q) : all[Len(t) + k] = q[k]
  BY <1>1
<1>4. \A k \in 1..Len(all) : k \in 1..Len(t) \/ k - Len(t) \in 1..Len(q)
  BY <1>1
<1>5. \A k \in 1..Len(all) : k - Len(t) \in 1..Len(q) => all[k] = q[k - Len(t)]
  <2>1. TAKE k \in 1..Len(all)
  <2>2. Len(t) + (k - Len(t)) = k
    BY <1>1
  <2> QED BY <1>3, <2>2
<1> HIDE DEF all
<1>6. ASSUME NEW j \in 1..Len(all), NEW k \in 1..Len(all), j < k
      PROVE  all[j] < all[k]
  <2>1. CASE k \in 1..Len(t)
    <3>1. j \in 1..Len(t)
      BY <1>1, <1>6, <2>1
    <3> QED BY <1>2, <1>6, <2>1, <3>1 DEF Numbered, Ascending
  <2>2. CASE j \in 1..Len(t) /\ k - Len(t) \in 1..Len(q)
    BY <1>2, <1>5, <2>2 DEF Numbered, Before
  <2>3. CASE j - Len(t) \in 1..Len(q) /\ k - Len(t) \in 1..Len(q)
    <3>1. j - Len(t) < k - Len(t)
      BY <1>1, <1>6
    <3> QED BY <1>5, <2>3, <3>1 DEF Numbered, Ascending
  <2>4. j - Len(t) \in 1..Len(q) => ~(k \in 1..Len(t))
    BY <1>1, <1>6
  <2> QED BY <1>4, <2>1, <2>2, <2>3, <2>4
<1>7. ASSUME n <= Capacity
      PROVE  all = [k \in 1..n |-> k]
  <2>1. Len(t) + Len(q) = n /\ Counting(t, 0) /\ Counting(q, Len(t))
    BY <1>7 DEF Numbered
  <2>2. ASSUME NEW k \in 1..n
        PROVE  all[k] = k
    <3>1. k \in 1..Len(all)
      BY <1>1, <2>1
    <3>2. CASE k \in 1..Len(t)
      BY <1>2, <2>1, <3>2 DEF Counting
    <3>3. CASE k - Len(t) \in 1..Len(q)
      <4>1. all[k] = Len(t) + (k - Len(t))
        BY <1>5, <2>1, <3>1, <3>3 DEF Counting
      <4> QED BY <1>1, <3>1, <4>1
    <3> QED BY <1>4, <3>1, <3>2, <3>3
  <2>3. Len(all) = n
    BY <1>1, <2>1
  <2> QED BY <1>1, <2>2, <2>3
<1>8. /\ \A j \in 1..Len(all) : \A k \in 1..Len(all) : j < k => all[j] < all[k]
      /\ n <= Capacity => all = [k \in 1..n |-> k]
  BY <1>6, <1>7
<1> QED BY <1>8 DEF all
------------------------------------------------------------------------------
\* The inductive invariant: where each component stands in the start and the session.
THEOREM InvariantHolds == Spec => []StartupInvariant
<1>1. Init => StartupInvariant
  BY StartupInit
<1>2. StartupInvariant /\ [Next]_vars => StartupInvariant'
  BY StartupNext
<1> QED BY <1>1, <1>2, PTL DEF Spec

\* Every variable keeps its type, and a connection to the broker is one of a running task.
THEOREM TypeCorrect == Spec => []TypeOK
<1>1. StartupInvariant => TypeOK
  BY DEF StartupInvariant
<1> QED BY <1>1, InvariantHolds, PTL

\* Commands that come while the inverters are being connected wait in order, and none is
\* lost that the channel has room for.
THEOREM CommandsWaitForTheLoop == Spec => []CommandsWait
<1>1. StartupInvariant => CommandsWait
  <2>1. SUFFICES ASSUME StartupInvariant PROVE CommandsWait
    OBVIOUS
  <2>2. taken \in Seq(Nat) /\ fromMqtt.q \in Seq(Nat) /\ heard \in Nat
    BY <2>1 DEF StartupInvariant, TypeOK, Receivers
  <2>3. Numbered(taken, fromMqtt.q, heard)
    BY <2>1 DEF StartupInvariant, Waiting
  <2> QED BY <2>2, <2>3, NumberedInOrder DEF CommandsWait
<1> QED BY <1>1, InvariantHolds, PTL

\* The loop ends by itself only when its channel of packets was overrun, or after a
\* command it has taken.
THEOREM LoopEndIsExplained == Spec => []LoopEndHasAReason
<1>1. StartupInvariant => LoopEndHasAReason
  BY DEF StartupInvariant, Overrun, LoopEndHasAReason
<1> QED BY <1>1, InvariantHolds, PTL

\* No step of a session without subscriptions and requests makes either, or hears a
\* command.
LEMMA DeafStep ==
  ASSUME StartupInvariant, Deaf, [Next]_vars
  PROVE  Deaf' /\ heard' = heard /\ (status = "offline" => status' = "offline")
<1>0. /\ task # "none" /\ requests = <<>> /\ topics = {} /\ unacked = FALSE
      /\ phase \notin {"datalog", "mqtt"}
  BY DEF Deaf, StartupInvariant, TypeOK, Unstarted
<1>1. ASSUME UNCHANGED <<mqtt, heard, broker>>
      PROVE  Deaf' /\ heard' = heard /\ (status = "offline" => status' = "offline")
  BY <1>0, <1>1 DEF Deaf, mqtt, broker
<1>2. ASSUME EndTask, UNCHANGED heard
      PROVE  Deaf' /\ heard' = heard /\ (status = "offline" => status' = "offline")
  BY <1>0, <1>2 DEF Deaf, EndTask, CloseSession
<1>3. CASE Session
  <2>1. CASE Connect
    BY <1>0, <2>1 DEF Connect, Deaf
  <2>2. CASE SendRequest
    BY <1>0, <2>2 DEF SendRequest
  <2>3. CASE Acknowledge
    BY <1>0, <2>3 DEF Acknowledge
  <2>4. CASE Drop
    <3>1. PICK k \in 0..Len(<<>> \o requests) :
            requests' = SubSeq(<<>> \o requests, k + 1, Len(<<>> \o requests))
      BY <1>0, <2>4 DEF Drop
    <3>2. requests' = <<>>
      BY <1>0, <3>1
    <3> QED BY <1>0, <2>4, <3>2 DEF Drop, CloseSession, Deaf
  <2>5. CASE BrokerNotices
    BY <1>0, <2>5 DEF BrokerNotices, Deaf, mqtt
  <2>6. CASE Receive
    BY <1>0, <2>6 DEF Receive
  <2>7. CASE SenderEnds
    BY <1>2, <2>7 DEF SenderEnds
  <2> QED BY <1>3, <2>1, <2>2, <2>3, <2>4, <2>5, <2>6, <2>7 DEF Session
<1>4. CASE Start
  <2>1. CASE TestFails
    BY <1>2, <2>1 DEF TestFails
  <2>2. CASE ~TestFails
    <3>1. UNCHANGED <<mqtt, heard, broker>>
      BY <1>0, <1>4, <2>2
        DEF Start, OpenDatalog, OpenFails, SpawnMqtt, TestInflux, Subscribe, Accept,
            ConnectInverter, Packet, StartLoop
    <3> QED BY <1>1, <3>1
  <2> QED BY <2>1, <2>2
<1>5. CASE Loop
  <2>1. CASE Stop
    BY <1>2, <2>1 DEF Stop
  <2>2. CASE ~Stop
    <3>1. UNCHANGED <<mqtt, heard, broker>>
      BY <1>5, <2>2 DEF Loop, TakePacket, LoopEnd, CommandEndsLoop, TakeCommand, CommandsLost
    <3> QED BY <1>1, <3>1
  <2> QED BY <2>1, <2>2
<1>6. CASE UNCHANGED vars
  BY <1>1, <1>6 DEF vars
<1> QED BY <1>3, <1>4, <1>5, <1>6 DEF Next

\* A session that was set up and lost is never set up again, and hears nothing.
THEOREM DeafForGood == Spec => StaysDeaf
<1>1. StartupInvariant /\ [Next]_vars =>
        [Deaf => Deaf' /\ heard' = heard /\ (status = "offline" => status' = "offline")]_vars
  BY DeafStep
<1> QED BY <1>1, InvariantHolds, PTL DEF Spec, StaysDeaf
==============================================================================
