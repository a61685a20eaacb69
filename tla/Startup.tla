------------------------------- MODULE Startup -------------------------------
(***************************************************************************)
(* How the process starts and ends, and what its MQTT session does in the  *)
(* meantime: Coordinator::start, which starts one component after the      *)
(* other and connects the inverters before the loop begins; the MQTT task, *)
(* which runs beside it from its second step on; and the broker, with the  *)
(* retained status of the bridge and its last will.                        *)
(*                                                                         *)
(* Commands are numbered in the order they reach the bridge while its      *)
(* coordinator listens.  What a command or a packet does is in the modules *)
(* CommandPath and Sinks; here the loop only takes them.  Databases are    *)
(* spawned and never waited for, and leave no trace here.                  *)
(***************************************************************************)
EXTENDS Naturals, Sequences, SequencesExt, Broadcast

CONSTANTS
  InverterCount,  \* enabled inverters of the configuration
  Setups,         \* the sets of optional components a configuration may enable
  MaxCommands,    \* bound: commands published to the bridge
  MaxPackets,     \* bound: packets of the inverters
  MaxDrops        \* bound: lost connections to the broker

ASSUME StartupAssumption ==
  /\ InverterCount \in Nat
  /\ Setups \subseteq SUBSET {"datalog", "mqtt", "influx"}
  /\ MaxCommands \in Nat /\ MaxPackets \in Nat /\ MaxDrops \in Nat

Inverters == 1..InverterCount

\* What start is at: opening the datalog file, spawning the MQTT task, testing
\* InfluxDB, spawning the databases, connecting the inverters; then the loop, or its
\* end.  "failed" and "stopped": the process has exited.
Phases == {"datalog", "mqtt", "influx", "databases", "inverters", "loop", "left",
           "failed", "stopped"}

\* What setup asks of the broker, in this order: the status "online", the commands for
\* all inverters (topic 1), those for each one.
Online   == 0
Topics   == 1..(InverterCount + 1)
Requests == {Online} \cup Topics
SetupRequests == [k \in 1..(InverterCount + 2) |-> k - 1]

VARIABLES
  enabled,       \* the optional components of the configuration
  phase,         \* what the coordinator is at
  accepting,     \* inverters that would accept a connection
  connected,     \* the inverters connected so far are 1..connected
  fromInverter,  \* the coordinator's receiver of from_inverter
  arrived,       \* history: messages of inverters sent to from_inverter
  fromMqtt,      \* the coordinator's receiver of from_mqtt
  heard,         \* history: commands that have reached the listening bridge
  taken,         \* history: commands the loop has taken
  task,          \* the MQTT task
  requests,      \* requests of setup the client has not sent yet
  session,       \* the client has a connection to the broker
  topics,        \* what the session has subscribed to
  unacked,       \* the session's "online" has not been acknowledged
  status,        \* the retained status of the bridge
  will,          \* the broker has a lost session's will to publish
  commands, packets, drops  \* counters of the bounds

coordinator == <<phase, connected, fromInverter, fromMqtt, taken>>
mqtt        == <<task, requests, session, topics, unacked>>
broker      == <<status, will>>
counters    == <<commands, packets, drops>>
vars == <<enabled, coordinator, accepting, arrived, heard, mqtt, broker, counters>>

Listening == phase \in {"inverters", "loop"}
Exited    == phase \in {"failed", "stopped"}
------------------------------------------------------------------------------
Init ==
  /\ enabled \in Setups /\ phase = "datalog"
  /\ accepting \in SUBSET Inverters /\ connected = 0
  /\ fromInverter = Subscribed /\ arrived = 0
  /\ fromMqtt = Subscribed /\ heard = 0 /\ taken = <<>>
  /\ task = "none" /\ requests = <<>> /\ session = FALSE /\ topics = {} /\ unacked = FALSE
  /\ status = "none" /\ will = FALSE
  /\ commands = 0 /\ packets = 0 /\ drops = 0

(***************************************************************************)
(* The MQTT task.                                                          *)
(***************************************************************************)

\* Mutant: the bridge takes leave of the broker, which forgets its will.
CloseSessionPolitely ==
  /\ session' = FALSE /\ topics' = {} /\ unacked' = FALSE
  /\ UNCHANGED <<will, status>>

\* The connection goes down without a Disconnect: the broker has the will to publish.
CloseSession ==
  /\ session' = FALSE /\ topics' = {} /\ unacked' = FALSE
  /\ will' = (will \/ session) /\ UNCHANGED status

\* Mutant: the event loop runs on when the sender has ended.
EndSender ==
  /\ task' = IF task = "running" THEN "ended" ELSE task
  /\ UNCHANGED <<requests, session, topics, unacked, status, will>>

\* try_join fails, or the process exits: the task and its connection end.
EndTask ==
  /\ task' = IF task = "running" THEN "ended" ELSE task
  /\ CloseSession
  /\ UNCHANGED requests

\* Mutant: the client subscribes again with every connection.
ConnectAndSetup ==
  /\ task = "running" /\ ~session
  /\ session' = TRUE
  /\ requests' = SetupRequests
  /\ status' = IF will THEN "offline" ELSE status
  /\ will' = FALSE
  /\ UNCHANGED <<enabled, coordinator, accepting, arrived, heard, task, topics, unacked,
                 counters>>

\* poll connects; the broker publishes the will of a session that is taken over.
Connect ==
  /\ task = "running" /\ ~session
  /\ session' = TRUE
  /\ status' = IF will THEN "offline" ELSE status
  /\ will' = FALSE
  /\ UNCHANGED <<enabled, coordinator, accepting, arrived, heard, task, requests, topics,
                 unacked, counters>>

\* poll sends the next request of setup.
SendRequest ==
  /\ session /\ requests # <<>>
  /\ requests' = Tail(requests)
  /\ IF Head(requests) = Online
     THEN status' = "online" /\ unacked' = TRUE /\ UNCHANGED topics
     ELSE topics' = topics \cup {Head(requests)} /\ UNCHANGED <<status, unacked>>
  /\ UNCHANGED <<enabled, coordinator, accepting, arrived, heard, task, session, will,
                 counters>>

Acknowledge ==
  /\ session /\ unacked /\ unacked' = FALSE
  /\ UNCHANGED <<enabled, coordinator, accepting, arrived, heard, task, requests, session,
                 topics, broker, counters>>

\* The connection is lost: the client may send again what was not acknowledged or not
\* sent; nothing is subscribed to again.
Drop ==
  /\ session /\ drops < MaxDrops /\ drops' = drops + 1
  /\ LET pending == (IF unacked THEN <<Online>> ELSE <<>>) \o requests
     IN \E k \in 0..Len(pending) : requests' = SubSeq(pending, k + 1, Len(pending))
  /\ CloseSession
  /\ UNCHANGED <<enabled, coordinator, accepting, arrived, heard, task, commands, packets>>

BrokerNotices ==
  /\ will /\ will' = FALSE /\ status' = "offline"
  /\ UNCHANGED <<enabled, coordinator, accepting, arrived, heard, mqtt, counters>>

\* handle_message: a command somebody listens to is put into from_mqtt; one that nobody
\* does, or whose payload is not UTF-8, ends the task.
Receive ==
  /\ session /\ topics # {}
  /\ commands < MaxCommands /\ commands' = commands + 1
  /\ \E utf8 \in BOOLEAN :
       IF utf8 /\ Listening
       THEN /\ fromMqtt' = Push(fromMqtt, heard + 1) /\ heard' = heard + 1
            /\ UNCHANGED <<mqtt, broker>>
       ELSE EndTask /\ UNCHANGED <<fromMqtt, heard>>
  /\ UNCHANGED <<enabled, phase, connected, fromInverter, taken, accepting, arrived,
                 packets, drops>>

\* The sender lags behind the messages of the loop (module Sinks).
SenderEnds ==
  /\ task = "running" /\ phase = "loop"
  /\ EndTask
  /\ UNCHANGED <<enabled, coordinator, accepting, arrived, heard, counters>>

(***************************************************************************)
(* The coordinator.                                                        *)
(***************************************************************************)

OpenDatalog ==
  /\ phase = "datalog" /\ phase' = "mqtt"
  /\ UNCHANGED <<enabled, connected, fromInverter, fromMqtt, taken, accepting, arrived,
                 heard, mqtt, broker, counters>>

OpenFails ==
  /\ phase = "datalog" /\ "datalog" \in enabled
  /\ phase' = "failed"
  /\ UNCHANGED <<enabled, connected, fromInverter, fromMqtt, taken, accepting, arrived,
                 heard, mqtt, broker, counters>>

SpawnMqtt ==
  /\ phase = "mqtt" /\ phase' = "influx"
  /\ IF "mqtt" \in enabled
     THEN task' = "running" /\ requests' = SetupRequests
     ELSE UNCHANGED <<task, requests>>
  /\ UNCHANGED <<enabled, connected, fromInverter, fromMqtt, taken, accepting, arrived,
                 heard, session, topics, unacked, broker, counters>>

\* The test point is written, or InfluxDB is not enabled.
TestInflux ==
  /\ phase = "influx" /\ phase' = "databases"
  /\ UNCHANGED <<enabled, connected, fromInverter, fromMqtt, taken, accepting, arrived,
                 heard, mqtt, broker, counters>>

TestFails ==
  /\ phase = "influx" /\ "influx" \in enabled
  /\ phase' = "failed"
  /\ EndTask
  /\ UNCHANGED <<enabled, connected, fromInverter, fromMqtt, taken, accepting, arrived,
                 heard, counters>>

\* The databases are spawned, and the coordinator's receivers subscribed.
Subscribe ==
  /\ phase = "databases" /\ phase' = "inverters"
  /\ fromInverter' = Subscribed /\ fromMqtt' = Subscribed
  /\ UNCHANGED <<enabled, connected, taken, accepting, arrived, heard, mqtt, broker,
                 counters>>

\* An inverter begins or ceases to accept connections.
Accept ==
  /\ phase = "inverters"
  /\ accepting' \in SUBSET Inverters
  /\ UNCHANGED <<enabled, coordinator, arrived, heard, mqtt, broker, counters>>

\* Attempts are repeated until one succeeds; then the next inverter's turn comes.
ConnectInverter ==
  /\ phase = "inverters" /\ connected < InverterCount /\ connected + 1 \in accepting
  /\ connected' = connected + 1
  /\ fromInverter' = Push(fromInverter, connected + 1)
  /\ arrived' = arrived + 1
  /\ UNCHANGED <<enabled, phase, fromMqtt, taken, accepting, heard, mqtt, broker, counters>>

\* A reader runs as soon as its inverter is connected.
Packet ==
  /\ connected > 0 /\ Listening
  /\ packets < MaxPackets /\ packets' = packets + 1
  /\ \E i \in 1..connected : fromInverter' = Push(fromInverter, i)
  /\ arrived' = arrived + 1
  /\ UNCHANGED <<enabled, phase, connected, fromMqtt, taken, accepting, heard, mqtt, broker,
                 commands, drops>>

\* Mutant: the receivers are subscribed when the loop starts.
StartLoopAndSubscribe ==
  /\ phase = "inverters" /\ connected = InverterCount
  /\ phase' = "loop"
  /\ fromInverter' = Subscribed /\ fromMqtt' = Subscribed
  /\ UNCHANGED <<enabled, connected, taken, accepting, arrived, heard, mqtt, broker,
                 counters>>

StartLoop ==
  /\ phase = "inverters" /\ connected = InverterCount
  /\ phase' = "loop"
  /\ UNCHANGED <<enabled, connected, fromInverter, fromMqtt, taken, accepting, arrived,
                 heard, mqtt, broker, counters>>

TakePacket ==
  /\ phase = "loop" /\ HasMessage(fromInverter)
  /\ fromInverter' = Popped(fromInverter)
  /\ UNCHANGED <<enabled, phase, connected, fromMqtt, taken, accepting, arrived, heard, mqtt,
                 broker, counters>>

\* Lagged from from_inverter ends the loop, and main does not notice.
LoopEnd ==
  /\ phase = "loop" /\ HasLagged(fromInverter)
  /\ phase' = "left"
  /\ UNCHANGED <<enabled, connected, fromInverter, fromMqtt, taken, accepting, arrived,
                 heard, mqtt, broker, counters>>

\* So does a command: a time read panics over a reply that is too short, and requests
\* make to_coordinator lag (LoopPanic and LoopExit of module CommandPath).
CommandEndsLoop ==
  /\ phase = "loop" /\ taken # <<>>
  /\ phase' = "left"
  /\ UNCHANGED <<enabled, connected, fromInverter, fromMqtt, taken, accepting, arrived,
                 heard, mqtt, broker, counters>>

TakeCommand ==
  /\ phase = "loop" /\ HasMessage(fromMqtt)
  /\ fromMqtt' = Popped(fromMqtt) /\ taken' = Append(taken, Head(fromMqtt.q))
  /\ UNCHANGED <<enabled, phase, connected, fromInverter, accepting, arrived, heard, mqtt,
                 broker, counters>>

\* Mutant: it ends the loop, as in the other two arms.
CommandsLostEnd ==
  /\ phase = "loop" /\ HasLagged(fromMqtt)
  /\ phase' = "left"
  /\ UNCHANGED <<enabled, connected, fromInverter, fromMqtt, taken, accepting, arrived,
                 heard, mqtt, broker, counters>>

\* Lagged from from_mqtt is only logged.
CommandsLost ==
  /\ phase = "loop" /\ HasLagged(fromMqtt)
  /\ fromMqtt' = CaughtUp(fromMqtt)
  /\ UNCHANGED <<enabled, phase, connected, fromInverter, taken, accepting, arrived, heard,
                 mqtt, broker, counters>>

\* Ctrl-C, or the time limit.
Stop ==
  /\ ~Exited /\ phase' = "stopped"
  /\ EndTask
  /\ UNCHANGED <<enabled, connected, fromInverter, fromMqtt, taken, accepting, arrived,
                 heard, counters>>
------------------------------------------------------------------------------
Session == Connect \/ SendRequest \/ Acknowledge \/ Drop \/ BrokerNotices
             \/ Receive \/ SenderEnds
Start   == OpenDatalog \/ OpenFails \/ SpawnMqtt \/ TestInflux \/ TestFails \/ Subscribe
             \/ Accept \/ ConnectInverter \/ Packet \/ StartLoop
Loop    == TakePacket \/ LoopEnd \/ CommandEndsLoop \/ TakeCommand \/ CommandsLost \/ Stop

Next == Session \/ Start \/ Loop

\* The tasks run; an inverter that accepts from some time on is connected by the next
\* attempt; every ready branch of the loop's select gets its turn; the broker notices a
\* dead connection, if only by its keep-alive.  Nothing makes InfluxDB answer, or the
\* broker accept a connection.
Fairness ==
  /\ WF_vars(OpenDatalog) /\ WF_vars(SpawnMqtt) /\ WF_vars(Subscribe)
  /\ WF_vars(ConnectInverter) /\ WF_vars(StartLoop)
  /\ WF_vars(TakePacket) /\ WF_vars(LoopEnd) /\ WF_vars(TakeCommand) /\ WF_vars(CommandsLost)
  /\ WF_vars(BrokerNotices)

Spec == Init /\ [][Next]_vars /\ Fairness
------------------------------------------------------------------------------
\* Type invariant.
TypeOK ==
  /\ enabled \in Setups /\ phase \in Phases
  /\ accepting \in SUBSET Inverters /\ connected \in 0..InverterCount
  /\ fromInverter \in Receivers(Inverters) /\ arrived \in Nat
  /\ fromMqtt \in Receivers(Nat) /\ heard \in Nat /\ taken \in Seq(Nat)
  /\ task \in {"none", "running", "ended"} /\ requests \in Seq(Requests)
  /\ session \in BOOLEAN /\ topics \subseteq Topics /\ unacked \in BOOLEAN
  /\ status \in {"none", "online", "offline"} /\ will \in BOOLEAN
  /\ commands \in 0..MaxCommands /\ packets \in 0..MaxPackets /\ drops \in 0..MaxDrops
  /\ session => task = "running"

\* The commands that reach the bridge while its inverters are being connected wait for
\* the loop, in their order and none twice; none is lost as long as there are no more
\* than the channel keeps (mod.rs:389).
CommandsWait ==
  LET all == taken \o fromMqtt.q
  IN /\ \A j \in 1..Len(all) : \A k \in 1..Len(all) : j < k => all[j] < all[k]
     /\ heard <= Capacity => all = [k \in 1..heard |-> k]

\* The loop ends by itself only when more messages of inverters had come than the
\* channel keeps, or after a command it has taken: commands that wait when it starts do
\* not end it, however many they are and though some of them are lost.
LoopEndHasAReason == phase = "left" => arrived > Capacity \/ taken # <<>>

\* Setup is done once: when the connection that subscribed is lost, no later one
\* subscribes or says "online", so no command ever reaches the bridge again.
Deaf == task # "none" /\ requests = <<>> /\ topics = {} /\ ~unacked

StaysDeaf == [][Deaf => Deaf' /\ heard' = heard /\ (status = "offline" => status' = "offline")]_vars

\* However the process or the MQTT task ends, the status does not stay "online".
EndIsNoticed == (task = "ended") ~> (status # "online")

\* If every inverter accepts from some time on, a command that waited for them is taken
\* in the end, unless the channel was overrun, or the loop ended or the process.
WaitingCommandsAreTaken ==
  (\A i \in Inverters : <>[](i \in accepting)) =>
    \A k \in 1..MaxCommands :
      (heard >= k) ~> (k \in ToSet(taken) \/ heard > Capacity \/ phase \in {"left", "stopped"})
==============================================================================
