-------------------------------- MODULE Sinks --------------------------------
(***************************************************************************)
(* What becomes of a packet of an inverter besides database rows:          *)
(* process_packet of the coordinator's loop, which sends a point to        *)
(* InfluxDB, values to the register cache and messages to MQTT, and the    *)
(* tasks behind these channels with their attempts and the ways they end;  *)
(* and the datalog writer, which receives from_inverter itself.            *)
(*                                                                         *)
(* Points and MQTT messages are numbered in the order they are sent; a     *)
(* cached value is the number of its packet.  The tasks of InfluxDB and    *)
(* MQTT have subscribed before the first packet.  The databases are in     *)
(* module InputRows.                                                       *)
(***************************************************************************)
EXTENDS Naturals, Sequences, SequencesExt, Broadcast

CONSTANTS
  Packets,            \* what the inverters may send: kinds and registers
  RegisterCount,      \* registers the cache has room for (512)
  PublishIndividual,  \* publish_individual_input
  Setups,             \* the sets of optional sinks a configuration may enable
  Attempts,           \* attempts to write a point (3)
  MaxPackets,         \* bound: packets of the inverters
  MaxFailures         \* bound: tasks that end by themselves

\* "blind": input values that cannot be decoded.  "refused": a WriteParam of a
\* read-only inverter.
Kinds  == {"input", "blind", "hold", "write", "readParam", "writeParam", "refused",
           "heartbeat"}
\* regs: the registers of its values; topics: the MQTT messages made of what is
\* decoded of them.
Packet == [kind : Kinds, regs : Seq(Nat), topics : Nat]

ASSUME SinksAssumption ==
  /\ Packets \subseteq Packet
  /\ RegisterCount \in Nat /\ PublishIndividual \in BOOLEAN
  /\ Setups \subseteq SUBSET {"influx", "mqtt", "datalog"}
  /\ Attempts \in Nat \ {0} /\ MaxPackets \in Nat /\ MaxFailures \in Nat

Registers == UNION {ToSet(p.regs) : p \in Packets}

VARIABLES
  enabled,     \* the optional sinks of the configuration
  count,       \* packets that have arrived
  translated,  \* history: those of them that are translated data
  exited,      \* the coordinator's loop has ended
  loopRx,      \* the loop's receiver of from_inverter
  latest,      \* history: for each register, the last packet it was to be cached from
  points,      \* points sent to to_influx
  messages,    \* messages sent to to_mqtt
  pointRx, point, tries, written,         \* InfluxDB: receiver, point in hand, attempts
  mqttRx, message, mqttUp, published,     \* MQTT: receiver, message in hand, task runs
  cacheRx, setter, cache,                 \* register cache: receiver, setter runs, values
  logRx, logUp, logged,                   \* datalog file: receiver, task runs
  failures     \* counter of the bound

inverters == <<enabled, count, translated>>
sent      == <<latest, points, messages>>
influx    == <<pointRx, point, tries, written>>
mqtt      == <<mqttRx, message, mqttUp, published>>
caching   == <<cacheRx, setter, cache>>
datalog   == <<logRx, logUp, logged>>
vars == <<inverters, exited, loopRx, sent, influx, mqtt, caching, datalog, failures>>
------------------------------------------------------------------------------
Init ==
  /\ enabled \in Setups /\ count = 0 /\ translated = {} /\ exited = FALSE
  /\ loopRx = Subscribed /\ pointRx = Subscribed /\ mqttRx = Subscribed
  /\ cacheRx = Subscribed /\ logRx = Subscribed
  /\ latest = [r \in Registers |-> 0] /\ points = 0 /\ messages = 0
  /\ point = 0 /\ tries = 0 /\ written = <<>>
  /\ message = 0 /\ mqttUp = ("mqtt" \in enabled) /\ published = <<>>
  /\ setter = TRUE /\ cache = [r \in Registers |-> 0]
  /\ logUp = ("datalog" \in enabled) /\ logged = <<>>
  /\ failures = 0

Translated(p) == p.kind \in {"input", "blind", "hold", "write"}

\* handle_incoming_packet: a packet goes to every receiver of from_inverter.
Arrive ==
  /\ count < MaxPackets /\ count' = count + 1
  /\ \E p \in Packets :
       LET m == [packet |-> p, n |-> count + 1]
       IN /\ loopRx' = IF exited THEN loopRx ELSE Push(loopRx, m)
          /\ logRx' = IF logUp THEN Push(logRx, m) ELSE logRx
          /\ translated' = IF Translated(p) THEN translated \cup {count + 1} ELSE translated
  /\ UNCHANGED <<enabled, exited, sent, influx, mqtt, caching, logUp, logged, failures>>

(***************************************************************************)
(* process_packet.                                                         *)
(***************************************************************************)

\* A point is made of translated data that is not the echo of a write.
SendPoint(p) ==
  IF "influx" \in enabled /\ Translated(p) /\ p.kind # "write"
  THEN points' = points + 1 /\ pointRx' = Push(pointRx, points + 1)
  ELSE UNCHANGED <<points, pointRx>>

\* The registers p's values are cached for.
Cached(p) == IF p.kind \in {"heartbeat", "refused"} THEN <<>> ELSE p.regs

SendRegisters(p, n) ==
  /\ cacheRx' = IF setter
                THEN PushAll(cacheRx, [k \in DOMAIN Cached(p) |-> [reg |-> Cached(p)[k], n |-> n]])
                ELSE cacheRx
  /\ latest' = [r \in Registers |-> IF r \in ToSet(Cached(p)) THEN n ELSE latest[r]]

\* MQTT is told every hold register and every decoded block, and the individual
\* values of whatever is not hold, as inputs, if it is to have them: one message a
\* value (the decoded forms of a few registers are left out).
MessageCount(p) ==
  (IF "mqtt" \in enabled /\ p.kind \in {"input", "hold"} THEN p.topics ELSE 0)
    + (IF "mqtt" \in enabled /\ p.kind \in {"input", "blind", "write"} /\ PublishIndividual
       THEN Len(p.regs) ELSE 0)

SendMessages(p) ==
  /\ messages' = messages + MessageCount(p)
  /\ mqttRx' = IF mqttUp
               THEN PushAll(mqttRx, [k \in 1..MessageCount(p) |-> messages + k])
               ELSE mqttRx

\* The loop receives a packet; a send that finds no receiver is only logged.
ProcessPacket ==
  /\ ~exited /\ HasMessage(loopRx)
  /\ loopRx' = Popped(loopRx)
  /\ LET m == Head(loopRx.q)
     IN SendPoint(m.packet) /\ SendRegisters(m.packet, m.n) /\ SendMessages(m.packet)
  /\ UNCHANGED <<inverters, exited, point, tries, written, message, mqttUp, published,
                 setter, cache, datalog, failures>>

LoopExit ==
  /\ ~exited /\ HasLagged(loopRx)
  /\ exited' = TRUE
  /\ UNCHANGED <<inverters, loopRx, sent, influx, mqtt, caching, datalog, failures>>

(***************************************************************************)
(* InfluxDB.                                                               *)
(***************************************************************************)

TakePoint ==
  /\ point = 0 /\ HasMessage(pointRx)
  /\ point' = Head(pointRx.q) /\ tries' = 0
  /\ pointRx' = Popped(pointRx)
  /\ UNCHANGED <<inverters, exited, loopRx, sent, written, mqtt, caching, datalog, failures>>

WritePoint ==
  /\ point # 0
  /\ written' = Append(written, point) /\ point' = 0
  /\ UNCHANGED <<inverters, exited, loopRx, sent, pointRx, tries, mqtt, caching, datalog,
                 failures>>

\* Mutants: one attempt too many; the attempts are not counted; a point that failed
\* is sent again.
WriteFailsOnceMore ==
  /\ point # 0
  /\ written' \in {written, Append(written, point)}
  /\ tries' = tries + 1
  /\ point' = IF tries = Attempts THEN 0 ELSE point
  /\ UNCHANGED <<inverters, exited, loopRx, sent, pointRx, mqtt, caching, datalog, failures>>
WriteFailsForEver ==
  /\ point # 0
  /\ tries' = (tries + 1) % Attempts
  /\ UNCHANGED <<inverters, exited, loopRx, sent, pointRx, point, written, mqtt, caching,
                 datalog, failures>>
WriteFailsAndWaits ==
  /\ point # 0
  /\ pointRx' = Push(pointRx, point) /\ point' = 0
  /\ UNCHANGED <<inverters, exited, loopRx, sent, tries, written, mqtt, caching, datalog,
                 failures>>

\* An attempt fails, with or without effect; after the last one the point is given up.
WriteFails ==
  /\ point # 0
  /\ written' \in {written, Append(written, point)}
  /\ tries' = tries + 1
  /\ point' = IF tries + 1 = Attempts THEN 0 ELSE point
  /\ UNCHANGED <<inverters, exited, loopRx, sent, pointRx, mqtt, caching, datalog, failures>>

\* Points that were lost are only logged.
PointsLost ==
  /\ point = 0 /\ HasLagged(pointRx)
  /\ pointRx' = CaughtUp(pointRx)
  /\ UNCHANGED <<inverters, exited, loopRx, sent, point, tries, written, mqtt, caching,
                 datalog, failures>>

(***************************************************************************)
(* MQTT.                                                                   *)
(***************************************************************************)

TakeMessage ==
  /\ mqttUp /\ message = 0 /\ HasMessage(mqttRx)
  /\ message' = Head(mqttRx.q) /\ mqttRx' = Popped(mqttRx)
  /\ UNCHANGED <<inverters, exited, loopRx, sent, influx, mqttUp, published, caching, datalog,
                 failures>>

\* An attempt that fails is repeated, without end, until one does not.
Publish ==
  /\ mqttUp /\ message # 0
  /\ published' = Append(published, message) /\ message' = 0
  /\ UNCHANGED <<inverters, exited, loopRx, sent, influx, mqttRx, mqttUp, caching, datalog,
                 failures>>

\* Mutant: MQTT goes on after a lag, as InfluxDB does.
MessagesPassedOver ==
  /\ mqttUp /\ message = 0 /\ HasLagged(mqttRx)
  /\ mqttRx' = CaughtUp(mqttRx)
  /\ UNCHANGED <<inverters, exited, loopRx, sent, influx, message, mqttUp, published, caching,
                 datalog, failures>>

\* Messages were lost: `recv().await?` ends the sender, and with it the MQTT task.
MessagesLost ==
  /\ mqttUp /\ message = 0 /\ HasLagged(mqttRx)
  /\ mqttUp' = FALSE
  /\ UNCHANGED <<inverters, exited, loopRx, sent, influx, mqttRx, message, published, caching,
                 datalog, failures>>

\* The receiver ends, over a payload that is not UTF-8, and takes the sender along.
ReceiverEnd ==
  /\ mqttUp /\ failures < MaxFailures
  /\ failures' = failures + 1 /\ mqttUp' = FALSE
  /\ UNCHANGED <<inverters, exited, loopRx, sent, influx, mqttRx, message, published, caching,
                 datalog>>

(***************************************************************************)
(* The register cache and the datalog file.                                *)
(***************************************************************************)

\* A register the cache has no room for ends the task with a panic.
CacheSet ==
  /\ setter /\ HasMessage(cacheRx)
  /\ cacheRx' = Popped(cacheRx)
  /\ LET m == Head(cacheRx.q)
     IN IF m.reg < RegisterCount
        THEN cache' = [cache EXCEPT ![m.reg] = m.n] /\ UNCHANGED setter
        ELSE setter' = FALSE /\ UNCHANGED cache
  /\ UNCHANGED <<inverters, exited, loopRx, sent, influx, mqtt, datalog, failures>>

\* Mutant: the setter goes on after a lag.
ValuesPassedOver ==
  /\ setter /\ HasLagged(cacheRx)
  /\ cacheRx' = CaughtUp(cacheRx)
  /\ UNCHANGED <<inverters, exited, loopRx, sent, influx, mqtt, setter, cache, datalog,
                 failures>>

\* Values were lost: `while let Ok(..)` ends the setter.
ValuesLost ==
  /\ setter /\ HasLagged(cacheRx)
  /\ setter' = FALSE
  /\ UNCHANGED <<inverters, exited, loopRx, sent, influx, mqtt, cacheRx, cache, datalog,
                 failures>>

\* Translated data goes to the file; other packets are passed over.
LogPacket ==
  /\ logUp /\ HasMessage(logRx)
  /\ logRx' = Popped(logRx)
  /\ logged' = IF Translated(Head(logRx.q).packet) THEN Append(logged, Head(logRx.q).n) ELSE logged
  /\ UNCHANGED <<inverters, exited, loopRx, sent, influx, mqtt, caching, logUp, failures>>

\* Mutant: the writer goes on after packets were lost.
LogEndOnFailure ==
  /\ logUp
  /\ \/ HasLagged(logRx) /\ logRx' = CaughtUp(logRx) /\ UNCHANGED <<logUp, failures>>
     \/ /\ HasMessage(logRx) /\ failures < MaxFailures
        /\ failures' = failures + 1 /\ logUp' = FALSE /\ UNCHANGED logRx
  /\ UNCHANGED <<inverters, exited, loopRx, sent, influx, mqtt, caching, logged>>

\* Packets that were lost end the task, and so does a write that fails, perhaps when
\* the line is already in the file.
LogEnd ==
  /\ logUp
  /\ \/ HasLagged(logRx) /\ UNCHANGED <<logRx, logged, failures>>
     \/ /\ HasMessage(logRx) /\ Translated(Head(logRx.q).packet)
        /\ failures < MaxFailures /\ failures' = failures + 1
        /\ logRx' = Popped(logRx)
        /\ logged' \in {logged, Append(logged, Head(logRx.q).n)}
  /\ logUp' = FALSE
  /\ UNCHANGED <<inverters, exited, loopRx, sent, influx, mqtt, caching>>

Influx == TakePoint \/ WritePoint \/ WriteFails \/ PointsLost
Mqtt   == TakeMessage \/ Publish \/ MessagesLost \/ ReceiverEnd
Cache  == CacheSet \/ ValuesLost
Log    == LogPacket \/ LogEnd

Next == Arrive \/ ProcessPacket \/ LoopExit \/ Influx \/ Mqtt \/ Cache \/ Log

Spec == Init /\ [][Next]_vars

\* The tasks go on while they have something to do.  Nothing makes an attempt to write
\* a point or to publish a message return: neither has a timeout.
FairSpec ==
  /\ Spec
  /\ WF_vars(ProcessPacket) /\ WF_vars(LoopExit)
  /\ WF_vars(TakePoint) /\ WF_vars(PointsLost) /\ WF_vars(Cache) /\ WF_vars(Log)
  /\ WF_vars(TakeMessage) /\ WF_vars(MessagesLost)
------------------------------------------------------------------------------
(***************************************************************************)
(* Properties.                                                             *)
(***************************************************************************)

Fits(rx) == Len(rx.q) <= Capacity /\ rx.lagged \in BOOLEAN

\* Every variable has its type.
TypeOK ==
  /\ enabled \in Setups /\ count \in 0..MaxPackets /\ translated \subseteq 1..count /\ exited \in BOOLEAN
  /\ Fits(loopRx) /\ Fits(pointRx) /\ Fits(mqttRx) /\ Fits(cacheRx) /\ Fits(logRx)
  /\ latest \in [Registers -> 0..count] /\ cache \in [Registers -> 0..count]
  /\ points \in 0..count /\ messages \in Nat
  /\ point \in 0..points /\ tries \in 0..Attempts /\ message \in 0..messages
  /\ mqttUp \in BOOLEAN /\ setter \in BOOLEAN /\ logUp \in BOOLEAN
  /\ failures \in 0..MaxFailures

\* While its setter runs, the register cache has the value of the last packet about
\* each register, once it has caught up: a setter that lost a value has ended, so no
\* register keeps an old value in a cache that still takes new ones.
CacheIsCurrent == setter /\ cacheRx.q = <<>> => cache = latest

\* The datalog file never has packets in another order than they came, nor twice,
\* and while it is written none of those before its last one is missing: unlike
\* InfluxDB, its writer does not go on after a loss.
LogHasNoGaps ==
  \A n \in DOMAIN logged \ {1} :
    /\ logged[n - 1] < logged[n]
    /\ translated \cap (logged[n - 1] + 1)..(logged[n] - 1) = {}

\* What InfluxDB and the broker may have been given: see module Delivery.
Series == INSTANCE Delivery WITH
            Copies <- Attempts, MayDrop <- TRUE, sent <- points, delivered <- written
Topics == INSTANCE Delivery WITH
            Copies <- 1, MayDrop <- FALSE, sent <- messages, delivered <- published

\* InfluxDB gets points in order, none more often than it is tried, and may miss
\* some; MQTT gets every message, once and in order, until its task ends.
InfluxDelivers == Series!Spec
MqttDelivers   == Topics!Spec

\* An InfluxDB that refuses every point holds nothing up for ever, and its sender never
\* ends: as long as its attempts return, well or not, whatever waits is written, given
\* up or passed over.  (One that accepts a connection and never answers does hold the
\* sender for ever.)
AttemptsReturn == WF_vars(WritePoint \/ WriteFails)
PointsAreDone  == AttemptsReturn => []<>(pointRx.q = <<>> /\ point = 0 /\ ~pointRx.lagged)
==============================================================================
