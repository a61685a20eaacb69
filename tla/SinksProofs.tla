----------------------------- MODULE SinksProofs -----------------------------
(***************************************************************************)
(* Proofs about Sinks, for any packets, capacity, number of attempts and   *)
(* bounds: what InfluxDB, MQTT, the register cache and the datalog file    *)
(* have received.  The four sinks share no state, so that the invariant    *)
(* has a part for each, and a step concerns one part.                      *)
(***************************************************************************)
EXTENDS Sinks, BroadcastProofs

\* Messages of from_inverter and of to_register_cache with numbers of N.
Stamped(N) == [packet : Packets, n : N]
Values(N)  == [reg : Registers, n : N]

\* Every variable has its type, and no number is one that was not given yet.
Types ==
  /\ enabled \in Setups /\ count \in 0..MaxPackets /\ translated \subseteq 1..count
  /\ exited \in BOOLEAN /\ failures \in 0..MaxFailures
  /\ loopRx \in Receivers(Stamped(1..count)) /\ logRx \in Receivers(Stamped(1..count))
  /\ pointRx \in Receivers(1..points) /\ mqttRx \in Receivers(1..messages)
  /\ cacheRx \in Receivers(Values(1..count))
  /\ latest \in [Registers -> 0..count] /\ cache \in [Registers -> 0..count]
  /\ points \in Nat /\ points + Len(loopRx.q) <= count /\ messages \in Nat
  /\ point \in 0..points /\ tries \in 0..Attempts /\ written \in Seq(1..points)
  /\ message \in 0..messages /\ published \in Seq(1..messages)
  /\ logged \in Seq(1..count)
  /\ mqttUp \in BOOLEAN /\ setter \in BOOLEAN /\ logUp \in BOOLEAN

\* The points that wait, the one in hand and those that were written are in order.
PointsInOrder == InSequence(point, tries, written, pointRx.q, Attempts)

\* The message that was published last.
Newest(s) == IF s = <<>> THEN 0 ELSE s[Len(s)]

\* What waits for MQTT, the message in hand and the last one published are the
\* numbers without a gap, unless the receiver lags.
MessagesInOrder ==
  mqttUp =>
    /\ Running(mqttRx.q, messages)
    /\ message # 0 => Newest(published) = message - 1
    /\ ~mqttRx.lagged =>
         messages - Len(mqttRx.q) = IF message = 0 THEN Newest(published) ELSE message

\* A register's last value is the last one that waits, or in the cache.
IsLast(q, k) == \A j \in 1..Len(q) : j > k => q[j].reg # q[k].reg
Absent(q, r) == \A j \in 1..Len(q) : q[j].reg # r

ValuesInOrder ==
  setter =>
    IF cacheRx.lagged
    THEN cacheRx.q # <<>>
    ELSE /\ \A r \in Registers : Absent(cacheRx.q, r) => cache[r] = latest[r]
         /\ \A k \in 1..Len(cacheRx.q) :
              IsLast(cacheRx.q, k) => cacheRx.q[k].n = latest[cacheRx.q[k].reg]

\* The packets that wait for the file are the last ones; those before them are in the
\* file, unless its receiver lags.
Consecutive(q) ==
  /\ Len(q) <= count
  /\ \A k \in 1..Len(q) : q[k].n = (count - Len(q)) + k
  /\ \A k \in 1..Len(q) : q[k].n \in translated => Translated(q[k].packet)

LinesInOrder ==
  /\ LogHasNoGaps
  /\ logUp =>
       /\ Consecutive(logRx.q)
       /\ Newest(logged) <= count - Len(logRx.q)
       /\ ~logRx.lagged =>
            \A t \in translated : t <= count - Len(logRx.q) => t <= Newest(logged)

SinksInvariant ==
  Types /\ PointsInOrder /\ MessagesInOrder /\ ValuesInOrder /\ LinesInOrder
------------------------------------------------------------------------------
(* The types.                                                              *)

LEMMA StampedMonotone ==
  ASSUME NEW A, NEW B, A \subseteq B
  PROVE  /\ Receivers(Stamped(A)) \subseteq Receivers(Stamped(B))
         /\ Receivers(Values(A)) \subseteq Receivers(Values(B))
<1>1. Stamped(A) \subseteq Stamped(B) /\ Values(A) \subseteq Values(B)
  BY DEF Stamped, Values
<1> QED BY <1>1, ReceiversMonotone

LEMMA PacketType ==
  ASSUME NEW p \in Packets
  PROVE  /\ p.kind \in Kinds /\ p.regs \in Seq(Nat) /\ p.topics \in Nat
         /\ Cached(p) \in Seq(Registers) /\ Cached(p) \in Seq(Nat)
         /\ MessageCount(p) \in Nat
<1>1. p \in Packet
  BY SinksAssumption
<1>2. p.kind \in Kinds /\ p.regs \in Seq(Nat) /\ p.topics \in Nat
  BY <1>1 DEF Packet
<1>3. \A k \in DOMAIN p.regs : p.regs[k] \in ToSet(p.regs)
  BY DEF ToSet
<1>4. ToSet(p.regs) \subseteq Registers
  BY DEF Registers
<1>5. p.regs \in Seq(Registers)
  BY <1>2, <1>3, <1>4
<1>6. Cached(p) \in Seq(Registers) /\ Cached(p) \in Seq(Nat)
  BY <1>2, <1>5 DEF Cached
<1>7. MessageCount(p) \in Nat
  BY <1>2 DEF MessageCount
<1> QED BY <1>2, <1>6, <1>7

\* What a packet sends to the cache and to MQTT.
ValuesOf(p, n) == [k \in DOMAIN Cached(p) |-> [reg |-> Cached(p)[k], n |-> n]]
NumbersOf(p)   == [k \in 1..MessageCount(p) |-> messages + k]

LEMMA ValuesOfType ==
  ASSUME NEW p \in Packets, NEW A, NEW n \in A
  PROVE  /\ ValuesOf(p, n) \in Seq(Values(A)) /\ Len(ValuesOf(p, n)) = Len(Cached(p))
         /\ \A k \in 1..Len(Cached(p)) :
              ValuesOf(p, n)[k].reg = Cached(p)[k] /\ ValuesOf(p, n)[k].n = n
<1> DEFINE c == Cached(p)
<1>1. c \in Seq(Registers) /\ DOMAIN c = 1..Len(c) /\ Len(c) \in Nat
  BY PacketType
<1> HIDE DEF c
<1>2. \A k \in 1..Len(c) : [reg |-> c[k], n |-> n] \in Values(A)
  BY <1>1 DEF Values
<1>3. ValuesOf(p, n) = [k \in 1..Len(c) |-> [reg |-> c[k], n |-> n]]
  BY <1>1 DEF ValuesOf, c
<1>4. ValuesOf(p, n) \in [1..Len(c) -> Values(A)]
  BY <1>2, <1>3
<1>5. ValuesOf(p, n) \in Seq(Values(A)) /\ Len(ValuesOf(p, n)) = Len(c)
  BY <1>1, <1>4
<1> QED BY <1>3, <1>5 DEF c

LEMMA NumbersOfType ==
  ASSUME NEW p \in Packets, messages \in Nat
  PROVE  /\ NumbersOf(p) \in Seq(1..(messages + MessageCount(p)))
         /\ Len(NumbersOf(p)) = MessageCount(p) /\ Counting(NumbersOf(p), messages)
<1>1. MessageCount(p) \in Nat
  BY PacketType
<1>2. \A k \in 1..MessageCount(p) : messages + k \in 1..(messages + MessageCount(p))
  BY <1>1
<1>3. NumbersOf(p) \in [1..MessageCount(p) -> 1..(messages + MessageCount(p))]
  BY <1>2 DEF NumbersOf
<1>4. /\ NumbersOf(p) \in Seq(1..(messages + MessageCount(p)))
      /\ Len(NumbersOf(p)) = MessageCount(p)
  BY <1>1, <1>3
<1> QED BY <1>4 DEF Counting, NumbersOf

LEMMA TypesArrive ==
  ASSUME Types, Arrive
  PROVE  Types'
<1> USE SinksAssumption
<1>1. PICK p \in Packets :
        LET m == [packet |-> p, n |-> count + 1]
        IN /\ loopRx' = IF exited THEN loopRx ELSE Push(loopRx, m)
           /\ logRx' = IF logUp THEN Push(logRx, m) ELSE logRx
           /\ translated' = IF Translated(p) THEN translated \cup {count + 1} ELSE translated
  BY DEF Arrive
<1> DEFINE m == [packet |-> p, n |-> count + 1]
<1>2. count \in Nat /\ count' = count + 1 /\ count' \in 0..MaxPackets
  BY DEF Arrive, Types
<1>3. 1..count \subseteq 1..(count + 1) /\ count + 1 \in 1..(count + 1)
  BY <1>2
<1>4. m \in Stamped(1..(count + 1))
  BY <1>3 DEF Stamped
<1>5. /\ loopRx \in Receivers(Stamped(1..(count + 1)))
      /\ logRx \in Receivers(Stamped(1..(count + 1)))
      /\ cacheRx \in Receivers(Values(1..(count + 1)))
  <2>1. /\ loopRx \in Receivers(Stamped(1..count)) /\ logRx \in Receivers(Stamped(1..count))
        /\ cacheRx \in Receivers(Values(1..count))
    BY DEF Types
  <2> QED BY <1>3, <2>1, StampedMonotone
<1> HIDE DEF m
<1>6. Push(loopRx, m) \in Receivers(Stamped(1..(count + 1)))
  BY <1>4, <1>5, PushType
<1>7. Push(logRx, m) \in Receivers(Stamped(1..(count + 1)))
  BY <1>4, <1>5, PushType
<1>8. /\ loopRx' \in Receivers(Stamped(1..count'))
      /\ logRx' \in Receivers(Stamped(1..count'))
      /\ cacheRx' \in Receivers(Values(1..count'))
  BY <1>1, <1>2, <1>5, <1>6, <1>7 DEF m, Arrive, caching
<1>9. translated' \subseteq 1..count'
  BY <1>1, <1>2, <1>3 DEF Types
<1>10. points' + Len(loopRx'.q) <= count'
  <2>1. Len(loopRx.q) \in Nat /\ points \in Nat /\ points + Len(loopRx.q) <= count
    BY DEF Types, Receivers
  <2>2. Len(Push(loopRx, m).q) <= Len(loopRx.q) + 1 /\ Len(Push(loopRx, m).q) \in Nat
    <3>1. \/ Longer(loopRx.q, Push(loopRx, m).q, m)
          \/ Shifted(loopRx.q, Push(loopRx, m).q, m)
      BY <1>4, <1>5, PushElements
    <3> QED BY <2>1, <3>1, CapacityAssumption DEF Longer, Shifted
  <2>3. loopRx' = loopRx \/ loopRx' = Push(loopRx, m)
    BY <1>1 DEF m
  <2>4. points' = points
    BY DEF Arrive, sent
  <2> QED BY <1>2, <2>1, <2>2, <2>3, <2>4
<1>11. /\ latest' \in [Registers -> 0..count'] /\ cache' \in [Registers -> 0..count']
       /\ logged' \in Seq(1..count')
  <2>1. 0..count \subseteq 0..(count + 1)
    BY <1>2
  <2>2. Seq(1..count) \subseteq Seq(1..(count + 1))
    BY <1>3, ReceiversMonotone
  <2>3. latest' = latest /\ cache' = cache /\ logged' = logged
    BY DEF Arrive, sent, caching
  <2>4. \A f \in [Registers -> 0..count] : f \in [Registers -> 0..(count + 1)]
    BY <2>1
  <2>5. logged \in Seq(1..count) /\ logged \in Seq(1..(count + 1))
    BY <2>2 DEF Types
  <2> QED BY <1>2, <2>3, <2>4, <2>5 DEF Types
<1>12. /\ UNCHANGED <<enabled, exited, failures, pointRx, mqttRx, points, messages, point, tries>>
       /\ UNCHANGED <<written, message, published, mqttUp, setter, logUp>>
  BY DEF Arrive, sent, influx, mqtt, caching
<1> QED BY <1>2, <1>8, <1>9, <1>10, <1>11, <1>12 DEF Types

LEMMA TypesProcess ==
  ASSUME Types, ProcessPacket
  PROVE  Types'
<1> USE SinksAssumption
<1> DEFINE m == Head(loopRx.q)
           p == m.packet
<1>1. loopRx \in Receivers(Stamped(1..count)) /\ HasMessage(loopRx)
  BY DEF Types, ProcessPacket
<1>2. m \in Stamped(1..count) /\ loopRx' \in Receivers(Stamped(1..count))
  BY <1>1, PoppedType DEF ProcessPacket
<1>3. p \in Packets /\ m.n \in 1..count
  BY <1>2 DEF Stamped
<1>4. SendPoint(p) /\ SendRegisters(p, m.n) /\ SendMessages(p)
  BY DEF ProcessPacket
<1>5. Len(loopRx'.q) = Len(loopRx.q) - 1 /\ Len(loopRx.q) \in Nat \ {0}
  BY <1>1, PopElements DEF ProcessPacket
<1> HIDE DEF m, p
<1>6. /\ points' \in {points, points + 1} /\ points' \in Nat /\ 1..points \subseteq 1..points'
      /\ points' + Len(loopRx'.q) <= count
  BY <1>4, <1>5, SMTT(30) DEF SendPoint, Types
<1>7. pointRx' \in Receivers(1..points')
  <2>1. pointRx \in Receivers(1..points')
    BY <1>6, ReceiversMonotone DEF Types
  <2>2. CASE UNCHANGED <<points, pointRx>>
    BY <2>1, <2>2
  <2>3. CASE points' = points + 1 /\ pointRx' = Push(pointRx, points + 1)
    <3>1. points + 1 \in 1..points'
      BY <2>3 DEF Types
    <3> QED BY <2>1, <2>3, <3>1, PushType
  <2> QED BY <1>4, <2>2, <2>3 DEF SendPoint
<1>8. written \in Seq(1..points') /\ point \in 0..points'
  BY <1>6, ReceiversMonotone DEF Types
<1>9. cacheRx' \in Receivers(Values(1..count))
  <2>1. ValuesOf(p, m.n) \in Seq(Values(1..count))
    BY <1>3, ValuesOfType
  <2>2. cacheRx' = IF setter THEN PushAll(cacheRx, ValuesOf(p, m.n)) ELSE cacheRx
    BY <1>4 DEF SendRegisters, ValuesOf
  <2>3. PushAll(cacheRx, ValuesOf(p, m.n)) \in Receivers(Values(1..count))
    BY <2>1, PushAllType DEF Types
  <2> QED BY <2>2, <2>3 DEF Types
<1>10. latest' \in [Registers -> 0..count]
  <2>1. m.n \in 0..count
    BY <1>3 DEF Types
  <2> QED BY <1>4, <2>1 DEF SendRegisters, Types
<1>11. messages' = messages + MessageCount(p) /\ messages' \in Nat
  BY <1>3, <1>4, PacketType DEF SendMessages, Types
<1>12. 1..messages \subseteq 1..messages' /\ 0..messages \subseteq 0..messages'
  BY <1>3, <1>11, PacketType DEF Types
<1>13. mqttRx' \in Receivers(1..messages')
  <2>1. mqttRx \in Receivers(1..messages')
    BY <1>12, ReceiversMonotone DEF Types
  <2>2. NumbersOf(p) \in Seq(1..messages')
    BY <1>3, <1>11, NumbersOfType DEF Types
  <2>3. mqttRx' = IF mqttUp THEN PushAll(mqttRx, NumbersOf(p)) ELSE mqttRx
    BY <1>4 DEF SendMessages, NumbersOf
  <2>4. PushAll(mqttRx, NumbersOf(p)) \in Receivers(1..messages')
    BY <2>1, <2>2, PushAllType
  <2> QED BY <2>1, <2>3, <2>4
<1>14. published \in Seq(1..messages') /\ message \in 0..messages'
  BY <1>12, ReceiversMonotone DEF Types
<1>15. /\ UNCHANGED <<enabled, count, translated, exited, point, tries, written, message>>
       /\ UNCHANGED <<mqttUp, published, setter, cache, logRx, logUp, logged, failures>>
  BY DEF ProcessPacket, inverters, datalog
<1> QED BY <1>2, <1>6, <1>7, <1>8, <1>9, <1>10, <1>11, <1>13, <1>14, <1>15 DEF Types

\* What the four sinks do leaves the types, and the loop and its counters alone.
LEMMA TypesSinks ==
  ASSUME Types, PointsInOrder, Influx \/ Mqtt \/ Cache \/ Log
  PROVE  Types'
<1> USE SinksAssumption
<1>1. CASE Influx
  <2>1. /\ UNCHANGED <<enabled, count, translated, exited, loopRx, latest, points, messages>>
        /\ UNCHANGED <<mqttRx, message, mqttUp, published, cacheRx, setter, cache, logRx>>
        /\ UNCHANGED <<logUp, logged, failures>>
    BY <1>1 DEF Influx, TakePoint, WritePoint, WriteFails, PointsLost, inverters, sent, mqtt,
                caching, datalog
  <2>2. /\ pointRx' \in Receivers(1..points) /\ point' \in 0..points
        /\ tries' \in 0..Attempts /\ written' \in Seq(1..points)
    <3>1. CASE TakePoint
      <4>1. /\ pointRx \in Receivers(1..points) /\ HasMessage(pointRx)
            /\ point' = Head(pointRx.q) /\ pointRx' = Popped(pointRx) /\ tries' = 0
            /\ written' = written
        BY <3>1 DEF TakePoint, Types
      <4>2. pointRx' \in Receivers(1..points) /\ point' \in 1..points
        BY <4>1, PoppedType
      <4> QED BY <4>1, <4>2 DEF Types
    <3>2. CASE WritePoint
      BY <3>2 DEF WritePoint, Types
    <3>3. CASE WriteFails
      <4>1. tries' \in 0..Attempts /\ point' \in 0..points
        <5>1. tries < Attempts /\ point \in 0..points /\ tries \in 0..Attempts
          BY <3>3 DEF WriteFails, PointsInOrder, InSequence, InHand, Types
        <5> QED BY <3>3, <5>1 DEF WriteFails, Types
      <4>2. written' \in Seq(1..points)
        <5>1. point \in 1..points /\ written \in Seq(1..points)
          BY <3>3 DEF WriteFails, Types
        <5>2. Append(written, point) \in Seq(1..points)
          BY <5>1
        <5> QED BY <3>3, <5>1, <5>2, Zenon DEF WriteFails
      <4>3. pointRx' = pointRx
        BY <3>3 DEF WriteFails
      <4> QED BY <4>1, <4>2, <4>3 DEF Types
    <3>4. CASE PointsLost
      BY <3>4, CaughtUpType DEF PointsLost, Types
    <3> QED BY <1>1, <3>1, <3>2, <3>3, <3>4 DEF Influx
  <2> QED BY <2>1, <2>2 DEF Types
<1>2. CASE Mqtt
  <2>1. /\ UNCHANGED <<enabled, count, translated, exited, loopRx, latest, points, messages>>
        /\ UNCHANGED <<pointRx, point, tries, written, cacheRx, setter, cache, logRx>>
        /\ UNCHANGED <<logUp, logged>>
    BY <1>2 DEF Mqtt, TakeMessage, Publish, MessagesLost, ReceiverEnd, inverters, sent, influx,
                caching, datalog
  <2>2. /\ mqttRx' \in Receivers(1..messages) /\ message' \in 0..messages
        /\ mqttUp' \in BOOLEAN /\ published' \in Seq(1..messages)
        /\ failures' \in 0..MaxFailures
    <3>1. CASE TakeMessage
      <4>1. /\ mqttRx \in Receivers(1..messages) /\ HasMessage(mqttRx)
            /\ message' = Head(mqttRx.q) /\ mqttRx' = Popped(mqttRx)
            /\ UNCHANGED <<mqttUp, published, failures>>
        BY <3>1 DEF TakeMessage, Types
      <4>2. mqttRx' \in Receivers(1..messages) /\ message' \in 1..messages
        BY <4>1, PoppedType
      <4> QED BY <4>1, <4>2 DEF Types
    <3>2. CASE Publish
      BY <3>2 DEF Publish, Types
    <3>3. CASE MessagesLost
      BY <3>3 DEF MessagesLost, Types
    <3>4. CASE ReceiverEnd
      <4>1. failures' \in 0..MaxFailures
        BY <3>4, SMT DEF ReceiverEnd, Types
      <4> QED BY <3>4, <4>1, Zenon DEF ReceiverEnd, Types
    <3> QED BY <1>2, <3>1, <3>2, <3>3, <3>4 DEF Mqtt
  <2> QED BY <2>1, <2>2 DEF Types
<1>3. CASE Cache
  <2>1. /\ UNCHANGED <<enabled, count, translated, exited, loopRx, latest, points, messages>>
        /\ UNCHANGED <<pointRx, point, tries, written, mqttRx, message, mqttUp, published>>
        /\ UNCHANGED <<logRx, logUp, logged, failures>>
    BY <1>3 DEF Cache, CacheSet, ValuesLost, inverters, sent, influx, mqtt, datalog
  <2>2. /\ cacheRx' \in Receivers(Values(1..count)) /\ setter' \in BOOLEAN
        /\ cache' \in [Registers -> 0..count]
    <3>1. CASE CacheSet
      <4>1. /\ Popped(cacheRx) \in Receivers(Values(1..count))
            /\ Head(cacheRx.q) \in Values(1..count)
        BY <3>1, PoppedType DEF CacheSet, Types
      <4>2. Head(cacheRx.q).reg \in Registers /\ Head(cacheRx.q).n \in 0..count
        BY <4>1 DEF Values, Types
      <4> QED BY <3>1, <4>1, <4>2 DEF CacheSet, Types
    <3>2. CASE ValuesLost
      BY <3>2 DEF ValuesLost, Types
    <3> QED BY <1>3, <3>1, <3>2 DEF Cache
  <2> QED BY <2>1, <2>2 DEF Types
<1>4. CASE Log
  <2>1. /\ UNCHANGED <<enabled, count, translated, exited, loopRx, latest, points, messages>>
        /\ UNCHANGED <<pointRx, point, tries, written, mqttRx, message, mqttUp, published>>
        /\ UNCHANGED <<cacheRx, setter, cache>>
    BY <1>4 DEF Log, LogPacket, LogEnd, inverters, sent, influx, mqtt, caching
  <2>2. logRx \in Receivers(Stamped(1..count)) /\ logged \in Seq(1..count)
    BY DEF Types
  <2>3. ASSUME HasMessage(logRx)
        PROVE  /\ Popped(logRx) \in Receivers(Stamped(1..count))
               /\ Append(logged, Head(logRx.q).n) \in Seq(1..count)
    <3>1. /\ Popped(logRx) \in Receivers(Stamped(1..count))
          /\ Head(logRx.q) \in Stamped(1..count)
      BY <2>2, <2>3, PoppedType
    <3>2. PICK n \in 1..count : n = Head(logRx.q).n
      BY <3>1 DEF Stamped
    <3>3. Append(logged, n) \in Seq(1..count)
      BY <2>2
    <3> QED BY <3>1, <3>2, <3>3
  <2>4. /\ logRx' \in Receivers(Stamped(1..count)) /\ logged' \in Seq(1..count)
        /\ logUp' \in BOOLEAN /\ failures' \in 0..MaxFailures
    <3>1. CASE LogPacket
      <4>1. UNCHANGED <<logUp, failures>> /\ HasMessage(logRx) /\ logRx' = Popped(logRx)
        BY <3>1 DEF LogPacket
      <4>2. logged' \in {logged, Append(logged, Head(logRx.q).n)}
        BY <3>1 DEF LogPacket
      <4>3. logged' \in Seq(1..count)
        BY <2>2, <2>3, <4>1, <4>2, Zenon
      <4> QED BY <2>3, <4>1, <4>3 DEF Types
    <3>2. CASE LogEnd
      <4>1. logUp' = FALSE
        BY <3>2 DEF LogEnd
      <4>2. CASE UNCHANGED <<logRx, logged, failures>>
        BY <4>1, <4>2 DEF Types
      <4>3. CASE /\ HasMessage(logRx) /\ failures < MaxFailures /\ failures' = failures + 1
                 /\ logRx' = Popped(logRx)
                 /\ logged' \in {logged, Append(logged, Head(logRx.q).n)}
        <5>1. failures' \in 0..MaxFailures
          BY <4>3 DEF Types
        <5>2. logged' \in Seq(1..count)
          BY <2>2, <2>3, <4>3, Zenon
        <5> QED BY <2>3, <4>1, <4>3, <5>1, <5>2
      <4> QED BY <3>2, <4>2, <4>3, Zenon DEF LogEnd
    <3> QED BY <1>4, <3>1, <3>2 DEF Log
  <2> QED BY <2>1, <2>4 DEF Types
<1> QED BY <1>1, <1>2, <1>3, <1>4

LEMMA TypesInit == ASSUME Init PROVE Types
<1> USE SinksAssumption
<1>1. \A M : Subscribed \in Receivers(M)
  BY SubscribedType
<1>2. Len(loopRx.q) = 0
  BY DEF Init, Subscribed
<1>3. /\ latest \in [Registers -> 0..count] /\ cache \in [Registers -> 0..count]
  BY DEF Init
<1>4. /\ written \in Seq(1..points) /\ published \in Seq(1..messages)
      /\ logged \in Seq(1..count)
  BY DEF Init
<1>5. translated \subseteq 1..count
  BY DEF Init
<1>6. /\ count \in 0..MaxPackets /\ failures \in 0..MaxFailures /\ points \in Nat
      /\ messages \in Nat /\ points + 0 <= count /\ point \in 0..points
      /\ tries \in 0..Attempts /\ message \in 0..messages
  BY SMT DEF Init
<1>8. enabled \in Setups /\ exited \in BOOLEAN /\ setter \in BOOLEAN
  BY Zenon DEF Init
<1>7. mqttUp \in BOOLEAN /\ logUp \in BOOLEAN
  BY DEF Init
<1> QED BY <1>1, <1>2, <1>3, <1>4, <1>5, <1>6, <1>7, <1>8 DEF Init, Types

LEMMA TypesNext ==
  ASSUME Types, PointsInOrder, Next
  PROVE  Types'
<1>1. CASE LoopExit
  BY <1>1 DEF LoopExit, Types, inverters, sent, influx, mqtt, caching, datalog
<1> QED BY <1>1, TypesArrive, TypesProcess, TypesSinks DEF Next
------------------------------------------------------------------------------
(* InfluxDB.                                                               *)

LEMMA PointsStep ==
  ASSUME Types, PointsInOrder, Next
  PROVE  PointsInOrder'
<1> USE SinksAssumption
<1>1. /\ pointRx \in Receivers(1..points) /\ points \in Nat /\ point \in 0..points
      /\ tries \in Nat /\ written \in Seq(1..points) /\ Attempts \in Nat \ {0}
  BY DEF Types
<1>2. InSequence(point, tries, written, pointRx.q, Attempts)
  BY DEF PointsInOrder
<1>3. CASE UNCHANGED <<pointRx, point, tries, written>>
  BY <1>2, <1>3 DEF PointsInOrder
<1>4. CASE ProcessPacket
  <2>1. UNCHANGED <<point, tries, written>>
    BY <1>4 DEF ProcessPacket
  <2>2. pointRx' = pointRx \/ pointRx' = Push(pointRx, points + 1)
    BY <1>4 DEF ProcessPacket, SendPoint
  <2>3. InSequence(point, tries, written, Push(pointRx, points + 1).q, Attempts)
    BY <1>1, <1>2, SendInSequence
  <2> QED BY <1>2, <2>1, <2>2, <2>3 DEF PointsInOrder
<1>5. CASE TakePoint
  <2>1. /\ HasMessage(pointRx) /\ point = 0 /\ point' = Head(pointRx.q) /\ tries' = 0
        /\ pointRx' = Popped(pointRx) /\ written' = written
    BY <1>5 DEF TakePoint
  <2>2. InSequence(0, tries, written, pointRx.q, Attempts)
    BY <1>2, <2>1
  <2>3. InSequence(Head(pointRx.q), 0, written, Popped(pointRx).q, Attempts)
    BY <1>1, <2>1, <2>2, TakeInSequence
  <2> QED BY <2>1, <2>3 DEF PointsInOrder
<1>6. CASE WritePoint \/ WriteFails
  <2>1. /\ point \in 1..points /\ pointRx' = pointRx
        /\ written' \in {written, Append(written, point)}
        /\ point' = 0 \/ (tries' = tries + 1 /\ tries + 1 # Attempts /\ point' = point)
    BY <1>1, <1>6 DEF WritePoint, WriteFails
  <2>2. /\ Ascending(pointRx.q) /\ Before(written, pointRx.q)
        /\ Before(Append(written, point), pointRx.q)
        /\ tries + 1 # Attempts =>
             /\ InSequence(point, tries + 1, written, pointRx.q, Attempts)
             /\ InSequence(point, tries + 1, Append(written, point), pointRx.q, Attempts)
    BY <1>1, <1>2, <2>1, TryInSequence
  <2>3. CASE point' = 0
    BY <2>1, <2>2, <2>3 DEF PointsInOrder, InSequence
  <2>4. CASE tries' = tries + 1 /\ tries + 1 # Attempts /\ point' = point
    BY <2>1, <2>2, <2>4 DEF PointsInOrder
  <2> QED BY <2>1, <2>3, <2>4
<1>7. CASE PointsLost
  <2>1. point' = point /\ tries' = tries /\ written' = written /\ pointRx'.q = pointRx.q
    BY <1>7 DEF PointsLost, CaughtUp
  <2> QED BY <1>2, <2>1 DEF PointsInOrder
<1>8. CASE Arrive \/ LoopExit \/ Mqtt \/ Cache \/ Log
  <2>1. UNCHANGED <<pointRx, point, tries, written>>
    BY <1>8 DEF Arrive, LoopExit, Mqtt, TakeMessage, Publish, MessagesLost, ReceiverEnd, Cache,
                CacheSet, ValuesLost, Log, LogPacket, LogEnd, influx
  <2> QED BY <1>3, <2>1
<1> QED BY <1>4, <1>5, <1>6, <1>7, <1>8 DEF Next, Influx
------------------------------------------------------------------------------
(* MQTT.                                                                   *)

LEMMA NewestType ==
  ASSUME NEW n \in Nat, NEW s \in Seq(1..n)
  PROVE  /\ Newest(s) \in 0..n /\ Newest(<<>>) = 0
         /\ \A x \in 1..n : Newest(Append(s, x)) = x
<1>1. Len(s) \in Nat /\ (s # <<>> => s[Len(s)] \in 1..n)
  OBVIOUS
<1>2. ASSUME NEW x \in 1..n
      PROVE  Newest(Append(s, x)) = x
  <2>1. Append(s, x) \in Seq(1..n)
    OBVIOUS
  <2>2. Len(Append(s, x)) = Len(s) + 1 /\ Append(s, x)[Len(s) + 1] = x
    OBVIOUS
  <2>3. Append(s, x) # <<>>
    BY <1>1, <2>1, <2>2
  <2> QED BY <2>2, <2>3 DEF Newest
<1> QED BY <1>1, <1>2 DEF Newest

LEMMA MessagesStep ==
  ASSUME Types, MessagesInOrder, Next
  PROVE  MessagesInOrder'
<1>1. /\ mqttRx \in Receivers(1..messages) /\ messages \in Nat /\ message \in 0..messages
      /\ published \in Seq(1..messages) /\ mqttUp \in BOOLEAN /\ Len(mqttRx.q) \in Nat
      /\ mqttRx.lagged \in BOOLEAN
  <2>1. mqttRx \in Receivers(1..messages)
    BY DEF Types
  <2> QED BY <2>1 DEF Types, Receivers
<1>2. CASE UNCHANGED <<mqttRx, message, mqttUp, published, messages>>
  BY <1>2 DEF MessagesInOrder
<1>3. CASE ~mqttUp'
  BY <1>3 DEF MessagesInOrder
<1>4. CASE mqttUp /\ mqttUp' /\ ProcessPacket
  <2> DEFINE p == Head(loopRx.q).packet
  <2>1. UNCHANGED <<message, published>>
    BY <1>4 DEF ProcessPacket
  <2>2. p \in Packets
    <3>1. HasMessage(loopRx) /\ loopRx \in Receivers(Stamped(1..count))
      BY <1>4 DEF ProcessPacket, Types
    <3>2. Head(loopRx.q) \in Stamped(1..count)
      BY <3>1, PoppedType
    <3> QED BY <3>2 DEF Stamped
  <2>3. SendMessages(p)
    BY <1>4 DEF ProcessPacket
  <2> HIDE DEF p
  <2>4. PICK c \in Nat : c = MessageCount(p)
    BY <2>2, PacketType
  <2>5. messages' = messages + c /\ mqttRx' = PushAll(mqttRx, NumbersOf(p))
    BY <1>4, <2>3, <2>4 DEF SendMessages, NumbersOf
  <2>6. /\ NumbersOf(p) \in Seq(1..(messages + c)) /\ Len(NumbersOf(p)) = c
        /\ Counting(NumbersOf(p), messages)
    BY <1>1, <2>2, <2>4, NumbersOfType
  <2>7. mqttRx \in Receivers(1..(messages + c))
    <3>1. 1..messages \subseteq 1..(messages + c)
      BY <1>1
    <3> QED BY <1>1, <3>1, ReceiversMonotone
  <2>8. Running(mqttRx.q, messages)
    BY <1>4 DEF MessagesInOrder
  <2> DEFINE pushed == PushAll(mqttRx, NumbersOf(p))
  <2>9. /\ Running(pushed.q, messages + c)
        /\ pushed.lagged = FALSE =>
             mqttRx.lagged = FALSE /\ Len(pushed.q) = Len(mqttRx.q) + c
    <3>1. messages \in Nat /\ c \in Nat
      BY <1>1
    <3>2. PICK M, s : M = 1..(messages + c) /\ s = NumbersOf(p)
      OBVIOUS
    <3>3. /\ mqttRx \in Receivers(M) /\ s \in Seq(M)
          /\ Len(s) = c /\ Counting(s, messages)
      BY <2>6, <2>7, <3>2
    <3>4. /\ Running(PushAll(mqttRx, s).q, messages + c)
          /\ PushAll(mqttRx, s).lagged = FALSE =>
               mqttRx.lagged = FALSE /\ Len(PushAll(mqttRx, s).q) = Len(mqttRx.q) + c
      BY <2>8, <3>1, <3>3, PushAllRunning, ZenonT(30)
    <3> QED BY <3>2, <3>4
  <2>10. mqttRx' = pushed /\ pushed \in Receivers(1..(messages + c))
    BY <2>5, <2>6, <2>7, PushAllType
  <2>11. mqttRx'.lagged \in BOOLEAN
    BY <2>10 DEF Receivers
  <2> HIDE DEF pushed
  <2>12. ASSUME ~mqttRx'.lagged
         PROVE  messages' - Len(mqttRx'.q) = IF message = 0 THEN Newest(published) ELSE message
    <3>1. mqttRx.lagged = FALSE /\ Len(mqttRx'.q) = Len(mqttRx.q) + c
      BY <2>9, <2>10, <2>11, <2>12
    <3>2. messages - Len(mqttRx.q) = IF message = 0 THEN Newest(published) ELSE message
      BY <1>4, <3>1 DEF MessagesInOrder
    <3>3. messages' - Len(mqttRx'.q) = messages - Len(mqttRx.q)
      BY <1>1, <2>5, <3>1
    <3> QED BY <3>2, <3>3
  <2>13. Running(mqttRx'.q, messages')
    BY <2>5, <2>9, <2>10
  <2> QED BY <1>4, <2>1, <2>12, <2>13 DEF MessagesInOrder
<1>5. CASE mqttUp /\ TakeMessage
  <2>1. /\ message = 0 /\ HasMessage(mqttRx) /\ message' = Head(mqttRx.q)
        /\ mqttRx' = Popped(mqttRx) /\ UNCHANGED <<mqttUp, published, messages>>
    BY <1>5 DEF TakeMessage, sent
  <2>2. /\ Len(mqttRx.q) \in Nat \ {0} /\ message' = mqttRx.q[1]
        /\ Len(mqttRx'.q) = Len(mqttRx.q) - 1
        /\ \A k \in 1..(Len(mqttRx.q) - 1) : mqttRx'.q[k] = mqttRx.q[k + 1]
        /\ mqttRx.lagged = FALSE
    BY <1>1, <2>1, PopElements
  <2>3. /\ Len(mqttRx.q) <= messages
        /\ \A k \in 1..Len(mqttRx.q) : mqttRx.q[k] = (messages - Len(mqttRx.q)) + k
        /\ messages - Len(mqttRx.q) = Newest(published)
    BY <1>5, <2>1, <2>2 DEF MessagesInOrder, Running, Counting
  <2>4. PICK a \in Nat : a = messages - Len(mqttRx.q)
    <3>1. messages \in Nat /\ Len(mqttRx.q) \in Nat /\ Len(mqttRx.q) <= messages
      BY <1>1, <2>3
    <3>2. messages - Len(mqttRx.q) \in Nat
      BY <3>1
    <3> QED BY <3>2
  <2>5. messages - Len(mqttRx'.q) = a + 1 /\ Len(mqttRx'.q) <= messages /\ Len(mqttRx'.q) \in Nat
    BY <1>1, <2>2, <2>3, <2>4
  <2>6. message' = a + 1 /\ Newest(published) = a
    <3>1. 1 \in 1..Len(mqttRx.q)
      BY <2>2
    <3> QED BY <2>2, <2>3, <2>4, <3>1
  <2>7. Newest(published) = message' - 1 /\ messages - Len(mqttRx'.q) = message' /\ message' # 0
    BY <2>5, <2>6
  <2>8. Running(mqttRx'.q, messages)
    <3>1. ASSUME NEW k \in 1..Len(mqttRx'.q)
          PROVE  mqttRx'.q[k] = (messages - Len(mqttRx'.q)) + k
      <4>1. k + 1 \in 1..Len(mqttRx.q) /\ mqttRx'.q[k] = mqttRx.q[k + 1]
        BY <2>2
      <4>2. mqttRx.q[k + 1] = a + (k + 1)
        BY <2>3, <2>4, <4>1
      <4>3. mqttRx'.q[k] = a + (k + 1)
        BY <4>1, <4>2
      <4> QED BY <2>5, <4>3
    <3> QED BY <2>5, <3>1 DEF Running, Counting
  <2> QED BY <1>5, <2>1, <2>7, <2>8 DEF MessagesInOrder
<1>6. CASE mqttUp /\ Publish
  <2>1. /\ message \in 1..messages /\ published' = Append(published, message) /\ message' = 0
        /\ UNCHANGED <<mqttRx, mqttUp, messages>>
    BY <1>1, <1>6 DEF Publish, sent
  <2>2. Newest(published') = message
    BY <1>1, <2>1, NewestType
  <2> QED BY <1>6, <2>1, <2>2 DEF MessagesInOrder
<1>7. CASE Arrive \/ LoopExit \/ Influx \/ Cache \/ Log
  <2>1. UNCHANGED <<mqttRx, message, mqttUp, published, messages>>
    BY <1>7 DEF Arrive, LoopExit, Influx, TakePoint, WritePoint, WriteFails, PointsLost, Cache,
                CacheSet, ValuesLost, Log, LogPacket, LogEnd, mqtt, sent
  <2> QED BY <1>2, <2>1
<1>8. CASE MessagesLost \/ ReceiverEnd
  BY <1>3, <1>8 DEF MessagesLost, ReceiverEnd
<1>9. mqttUp' => mqttUp \/ Arrive \/ LoopExit \/ Influx \/ Cache \/ Log
  BY DEF Next, Mqtt, ProcessPacket, TakeMessage, Publish, MessagesLost, ReceiverEnd
<1> QED BY <1>3, <1>4, <1>5, <1>6, <1>7, <1>8, <1>9 DEF Next, Mqtt
------------------------------------------------------------------------------
(* The register cache.                                                     *)

LEMMA ValuesStep ==
  ASSUME Types, ValuesInOrder, Next
  PROVE  ValuesInOrder'
<1>1. /\ cacheRx \in Receivers(Values(1..count)) /\ Len(cacheRx.q) \in Nat
      /\ latest \in [Registers -> 0..count] /\ cache \in [Registers -> 0..count]
      /\ cacheRx.lagged \in BOOLEAN /\ setter \in BOOLEAN
      /\ \A k \in 1..Len(cacheRx.q) : cacheRx.q[k] \in Values(1..count)
  <2>1. cacheRx \in Receivers(Values(1..count))
    BY DEF Types
  <2>2. /\ Len(cacheRx.q) \in Nat /\ cacheRx.lagged \in BOOLEAN
        /\ \A k \in 1..Len(cacheRx.q) : cacheRx.q[k] \in Values(1..count)
    BY <2>1 DEF Receivers
  <2> QED BY <2>1, <2>2 DEF Types
<1>2. \A k \in 1..Len(cacheRx.q) : cacheRx.q[k].reg \in Registers
  BY <1>1 DEF Values
<1>3. CASE UNCHANGED <<cacheRx, setter, cache, latest>>
  BY <1>3 DEF ValuesInOrder
<1>4. CASE ~setter'
  BY <1>4 DEF ValuesInOrder
<1>5. CASE setter /\ setter' /\ ProcessPacket
  <2> DEFINE m == Head(loopRx.q)
             p == m.packet
             n == m.n
             q == cacheRx.q
             s == ValuesOf(p, n)
             r == PushAll(cacheRx, s).q
             c == Cached(p)
  <2>1. p \in Packets /\ n \in 1..count
    <3>1. HasMessage(loopRx) /\ loopRx \in Receivers(Stamped(1..count))
      BY <1>5 DEF ProcessPacket, Types
    <3>2. Head(loopRx.q) \in Stamped(1..count)
      BY <3>1, PoppedType
    <3> QED BY <3>2 DEF Stamped
  <2>2. SendRegisters(p, n) /\ cache' = cache
    BY <1>5 DEF ProcessPacket
  <2> HIDE DEF m, p, n
  <2>3. /\ cacheRx' = PushAll(cacheRx, s)
        /\ latest' = [x \in Registers |-> IF x \in ToSet(c) THEN n ELSE latest[x]]
    BY <1>5, <2>2 DEF SendRegisters, ValuesOf
  <2>4. /\ s \in Seq(Values(1..count)) /\ Len(s) = Len(c)
        /\ \A k \in 1..Len(c) : s[k].reg = c[k] /\ s[k].n = n
    BY <2>1, ValuesOfType
  <2>5. c \in Seq(Registers) /\ Len(c) \in Nat /\ DOMAIN c = 1..Len(c)
    BY <2>1, PacketType
  <2>6. \/ Joined(q, s, r) /\ PushAll(cacheRx, s).lagged = cacheRx.lagged
        \/ Overtaken(q, s, r) /\ PushAll(cacheRx, s).lagged = TRUE
    BY <1>1, <2>4, PushAllElements
  <2>7. r = cacheRx'.q /\ PushAll(cacheRx, s).lagged = cacheRx'.lagged
    BY <2>3
  <2>8. cacheRx' \in Receivers(Values(1..count))
    BY <1>1, <2>3, <2>4, PushAllType
  <2>9. Len(r) \in Nat /\ (Len(r) > 0 => r # <<>>)
    BY <2>7, <2>8 DEF Receivers
  <2>10. q \in Seq(Values(1..count))
    BY <1>1 DEF Receivers
  <2> HIDE DEF q, s, r, c
  <2>11. ASSUME cacheRx'.lagged
         PROVE  r # <<>>
    <3>1. CASE Overtaken(q, s, r)
      BY <2>9, <3>1, CapacityAssumption DEF Overtaken
    <3>2. CASE Joined(q, s, r) /\ cacheRx.lagged
      <4>1. q # <<>>
        BY <1>5, <3>2 DEF ValuesInOrder, q
      <4>2. Len(q) > 0 /\ Len(r) = Len(q) + Len(s)
        BY <2>10, <3>2, <4>1 DEF Joined
      <4> QED BY <1>1, <2>4, <2>5, <2>9, <4>2 DEF q
    <3> QED BY <2>6, <2>7, <2>11, <3>1, <3>2
  <2>12. ASSUME ~cacheRx'.lagged
         PROVE  /\ \A x \in Registers : Absent(r, x) => cache[x] = latest'[x]
                /\ \A k \in 1..Len(r) : IsLast(r, k) => r[k].n = latest'[r[k].reg]
    <3>1. Joined(q, s, r) /\ ~cacheRx.lagged
      BY <2>6, <2>7, <2>12
    <3>2. /\ \A x \in Registers : Absent(q, x) => cache[x] = latest[x]
          /\ \A k \in 1..Len(q) : IsLast(q, k) => q[k].n = latest[q[k].reg]
      BY <1>5, <3>1 DEF ValuesInOrder, q
    <3>3. /\ Len(r) = Len(q) + Len(c) /\ Len(q) \in Nat
          /\ \A k \in 1..Len(q) : r[k] = q[k] /\ k \in 1..Len(r)
          /\ \A k \in 1..Len(c) : r[Len(q) + k].reg = c[k] /\ r[Len(q) + k].n = n
      <4>1. Len(q) \in Nat /\ Len(s) = Len(c)
        BY <1>1, <2>4 DEF q
      <4>2. /\ Len(r) = Len(q) + Len(s)
            /\ \A k \in 1..Len(q) : r[k] = q[k]
            /\ \A k \in 1..Len(s) : r[Len(q) + k] = s[k]
        BY <3>1 DEF Joined
      <4>3. \A k \in 1..Len(q) : k \in 1..Len(r)
        BY <2>5, <4>1, <4>2
      <4>4. \A k \in 1..Len(c) : r[Len(q) + k].reg = c[k] /\ r[Len(q) + k].n = n
        BY <2>4, <4>1, <4>2
      <4> QED BY <4>1, <4>2, <4>3, <4>4
    <3>4. \A k \in 1..Len(c) : Len(q) + k \in 1..Len(r) /\ \A j \in 1..Len(q) : Len(q) + k > j
      BY <2>5, <3>3
    <3>5. \A x \in ToSet(c) : \E k \in 1..Len(c) : c[k] = x
      BY <2>5 DEF ToSet
    <3>6. ASSUME NEW x \in Registers, Absent(r, x)
          PROVE  cache[x] = latest'[x]
      <4>1. Absent(q, x)
        <5>1. \A k \in 1..Len(r) : r[k].reg # x
          BY <3>6 DEF Absent
        <5> QED BY <3>3, <5>1 DEF Absent
      <4>2. x \notin ToSet(c)
        <5>1. \A k \in 1..Len(r) : r[k].reg # x
          BY <3>6 DEF Absent
        <5>2. \A k \in 1..Len(c) : c[k] # x
          BY <3>3, <3>4, <5>1
        <5> QED BY <3>5, <5>2
      <4> QED BY <2>3, <3>2, <3>6, <4>1, <4>2
    <3>7. ASSUME NEW k \in 1..Len(r), IsLast(r, k)
          PROVE  r[k].n = latest'[r[k].reg]
      <4>1. CASE k <= Len(q)
        <5>1. k \in 1..Len(q)
          BY <3>3, <3>7, <4>1
        <5>2. IsLast(q, k)
          BY <3>3, <3>7, <5>1 DEF IsLast
        <5>3. r[k].reg \notin ToSet(c)
          <6>1. ASSUME NEW i \in 1..Len(c)
                PROVE  c[i] # r[k].reg
            <7>1. Len(q) + i \in 1..Len(r) /\ Len(q) + i > k
              BY <3>4, <5>1
            <7>2. r[Len(q) + i].reg # r[k].reg
              BY <3>7, <7>1 DEF IsLast
            <7> QED BY <3>3, <7>2
          <6> QED BY <3>5, <6>1
        <5>4. r[k] = q[k] /\ q[k].reg \in Registers
          BY <1>2, <3>3, <5>1 DEF q
        <5>5. latest'[r[k].reg] = latest[r[k].reg]
          BY <2>3, <5>3, <5>4
        <5> QED BY <3>2, <5>1, <5>2, <5>4, <5>5
      <4>2. CASE ~(k <= Len(q))
        <5>1. PICK j \in 1..Len(c) : k = Len(q) + j
          <6>1. k - Len(q) \in 1..Len(c) /\ k = Len(q) + (k - Len(q))
            BY <2>5, <3>3, <3>7, <4>2
          <6> QED BY <6>1
        <5>2. r[k].reg = c[j] /\ r[k].n = n
          BY <3>3, <5>1
        <5>3. c[j] \in Registers /\ c[j] \in ToSet(c)
          BY <2>5 DEF ToSet
        <5> QED BY <2>3, <5>2, <5>3
      <4> QED BY <4>1, <4>2
    <3> QED BY <3>6, <3>7
  <2> QED BY <1>5, <2>2, <2>7, <2>11, <2>12 DEF ValuesInOrder
<1>6. CASE setter /\ setter' /\ CacheSet
  <2> DEFINE q == cacheRx.q
             r == Popped(cacheRx).q
  <2>1. HasMessage(cacheRx) /\ cacheRx' = Popped(cacheRx) /\ latest' = latest
    BY <1>6 DEF CacheSet, sent
  <2>2. /\ Len(q) \in Nat \ {0} /\ Head(q) = q[1] /\ q[1] \in Values(1..count)
        /\ Len(r) = Len(q) - 1 /\ \A k \in 1..(Len(q) - 1) : r[k] = q[k + 1]
        /\ cacheRx.lagged = FALSE /\ Popped(cacheRx).lagged = FALSE
    BY <1>1, <2>1, PopElements
  <2>3. cache' = [cache EXCEPT ![q[1].reg] = q[1].n]
    BY <1>6, <2>2 DEF CacheSet
  <2>4. /\ \A x \in Registers : Absent(q, x) => cache[x] = latest[x]
        /\ \A k \in 1..Len(q) : IsLast(q, k) => q[k].n = latest[q[k].reg]
    BY <1>6, <2>2 DEF ValuesInOrder
  <2>5. q[1].reg \in Registers
    BY <2>2 DEF Values
  <2> HIDE DEF q, r
  <2>6. \A k \in 1..Len(r) : k + 1 \in 1..Len(q) /\ r[k] = q[k + 1]
    BY <2>2
  <2>7. \A j \in 1..Len(q) : j > 1 => \E k \in 1..Len(r) : j = k + 1
    <3>1. ASSUME NEW j \in 1..Len(q), j > 1
          PROVE  \E k \in 1..Len(r) : j = k + 1
      <4>1. j - 1 \in 1..Len(r) /\ j = (j - 1) + 1
        BY <2>2, <3>1
      <4> QED BY <4>1
    <3> QED BY <3>1
  <2>8. 1 \in 1..Len(q) /\ \A j \in 1..Len(q) : j = 1 \/ j > 1
    BY <2>2
  <2>9. ASSUME NEW x \in Registers, Absent(r, x)
        PROVE  cache'[x] = latest[x]
    <3>1. \A j \in 1..Len(q) : j > 1 => q[j].reg # x
      BY <2>6, <2>7, <2>9 DEF Absent
    <3>2. CASE x = q[1].reg
      <4>1. IsLast(q, 1)
        BY <3>1, <3>2 DEF IsLast
      <4> QED BY <1>1, <2>3, <2>4, <2>8, <3>2, <4>1
    <3>3. CASE x # q[1].reg
      <4>1. Absent(q, x)
        BY <2>8, <3>1, <3>3 DEF Absent
      <4> QED BY <1>1, <2>3, <2>4, <2>9, <3>3, <4>1
    <3> QED BY <3>2, <3>3
  <2>10. ASSUME NEW k \in 1..Len(r), IsLast(r, k)
         PROVE  r[k].n = latest[r[k].reg]
    <3>1. k + 1 \in 1..Len(q) /\ r[k] = q[k + 1]
      BY <2>6
    <3>2. ASSUME NEW j \in 1..Len(q), j > k + 1
          PROVE  q[j].reg # q[k + 1].reg
      <4>1. PICK i \in 1..Len(r) : j = i + 1
        BY <2>7, <3>2
      <4>2. i > k /\ r[i] = q[j]
        BY <2>6, <3>2, <4>1
      <4> QED BY <2>10, <3>1, <4>2 DEF IsLast
    <3>3. IsLast(q, k + 1)
      BY <3>2 DEF IsLast
    <3> QED BY <2>4, <3>1, <3>3
  <2>11. r = cacheRx'.q /\ cacheRx'.lagged = FALSE
    BY <2>1, <2>2 DEF r
  <2> QED BY <1>6, <2>1, <2>9, <2>10, <2>11 DEF ValuesInOrder
<1>7. CASE Arrive \/ LoopExit \/ Influx \/ Mqtt \/ Log
  <2>1. UNCHANGED <<cacheRx, setter, cache, latest>>
    BY <1>7 DEF Arrive, LoopExit, Influx, TakePoint, WritePoint, WriteFails, PointsLost, Mqtt,
                TakeMessage, Publish, MessagesLost, ReceiverEnd, Log, LogPacket, LogEnd, caching,
                sent
  <2> QED BY <1>3, <2>1
<1>8. CASE ValuesLost
  BY <1>4, <1>8 DEF ValuesLost
<1>9. setter' => setter \/ Arrive \/ LoopExit \/ Influx \/ Mqtt \/ Log
  BY DEF Next, Cache, ProcessPacket, CacheSet, ValuesLost
<1> QED BY <1>4, <1>5, <1>6, <1>7, <1>8, <1>9 DEF Next, Cache
------------------------------------------------------------------------------
(* The datalog file.                                                       *)

LEMMA LinesStep ==
  ASSUME Types, LinesInOrder, Next
  PROVE  LinesInOrder'
<1>1. /\ logRx \in Receivers(Stamped(1..count)) /\ Len(logRx.q) \in Nat /\ count \in Nat
      /\ logRx.lagged \in BOOLEAN /\ translated \subseteq 1..count
      /\ logged \in Seq(1..count) /\ Len(logged) \in Nat /\ DOMAIN logged = 1..Len(logged)
      /\ \A k \in 1..Len(logged) : logged[k] \in 1..count
  <2>1. /\ logRx \in Receivers(Stamped(1..count)) /\ count \in Nat
        /\ translated \subseteq 1..count /\ logged \in Seq(1..count)
    <3>1. count \in 0..MaxPackets
      BY DEF Types
    <3> QED BY <3>1, SinksAssumption DEF Types
  <2>2. Len(logRx.q) \in Nat /\ logRx.lagged \in BOOLEAN
    BY <2>1 DEF Receivers
  <2>3. /\ Len(logged) \in Nat /\ DOMAIN logged = 1..Len(logged)
        /\ \A k \in 1..Len(logged) : logged[k] \in 1..count
    BY <2>1
  <2> QED BY <2>1, <2>2, <2>3
<1>2. CASE UNCHANGED <<count, translated, logRx, logUp, logged>>
  BY <1>2 DEF LinesInOrder, LogHasNoGaps, Consecutive
<1>3. Newest(logged) \in 0..count
  BY <1>1, NewestType
<1>4. CASE Arrive
  <2>1. PICK p \in Packets :
          /\ logRx' = IF logUp THEN Push(logRx, [packet |-> p, n |-> count + 1]) ELSE logRx
          /\ translated' = IF Translated(p) THEN translated \cup {count + 1} ELSE translated
    BY <1>4 DEF Arrive
  <2>2. count' = count + 1 /\ UNCHANGED <<logUp, logged>>
    BY <1>4 DEF Arrive
  <2>3. \A t \in translated' : t \in translated \/ t = count + 1
    BY <2>1
  <2>4. LogHasNoGaps'
    <3>1. ASSUME NEW n \in DOMAIN logged \ {1}
          PROVE  /\ logged[n - 1] < logged[n]
                 /\ translated' \cap (logged[n - 1] + 1)..(logged[n] - 1) = {}
      <4>1. /\ logged[n - 1] < logged[n]
            /\ translated \cap (logged[n - 1] + 1)..(logged[n] - 1) = {}
        BY <3>1 DEF LinesInOrder, LogHasNoGaps
      <4>2. n \in 1..Len(logged) /\ n - 1 \in 1..Len(logged)
        BY <1>1, <3>1
      <4>3. count + 1 \notin (logged[n - 1] + 1)..(logged[n] - 1)
        BY <1>1, <4>2
      <4> QED BY <2>3, <4>1, <4>3
    <3> QED BY <2>2, <3>1 DEF LogHasNoGaps
  <2>5. ASSUME logUp
        PROVE  /\ Consecutive(logRx.q)'
               /\ Newest(logged) <= count' - Len(logRx'.q)
               /\ ~logRx'.lagged =>
                    \A t \in translated' : t <= count' - Len(logRx'.q) => t <= Newest(logged)
    <3> DEFINE m == [packet |-> p, n |-> count + 1]
               q == logRx.q
               r == Push(logRx, m).q
    <3>1. logRx \in Receivers(Stamped(1..(count + 1))) /\ m \in Stamped(1..(count + 1))
      <4>1. 1..count \subseteq 1..(count + 1) /\ count + 1 \in 1..(count + 1)
        BY <1>1
      <4> QED BY <1>1, <4>1, StampedMonotone DEF Stamped
    <3>2. logRx'.q = r /\ logRx'.lagged = Push(logRx, m).lagged
      BY <2>1, <2>5
    <3>3. \/ Longer(q, r, m) /\ Push(logRx, m).lagged = logRx.lagged
          \/ Shifted(q, r, m) /\ Push(logRx, m).lagged = TRUE
      <4> HIDE DEF m
      <4> QED BY <3>1, PushElements
    <3>4. m.n = count + 1 /\ m.packet = p
      OBVIOUS
    <3>5. /\ Len(q) <= count /\ Len(q) \in Nat
          /\ \A k \in 1..Len(q) : q[k].n = (count - Len(q)) + k
          /\ \A k \in 1..Len(q) : q[k].n \in translated => Translated(q[k].packet)
          /\ Newest(logged) <= count - Len(q)
          /\ ~logRx.lagged => \A t \in translated : t <= count - Len(q) => t <= Newest(logged)
      BY <1>1, <2>5 DEF LinesInOrder, Consecutive
    <3> HIDE DEF m, q, r
    <3>6. count + 1 \in translated' => Translated(p)
      <4>1. count + 1 \notin translated
        BY <1>1
      <4> QED BY <2>1, <4>1
    <3>7. \A k \in 1..Len(q) : q[k].n \in translated' => Translated(q[k].packet)
      <4>1. \A k \in 1..Len(q) : (count - Len(q)) + k # count + 1
        BY <1>1, <3>5
      <4> QED BY <2>3, <3>5, <4>1
    <3>8. CASE Longer(q, r, m) /\ Push(logRx, m).lagged = logRx.lagged
      <4>1. Len(r) = Len(q) + 1 /\ count' - Len(r) = count - Len(q) /\ Len(r) <= count'
        BY <1>1, <2>2, <3>5, <3>8 DEF Longer
      <4>2. \A k \in 1..Len(r) : k \in 1..Len(q) \/ k = Len(q) + 1
        BY <3>5, <4>1
      <4>3. ASSUME NEW k \in 1..Len(r)
            PROVE  /\ r[k].n = (count' - Len(r)) + k
                   /\ r[k].n \in translated' => Translated(r[k].packet)
        <5>1. CASE k \in 1..Len(q)
          BY <3>5, <3>7, <3>8, <4>1, <5>1 DEF Longer
        <5>2. CASE k = Len(q) + 1
          <6>1. r[k] = m /\ (count - Len(q)) + k = count + 1
            BY <1>1, <3>5, <3>8, <5>2 DEF Longer
          <6> QED BY <3>4, <3>6, <4>1, <6>1
        <5> QED BY <4>2, <5>1, <5>2
      <4>4. Consecutive(logRx.q)'
        BY <3>2, <4>1, <4>3 DEF Consecutive
      <4>5. ASSUME ~logRx'.lagged, NEW t \in translated', t <= count' - Len(r)
            PROVE  t <= Newest(logged)
        <5>1. t # count + 1
          BY <1>1, <3>5, <4>1, <4>5
        <5> QED BY <2>3, <3>2, <3>5, <3>8, <4>1, <4>5, <5>1
      <4> QED BY <3>2, <3>5, <4>1, <4>4, <4>5
    <3>9. CASE Shifted(q, r, m) /\ Push(logRx, m).lagged = TRUE
      <4>1. /\ Len(q) = Capacity /\ Len(r) = Capacity /\ count' - Len(r) = (count - Len(q)) + 1
            /\ Len(r) <= count'
        BY <1>1, <2>2, <3>5, <3>9, CapacityAssumption DEF Shifted
      <4>2. \A k \in 1..Len(r) : k \in 1..(Capacity - 1) \/ k = Capacity
        BY <4>1, CapacityAssumption
      <4>3. ASSUME NEW k \in 1..Len(r)
            PROVE  /\ r[k].n = (count' - Len(r)) + k
                   /\ r[k].n \in translated' => Translated(r[k].packet)
        <5>1. CASE k \in 1..(Capacity - 1)
          <6>1. k + 1 \in 1..Len(q) /\ r[k] = q[k + 1]
            BY <3>9, <4>1, <5>1, CapacityAssumption DEF Shifted
          <6>2. q[k + 1].n = (count - Len(q)) + (k + 1)
            BY <3>5, <6>1
          <6>3. (count - Len(q)) + (k + 1) = (count' - Len(r)) + k
            BY <1>1, <3>5, <4>1, <4>3
          <6> QED BY <3>7, <6>1, <6>2, <6>3
        <5>2. CASE k = Capacity
          <6>1. r[k] = m /\ (count' - Len(r)) + k = count + 1
            BY <1>1, <2>2, <3>9, <4>1, <5>2, CapacityAssumption DEF Shifted
          <6> QED BY <3>4, <3>6, <6>1
        <5> QED BY <4>2, <5>1, <5>2
      <4>4. Consecutive(logRx.q)'
        BY <3>2, <4>1, <4>3 DEF Consecutive
      <4>5. Newest(logged) <= count' - Len(r)
        BY <1>1, <1>3, <3>5, <4>1
      <4> QED BY <3>2, <3>9, <4>4, <4>5
    <3> QED BY <3>3, <3>8, <3>9
  <2> QED BY <2>2, <2>4, <2>5 DEF LinesInOrder
<1>5. ASSUME logUp, HasMessage(logRx)
      PROVE  /\ Len(logRx.q) \in Nat \ {0} /\ Len(Popped(logRx).q) = Len(logRx.q) - 1
             /\ \A k \in 1..(Len(logRx.q) - 1) : Popped(logRx).q[k] = logRx.q[k + 1]
             /\ Popped(logRx).lagged = FALSE
             /\ Head(logRx.q) = logRx.q[1]
             /\ Head(logRx.q).n = (count - Len(logRx.q)) + 1
             /\ Head(logRx.q).n \in 1..count
             /\ Newest(logged) < Head(logRx.q).n
             /\ \A t \in translated : t < Head(logRx.q).n => t <= Newest(logged)
             /\ Head(logRx.q).n \in translated => Translated(Head(logRx.q).packet)
  <2>1. /\ Len(logRx.q) \in Nat \ {0} /\ Len(Popped(logRx).q) = Len(logRx.q) - 1
        /\ \A k \in 1..(Len(logRx.q) - 1) : Popped(logRx).q[k] = logRx.q[k + 1]
        /\ Popped(logRx).lagged = FALSE /\ logRx.lagged = FALSE
        /\ Head(logRx.q) = logRx.q[1]
    BY <1>1, <1>5, PopElements
  <2>2. /\ Len(logRx.q) <= count
        /\ \A k \in 1..Len(logRx.q) : logRx.q[k].n = (count - Len(logRx.q)) + k
        /\ \A k \in 1..Len(logRx.q) :
             logRx.q[k].n \in translated => Translated(logRx.q[k].packet)
        /\ Newest(logged) <= count - Len(logRx.q)
        /\ \A t \in translated : t <= count - Len(logRx.q) => t <= Newest(logged)
    BY <1>5, <2>1 DEF LinesInOrder, Consecutive
  <2>3. 1 \in 1..Len(logRx.q)
    BY <2>1
  <2>4. logRx.q[1].n = (count - Len(logRx.q)) + 1
    BY <2>2, <2>3
  <2>5. PICK a \in Nat : a = count - Len(logRx.q) /\ a + 1 \in 1..count
    <3>1. Len(logRx.q) \in Nat \ {0} /\ Len(logRx.q) <= count
      BY <2>1, <2>2
    <3>2. count - Len(logRx.q) \in Nat /\ (count - Len(logRx.q)) + 1 \in 1..count
      BY <1>1, <3>1
    <3> QED BY <3>2
  <2>6. Newest(logged) < a + 1
    BY <1>3, <2>2, <2>5
  <2>7. \A t \in translated : t < a + 1 => t <= a
    <3>1. \A t \in translated : t \in Nat
      BY <1>1
    <3>2. \A t \in Nat : t < a + 1 => t <= a
      OBVIOUS
    <3> QED BY <3>1, <3>2
  <2> QED BY <2>1, <2>2, <2>3, <2>4, <2>5, <2>6, <2>7
<1>6. ASSUME logUp, HasMessage(logRx), logged' = Append(logged, Head(logRx.q).n),
             translated' = translated
      PROVE  LogHasNoGaps' /\ Newest(logged') = Head(logRx.q).n
  <2>1. PICK h \in 1..count : h = Head(logRx.q).n
    BY <1>5, <1>6
  <2>2. /\ Len(logged') = Len(logged) + 1 /\ logged'[Len(logged) + 1] = h
        /\ \A k \in 1..Len(logged) : logged'[k] = logged[k]
        /\ DOMAIN logged' = 1..(Len(logged) + 1)
    BY <1>1, <1>6, <2>1
  <2>3. Newest(logged) < h /\ \A t \in translated : t < h => t <= Newest(logged)
    BY <1>5, <1>6, <2>1
  <2>4. Len(logged) # 0 => Newest(logged) = logged[Len(logged)]
    BY <1>1 DEF Newest
  <2>5. ASSUME NEW n \in DOMAIN logged' \ {1}
        PROVE  /\ logged'[n - 1] < logged'[n]
               /\ translated \cap (logged'[n - 1] + 1)..(logged'[n] - 1) = {}
    <3>1. CASE n \in 1..Len(logged)
      <4>1. n \in DOMAIN logged \ {1} /\ n - 1 \in 1..Len(logged)
        BY <1>1, <2>5, <3>1
      <4> QED BY <2>2, <3>1, <4>1 DEF LinesInOrder, LogHasNoGaps
    <3>2. CASE n = Len(logged) + 1
      <4>1. n - 1 = Len(logged) /\ Len(logged) # 0 /\ Len(logged) \in 1..Len(logged)
        BY <1>1, <2>5, <3>2
      <4>2. logged'[n - 1] = Newest(logged) /\ logged'[n] = h
        BY <2>2, <2>4, <3>2, <4>1
      <4>3. ASSUME NEW t \in translated, t \in (Newest(logged) + 1)..(h - 1)
            PROVE  FALSE
        <5>1. t \in Nat /\ t < h /\ t > Newest(logged)
          BY <1>1, <1>3, <4>3
        <5> QED BY <1>3, <2>3, <5>1
      <4> QED BY <2>3, <4>2, <4>3
    <3> QED BY <1>1, <2>2, <2>5, <3>1, <3>2
  <2>6. Newest(logged') = h
    BY <1>1, <1>6, <2>1, NewestType
  <2> QED BY <1>6, <2>1, <2>5, <2>6 DEF LogHasNoGaps
<1>7. CASE logUp /\ LogPacket
  <2>1. /\ HasMessage(logRx) /\ logRx' = Popped(logRx) /\ UNCHANGED <<count, translated, logUp>>
        /\ logged' = IF Translated(Head(logRx.q).packet) THEN Append(logged, Head(logRx.q).n)
                     ELSE logged
    BY <1>7 DEF LogPacket, inverters
  <2>2. PICK a \in 0..count : a = count - Len(logRx.q) /\ Head(logRx.q).n = a + 1
    <3>1. /\ Len(logRx.q) \in Nat \ {0} /\ Head(logRx.q).n = (count - Len(logRx.q)) + 1
          /\ Head(logRx.q).n \in 1..count
      BY <1>5, <1>7, <2>1
    <3>2. PICK h \in 1..count : h = (count - Len(logRx.q)) + 1
      BY <3>1
    <3>3. count \in Nat /\ Len(logRx.q) \in Nat
      BY <1>1
    <3>4. count - Len(logRx.q) = h - 1
      BY <3>2, <3>3
    <3>5. h - 1 \in 0..count /\ (h - 1) + 1 = h
      BY <3>3
    <3> QED BY <3>1, <3>2, <3>4, <3>5
  <2>3. /\ Len(logRx.q) \in Nat \ {0} /\ Len(logRx'.q) = Len(logRx.q) - 1
        /\ \A k \in 1..(Len(logRx.q) - 1) : logRx'.q[k] = logRx.q[k + 1]
        /\ logRx'.lagged = FALSE
    BY <1>5, <1>7, <2>1
  <2>4. count - Len(logRx'.q) = a + 1 /\ Len(logRx'.q) <= count
    BY <1>1, <2>2, <2>3
  <2>5. /\ \A k \in 1..Len(logRx.q) : logRx.q[k].n = (count - Len(logRx.q)) + k
        /\ \A k \in 1..Len(logRx.q) :
             logRx.q[k].n \in translated => Translated(logRx.q[k].packet)
    BY <1>7 DEF LinesInOrder, Consecutive
  <2>6. Consecutive(logRx.q)'
    <3>1. ASSUME NEW k \in 1..Len(logRx'.q)
          PROVE  /\ logRx'.q[k].n = (count - Len(logRx'.q)) + k
                 /\ logRx'.q[k].n \in translated => Translated(logRx'.q[k].packet)
      <4>1. k + 1 \in 1..Len(logRx.q) /\ logRx'.q[k] = logRx.q[k + 1]
        BY <2>3
      <4>2. logRx.q[k + 1].n = a + (k + 1)
        BY <2>2, <2>5, <4>1
      <4>3. a + (k + 1) = (a + 1) + k
        BY <2>2, <3>1
      <4> QED BY <2>4, <2>5, <4>1, <4>2, <4>3
    <3> QED BY <2>1, <2>4, <3>1 DEF Consecutive
  <2>7. /\ Newest(logged) < a + 1 /\ \A t \in translated : t < a + 1 => t <= Newest(logged)
        /\ a + 1 \in translated => Translated(Head(logRx.q).packet)
    BY <1>5, <1>7, <2>1, <2>2
  <2>8. CASE Translated(Head(logRx.q).packet)
    <3>1. LogHasNoGaps' /\ Newest(logged') = a + 1
      BY <1>6, <1>7, <2>1, <2>2, <2>8
    <3>2. a + 1 <= count - Len(logRx'.q)
      BY <2>2, <2>4
    <3> QED BY <2>1, <2>4, <2>6, <3>1, <3>2 DEF LinesInOrder
  <2>9. CASE ~Translated(Head(logRx.q).packet)
    <3>1. logged' = logged /\ a + 1 \notin translated
      BY <2>1, <2>7, <2>9
    <3>2. LogHasNoGaps'
      BY <2>1, <3>1 DEF LinesInOrder, LogHasNoGaps
    <3>3. Newest(logged) <= a + 1
      BY <1>3, <2>2, <2>7
    <3>4. ASSUME NEW t \in translated, t <= a + 1
          PROVE  t <= Newest(logged)
      <4>1. t \in Nat /\ t # a + 1
        BY <1>1, <3>1
      <4>2. t < a + 1
        BY <2>2, <3>4, <4>1
      <4> QED BY <2>7, <4>2
    <3> QED BY <2>1, <2>4, <2>6, <3>1, <3>2, <3>3, <3>4 DEF LinesInOrder
  <2> QED BY <2>8, <2>9
<1>8. CASE logUp /\ LogEnd
  <2>1. ~logUp' /\ translated' = translated
    BY <1>8 DEF LogEnd, inverters
  <2>2. CASE logged' = logged
    BY <2>1, <2>2 DEF LinesInOrder, LogHasNoGaps
  <2>3. CASE HasMessage(logRx) /\ logged' = Append(logged, Head(logRx.q).n)
    BY <1>6, <1>8, <2>1, <2>3 DEF LinesInOrder
  <2> QED BY <1>8, <2>2, <2>3, Zenon DEF LogEnd
<1>9. CASE ProcessPacket \/ LoopExit \/ Influx \/ Mqtt \/ Cache
  <2>1. UNCHANGED <<count, translated, logRx, logUp, logged>>
    BY <1>9 DEF ProcessPacket, LoopExit, Influx, TakePoint, WritePoint, WriteFails, PointsLost,
                Mqtt, TakeMessage, Publish, MessagesLost, ReceiverEnd, Cache, CacheSet,
                ValuesLost, datalog, inverters
  <2> QED BY <1>2, <2>1
<1>10. LogPacket \/ LogEnd => logUp
  BY DEF LogPacket, LogEnd
<1> QED BY <1>4, <1>7, <1>8, <1>9, <1>10 DEF Next, Log
------------------------------------------------------------------------------
(* The theorems.                                                           *)

LEMMA InvariantInit == ASSUME Init PROVE SinksInvariant
<1>1. Types
  BY TypesInit
<1>2. /\ pointRx.q = <<>> /\ mqttRx.q = <<>> /\ cacheRx.q = <<>> /\ logRx.q = <<>>
      /\ cacheRx.lagged = FALSE
  BY DEF Init, Subscribed
<1>3. /\ Len(pointRx.q) = 0 /\ Len(mqttRx.q) = 0 /\ Len(cacheRx.q) = 0 /\ Len(logRx.q) = 0
  BY <1>2
<1>4. PointsInOrder
  BY <1>3 DEF Init, PointsInOrder, InSequence, Ascending, Before
<1>5. message = 0 /\ messages = 0 /\ Newest(published) = 0
  BY DEF Init, Newest
<1>6. MessagesInOrder
  BY <1>3, <1>5 DEF MessagesInOrder, Running, Counting
<1>7. ValuesInOrder
  BY <1>2, <1>3 DEF Init, ValuesInOrder
<1>8. LinesInOrder
  <2>1. count = 0 /\ translated = {} /\ logged = <<>> /\ Newest(logged) = 0
    BY DEF Init, Newest
  <2>2. LogHasNoGaps
    BY <2>1 DEF LogHasNoGaps
  <2> QED BY <1>3, <2>1, <2>2 DEF LinesInOrder, Consecutive
<1> QED BY <1>1, <1>4, <1>6, <1>7, <1>8 DEF SinksInvariant

LEMMA InvariantNext == ASSUME SinksInvariant, [Next]_vars PROVE SinksInvariant'
<1>1. CASE Next
  BY <1>1, TypesNext, PointsStep, MessagesStep, ValuesStep, LinesStep DEF SinksInvariant
<1>2. CASE UNCHANGED vars
  <2>1. /\ UNCHANGED <<enabled, count, translated, exited, loopRx, latest, points, messages>>
        /\ UNCHANGED <<pointRx, point, tries, written, mqttRx, message, mqttUp, published>>
        /\ UNCHANGED <<cacheRx, setter, cache, logRx, logUp, logged, failures>>
    BY <1>2 DEF vars, inverters, sent, influx, mqtt, caching, datalog
  <2>2. Types' /\ PointsInOrder'
    BY <2>1 DEF SinksInvariant, Types, PointsInOrder
  <2>3. MessagesInOrder' /\ ValuesInOrder' /\ LinesInOrder'
    BY <2>1 DEF SinksInvariant, MessagesInOrder, ValuesInOrder, LinesInOrder, LogHasNoGaps,
                Consecutive
  <2> QED BY <2>2, <2>3 DEF SinksInvariant
<1> QED BY <1>1, <1>2

\* The inductive invariant, over the four sinks.
THEOREM InvariantHolds == Spec => []SinksInvariant
<1> QED BY InvariantInit, InvariantNext, PTL DEF Spec

\* Every variable has its type, whatever the packets and the capacity.
THEOREM TypeCorrect == Spec => []TypeOK
<1>1. Types => TypeOK
  <2>1. \A M, rx : rx \in Receivers(M) => Fits(rx)
    BY DEF Receivers, Fits
  <2>2. ASSUME Types
        PROVE  points \in 0..count
    <3>1. Len(loopRx.q) \in Nat /\ points \in Nat /\ points + Len(loopRx.q) <= count
          /\ count \in Nat
      BY <2>2, SinksAssumption DEF Types, Receivers
    <3> QED BY <3>1
  <2> QED BY <2>1, <2>2 DEF Types, TypeOK
<1> QED BY <1>1, InvariantHolds, PTL DEF SinksInvariant

\* A cache that still takes values has the last one of every register, once it has
\* caught up, whatever order and number of packets.
THEOREM CacheStaysCurrent == Spec => []CacheIsCurrent
<1>1. SinksInvariant => CacheIsCurrent
  <2>1. SUFFICES ASSUME SinksInvariant, setter, cacheRx.q = <<>>
                 PROVE  cache = latest
    BY DEF CacheIsCurrent
  <2>2. \A r \in Registers : Absent(cacheRx.q, r)
    <3>1. Len(cacheRx.q) = 0
      BY <2>1
    <3> QED BY <3>1 DEF Absent
  <2>3. \A r \in Registers : cache[r] = latest[r]
    BY <2>1, <2>2 DEF SinksInvariant, ValuesInOrder
  <2>4. latest \in [Registers -> 0..count] /\ cache \in [Registers -> 0..count]
    BY <2>1 DEF SinksInvariant, Types
  <2> QED BY <2>3, <2>4
<1> QED BY <1>1, InvariantHolds, PTL

\* The datalog file has no packet out of order and no gap, however far its writer
\* falls behind.
THEOREM LogIsWhole == Spec => []LogHasNoGaps
<1>1. SinksInvariant => LogHasNoGaps
  BY DEF SinksInvariant, LinesInOrder
<1> QED BY <1>1, InvariantHolds, PTL

\* InfluxDB is given points in order, none more often than there are attempts: the
\* sender implements Delivery.
THEOREM PointsAreDelivered == Spec => InfluxDelivers
<1>1. Init => Series!Init
  BY DEF Init, Series!Init
<1>2. SinksInvariant /\ [Next]_vars => [Series!Next]_<<points, written>>
  <2>1. SUFFICES ASSUME SinksInvariant, Next
                 PROVE  Series!Next \/ UNCHANGED <<points, written>>
    BY DEF vars, sent, influx
  <2>2. /\ points \in Nat /\ point \in 0..points /\ tries \in 0..Attempts
        /\ written \in Seq(1..points) /\ Len(written) \in Nat
        /\ \A k \in 1..Len(written) : written[k] \in 1..points
    BY <2>1 DEF SinksInvariant, Types
  <2>3. ASSUME points' = points + 1, written' = written
        PROVE  Series!Next
    BY <2>2, <2>3 DEF Series!Next, Series!Send
  <2>4. ASSUME point # 0, written' = Append(written, point), points' = points
        PROVE  Series!Next
    <3>1. InSequence(point, tries, written, pointRx.q, Attempts) /\ point \in 1..points
      BY <2>1, <2>2, <2>4 DEF SinksInvariant, PointsInOrder
    <3>2. /\ written # <<>> => point >= written[Len(written)]
          /\ Len(written) < Attempts \/ written[Len(written) + 1 - Attempts] # point
      BY <2>2, <3>1, SinksAssumption, DeliverInSequence
    <3>3. point >= Series!Latest
      BY <3>1, <3>2 DEF Series!Latest
    <3> QED BY <2>4, <3>1, <3>2, <3>3 DEF Series!Next, Series!Deliver, Series!Fresh
  <2>5. CASE ProcessPacket
    BY <2>3, <2>5 DEF ProcessPacket, SendPoint
  <2>6. CASE WritePoint \/ WriteFails
    <3>1. point # 0 /\ points' = points /\ written' \in {written, Append(written, point)}
      BY <2>6 DEF WritePoint, WriteFails, sent
    <3> QED BY <2>4, <3>1
  <2>7. CASE Arrive \/ LoopExit \/ TakePoint \/ PointsLost \/ Mqtt \/ Cache \/ Log
    BY <2>7 DEF Arrive, LoopExit, TakePoint, PointsLost, Mqtt, TakeMessage, Publish,
                MessagesLost, ReceiverEnd, Cache, CacheSet, ValuesLost, Log, LogPacket, LogEnd,
                sent, influx
  <2> QED BY <2>1, <2>5, <2>6, <2>7 DEF Next, Influx
<1> QED BY <1>1, <1>2, InvariantHolds, PTL DEF Spec, InfluxDelivers, Series!Spec

\* MQTT is given every message, once and in order, until its task ends: the sender
\* implements Delivery with one copy and nothing left out.
THEOREM MessagesAreDelivered == Spec => MqttDelivers
<1>1. Init => Topics!Init
  BY DEF Init, Topics!Init
<1>2. SinksInvariant /\ [Next]_vars => [Topics!Next]_<<messages, published>>
  <2>1. SUFFICES ASSUME SinksInvariant, Next
                 PROVE  Topics!Next \/ UNCHANGED <<messages, published>>
    BY DEF vars, sent, mqtt
  <2>2. /\ messages \in Nat /\ message \in 0..messages /\ published \in Seq(1..messages)
        /\ Len(published) \in Nat
    BY <2>1 DEF SinksInvariant, Types
  <2>3. CASE ProcessPacket
    <3> DEFINE p == Head(loopRx.q).packet
    <3>1. HasMessage(loopRx) /\ loopRx \in Receivers(Stamped(1..count))
      BY <2>1, <2>3 DEF ProcessPacket, SinksInvariant, Types
    <3>2. Head(loopRx.q) \in Stamped(1..count)
      BY <3>1, PoppedType
    <3>3. p \in Packets
      BY <3>2 DEF Stamped
    <3>4. messages' = messages + MessageCount(p) /\ published' = published
      BY <2>3 DEF ProcessPacket, SendMessages
    <3>5. PICK c \in Nat : c = MessageCount(p)
      BY <3>3, PacketType
    <3> HIDE DEF p
    <3>6. messages' = messages + c
      BY <3>4, <3>5
    <3>7. CASE c = 0
      BY <2>2, <3>4, <3>6, <3>7
    <3>8. CASE c # 0
      BY <2>2, <3>4, <3>6, <3>8 DEF Topics!Next, Topics!Send
    <3> QED BY <3>7, <3>8
  <2>4. CASE Publish
    <3>1. /\ mqttUp /\ message \in 1..messages /\ messages' = messages
          /\ published' = Append(published, message)
      BY <2>2, <2>4 DEF Publish, sent
    <3>2. Newest(published) = message - 1
      BY <2>1, <3>1 DEF SinksInvariant, MessagesInOrder
    <3>3. Topics!Latest = Newest(published)
      BY DEF Topics!Latest, Newest
    <3>4. Topics!Fresh(message)
      <4>1. SUFFICES ASSUME Len(published) >= 1
                     PROVE  published[Len(published) + 1 - 1] # message
        BY <2>2 DEF Topics!Fresh
      <4>2. published # <<>> /\ Len(published) + 1 - 1 = Len(published)
        BY <2>2, <4>1
      <4>3. published[Len(published)] = message - 1
        BY <3>2, <4>2 DEF Newest
      <4> QED BY <2>2, <3>1, <4>2, <4>3
    <3>5. message >= Topics!Latest /\ message <= Topics!Latest + 1
      BY <2>2, <3>1, <3>2, <3>3
    <3> QED BY <3>1, <3>4, <3>5 DEF Topics!Next, Topics!Deliver
  <2>5. CASE Arrive \/ LoopExit \/ Influx \/ TakeMessage \/ MessagesLost \/ ReceiverEnd
             \/ Cache \/ Log
    BY <2>5 DEF Arrive, LoopExit, Influx, TakePoint, WritePoint, WriteFails, PointsLost,
                TakeMessage, MessagesLost, ReceiverEnd, Cache, CacheSet, ValuesLost, Log,
                LogPacket, LogEnd, sent, mqtt
  <2> QED BY <2>1, <2>3, <2>4, <2>5 DEF Next, Mqtt
<1> QED BY <1>1, <1>2, InvariantHolds, PTL DEF Spec, MqttDelivers, Topics!Spec
==============================================================================
