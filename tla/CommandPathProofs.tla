-------------------------- MODULE CommandPathProofs --------------------------
(***************************************************************************)
(* Proofs about CommandPath, for every set of inverters, registers, bits   *)
(* and commands, every channel capacity, and every bound.                  *)
(***************************************************************************)
EXTENDS CommandPath, BroadcastProofs, SequenceTheorems

------------------------------------------------------------------------------
(* Types of the operators the actions are built from.                      *)

LEMMA NoCommandType == NoCommand \in Command
  BY CommandAssumption DEF NoCommand, Command, Kinds, Values, Counts

\* Every message names a sequence of inverters and a command.
LEMMA MessageType ==
  ASSUME NEW m \in Messages
  PROVE  m.to \in Seq(Inverters) /\ m.cmd \in Command
<1>1. \A i \in Inverters : <<i>> \in Seq(Inverters)
  OBVIOUS
<1>2. <<>> \in Seq(Inverters) /\ ConfigOrder \in Seq(Inverters)
  BY CommandAssumption
<1> QED BY <1>1, <1>2, CommandAssumption DEF Messages

LEMMA FunctionType ==
  ASSUME NEW kind
  PROVE  Function(kind) \in Functions
  BY DEF Function, Functions

LEMMA PktType ==
  ASSUME NEW f \in Functions, NEW i \in Inverters, NEW r \in Registers,
         NEW v \in Values, NEW c \in Counts, NEW n \in Nat
  PROVE  Pkt(f, i, r, v, c, n) \in Packets
  BY DEF Pkt, Packets

LEMMA CountType ==
  /\ \A c \in Command : Count(c) \in Counts
  /\ 1 \in Counts
  BY DEF Command, Count, Counts

\* A frame says what the packet said; a write of a register, and a read of one, also
\* says which inverter is meant.
LEMMA FramedType ==
  ASSUME NEW p \in Packets, NEW i \in Inverters
  PROVE  /\ Framed(i, p) \in Packets
         /\ Framed(i, p).func = p.func /\ Framed(i, p).reg = p.reg
         /\ Framed(i, p).val = p.val /\ Framed(i, p).id = p.id
         /\ Framed(i, p).count = p.count
         /\ p.func \notin {"ReadParam", "WriteParam"} => Framed(i, p) = p
BY DEF Framed, Packets

\* While process_message is at work there is a current inverter.
LEMMA CurrentType ==
  ASSUME TypeOK, loop \notin {"select", "exited"}
  PROVE  /\ Current \in Inverters /\ todo # <<>> /\ Len(todo) \in Nat \ {0}
         /\ CurrentId \in Nat
  BY DEF TypeOK, Current, CurrentId

\* to_inverter: every sender's receiver keeps its type.
LEMMA BroadcastedMembers ==
  ASSUME NEW M, NEW p \in M, \A i \in Inverters : sendRx[i] \in Receivers(M)
  PROVE  \A i \in Inverters : Broadcasted(p)[i] \in Receivers(M)
  BY PushType DEF Broadcasted

LEMMA BroadcastedType ==
  ASSUME TypeOK, NEW p \in Packets
  PROVE  Broadcasted(p) \in [Inverters -> Receivers(Packets)]
  BY PushType DEF Broadcasted, TypeOK

\* The variables of the handler, after it is done with one inverter.
HandlerTyped ==
  /\ loop \in Phases
  /\ cmd \in Command
  /\ todo \in Seq(Inverters)
  /\ (todo = <<>>) <=> (loop \in {"select", "exited"})
  /\ want \in Values
  /\ cmdRx \in Receivers(Packets)

LEMMA TailType ==
  ASSUME NEW S, NEW s \in Seq(S), s # <<>>
  PROVE  Tail(s) \in Seq(S) /\ (Tail(s) = <<>> <=> Len(s) = 1)
<1>1. Tail(s) \in Seq(S) /\ Len(Tail(s)) = Len(s) - 1 /\ Len(s) \in Nat
  BY HeadTailProperties, LenProperties
<1>2. Tail(s) = <<>> <=> Len(Tail(s)) = 0
  BY <1>1, EmptySeq
<1> QED BY <1>1, <1>2

LEMMA LeaveType ==
  ASSUME TypeOK, loop \notin {"select", "exited"}, Leave
  PROVE  HandlerTyped'
<1>1. todo \in Seq(Inverters) /\ todo # <<>> /\ cmd \in Command
  BY DEF TypeOK
<1>2. Tail(todo) \in Seq(Inverters) /\ (Tail(todo) = <<>> <=> Len(todo) = 1)
  BY <1>1, TailType
<1>3. Subscribed \in Receivers(Packets) /\ NoCommand \in Command /\ {} \in Values
  BY SubscribedType, NoCommandType DEF Values
<1> QED BY <1>1, <1>2, <1>3 DEF Leave, HandlerTyped, Phases

LEMMA SucceedType ==
  ASSUME TypeOK, loop \notin {"select", "exited"}, Succeed
  PROVE  HandlerTyped' /\ outcome' \in Seq(Ended)
<1>1. [cmd |-> cmd, inv |-> Current, result |-> "ok"] \in Ended
  BY CurrentType DEF TypeOK, Ended, Results
<1> QED BY <1>1, LeaveType DEF Succeed, TypeOK

LEMMA FailType ==
  ASSUME TypeOK, loop \notin {"select", "exited"}, Fail
  PROVE  HandlerTyped' /\ outcome' \in Seq(Ended)
<1>1. /\ [cmd |-> cmd, inv |-> Current, result |-> "FAIL"] \in Ended
      /\ [cmd |-> cmd, inv |-> Current, result |-> "unreported"] \in Ended
  BY CurrentType DEF TypeOK, Ended, Results
<1>2. CASE mqttUp
  <2>1. Leave /\ outcome' = Append(outcome, [cmd |-> cmd, inv |-> Current, result |-> "FAIL"])
    BY <1>2, Zenon DEF Fail
  <2>2. HandlerTyped'
    BY <2>1, LeaveType
  <2>3. outcome \in Seq(Ended)
    BY DEF TypeOK
  <2> QED BY <1>1, <2>1, <2>2, <2>3
<1>3. CASE ~mqttUp
  <2>1. Subscribed \in Receivers(Packets) /\ NoCommand \in Command /\ {} \in Values
        /\ <<>> \in Seq(Inverters)
    BY SubscribedType, NoCommandType DEF Values
  <2>2. /\ loop' = "select" /\ cmd' = NoCommand /\ todo' = <<>>
        /\ want' = {} /\ cmdRx' = Subscribed
        /\ outcome' = Append(outcome, [cmd |-> cmd, inv |-> Current, result |-> "unreported"])
    BY <1>3, Zenon DEF Fail
  <2>3. HandlerTyped'
    BY <2>1, <2>2 DEF HandlerTyped, Phases
  <2>4. outcome \in Seq(Ended)
    BY DEF TypeOK
  <2> QED BY <1>1, <2>2, <2>3, <2>4
<1> QED BY <1>2, <1>3

\* The coordinator's task panics.
LEMMA PanicType ==
  ASSUME TypeOK, LoopPanic
  PROVE  HandlerTyped' /\ outcome' \in Seq(Ended)
<1>1. [cmd |-> cmd, inv |-> Current, result |-> "unreported"] \in Ended
  BY CurrentType DEF TypeOK, Ended, Results, LoopPanic
<1>2. Subscribed \in Receivers(Packets) /\ NoCommand \in Command /\ {} \in Values
      /\ <<>> \in Seq(Inverters)
  BY SubscribedType, NoCommandType DEF Values
<1>3. HandlerTyped'
  BY <1>2 DEF LoopPanic, HandlerTyped, Phases
<1>4. outcome \in Seq(Ended)
  BY DEF TypeOK
<1> QED BY <1>1, <1>3, <1>4 DEF LoopPanic

------------------------------------------------------------------------------
(* Type correctness.                                                       *)

LEMMA InitType == Init => TypeOK
<1> SUFFICES ASSUME Init PROVE TypeOK
  OBVIOUS
<1>1. \A M : Subscribed \in Receivers(M)
  BY SubscribedType
<1>2. cmd \in Command
  BY NoCommandType DEF Init
<1>3. /\ todo \in Seq(Inverters) /\ outcome \in Seq(Ended) /\ want \in Values
      /\ wire \in [Inverters -> Seq(Packets)] /\ back \in [Inverters -> Seq(Packets)]
      /\ executed \in [Inverters -> Seq(Packets)]
  BY DEF Init, Values
<1> QED BY <1>1, <1>2, <1>3 DEF Init, TypeOK, Phases

\* The coordinator's steps.
LEMMA LoopStepType == TypeOK /\ LoopStep => TypeOK'
<1> SUFFICES ASSUME TypeOK, LoopStep PROVE TypeOK'
  OBVIOUS
<1> USE DEF handler, devices, bounds
<1>1. CASE LoopMqtt
  <2>1. /\ mqttRx' \in Receivers(Messages) /\ Head(mqttRx.q) \in Messages
    BY <1>1, PoppedType DEF LoopMqtt, TypeOK
  <2>2. Head(mqttRx.q).to \in Seq(Inverters) /\ Head(mqttRx.q).cmd \in Command
    BY <2>1, MessageType
  <2> QED BY <1>1, <2>1, <2>2 DEF LoopMqtt, TypeOK, Phases
<1>2. CASE LoopMqttLagged
  <2>1. mqttRx' \in Receivers(Messages)
    BY <1>2, CaughtUpType DEF LoopMqttLagged, TypeOK
  <2> QED BY <1>2, <2>1 DEF LoopMqttLagged, TypeOK
<1>3. CASE LoopForward
  <2>1. coordRx' \in Receivers(Packets) /\ Head(coordRx.q) \in Packets
    BY <1>3, PoppedType DEF LoopForward, TypeOK
  <2>2. sendRx' \in [Inverters -> Receivers(Packets)]
    BY <1>3, <2>1, BroadcastedType DEF LoopForward
  <2> QED BY <1>3, <2>1, <2>2 DEF LoopForward, TypeOK
<1>4. CASE LoopInverter
  <2>1. loopRx' \in Receivers(Packets)
    BY <1>4, PoppedType DEF LoopInverter, TypeOK
  <2> QED BY <1>4, <2>1 DEF LoopInverter, TypeOK
<1>5. CASE LoopExit
  BY <1>5 DEF LoopExit, TypeOK, Phases
<1>6. CASE BeginUnparsed
  <2>1. HandlerTyped'
    BY <1>6, LeaveType DEF BeginUnparsed
  <2> QED BY <1>6, <2>1 DEF BeginUnparsed, TypeOK, HandlerTyped
<1>7. CASE BeginRejected
  <2>1. HandlerTyped' /\ outcome' \in Seq(Ended)
    BY <1>7, FailType DEF BeginRejected
  <2> QED BY <1>7, <2>1 DEF BeginRejected, TypeOK, HandlerTyped
<1>8. CASE BeginViaCoordinator
  <2>1. Pkt(Function(cmd.kind), Current, cmd.reg, cmd.val, Count(cmd), CurrentId) \in Packets
    BY <1>8, PktType, FunctionType, CountType, CurrentType
       DEF BeginViaCoordinator, TypeOK, Command
  <2>2. coordRx' \in Receivers(Packets)
    BY <1>8, <2>1, PushType DEF BeginViaCoordinator, TypeOK
  <2> QED BY <1>8, <2>2, SubscribedType DEF BeginViaCoordinator, TypeOK, Phases
<1>9. CASE BeginUpdateHold
  <2>1. CASE ToInverterOpen
    <3>1. Pkt("ReadHold", Current, cmd.reg, {}, Count(cmd), CurrentId) \in Packets
      BY <1>9, PktType, CountType, CurrentType
         DEF BeginUpdateHold, TypeOK, Command, Functions, Values
    <3>2. Broadcasted(Pkt("ReadHold", Current, cmd.reg, {}, Count(cmd), CurrentId))
            \in [Inverters -> Receivers(Packets)]
      BY <3>1, BroadcastedType
    <3> QED BY <1>9, <2>1, <3>2, SubscribedType DEF BeginUpdateHold, TypeOK, Phases
  <2>2. CASE ~ToInverterOpen
    <3>1. Fail
      BY <1>9, <2>2, Zenon DEF BeginUpdateHold
    <3>2. HandlerTyped' /\ outcome' \in Seq(Ended)
      BY <1>9, <3>1, FailType DEF BeginUpdateHold
    <3> QED BY <1>9, <2>2, <3>2 DEF BeginUpdateHold, TypeOK, HandlerTyped
  <2> QED BY <2>1, <2>2
<1>10. CASE SkipPacket
  <2>1. cmdRx' \in Receivers(Packets)
    BY <1>10, PoppedType DEF SkipPacket, TypeOK
  <2> QED BY <1>10, <2>1 DEF SkipPacket, TypeOK
<1>11. CASE ReplyToRead
  <2>1. CASE ToInverterOpen
    <3>1. cmdRx' \in Receivers(Packets) /\ Head(cmdRx.q) \in Packets
      BY <1>11, <2>1, PoppedType DEF ReplyToRead, TypeOK
    <3>2. Updated(Head(cmdRx.q).val) \in Values
      BY <3>1 DEF Updated, TypeOK, Command, Packets, Values
    <3>3. Pkt("WriteSingle", Current, cmd.reg, Updated(Head(cmdRx.q).val), 1, CurrentId)
            \in Packets
      BY <1>11, <3>2, PktType, CountType, CurrentType
         DEF ReplyToRead, TypeOK, Command, Functions
    <3>4. sendRx' \in [Inverters -> Receivers(Packets)]
      BY <1>11, <2>1, <3>3, BroadcastedType DEF ReplyToRead
    <3> QED BY <1>11, <2>1, <3>1, <3>2, <3>4 DEF ReplyToRead, TypeOK, Phases
  <2>2. CASE ~ToInverterOpen
    <3>1. Fail
      BY <1>11, <2>2, Zenon DEF ReplyToRead
    <3>2. HandlerTyped' /\ outcome' \in Seq(Ended)
      BY <1>11, <3>1, FailType DEF ReplyToRead
    <3> QED BY <1>11, <2>2, <3>2 DEF ReplyToRead, TypeOK, HandlerTyped
  <2> QED BY <2>1, <2>2
<1>12. CASE ReplyToCommand
  <2>1. HandlerTyped' /\ outcome' \in Seq(Ended)
    BY <1>12, FailType, SucceedType, Zenon DEF ReplyToCommand
  <2> QED BY <1>12, <2>1 DEF ReplyToCommand, TypeOK, HandlerTyped
<1>14. CASE LoopPanic
  <2>1. HandlerTyped' /\ outcome' \in Seq(Ended)
    BY <1>14, PanicType
  <2> QED BY <1>14, <2>1 DEF LoopPanic, TypeOK, HandlerTyped
<1>13. CASE GiveUp
  <2>1. HandlerTyped' /\ outcome' \in Seq(Ended)
    BY <1>13, FailType DEF GiveUp, Waiting
  <2> QED BY <1>13, <2>1 DEF GiveUp, TypeOK, HandlerTyped
<1> QED BY <1>1, <1>2, <1>3, <1>4, <1>5, <1>6, <1>7, <1>8, <1>9, <1>10, <1>11, <1>12,
           <1>13, <1>14 DEF LoopStep

\* The steps of a connection's tasks.
LEMMA ConnectionType ==
  ASSUME TypeOK, NEW i \in Inverters, Connection(i)
  PROVE  TypeOK'
<1> USE DEF handler, devices, bounds
<1>1. CASE SenderWrite(i)
  <2>1. Popped(sendRx[i]) \in Receivers(Packets) /\ Head(sendRx[i].q) \in Packets
    BY <1>1, PoppedType DEF SenderWrite, TypeOK
  <2>2. Append(wire[i], Framed(i, Head(sendRx[i].q))) \in Seq(Packets)
    BY <2>1, FramedType DEF TypeOK
  <2> QED BY <1>1, <2>1, <2>2 DEF SenderWrite, TypeOK
<1>2. CASE SenderEnd(i)
  <2>1. Subscribed \in Receivers(Packets)
    BY SubscribedType
  <2>2. failures' \in Nat
    BY <1>2 DEF SenderEnd, TypeOK
  <2> QED BY <1>2, <2>1, <2>2 DEF SenderEnd, TypeOK
<1>3. CASE ReaderDeliver(i)
  <2>1. Head(back[i]) \in Packets /\ Tail(back[i]) \in Seq(Packets)
    BY <1>3, HeadTailProperties DEF ReaderDeliver, TypeOK
  <2>2. loopRx' \in Receivers(Packets) /\ cmdRx' \in Receivers(Packets)
    BY <1>3, <2>1, PushType DEF ReaderDeliver, TypeOK
  <2> QED BY <1>3, <2>1, <2>2 DEF ReaderDeliver, TypeOK
<1>4. CASE ReaderEnd(i)
  <2>1. <<>> \in Seq(Packets)
    OBVIOUS
  <2> QED BY <1>4, <2>1 DEF ReaderEnd, TypeOK
<1> QED BY <1>1, <1>2, <1>3, <1>4 DEF Connection

\* The steps of MQTT, the devices and whoever else writes them.
LEMMA EnvironmentType == TypeOK /\ Environment => TypeOK'
<1> SUFFICES ASSUME TypeOK, Environment PROVE TypeOK'
  OBVIOUS
<1> USE DEF handler, devices, bounds
<1>1. ASSUME NEW m \in Messages, MqttMessage(m) PROVE TypeOK'
  <2>1. mqttRx' \in Receivers(Messages)
    BY <1>1, PushType DEF MqttMessage, TypeOK
  <2> QED BY <1>1, <2>1 DEF MqttMessage, TypeOK
<1>2. CASE MqttEnd
  <2>1. failures' \in Nat
    BY <1>2 DEF MqttEnd, TypeOK
  <2>2. mqttUp' \in BOOLEAN
    BY <1>2, Zenon DEF MqttEnd
  <2> QED BY <1>2, <2>1, <2>2 DEF MqttEnd, TypeOK
<1>3. ASSUME NEW i \in Inverters, DeviceExecute(i) PROVE TypeOK'
  <2> DEFINE p == Head(wire[i])
             now == IF p.func = "WriteSingle" THEN p.val
                    ELSE IF p.func = "WriteParam" THEN {} ELSE regs[i][p.reg]
  <2>0. wire[i] \in Seq(Packets) /\ wire[i] # <<>>
    BY <1>3 DEF DeviceExecute, TypeOK
  <2>1. /\ p \in Packets /\ Tail(wire[i]) \in Seq(Packets)
        /\ p.func \in Functions /\ p.reg \in Registers /\ p.id \in Nat /\ p.val \in Values
        /\ p.count \in Counts
    <3>1. p \in Packets /\ Tail(wire[i]) \in Seq(Packets)
      BY <2>0, HeadTailProperties
    <3> QED BY <3>1 DEF Packets
  <2>2. now \in Values
    BY <2>1 DEF TypeOK, Values
  <2>3. Pkt(p.func, i, p.reg, now, p.count, p.id) \in Packets
    BY <2>1, <2>2, PktType
  <2>4. back' \in [Inverters -> Seq(Packets)]
    BY <1>3, <2>3 DEF DeviceExecute, TypeOK
  <2>5. executed' \in [Inverters -> Seq(Packets)]
    BY <1>3, <2>1 DEF DeviceExecute, TypeOK
  <2>6. regs' \in [Inverters -> [Registers -> Values]]
    BY <1>3, <2>1 DEF DeviceExecute, TypeOK
  <2>7. wire' \in [Inverters -> Seq(Packets)]
    BY <1>3, <2>1 DEF DeviceExecute, TypeOK
  <2> QED BY <1>3, <2>4, <2>5, <2>6, <2>7 DEF DeviceExecute, TypeOK
<1>4. ASSUME NEW i \in Inverters, DeviceRefuse(i) PROVE TypeOK'
  <2>1. Head(wire[i]) \in Packets /\ Tail(wire[i]) \in Seq(Packets)
    BY <1>4, HeadTailProperties DEF DeviceRefuse, TypeOK
  <2>2. Pkt("Error", i, Head(wire[i]).reg, {}, Head(wire[i]).count, Head(wire[i]).id) \in Packets
    BY <2>1, PktType DEF Packets, Functions, Values
  <2>3. back' \in [Inverters -> Seq(Packets)]
    <3>1. back' = back \/ back' = [back EXCEPT ![i] =
                  Append(@, Pkt("Error", i, Head(wire[i]).reg, {}, Head(wire[i]).count,
                                Head(wire[i]).id))]
      BY <1>4 DEF DeviceRefuse
    <3>2. back[i] \in Seq(Packets)
      BY DEF TypeOK
    <3>3. Append(back[i], Pkt("Error", i, Head(wire[i]).reg, {}, Head(wire[i]).count,
                              Head(wire[i]).id))
            \in Seq(Packets)
      BY <2>2, <3>2
    <3> QED BY <3>1, <3>3 DEF TypeOK
  <2> QED BY <1>4, <2>1, <2>3 DEF DeviceRefuse, TypeOK
<1>5. ASSUME NEW i \in Inverters, NEW r \in Registers,
             NEW f \in {"ReadHold", "ReadInput", "ReadParam"}, DevicePush(i, f, r)
      PROVE  TypeOK'
  <2>1. regs[i][r] \in Values
    BY DEF TypeOK
  <2>2. PICK c \in Counts : back' = [back EXCEPT ![i] = Append(@, Pkt(f, i, r, regs[i][r], c, 0))]
    BY <1>5, CountType DEF DevicePush
  <2>3. Pkt(f, i, r, regs[i][r], c, 0) \in Packets
    BY <2>1, PktType DEF Functions
  <2>4. back' \in [Inverters -> Seq(Packets)]
    BY <2>2, <2>3 DEF TypeOK
  <2>5. events' \in Nat
    BY <1>5 DEF DevicePush, TypeOK
  <2> QED BY <1>5, <2>4, <2>5 DEF DevicePush, TypeOK
<1>6. ASSUME NEW i \in Inverters, NEW r \in Registers, NEW v \in Values,
             PanelChange(i, r, v)
      PROVE  TypeOK'
  <2>1. regs' \in [Inverters -> [Registers -> Values]]
    <3>1. [regs[i] EXCEPT ![r] = v] \in [Registers -> Values]
      BY DEF TypeOK
    <3> QED BY <1>6, <3>1 DEF PanelChange, TypeOK
  <2>2. changes' \in Nat
    BY <1>6 DEF PanelChange, TypeOK
  <2> QED BY <1>6, <2>1, <2>2 DEF PanelChange, TypeOK
<1>7. ASSUME NEW i \in Inverters, NEW r \in Registers, NEW v \in Values,
             ClientWrite(i, r, v)
      PROVE  TypeOK'
  <2>1. regs' \in [Inverters -> [Registers -> Values]]
    <3>1. [regs[i] EXCEPT ![r] = v] \in [Registers -> Values]
      BY DEF TypeOK
    <3> QED BY <1>7, <3>1 DEF ClientWrite, TypeOK
  <2>2. PICK p \in Packets : p = Pkt("WriteSingle", i, r, v, 1, 0)
    BY PktType, CountType DEF Functions
  <2>3. executed' \in [Inverters -> Seq(Packets)] /\ back' \in [Inverters -> Seq(Packets)]
    BY <1>7, <2>2 DEF ClientWrite, TypeOK
  <2>4. changes' \in Nat
    BY <1>7 DEF ClientWrite, TypeOK
  <2> QED BY <1>7, <2>1, <2>3, <2>4 DEF ClientWrite, TypeOK
<1> QED BY <1>1, <1>2, <1>3, <1>4, <1>5, <1>6, <1>7 DEF Environment

LEMMA NextType == TypeOK /\ [Next]_vars => TypeOK'
<1> SUFFICES ASSUME TypeOK, [Next]_vars PROVE TypeOK'
  OBVIOUS
<1>1. CASE UNCHANGED vars
  BY <1>1 DEF vars, handler, devices, bounds, TypeOK
<1> QED BY <1>1, LoopStepType, ConnectionType, EnvironmentType DEF Next

\* Every variable keeps its type, and process_message runs exactly while some
\* inverter is still to be done, whatever the instance.
THEOREM TypeCorrect == Spec => []TypeOK
BY InitType, NextType, PTL DEF Spec

------------------------------------------------------------------------------
(* Where the packets may be.  Until the command of a request has ended,    *)
(* the request stays in to_coordinator; every answer is to a request that  *)
(* had been forwarded, or to another client; and a request is for what its *)
(* command asks, which was not refused for the inverter it names.          *)

RequestedUpTo == IF Waiting THEN CurrentId ELSE Len(outcome)
ForwardedUpTo == IF loop \in {"read", "write"} THEN CurrentId ELSE Len(outcome)

Reads(c, k) == Function(c.kind) = "ReadHold" /\ k = Count(c)

\* A frame of one of these functions may come to an inverter its command is not at: a
\* parameter request, whose frame names nobody else, and the refusal of one.
Stray(p) == p.func \in {"ReadParam", "WriteParam", "Error"}

\* A packet of the register, the number of registers and, unless it has strayed, the
\* inverter of its command.
Asked(p) ==
  /\ p.reg = CommandOf(p.id).reg
  /\ Stray(p) \/ p.inv = InverterOf(p.id)
  /\ p.func = "WriteParam" => CommandOf(p.id).kind = "WriteParam"
  /\ p.func = "ReadHold" => Reads(CommandOf(p.id), p.count)

Answers(n)  == {p \in Packets :
                  /\ p.id <= n
                  /\ IF p.id = 0 THEN p.func = "WriteSingle" \/ events > 0 ELSE Asked(p)}
Requests(n) == {p \in Packets :
                  /\ p.id \in 1..n /\ Asked(p)
                  /\ InverterOf(p.id) \in ReadOnly => ~Guarded(CommandOf(p.id).kind)}

\* What device i executes: the writes among the requests, and those of other clients.
Writes(p)     == p.func \in {"WriteSingle", "WriteParam"}
OthersWrites  == {p \in Packets : p.id = 0 /\ p.func = "WriteSingle"}
Executions(i) == {p \in Requests(ForwardedUpTo) \cup OthersWrites : p.inv = i /\ Writes(p)}

PacketsInPlace ==
  /\ loop \in {"read", "write"} => cmd.kind = "UpdateHold"
  /\ coordRx \in Receivers(Requests(RequestedUpTo))
  /\ \A i \in Inverters :
       /\ sendRx[i] \in Receivers(Requests(ForwardedUpTo))
       /\ wire[i] \in Seq(Requests(ForwardedUpTo))
       /\ executed[i] \in Seq(Executions(i))
       /\ back[i] \in Seq(Answers(ForwardedUpTo))
  /\ cmdRx \in Receivers(Answers(ForwardedUpTo))

\* A request is in its place whatever connection it is written on.
LEMMA FramedRequest ==
  ASSUME NEW n, NEW p \in Requests(n), NEW i \in Inverters
  PROVE  Framed(i, p) \in Requests(n)
<1>1. PICK f : f = Framed(i, p)
  OBVIOUS
<1>2. /\ p \in Packets /\ p.id \in 1..n /\ Asked(p)
      /\ InverterOf(p.id) \in ReadOnly => ~Guarded(CommandOf(p.id).kind)
  BY DEF Requests
<1>3. /\ f \in Packets /\ f.func = p.func /\ f.reg = p.reg /\ f.id = p.id /\ f.count = p.count
      /\ p.func \notin {"ReadParam", "WriteParam"} => f = p
  BY <1>1, <1>2, FramedType
<1>4. Asked(f)
  BY <1>2, <1>3 DEF Asked, Stray
<1> QED BY <1>1, <1>2, <1>3, <1>4 DEF Requests

LEMMA Wider ==
  ASSUME NEW A, NEW B, A \subseteq B
  PROVE  Seq(A) \subseteq Seq(B) /\ Receivers(A) \subseteq Receivers(B)
<1>1. Seq(A) \subseteq Seq(B)
  OBVIOUS
<1> QED BY <1>1 DEF Receivers

\* A step never takes an outcome back, nor changes the command behind a number that
\* has been given; and it forwards only what was asked for.
LEMMA LeaveLimits ==
  ASSUME TypeOK, loop \notin {"select", "exited"}, Succeed \/ Fail \/ LoopPanic
  PROVE  /\ Len(outcome') = Len(outcome) + 1
         /\ loop' \in {"select", "begin", "exited"}
         /\ loop' = "exited" => LoopPanic
         /\ outcome'[Len(outcome) + 1].cmd = cmd /\ outcome'[Len(outcome) + 1].inv = Current
         /\ \A n \in 1..Len(outcome) : outcome'[n] = outcome[n]
         /\ DOMAIN outcome' = 1..(Len(outcome) + 1)
         /\ cmdRx' = Subscribed
<1> DEFINE e(r) == [cmd |-> cmd, inv |-> Current, result |-> r]
<1>1. \A r \in Results : e(r) \in Ended
  BY CurrentType DEF TypeOK, Ended
<1>2. \E r \in Results : outcome' = Append(outcome, e(r))
  BY Zenon DEF Succeed, Fail, LoopPanic, Results
<1>3. /\ loop' \in {"select", "begin", "exited"} /\ cmdRx' = Subscribed
      /\ loop' = "exited" => LoopPanic
  <2>1. CASE LoopPanic
    BY <2>1 DEF LoopPanic
  <2>2. CASE Succeed \/ Fail
    BY <2>2, Zenon DEF Succeed, Fail, Leave
  <2> QED BY <2>1, <2>2
<1>4. PICK r \in Results : outcome' = Append(outcome, e(r))
  BY <1>2
<1>5. e(r) \in Ended /\ outcome \in Seq(Ended) /\ e(r).cmd = cmd
  BY <1>1 DEF TypeOK
<1>6. e(r).inv = Current
  OBVIOUS
<1> HIDE DEF e
<1> QED BY <1>3, <1>4, <1>5, <1>6

\* What happens outside the bridge changes nothing of the loop and its receivers, and
\* at most one of the counters of what others do.
LEMMA EnvironmentStep ==
  ASSUME Environment
  PROVE  /\ handler' = handler /\ coordRx' = coordRx /\ loopRx' = loopRx
         /\ \/ events' = events /\ changes' = changes
            \/ events' = events + 1 /\ changes' = changes
            \/ events' = events /\ changes' = changes + 1
<1> DEFINE P == /\ handler' = handler /\ coordRx' = coordRx /\ loopRx' = loopRx
                /\ \/ events' = events /\ changes' = changes
                   \/ events' = events + 1 /\ changes' = changes
                   \/ events' = events /\ changes' = changes + 1
<1>1. ASSUME NEW m \in Messages, MqttMessage(m) PROVE P
  BY <1>1, Zenon DEF MqttMessage
<1>2. CASE MqttEnd
  BY <1>2, Zenon DEF MqttEnd
<1>3. ASSUME NEW i \in Inverters, DeviceExecute(i) PROVE P
  BY <1>3, Zenon DEF DeviceExecute, bounds
<1>4. ASSUME NEW i \in Inverters, DeviceRefuse(i) PROVE P
  BY <1>4, Zenon DEF DeviceRefuse, bounds
<1>5. ASSUME NEW i \in Inverters, NEW f, NEW r \in Registers, DevicePush(i, f, r) PROVE P
  BY <1>5, Zenon DEF DevicePush
<1>6. ASSUME NEW i \in Inverters, NEW r \in Registers, NEW v \in Values,
             PanelChange(i, r, v) \/ ClientWrite(i, r, v)
      PROVE  P
  BY <1>6, Zenon DEF PanelChange, ClientWrite
<1> QED BY <1>1, <1>2, <1>3, <1>4, <1>5, <1>6, Zenon DEF Environment

\* What a step does to the command at work: nothing (UpdateHold may go on to its
\* write); or it ends on an inverter; or no command is waiting.
LEMMA StepShape ==
  ASSUME TypeOK, [Next]_vars
  PROVE  \/ /\ UNCHANGED <<cmd, todo, outcome>>
            /\ loop' = loop \/ (loop = "read" /\ loop' = "write")
         \/ outcome' = outcome /\ ~Waiting
         \/ loop \notin {"select", "exited"} /\ (Succeed \/ Fail \/ LoopPanic)
<1> USE DEF handler, devices, bounds
<1>1. CASE LoopStep
  <2>1. CASE LoopMqtt \/ LoopMqttLagged \/ LoopForward \/ LoopInverter \/ LoopExit
    BY <2>1 DEF LoopMqtt, LoopMqttLagged, LoopForward, LoopInverter, LoopExit, Waiting
  <2>2. CASE BeginUnparsed \/ BeginViaCoordinator \/ SkipPacket
    BY <2>2 DEF BeginUnparsed, BeginViaCoordinator, SkipPacket, Waiting
  <2>3. CASE BeginRejected \/ ReplyToCommand \/ GiveUp
    BY <2>3, Zenon DEF BeginRejected, ReplyToCommand, GiveUp, Waiting
  <2>6. CASE LoopPanic
    BY <2>6 DEF LoopPanic
  <2>4. CASE BeginUpdateHold
    BY <2>4, Zenon DEF BeginUpdateHold, Waiting
  <2>5. CASE ReplyToRead
    BY <2>5, Zenon DEF ReplyToRead
  <2> QED BY <1>1, <2>1, <2>2, <2>3, <2>4, <2>5, <2>6 DEF LoopStep
<1>2. ASSUME NEW i \in Inverters, Connection(i)
      PROVE  UNCHANGED <<cmd, todo, outcome, loop>>
  BY <1>2 DEF Connection, SenderWrite, SenderEnd, ReaderDeliver, ReaderEnd
<1>3. CASE Environment
  <2>1. UNCHANGED <<cmd, todo, outcome, loop>>
    BY <1>3, EnvironmentStep DEF handler
  <2> QED BY <2>1
<1>4. CASE UNCHANGED vars
  BY <1>4 DEF vars
<1> QED BY <1>1, <1>2, <1>3, <1>4 DEF Next

\* The counters of what others do never go back.
LEMMA EventsKept ==
  ASSUME TypeOK, [Next]_vars
  PROVE  /\ events \in Nat /\ events' \in Nat /\ events <= events'
         /\ changes \in Nat /\ changes' \in Nat /\ changes <= changes'
<1>1. events \in Nat /\ changes \in Nat
  BY DEF TypeOK
<1>2. CASE UNCHANGED <<events, changes>>
  BY <1>1, <1>2
<1>3. CASE UNCHANGED changes /\ events' = events + 1
  BY <1>1, <1>3
<1>4. CASE UNCHANGED events /\ changes' = changes + 1
  BY <1>1, <1>4
<1>5. CASE LoopStep
  BY <1>2, <1>5, Zenon DEF LoopStep, LoopMqtt, LoopMqttLagged, LoopForward, LoopInverter,
     LoopExit, BeginUnparsed, BeginRejected, BeginViaCoordinator, BeginUpdateHold, SkipPacket,
     ReplyToRead, ReplyToCommand, LoopPanic, GiveUp, bounds
<1>6. ASSUME NEW i \in Inverters, Connection(i)
      PROVE  UNCHANGED <<events, changes>>
  BY <1>6 DEF Connection, SenderWrite, SenderEnd, ReaderDeliver, ReaderEnd, bounds
<1>7. CASE Environment
  <2>1. \/ UNCHANGED <<events, changes>>
        \/ UNCHANGED changes /\ events' = events + 1
        \/ UNCHANGED events /\ changes' = changes + 1
    BY <1>7, EnvironmentStep DEF handler
  <2> QED BY <1>2, <1>3, <1>4, <2>1
<1>8. CASE UNCHANGED vars
  BY <1>2, <1>8 DEF vars, bounds
<1> QED BY <1>2, <1>5, <1>6, <1>7, <1>8 DEF Next

\* Numbers once reached stay reached, and the command behind each is the same.
LEMMA NumbersKept ==
  ASSUME TypeOK, [Next]_vars
  PROVE  /\ RequestedUpTo \in Nat /\ RequestedUpTo' \in Nat
         /\ ForwardedUpTo \in Nat /\ ForwardedUpTo' \in Nat
         /\ RequestedUpTo <= RequestedUpTo' /\ ForwardedUpTo <= ForwardedUpTo'
         /\ ForwardedUpTo <= RequestedUpTo
         /\ \A n \in 1..RequestedUpTo :
              CommandOf(n)' = CommandOf(n) /\ InverterOf(n)' = InverterOf(n)
<1> USE DEF RequestedUpTo, ForwardedUpTo, CurrentId, Waiting, CommandOf, InverterOf, Current
<1>1. Len(outcome) \in Nat /\ DOMAIN outcome = 1..Len(outcome)
  BY DEF TypeOK
<1>2. Len(outcome') \in Nat /\ DOMAIN outcome' = 1..Len(outcome')
  BY NextType DEF TypeOK
<1>3. CASE /\ UNCHANGED <<cmd, todo, outcome>>
           /\ loop' = loop \/ (loop = "read" /\ loop' = "write")
  BY <1>1, <1>3
<1>4. CASE outcome' = outcome /\ ~Waiting
  BY <1>1, <1>4
<1>5. CASE loop \notin {"select", "exited"} /\ (Succeed \/ Fail \/ LoopPanic)
  BY <1>1, <1>5, LeaveLimits
<1> QED BY <1>3, <1>4, <1>5, StepShape

\* So whatever was in its place still is.
LEMMA PlacesKept ==
  ASSUME TypeOK, [Next]_vars
  PROVE  /\ Requests(RequestedUpTo) \subseteq Requests(RequestedUpTo)'
         /\ Requests(ForwardedUpTo) \subseteq Requests(ForwardedUpTo)'
         /\ Answers(ForwardedUpTo) \subseteq Answers(ForwardedUpTo)'
         /\ Requests(ForwardedUpTo) \subseteq Requests(RequestedUpTo)
         /\ Requests(ForwardedUpTo) \subseteq Answers(ForwardedUpTo)
         /\ \A i \in Inverters : Executions(i) \subseteq Executions(i)'
<1>1. \A p \in Packets : p.id \in Nat
  BY DEF Packets
<1>2. ASSUME NEW p \in Packets, p.id \in 1..RequestedUpTo, Asked(p)
      PROVE  /\ Asked(p)' /\ CommandOf(p.id)' = CommandOf(p.id)
             /\ InverterOf(p.id)' = InverterOf(p.id)
  BY <1>2, NumbersKept DEF Asked, Stray
<1>3. Requests(RequestedUpTo) \subseteq Requests(RequestedUpTo)'
  BY <1>1, <1>2, NumbersKept DEF Requests
<1>4. Requests(ForwardedUpTo) \subseteq Requests(ForwardedUpTo)'
  BY <1>1, <1>2, NumbersKept DEF Requests
<1>5. Answers(ForwardedUpTo) \subseteq Answers(ForwardedUpTo)'
  BY <1>1, <1>2, NumbersKept, EventsKept DEF Answers
<1>6. /\ Requests(ForwardedUpTo) \subseteq Requests(RequestedUpTo)
      /\ Requests(ForwardedUpTo) \subseteq Answers(ForwardedUpTo)
  BY <1>1, NumbersKept DEF Requests, Answers
<1>7. \A i \in Inverters : Executions(i) \subseteq Executions(i)'
  BY <1>4 DEF Executions, OthersWrites, Writes
<1> QED BY <1>3, <1>4, <1>5, <1>6, <1>7

\* Only UpdateHold waits for its own read and write.
LEMMA PhaseKept ==
  ASSUME TypeOK, loop \in {"read", "write"} => cmd.kind = "UpdateHold", [Next]_vars
  PROVE  (loop \in {"read", "write"} => cmd.kind = "UpdateHold")'
<1> USE DEF handler, devices, bounds
<1>1. CASE LoopStep
  <2>1. CASE LoopMqtt \/ LoopMqttLagged \/ LoopForward \/ LoopInverter \/ LoopExit
    BY <2>1 DEF LoopMqtt, LoopMqttLagged, LoopForward, LoopInverter, LoopExit
  <2>2. CASE BeginUnparsed \/ BeginViaCoordinator \/ SkipPacket
    BY <2>2 DEF BeginUnparsed, BeginViaCoordinator, SkipPacket, Leave
  <2>3. ASSUME loop \notin {"select", "exited"}, Succeed \/ Fail \/ LoopPanic
        PROVE  loop' \notin {"read", "write"}
    BY <2>3, LeaveLimits
  <2>4. CASE BeginRejected \/ ReplyToCommand \/ LoopPanic \/ GiveUp
    <3>1. loop \notin {"select", "exited"} /\ (Succeed \/ Fail \/ LoopPanic)
      BY <2>4, Zenon DEF BeginRejected, ReplyToCommand, LoopPanic, GiveUp, Waiting
    <3> QED BY <2>3, <3>1
  <2>5. CASE BeginUpdateHold
    <3>1. loop = "begin" /\ (Fail \/ UNCHANGED cmd) /\ cmd.kind = "UpdateHold"
      BY <2>5, Zenon DEF BeginUpdateHold
    <3> QED BY <2>3, <3>1
  <2>6. CASE ReplyToRead
    <3>1. loop = "read" /\ (Fail \/ UNCHANGED cmd)
      BY <2>6, Zenon DEF ReplyToRead
    <3> QED BY <2>3, <3>1
  <2> QED BY <1>1, <2>1, <2>2, <2>4, <2>5, <2>6 DEF LoopStep
<1>2. ASSUME NEW i \in Inverters, Connection(i)
      PROVE  UNCHANGED <<cmd, loop>>
  BY <1>2 DEF Connection, SenderWrite, SenderEnd, ReaderDeliver, ReaderEnd
<1>3. CASE Environment
  BY <1>3, EnvironmentStep DEF handler
<1>4. CASE UNCHANGED vars
  BY <1>4 DEF vars
<1> QED BY <1>1, <1>2, <1>3, <1>4 DEF Next

LEMMA InitPlaces == Init => PacketsInPlace
<1> SUFFICES ASSUME Init PROVE PacketsInPlace
  OBVIOUS
<1>1. \A M : Subscribed \in Receivers(M) /\ <<>> \in Seq(M)
  BY SubscribedType
<1> QED BY <1>1 DEF Init, PacketsInPlace

\* Each step leaves every packet in its place, when the places are those of the
\* state before the step or of the state after it.
LEMMA NextPlaces ==
  ASSUME TypeOK, PacketsInPlace, [Next]_vars
  PROVE  PacketsInPlace'
<1> DEFINE R  == Requests(RequestedUpTo)   R1 == R'
           F  == Requests(ForwardedUpTo)   F1 == F'
           A  == Answers(ForwardedUpTo)    A1 == A'
           Own(i)  == Executions(i)
           Own1(i) == Executions(i)'
<1>1. R \subseteq R1 /\ F \subseteq F1 /\ A \subseteq A1 /\ F \subseteq R /\ F \subseteq A
  BY PlacesKept
<1>2. /\ coordRx \in Receivers(R) /\ cmdRx \in Receivers(A)
      /\ \A i \in Inverters :
           /\ sendRx[i] \in Receivers(F) /\ wire[i] \in Seq(F)
           /\ executed[i] \in Seq(Own(i)) /\ back[i] \in Seq(A)
  BY DEF PacketsInPlace
<1> DEFINE Placed ==
      /\ coordRx' \in Receivers(R1) /\ cmdRx' \in Receivers(A1)
      /\ \A i \in Inverters :
           /\ sendRx'[i] \in Receivers(F1) /\ wire'[i] \in Seq(F1)
           /\ executed'[i] \in Seq(Own1(i)) /\ back'[i] \in Seq(A1)
<1> SUFFICES Placed
  <2>1. (loop \in {"read", "write"} => cmd.kind = "UpdateHold")'
    BY PhaseKept DEF PacketsInPlace
  <2> QED BY <2>1 DEF PacketsInPlace
<1>3. \A i \in Inverters : Own(i) \subseteq Own1(i)
  BY PlacesKept
<1> HIDE DEF R, R1, F, F1, A, A1, Own, Own1
<1>4. /\ coordRx \in Receivers(R1) /\ cmdRx \in Receivers(A1)
      /\ \A i \in Inverters :
           /\ sendRx[i] \in Receivers(F1) /\ wire[i] \in Seq(F1)
           /\ executed[i] \in Seq(Own1(i)) /\ back[i] \in Seq(A1)
  BY <1>1, <1>2, <1>3, Wider
<1>5. \A M : Subscribed \in Receivers(M) /\ <<>> \in Seq(M)
  BY SubscribedType
<1>6. CASE /\ UNCHANGED <<coordRx, sendRx, wire, executed, back>>
           /\ cmdRx' = cmdRx \/ cmdRx' = Subscribed
  BY <1>4, <1>5, <1>6
<1>0. /\ CurrentId \in Nat \ {0}
      /\ UNCHANGED <<cmd, todo, outcome>> =>
           \A n : n = CurrentId =>
             n \in 1..CurrentId /\ CommandOf(n)' = cmd /\ InverterOf(n)' = Current
  <2>1. Len(outcome) \in Nat /\ DOMAIN outcome = 1..Len(outcome)
    BY DEF TypeOK
  <2> QED BY <2>1 DEF CurrentId, CommandOf, InverterOf, Current
<1>7. ASSUME LoopForward PROVE Placed
  <2>1. coordRx' \in Receivers(R) /\ Head(coordRx.q) \in R
    BY <1>2, <1>7, PoppedType DEF LoopForward
  <2>2. R = F
    BY <1>7 DEF R, F, LoopForward, RequestedUpTo, ForwardedUpTo, Waiting
  <2>3. \A i \in Inverters : sendRx'[i] \in Receivers(F)
    BY <1>2, <1>7, <2>1, <2>2, BroadcastedMembers DEF LoopForward
  <2> QED BY <1>1, <1>4, <1>7, <2>1, <2>3, Wider DEF LoopForward, handler, devices
<1>7a. ASSUME NEW p \in Packets, p.id = CurrentId, p.inv = Current, p.reg = cmd.reg,
              p.func = Function(cmd.kind), p.count = Count(cmd),
              Current \in ReadOnly => ~Guarded(cmd.kind),
              UNCHANGED <<cmd, todo, outcome>>, loop' = "reply"
       PROVE  p \in R1
  <2>1. RequestedUpTo' = CurrentId
    BY <1>7a DEF RequestedUpTo, Waiting, CurrentId
  <2>2. p.id \in 1..CurrentId /\ CommandOf(p.id)' = cmd /\ InverterOf(p.id)' = Current
    BY <1>0, <1>7a
  <2>3. Asked(p)'
    <3>1. p.func = "WriteParam" => cmd.kind = "WriteParam"
      BY <1>7a DEF Function
    <3> QED BY <1>7a, <2>2, <3>1 DEF Asked, Reads
  <2> QED BY <1>7a, <2>1, <2>2, <2>3 DEF R1, R, Requests
<1>8. ASSUME BeginViaCoordinator PROVE Placed
  <2> DEFINE p == Pkt(Function(cmd.kind), Current, cmd.reg, cmd.val, Count(cmd), CurrentId)
  <2>1. p \in Packets
    BY <1>8, PktType, FunctionType, CountType, CurrentType
       DEF BeginViaCoordinator, TypeOK, Command
  <2>2. /\ p.id = CurrentId /\ p.inv = Current /\ p.reg = cmd.reg
        /\ p.func = Function(cmd.kind) /\ p.count = Count(cmd)
    BY DEF Pkt
  <2>3. Current \in ReadOnly => ~Guarded(cmd.kind)
    BY <1>8 DEF BeginViaCoordinator, Rejected
  <2>4. UNCHANGED <<cmd, todo, outcome>> /\ loop' = "reply"
    BY <1>8 DEF BeginViaCoordinator
  <2>5. p \in R1
    <3> HIDE DEF p
    <3> QED BY <1>7a, <2>1, <2>2, <2>3, <2>4
  <2>6. coordRx' \in Receivers(R1)
    BY <1>4, <1>8, <2>5, PushType DEF BeginViaCoordinator
  <2> QED BY <1>4, <1>5, <1>8, <2>6 DEF BeginViaCoordinator, devices
<1>9. ASSUME NEW p \in Packets, p.id = CurrentId, p.inv = Current, p.reg = cmd.reg,
             p.func # "WriteParam", cmd.kind = "UpdateHold",
             p.func = "ReadHold" => p.count = Count(cmd),
             UNCHANGED <<cmd, todo, outcome>>, loop' \in {"read", "write"}
      PROVE  p \in F1
  <2>1. ForwardedUpTo' = CurrentId
    BY <1>9 DEF ForwardedUpTo, CurrentId
  <2>2. p.id \in 1..CurrentId /\ CommandOf(p.id)' = cmd /\ InverterOf(p.id)' = Current
    BY <1>0, <1>9
  <2>3. ~Guarded(cmd.kind)
    BY <1>9 DEF Guarded
  <2>4. Asked(p)'
    BY <1>9, <2>2 DEF Asked, Reads, Function
  <2> QED BY <1>9, <2>1, <2>2, <2>3, <2>4 DEF F1, F, Requests
<1>10. ASSUME BeginUpdateHold PROVE Placed
  <2>1. CASE ToInverterOpen
    <3> DEFINE p == Pkt("ReadHold", Current, cmd.reg, {}, Count(cmd), CurrentId)
    <3>1. p \in Packets
      BY <1>10, PktType, CountType, CurrentType
         DEF BeginUpdateHold, TypeOK, Command, Functions, Values
    <3>4. /\ p.id = CurrentId /\ p.inv = Current /\ p.reg = cmd.reg /\ p.count = Count(cmd)
          /\ p.func = "ReadHold"
      BY DEF Pkt
    <3>2. p \in F1
      <4> HIDE DEF p
      <4> QED BY <1>9, <1>10, <2>1, <3>1, <3>4 DEF BeginUpdateHold
    <3>3. \A i \in Inverters : sendRx'[i] \in Receivers(F1)
      BY <1>4, <1>10, <2>1, <3>2, BroadcastedMembers DEF BeginUpdateHold
    <3> QED BY <1>4, <1>5, <1>10, <2>1, <3>3 DEF BeginUpdateHold, devices
  <2>2. CASE ~ToInverterOpen
    <3>1. Fail /\ UNCHANGED <<sendRx, coordRx, devices>>
      BY <1>10, <2>2, Zenon DEF BeginUpdateHold
    <3>2. cmdRx' = Subscribed
      BY <1>10, <3>1, LeaveLimits DEF BeginUpdateHold
    <3> QED BY <1>6, <3>1, <3>2 DEF devices
  <2> QED BY <2>1, <2>2
<1>11. ASSUME SkipPacket PROVE Placed
  <2>1. cmdRx' \in Receivers(A1)
    BY <1>4, <1>11, PoppedType DEF SkipPacket
  <2> QED BY <1>4, <1>11, <2>1 DEF SkipPacket, devices
<1>12. ASSUME ReplyToRead PROVE Placed
  <2>1. CASE ToInverterOpen
    <3> DEFINE v == Updated(Head(cmdRx.q).val)
               p == Pkt("WriteSingle", Current, cmd.reg, v, 1, CurrentId)
    <3>1. Head(cmdRx.q) \in Packets
      BY <1>12, PoppedType DEF ReplyToRead, TypeOK
    <3>2. v \in Values
      BY <3>1 DEF Updated, TypeOK, Command, Packets, Values
    <3>3. p \in Packets
      BY <1>12, <3>2, PktType, CountType, CurrentType
         DEF ReplyToRead, TypeOK, Command, Functions
    <3>4. p.id = CurrentId /\ p.inv = Current /\ p.reg = cmd.reg /\ p.func = "WriteSingle"
      BY DEF Pkt
    <3>5. p \in F1
      <4>1. cmd.kind = "UpdateHold"
        BY <1>12 DEF ReplyToRead, PacketsInPlace
      <4> HIDE DEF p
      <4> QED BY <1>9, <1>12, <2>1, <3>3, <3>4, <4>1 DEF ReplyToRead
    <3>6. \A i \in Inverters : sendRx'[i] \in Receivers(F1)
      BY <1>4, <1>12, <2>1, <3>5, BroadcastedMembers DEF ReplyToRead
    <3>7. cmdRx' \in Receivers(A1)
      BY <1>4, <1>12, <2>1, PoppedType DEF ReplyToRead
    <3> QED BY <1>4, <1>12, <2>1, <3>6, <3>7 DEF ReplyToRead, devices
  <2>2. CASE ~ToInverterOpen
    <3>1. Fail /\ UNCHANGED <<sendRx, coordRx, devices>>
      BY <1>12, <2>2, Zenon DEF ReplyToRead
    <3>2. cmdRx' = Subscribed
      BY <1>12, <3>1, LeaveLimits DEF ReplyToRead
    <3> QED BY <1>6, <3>1, <3>2 DEF devices
  <2> QED BY <2>1, <2>2
<1>13. ASSUME BeginRejected \/ ReplyToCommand \/ LoopPanic \/ GiveUp PROVE Placed
  <2>1. (Succeed \/ Fail \/ LoopPanic) /\ UNCHANGED <<coordRx, sendRx, devices>>
    BY <1>13, Zenon DEF BeginRejected, ReplyToCommand, LoopPanic, GiveUp
  <2>2. loop \notin {"select", "exited"}
    BY <1>13 DEF BeginRejected, ReplyToCommand, LoopPanic, GiveUp, Waiting
  <2> QED BY <1>6, <2>1, <2>2, LeaveLimits DEF devices
<1>14. ASSUME LoopMqtt \/ LoopMqttLagged \/ LoopInverter \/ LoopExit \/ BeginUnparsed
       PROVE  Placed
  <2>1. UNCHANGED <<coordRx, sendRx, devices>>
    BY <1>14, Zenon DEF LoopMqtt, LoopMqttLagged, LoopInverter, LoopExit, BeginUnparsed
  <2>2. cmdRx' = cmdRx \/ cmdRx' = Subscribed
    BY <1>14, Zenon DEF LoopMqtt, LoopMqttLagged, LoopInverter, LoopExit, BeginUnparsed,
          Leave, handler
  <2> QED BY <1>6, <2>1, <2>2 DEF devices
<1>15. ASSUME NEW i \in Inverters, SenderWrite(i) PROVE Placed
  <2>1. /\ Popped(sendRx[i]) \in Receivers(F1)
        /\ Popped(sendRx[i]) \in Receivers(F) /\ Head(sendRx[i].q) \in F
    BY <1>2, <1>4, <1>15, PoppedType DEF SenderWrite
  <2>3. Framed(i, Head(sendRx[i].q)) \in F1
    BY <1>1, <2>1, FramedRequest DEF F
  <2>2. Append(wire[i], Framed(i, Head(sendRx[i].q))) \in Seq(F1)
    BY <1>4, <2>3
  <2> QED BY <1>4, <1>15, <2>1, <2>2 DEF SenderWrite, handler, TypeOK
<1>16. ASSUME NEW i \in Inverters, SenderEnd(i) PROVE Placed
  BY <1>4, <1>5, <1>16 DEF SenderEnd, handler, devices, TypeOK
<1>17. ASSUME NEW i \in Inverters, ReaderDeliver(i) PROVE Placed
  <2>1. Head(back[i]) \in A1 /\ Tail(back[i]) \in Seq(A1)
    BY <1>4, <1>17, HeadTailProperties DEF ReaderDeliver
  <2>2. cmdRx' \in Receivers(A1)
    BY <1>4, <1>17, <2>1, PushType DEF ReaderDeliver
  <2> QED BY <1>4, <1>17, <2>1, <2>2 DEF ReaderDeliver, TypeOK
<1>18. ASSUME NEW i \in Inverters, ReaderEnd(i) PROVE Placed
  BY <1>4, <1>5, <1>18 DEF ReaderEnd, handler, TypeOK
<1>19. ASSUME NEW i \in Inverters, DeviceExecute(i) PROVE Placed
  <2> DEFINE p == Head(wire[i])
             now == IF p.func = "WriteSingle" THEN p.val
                    ELSE IF p.func = "WriteParam" THEN {} ELSE regs[i][p.reg]
  <2>1. wire[i] # <<>> /\ p.inv = i
    BY <1>19 DEF DeviceExecute
  <2>2. p \in F /\ Tail(wire[i]) \in Seq(F1) /\ wire[i] \in Seq(Packets)
    BY <1>2, <1>4, <2>1, HeadTailProperties DEF TypeOK
  <2>3. p \in Packets
    BY <2>1, <2>2, HeadTailProperties
  <2>4. /\ p.func \in Functions /\ p.reg \in Registers /\ p.id \in Nat /\ p.val \in Values
        /\ p.count \in Counts
    BY <2>3 DEF Packets
  <2>5. now \in Values
    <3>1. regs[i][p.reg] \in Values
      BY <2>4 DEF TypeOK
    <3> QED BY <2>4, <3>1 DEF Values
  <2>6. Pkt(p.func, i, p.reg, now, p.count, p.id) \in Packets
    BY <2>4, <2>5, PktType
  <2>7. Pkt(p.func, i, p.reg, now, p.count, p.id) \in A1
    <3> DEFINE a == Pkt(p.func, i, p.reg, now, p.count, p.id)
    <3>1. p.id \in 1..ForwardedUpTo /\ Asked(p)
      BY <2>2 DEF F, Requests
    <3>2. /\ a.id = p.id /\ a.inv = p.inv /\ a.reg = p.reg
          /\ a.func = p.func /\ a.count = p.count
      BY <2>1 DEF Pkt
    <3>3. a \in A
      <4> HIDE DEF p
      <4>1. a \in Packets
        BY <2>6
      <4> HIDE DEF a
      <4>2. Asked(a)
        BY <3>1, <3>2 DEF Asked, Stray
      <4> QED BY <4>1, <4>2, <3>1, <3>2, NumbersKept DEF A, Answers
    <3> QED BY <1>1, <3>3
  <2>8. Writes(p) => p \in Own1(i)
    <3>1. Writes(p) => p \in Own(i)
      BY <2>1, <2>2 DEF Own, F, Executions
    <3> QED BY <1>3, <3>1
  <2>9. \A j \in Inverters : back'[j] \in Seq(A1)
    BY <1>4, <1>19, <2>7 DEF DeviceExecute, TypeOK
  <2>10. \A j \in Inverters : executed'[j] \in Seq(Own1(j))
    <3>1. executed' = IF Writes(p) THEN [executed EXCEPT ![i] = Append(@, p)] ELSE executed
      BY <1>19 DEF DeviceExecute, Writes
    <3>2. Writes(p) => Append(executed[i], p) \in Seq(Own1(i))
      BY <1>4, <2>8
    <3> QED BY <1>4, <3>1, <3>2 DEF TypeOK
  <2>11. \A j \in Inverters : wire'[j] \in Seq(F1)
    BY <1>4, <1>19, <2>2 DEF DeviceExecute, TypeOK
  <2> QED BY <1>4, <1>19, <2>9, <2>10, <2>11 DEF DeviceExecute, handler
<1>20. ASSUME NEW i \in Inverters, DeviceRefuse(i) PROVE Placed
  <2> DEFINE p == Head(wire[i])
             e == Pkt("Error", i, p.reg, {}, p.count, p.id)
  <2>1. wire[i] # <<>>
    BY <1>20 DEF DeviceRefuse
  <2>2. p \in F /\ Tail(wire[i]) \in Seq(F1) /\ p \in Packets
    BY <1>2, <1>4, <2>1, HeadTailProperties DEF TypeOK
  <2>3. /\ e \in Packets
        /\ e.id = p.id /\ e.inv = i /\ e.reg = p.reg /\ e.func = "Error"
    BY <2>2, PktType DEF Packets, Functions, Values, Pkt
  <2>4. p.inv = i => e \in A1
    <3>1. p.id \in 1..ForwardedUpTo /\ Asked(p)
      BY <2>2 DEF F, Requests
    <3> HIDE DEF e, p
    <3>2. p.inv = i => Asked(e)
      BY <2>3, <3>1 DEF Asked, Stray
    <3>3. p.inv = i => e \in A
      BY <2>3, <3>1, <3>2, NumbersKept DEF A, Answers
    <3> QED BY <1>1, <3>3
  <2>5. back' = back \/ (p.inv = i /\ back' = [back EXCEPT ![i] = Append(@, e)])
    BY <1>20 DEF DeviceRefuse
  <2>6. \A j \in Inverters : back'[j] \in Seq(A1)
    <3>1. p.inv = i => Append(back[i], e) \in Seq(A1)
      BY <1>4, <2>4
    <3> QED BY <1>4, <2>5, <3>1 DEF TypeOK
  <2>7. \A j \in Inverters : wire'[j] \in Seq(F1)
    BY <1>4, <1>20, <2>2 DEF DeviceRefuse, TypeOK
  <2> QED BY <1>4, <1>20, <2>6, <2>7 DEF DeviceRefuse, handler
<1>21. ASSUME NEW i \in Inverters, NEW r \in Registers,
              NEW f \in {"ReadHold", "ReadInput", "ReadParam"}, DevicePush(i, f, r)
       PROVE  Placed
  <2>1. regs[i][r] \in Values
    BY DEF TypeOK
  <2>2. PICK c \in Counts : back' = [back EXCEPT ![i] = Append(@, Pkt(f, i, r, regs[i][r], c, 0))]
    BY <1>21, CountType DEF DevicePush
  <2> DEFINE p == Pkt(f, i, r, regs[i][r], c, 0)
  <2>3. p \in Packets /\ p.id = 0
    BY <2>1, PktType DEF Functions, Pkt
  <2>4. events' > 0
    BY <1>21 DEF DevicePush, TypeOK
  <2>5. p \in A1
    <3> HIDE DEF p
    <3> QED BY <2>3, <2>4, NumbersKept DEF A1, A, Answers
  <2>6. \A j \in Inverters : back'[j] \in Seq(A1)
    BY <1>4, <2>2, <2>5 DEF TypeOK
  <2> QED BY <1>4, <1>21, <2>6 DEF DevicePush, handler
<1>26. ASSUME NEW i \in Inverters, NEW r \in Registers, NEW v \in Values,
              ClientWrite(i, r, v)
       PROVE  Placed
  <2>1. PICK p \in Packets : p = Pkt("WriteSingle", i, r, v, 1, 0)
    BY PktType, CountType DEF Functions
  <2>2. p.id = 0 /\ p.inv = i /\ p.func = "WriteSingle"
    BY <2>1 DEF Pkt
  <2>3. p \in A1
    BY <2>2, NumbersKept DEF A1, A, Answers
  <2>4. p \in Own1(i)
    <3>1. p \in Own(i)
      BY <2>2 DEF Own, Executions, OthersWrites, Writes
    <3> QED BY <1>3, <3>1
  <2>5. /\ executed' = [executed EXCEPT ![i] = Append(@, p)]
        /\ back' = [back EXCEPT ![i] = IF reader[i] THEN Append(@, p) ELSE @]
        /\ UNCHANGED <<coordRx, sendRx, wire, cmdRx>>
    BY <1>26, <2>1 DEF ClientWrite, handler
  <2>6. Append(executed[i], p) \in Seq(Own1(i)) /\ Append(back[i], p) \in Seq(A1)
    BY <1>4, <2>3, <2>4
  <2>7. \A j \in Inverters : executed'[j] \in Seq(Own1(j)) /\ back'[j] \in Seq(A1)
    BY <1>4, <2>5, <2>6 DEF TypeOK
  <2> QED BY <1>4, <2>5, <2>7
<1>22. CASE Environment
  <2>1. ASSUME NEW m \in Messages, MqttMessage(m) PROVE Placed
    BY <1>6, <2>1 DEF MqttMessage, handler, devices
  <2>2. ASSUME MqttEnd PROVE Placed
    BY <1>6, <2>2 DEF MqttEnd, handler, devices
  <2>3. ASSUME NEW i \in Inverters, NEW r \in Registers, NEW v \in Values,
               PanelChange(i, r, v)
        PROVE  Placed
    BY <1>6, <2>3 DEF PanelChange, handler
  <2> QED BY <1>19, <1>20, <1>21, <1>22, <1>26, <2>1, <2>2, <2>3, Zenon DEF Environment
<1>23. CASE LoopStep
  BY <1>7, <1>8, <1>10, <1>11, <1>12, <1>13, <1>14, <1>23, Zenon DEF LoopStep
<1>24. ASSUME NEW i \in Inverters, Connection(i) PROVE Placed
  BY <1>15, <1>16, <1>17, <1>18, <1>24, Zenon DEF Connection
<1>25. CASE UNCHANGED vars
  BY <1>6, <1>25 DEF vars, handler, devices
<1> QED BY <1>22, <1>23, <1>24, <1>25, Zenon DEF Next

\* No packet is ever ahead of the step that may send it: requests wait in
\* to_coordinator until their command has ended, and every request belongs to a
\* command that was let through for the inverter it named.
THEOREM PacketsStayInPlace == Spec => []PacketsInPlace
<1>1. Init => TypeOK /\ PacketsInPlace
  BY InitType, InitPlaces
<1>2. TypeOK /\ PacketsInPlace /\ [Next]_vars => (TypeOK /\ PacketsInPlace)'
  BY NextType, NextPlaces
<1> QED BY <1>1, <1>2, PTL DEF Spec

LEMMA OwnReplyStep == TypeOK /\ PacketsInPlace => OwnReplyCannotArrive
<1> SUFFICES ASSUME TypeOK, PacketsInPlace, loop = "reply", NEW p \in Forwarded
             PROVE  p.id # CurrentId
  BY DEF OwnReplyCannotArrive
<1> DEFINE n == Len(outcome)
<1>1. ForwardedUpTo = n /\ n \in Nat /\ CurrentId = n + 1
  BY DEF ForwardedUpTo, TypeOK, CurrentId
<1>2. p \in Answers(n) \/ p \in Requests(n)
  <2> DEFINE A == Answers(n)  R == Requests(n)
  <2>1. /\ cmdRx.q \in Seq(A)
        /\ \A i \in Inverters : sendRx[i].q \in Seq(R) /\ wire[i] \in Seq(R) /\ back[i] \in Seq(A)
    BY <1>1 DEF PacketsInPlace, Receivers
  <2> HIDE DEF A, R
  <2>2. \A S : \A s \in Seq(S) : ToSet(s) \subseteq S
    BY DEF ToSet
  <2> QED BY <2>1, <2>2 DEF Forwarded, A, R
<1> HIDE DEF n
<1>3. p.id <= n
  BY <1>1, <1>2 DEF Answers, Requests
<1>4. p.id \in Nat
  BY <1>2 DEF Answers, Requests, Packets
<1> QED BY <1>1, <1>3, <1>4

\* While a command sent through to_coordinator waits, no packet of its own is on the
\* way to or from any device, whatever the inverters, the commands and the timing.
THEOREM OwnReplyNeverArrives == Spec => []OwnReplyCannotArrive
BY TypeCorrect, PacketsStayInPlace, OwnReplyStep, PTL

LEMMA OnlyParamsStrayStep == PacketsInPlace => OnlyParamWritesStray
<1> SUFFICES ASSUME PacketsInPlace, NEW i \in Inverters, NEW p \in ToSet(executed[i]), p.id # 0
             PROVE  /\ Guarded(CommandOf(p.id).kind) => InverterOf(p.id) \notin ReadOnly
                    /\ InverterOf(p.id) = i \/ CommandOf(p.id).kind = "WriteParam"
  BY DEF OnlyParamWritesStray
<1>1. p \in Executions(i)
  <2>1. executed[i] \in Seq(Executions(i))
    BY DEF PacketsInPlace
  <2> QED BY <2>1 DEF ToSet
<1>2. p \in Requests(ForwardedUpTo) /\ p.inv = i /\ Writes(p)
  BY <1>1 DEF Executions, OthersWrites
<1> QED BY <1>2 DEF Requests, Asked, Stray, Writes

\* However late a request is forwarded, and whatever is lost or lags: a device executes
\* a write that WriteInverter guards only if it was let through for the inverter the
\* command named, and that is the device itself unless the write is of a parameter.
THEOREM OnlyParamsStray == Spec => []OnlyParamWritesStray
BY TypeCorrect, PacketsStayInPlace, OnlyParamsStrayStep, PTL

\* Once the loop has exited nothing reads or fills its receivers, nor ends a command.
LEMMA ExitedStays ==
  ASSUME TypeOK, loop = "exited", [Next]_vars
  PROVE  UNCHANGED <<loopRx, coordRx, outcome>>
<1> USE DEF handler, devices, bounds
<1>1. CASE LoopStep
  BY <1>1, Zenon DEF LoopStep, LoopMqtt, LoopMqttLagged, LoopForward, LoopInverter, LoopExit,
     BeginUnparsed, BeginRejected, BeginViaCoordinator, BeginUpdateHold, SkipPacket,
     ReplyToRead, ReplyToCommand, LoopPanic, GiveUp, Waiting
<1>2. ASSUME NEW i \in Inverters, Connection(i)
      PROVE  UNCHANGED <<loopRx, coordRx, outcome>>
  BY <1>2 DEF Connection, SenderWrite, SenderEnd, ReaderDeliver, ReaderEnd
<1>3. CASE Environment
  BY <1>3, EnvironmentStep DEF handler
<1>4. CASE UNCHANGED vars
  BY <1>4 DEF vars
<1> QED BY <1>1, <1>2, <1>3, <1>4 DEF Next

\* There are two ways to exit.
LEMMA WaysToExit ==
  ASSUME TypeOK, loop # "exited", loop' = "exited", [Next]_vars
  PROVE  LoopExit \/ LoopPanic
<1>1. CASE LoopStep
  <2>1. CASE loop \notin {"select", "exited"} /\ (Succeed \/ Fail \/ LoopPanic)
    BY <2>1, LeaveLimits
  <2>2. CASE LoopMqtt \/ LoopMqttLagged \/ LoopForward \/ LoopInverter
    BY <2>2, Zenon DEF LoopMqtt, LoopMqttLagged, LoopForward, LoopInverter, handler
  <2>3. CASE BeginUnparsed \/ BeginViaCoordinator \/ SkipPacket
    BY <2>3 DEF BeginUnparsed, BeginViaCoordinator, SkipPacket, Leave
  <2>4. CASE BeginRejected \/ ReplyToCommand \/ GiveUp
    BY <2>1, <2>4, Zenon DEF BeginRejected, ReplyToCommand, GiveUp, Waiting
  <2>5. CASE BeginUpdateHold
    BY <2>1, <2>5, Zenon DEF BeginUpdateHold
  <2>6. CASE ReplyToRead
    BY <2>1, <2>6, Zenon DEF ReplyToRead
  <2> QED BY <1>1, <2>2, <2>3, <2>4, <2>5, <2>6, Zenon DEF LoopStep
<1>2. ASSUME NEW i \in Inverters, Connection(i) PROVE UNCHANGED loop
  BY <1>2 DEF Connection, SenderWrite, SenderEnd, ReaderDeliver, ReaderEnd, handler
<1>3. UNCHANGED loop \/ LoopStep
  <2>1. CASE Environment
    BY <2>1, EnvironmentStep DEF handler
  <2>2. CASE UNCHANGED vars
    BY <2>2 DEF vars, handler
  <2> QED BY <1>2, <2>1, <2>2 DEF Next
<1> QED BY <1>1, <1>3

\* A reply that is too short answers an earlier command about one register.
LEMMA ShortReplies ==
  ASSUME TypeOK, PacketsInPlace, LoopPanic, events = 0
  PROVE  \E n \in 1..Len(outcome) :
           /\ outcome[n].inv = Current /\ outcome[n].cmd.reg = cmd.reg
           /\ outcome[n].cmd.kind \in {"UpdateHold", "ReadHold"}
           /\ outcome[n].cmd.kind = "ReadHold" => outcome[n].cmd.count = 1
<1> DEFINE p == Head(cmdRx.q)
<1>1. p \in Answers(ForwardedUpTo)
  BY PoppedType DEF PacketsInPlace, LoopPanic
<1>2. ForwardedUpTo = Len(outcome) /\ DOMAIN outcome = 1..Len(outcome)
  BY DEF ForwardedUpTo, LoopPanic, TypeOK
<1>3. /\ p.inv = Current /\ p.reg = cmd.reg /\ p.count < 2
      /\ p.func = "ReadHold"
  BY DEF LoopPanic, Replies, TooShort, Function
<1>4. p \in Packets /\ p.id \in Nat /\ p.id <= Len(outcome) /\ p.id # 0 /\ Asked(p)
  <2> HIDE DEF p
  <2> QED BY <1>1, <1>2, <1>3 DEF Answers, Packets
<1>5. p.id \in 1..Len(outcome)
  BY <1>4 DEF TypeOK
<1> DEFINE e == outcome[p.id]
<1>6. e \in Ended
  BY <1>2, <1>5 DEF TypeOK
<1>7. e.inv = Current /\ e.cmd.reg = cmd.reg /\ Reads(e.cmd, p.count)
  BY <1>2, <1>3, <1>4, <1>5 DEF Asked, Stray, InverterOf, CommandOf
<1> HIDE DEF p
<1>8. /\ e.cmd.kind \in {"UpdateHold", "ReadHold"}
      /\ e.cmd.kind = "ReadHold" => e.cmd.count = 1
  <2>1. e.cmd \in Command /\ e.cmd.count \in {1, 2} /\ e.cmd.kind \in Kinds
    BY <1>6 DEF Ended, Command, Counts
  <2> QED BY <1>3, <1>7, <2>1 DEF Reads, Function, Count, Kinds
<1> QED BY <1>5, <1>7, <1>8

LEMMA ExitsStep ==
  ASSUME TypeOK, PacketsInPlace, ExitsHaveAReason, [Next]_vars
  PROVE  ExitsHaveAReason'
<1> SUFFICES ASSUME loop' = "exited", events' = 0 PROVE ExitsHaveAReason'
  BY DEF ExitsHaveAReason
<1>1. events = 0
  BY EventsKept
<1>2. CASE loop = "exited"
  BY <1>1, <1>2, ExitedStays DEF ExitsHaveAReason, HasLagged
<1>3. CASE LoopExit
  BY <1>3 DEF LoopExit, ExitsHaveAReason, HasLagged
<1>4. CASE LoopPanic
  <2> DEFINE e == [cmd |-> cmd, inv |-> Current, result |-> "unreported"]
  <2>1. outcome' = Append(outcome, e) /\ outcome \in Seq(Ended) /\ e \in Ended
    BY <1>4, CurrentType DEF LoopPanic, TypeOK, Ended, Results
  <2>2. e.cmd = cmd /\ e.inv = Current
    OBVIOUS
  <2> HIDE DEF e
  <2>3. /\ DOMAIN outcome' = 1..(Len(outcome) + 1) /\ Last(outcome') = e
        /\ Len(outcome) \in Nat
        /\ \A n \in 1..Len(outcome) : n \in DOMAIN outcome' /\ outcome'[n] = outcome[n]
    BY <2>1 DEF Last
  <2>4. PICK n \in 1..Len(outcome) :
           /\ outcome[n].inv = Current /\ outcome[n].cmd.reg = cmd.reg
           /\ outcome[n].cmd.kind \in {"UpdateHold", "ReadHold"}
           /\ outcome[n].cmd.kind = "ReadHold" => outcome[n].cmd.count = 1
    BY <1>1, <1>4, ShortReplies
  <2> QED BY <2>2, <2>3, <2>4 DEF ExitsHaveAReason
<1> QED BY <1>2, <1>3, <1>4, WaysToExit

\* Whatever the inverters, the commands and the timing: as long as nobody else talks
\* to the inverters, the loop exits only after a lag, or in a time read that takes the
\* late answer to a command about one register at the same address.
THEOREM ExitsAreExplained == Spec => []ExitsHaveAReason
<1>1. Init => ExitsHaveAReason
  BY DEF Init, ExitsHaveAReason
<1>2. TypeOK /\ PacketsInPlace /\ ExitsHaveAReason /\ [Next]_vars => ExitsHaveAReason'
  BY ExitsStep
<1> QED BY <1>1, <1>2, TypeCorrect, PacketsStayInPlace, PTL DEF Spec
------------------------------------------------------------------------------
(* Relations along a line of packets.  R is a set of pairs: s is ordered   *)
(* by R when every earlier packet is related to every later one, and A is  *)
(* ahead of B when every packet of A is related to every one of B.         *)

Ordered(s, R)  == \A j, k \in 1..Len(s) : j < k => <<s[j], s[k]>> \in R
Ahead(A, B, R) == \A a \in A, b \in B : <<a, b>> \in R

LEMMA OrderedTail ==
  ASSUME NEW S, NEW s \in Seq(S), NEW R, s # <<>>, Ordered(s, R)
  PROVE  Ordered(Tail(s), R) /\ Ahead({Head(s)}, ToSet(Tail(s)), R)
<1>1. /\ Tail(s) \in Seq(S) /\ Len(Tail(s)) = Len(s) - 1 /\ Len(s) \in Nat \ {0}
      /\ \A n \in 1..(Len(s) - 1) : Tail(s)[n] = s[n + 1]
      /\ Head(s) = s[1]
  OBVIOUS
<1> DEFINE t == Tail(s)
<1>2. Len(t) = Len(s) - 1 /\ Len(s) \in Nat \ {0} /\ \A n \in 1..Len(t) : t[n] = s[n + 1]
  BY <1>1
<1>3. t \in Seq(S)
  BY <1>1
<1> HIDE DEF t
<1>6. ToSet(t) = {t[n] : n \in 1..Len(t)}
  BY <1>3 DEF ToSet
<1>4. Ordered(t, R)
  BY <1>2 DEF Ordered
<1>5. \A n \in 1..Len(t) : <<s[1], t[n]>> \in R
  BY <1>2 DEF Ordered
<1> QED BY <1>1, <1>4, <1>5, <1>6 DEF Ahead, t

LEMMA OrderedAppend ==
  ASSUME NEW S, NEW s \in Seq(S), NEW x \in S, NEW R, Ordered(s, R), Ahead(ToSet(s), {x}, R)
  PROVE  Ordered(Append(s, x), R)
<1> DEFINE t == Append(s, x)
<1>1. /\ Len(s) \in Nat /\ Len(t) = Len(s) + 1 /\ t[Len(s) + 1] = x
      /\ \A n \in 1..Len(s) : t[n] = s[n] /\ s[n] \in ToSet(s)
  BY DEF ToSet
<1> HIDE DEF t
<1>2. ASSUME NEW j \in 1..Len(t), NEW k \in 1..Len(t), j < k
      PROVE  <<t[j], t[k]>> \in R
  <2>1. j \in 1..Len(s)
    BY <1>1, <1>2
  <2>2. CASE k = Len(s) + 1
    BY <1>1, <2>1, <2>2 DEF Ahead
  <2>3. CASE k # Len(s) + 1
    <3>1. k \in 1..Len(s)
      BY <1>1, <2>3
    <3> QED BY <1>1, <1>2, <2>1, <3>1 DEF Ordered
  <2> QED BY <2>2, <2>3
<1> QED BY <1>2 DEF Ordered, t

LEMMA OrderedEmpty ==
  ASSUME NEW R
  PROVE  Ordered(<<>>, R) /\ Ordered(Subscribed.q, R)
BY DEF Ordered, Subscribed

LEMMA OrderedPush ==
  ASSUME NEW M, NEW rx \in Receivers(M), NEW m \in M, NEW R,
         Ordered(rx.q, R), Ahead(ToSet(rx.q), {m}, R)
  PROVE  Ordered(Push(rx, m).q, R)
<1>1. rx.q \in Seq(M) /\ Len(rx.q) \in Nat
  BY DEF Receivers
<1>2. CASE Len(rx.q) < Capacity
  <2>1. Push(rx, m).q = Append(rx.q, m)
    BY <1>2 DEF Push
  <2> QED BY <1>1, <2>1, OrderedAppend
<1>3. CASE ~(Len(rx.q) < Capacity)
  <2>1. Push(rx, m).q = Append(Tail(rx.q), m) /\ rx.q # <<>>
    BY <1>1, <1>3, CapacityAssumption DEF Push
  <2>2. Ordered(Tail(rx.q), R) /\ ToSet(Tail(rx.q)) \subseteq ToSet(rx.q)
    BY <1>1, <2>1, OrderedTail, ToSetTail
  <2>4. Tail(rx.q) \in Seq(M)
    BY <1>1, <2>1
  <2>3. Ahead(ToSet(Tail(rx.q)), {m}, R)
    BY <2>2 DEF Ahead
  <2> QED BY <2>1, <2>2, <2>3, <2>4, OrderedAppend
<1> QED BY <1>2, <1>3

\* A relation that holds more pairs of the line's packets orders it too.
LEMMA OrderedWider ==
  ASSUME NEW M, NEW R, NEW R1, \A a, b \in M : <<a, b>> \in R => <<a, b>> \in R1
  PROVE  /\ \A s \in Seq(M) : Ordered(s, R) => Ordered(s, R1)
         /\ \A A, B \in SUBSET M : Ahead(A, B, R) => Ahead(A, B, R1)
BY DEF Ordered, Ahead

------------------------------------------------------------------------------
(* What a step does to the packets, with the steps that treat them alike   *)
(* taken together.                                                         *)

\* No packet is sent, and at most the command's receiver changes.
Quiet ==
  /\ UNCHANGED <<coordRx, sendRx, wire, back, regs, executed>>
  /\ \/ cmdRx' = cmdRx
     \/ cmdRx' = Subscribed
     \/ HasMessage(cmdRx) /\ cmdRx' = Popped(cmdRx)

\* UpdateHold sends its read; it takes the reply to it and sends its write.
OwnRead  == Pkt("ReadHold", Current, cmd.reg, {}, Count(cmd), CurrentId)
OwnWrite == Pkt("WriteSingle", Current, cmd.reg, Updated(Head(cmdRx.q).val), 1, CurrentId)

SendRead ==
  /\ loop = "begin" /\ loop' = "read" /\ cmd.kind = "UpdateHold"
  /\ sendRx' = Broadcasted(OwnRead) /\ cmdRx' = Subscribed
  /\ UNCHANGED <<cmd, todo, outcome, coordRx, devices, bounds>>

SendWrite ==
  /\ loop = "read" /\ loop' = "write"
  /\ HasMessage(cmdRx) /\ Replies(Head(cmdRx.q))
  /\ sendRx' = Broadcasted(OwnWrite) /\ cmdRx' = Popped(cmdRx)
  /\ want' = Updated(Head(cmdRx.q).val)
  /\ UNCHANGED <<cmd, todo, outcome, coordRx, devices, bounds>>

\* A packet nobody asked for: it tells what the register holds.
Pushed ==
  /\ UNCHANGED <<handler, coordRx, sendRx, wire, regs, executed>>
  /\ \A i \in Inverters :
       \/ back'[i] = back[i]
       \/ \E p \in Packets :
            /\ p.inv = i /\ p.func # "WriteSingle" /\ p.val = regs[i][p.reg]
            /\ back'[i] = Append(back[i], p)

\* A register changed by somebody else, at the panel or with an echo.
Changed ==
  /\ changes' > 0 /\ UNCHANGED <<handler, coordRx, sendRx, wire>>
  /\ \A i \in Inverters :
       \/ executed'[i] = executed[i] /\ back'[i] = back[i]
       \/ \E p \in OthersWrites :
            /\ p.inv = i /\ executed'[i] = Append(executed[i], p)
            /\ back'[i] = back[i] \/ back'[i] = Append(back[i], p)

\* The tasks of the connection to inverter i, and its device.
Transport(i) ==
  \/ SenderWrite(i) \/ SenderEnd(i) \/ ReaderDeliver(i) \/ ReaderEnd(i)
  \/ DeviceExecute(i) \/ DeviceRefuse(i)

LEMMA PushedSteps ==
  ASSUME TypeOK, NEW i \in Inverters, NEW r \in Registers,
         NEW f \in {"ReadHold", "ReadInput", "ReadParam"}, DevicePush(i, f, r)
  PROVE  Pushed
<1>1. regs[i][r] \in Values
  BY DEF TypeOK
<1>2. PICK c \in Counts : back' = [back EXCEPT ![i] = Append(@, Pkt(f, i, r, regs[i][r], c, 0))]
  BY CountType DEF DevicePush
<1> DEFINE p == Pkt(f, i, r, regs[i][r], c, 0)
<1>3. p \in Packets /\ p.inv = i /\ p.func # "WriteSingle" /\ p.val = regs[i][p.reg]
  BY <1>1, PktType DEF Functions, Pkt
<1> HIDE DEF p
<1>4. \A j \in Inverters : back'[j] = IF j = i THEN Append(back[j], p) ELSE back[j]
  BY <1>2 DEF TypeOK, p
<1>5. UNCHANGED <<handler, coordRx, sendRx, wire, regs, executed>>
  BY DEF DevicePush
<1> QED BY <1>3, <1>4, <1>5 DEF Pushed

LEMMA ChangedSteps ==
  ASSUME TypeOK, NEW i \in Inverters, NEW r \in Registers, NEW v \in Values,
         PanelChange(i, r, v) \/ ClientWrite(i, r, v)
  PROVE  Changed
<1>1. CASE PanelChange(i, r, v)
  BY <1>1 DEF PanelChange, Changed, TypeOK
<1>2. CASE ClientWrite(i, r, v)
  <2>1. PICK p \in Packets : p = Pkt("WriteSingle", i, r, v, 1, 0)
    BY PktType, CountType DEF Functions
  <2>2. p \in OthersWrites /\ p.inv = i
    BY <2>1 DEF Pkt, OthersWrites
  <2>3. /\ executed' = [executed EXCEPT ![i] = Append(@, p)]
        /\ back' = [back EXCEPT ![i] = IF reader[i] THEN Append(@, p) ELSE @]
        /\ changes' > 0 /\ UNCHANGED <<handler, coordRx, sendRx, wire>>
    BY <1>2, <2>1 DEF ClientWrite, TypeOK
  <2>4. /\ executed'[i] = Append(executed[i], p)
        /\ back'[i] = back[i] \/ back'[i] = Append(back[i], p)
        /\ \A j \in Inverters : j # i => executed'[j] = executed[j] /\ back'[j] = back[j]
    BY <2>3 DEF TypeOK
  <2> QED BY <2>2, <2>3, <2>4 DEF Changed
<1> QED BY <1>1, <1>2

LEMMA StepCases ==
  ASSUME TypeOK, [Next]_vars
  PROVE  \/ Quiet \/ LoopForward \/ BeginViaCoordinator \/ SendRead \/ SendWrite
         \/ Pushed \/ Changed
         \/ \E i \in Inverters : Transport(i)
<1>0. ASSUME loop \notin {"select", "exited"}, Succeed \/ Fail \/ LoopPanic
      PROVE  cmdRx' = Subscribed
  BY <1>0, LeaveLimits
<1>1. CASE LoopStep
  <2>1. CASE LoopMqtt \/ LoopMqttLagged \/ LoopInverter \/ LoopExit
    BY <2>1 DEF LoopMqtt, LoopMqttLagged, LoopInverter, LoopExit, Quiet, handler, devices
  <2>2. CASE BeginUnparsed \/ SkipPacket
    BY <2>2 DEF BeginUnparsed, SkipPacket, Quiet, Leave, devices
  <2>3. CASE BeginRejected \/ ReplyToCommand \/ LoopPanic \/ GiveUp
    <3>1. /\ loop \notin {"select", "exited"} /\ (Succeed \/ Fail \/ LoopPanic)
          /\ UNCHANGED <<coordRx, sendRx, devices>>
      BY <2>3, Zenon DEF BeginRejected, ReplyToCommand, LoopPanic, GiveUp, Waiting
    <3> QED BY <1>0, <3>1 DEF Quiet, devices
  <2>4. CASE BeginUpdateHold
    <3>1. CASE ToInverterOpen
      BY <2>4, <3>1, Zenon DEF BeginUpdateHold, SendRead, OwnRead
    <3>2. CASE ~ToInverterOpen
      <4>1. loop = "begin" /\ Fail /\ UNCHANGED <<coordRx, sendRx, devices>>
        BY <2>4, <3>2, Zenon DEF BeginUpdateHold
      <4> QED BY <1>0, <4>1 DEF Quiet, devices
    <3> QED BY <3>1, <3>2
  <2>5. CASE ReplyToRead
    <3>1. CASE ToInverterOpen
      BY <2>5, <3>1, Zenon DEF ReplyToRead, SendWrite, OwnWrite
    <3>2. CASE ~ToInverterOpen
      <4>1. loop = "read" /\ Fail /\ UNCHANGED <<coordRx, sendRx, devices>>
        BY <2>5, <3>2, Zenon DEF ReplyToRead
      <4> QED BY <1>0, <4>1 DEF Quiet, devices
    <3> QED BY <3>1, <3>2
  <2> QED BY <1>1, <2>1, <2>2, <2>3, <2>4, <2>5, Zenon DEF LoopStep
<1>2. ASSUME NEW i \in Inverters, Connection(i) PROVE Transport(i)
  BY <1>2, Zenon DEF Connection, Transport
<1>3. CASE Environment
  <2>1. ASSUME NEW m \in Messages, MqttMessage(m) PROVE Quiet
    BY <2>1 DEF MqttMessage, Quiet, handler, devices
  <2>2. ASSUME MqttEnd PROVE Quiet
    BY <2>2 DEF MqttEnd, Quiet, handler, devices
  <2> QED BY <1>3, <2>1, <2>2, PushedSteps, ChangedSteps, Zenon DEF Environment, Transport
<1>4. CASE UNCHANGED vars
  BY <1>4 DEF vars, Quiet, handler, devices
<1> QED BY <1>1, <1>2, <1>3, <1>4, Zenon DEF Next

\* A command that has just ended, and what it takes to end well.
LEMMA NewOutcome ==
  ASSUME TypeOK, [Next]_vars, NEW n \in DOMAIN outcome', n \notin DOMAIN outcome
  PROVE  /\ n = CurrentId /\ loop \notin {"select", "exited"}
         /\ outcome'[n].cmd = cmd /\ outcome'[n].inv = Current
         /\ outcome'[n].result = "ok" =>
              /\ loop \in {"reply", "write"}
              /\ HasMessage(cmdRx) /\ Replies(Head(cmdRx.q)) /\ Accepts(Head(cmdRx.q).val)
              /\ UNCHANGED <<coordRx, sendRx, devices, bounds>>
              /\ cmdRx' = Subscribed
<1>1. loop \notin {"select", "exited"} /\ (Succeed \/ Fail \/ LoopPanic)
  BY StepShape
<1>2. /\ outcome \in Seq(Ended) /\ Len(outcome) \in Nat /\ DOMAIN outcome = 1..Len(outcome)
  BY DEF TypeOK
<1>3. /\ n = CurrentId /\ outcome'[n].cmd = cmd /\ outcome'[n].inv = Current
      /\ cmdRx' = Subscribed
  BY <1>1, <1>2, LeaveLimits DEF CurrentId
<1> DEFINE e(r) == [cmd |-> cmd, inv |-> Current, result |-> r]
<1>4. \A r : r \in Results => e(r) \in Ended /\ e(r).result = r
  BY <1>1, CurrentType DEF TypeOK, Ended
<1>5. ASSUME NEW r \in Results, outcome' = Append(outcome, e(r))
      PROVE  outcome'[n].result = r
  <2> HIDE DEF e
  <2>1. outcome'[Len(outcome) + 1] = e(r)
    BY <1>2, <1>4, <1>5
  <2> QED BY <1>3, <1>4, <2>1 DEF CurrentId
<1>6. CASE Fail \/ LoopPanic
  <2>1. outcome' = Append(outcome, e("FAIL")) \/ outcome' = Append(outcome, e("unreported"))
    BY <1>6, Zenon DEF Fail, LoopPanic
  <2>2. outcome'[n].result # "ok"
    BY <1>5, <2>1 DEF Results
  <2> QED BY <1>1, <1>3, <2>2
<1>7. CASE ~(Fail \/ LoopPanic)
  <2>0. outcome' # outcome
    BY <1>2
  <2>1. ReplyToCommand
    <3>1. CASE LoopStep
      <4>1. ~(LoopMqtt \/ LoopMqttLagged \/ LoopForward \/ LoopInverter \/ LoopExit)
        BY <1>1 DEF LoopMqtt, LoopMqttLagged, LoopForward, LoopInverter, LoopExit
      <4>3. ~(BeginUnparsed \/ BeginViaCoordinator \/ SkipPacket)
        BY <2>0 DEF BeginUnparsed, BeginViaCoordinator, SkipPacket
      <4>4. ~(BeginRejected \/ BeginUpdateHold \/ ReplyToRead \/ GiveUp)
        BY <1>7, <2>0, Zenon DEF BeginRejected, BeginUpdateHold, ReplyToRead, GiveUp
      <4> QED BY <1>7, <3>1, <4>1, <4>3, <4>4 DEF LoopStep
    <3>2. ASSUME NEW i \in Inverters, Connection(i) PROVE outcome' = outcome
      BY <3>2 DEF Connection, SenderWrite, SenderEnd, ReaderDeliver, ReaderEnd, handler
    <3>3. CASE Environment \/ UNCHANGED vars
      <4>1. outcome' = outcome
        BY <3>3, EnvironmentStep DEF vars, handler
      <4> QED BY <4>1
    <3> QED BY <2>0, <3>1, <3>2, <3>3 DEF Next
  <2>2. /\ loop \in {"reply", "write"} /\ HasMessage(cmdRx) /\ Replies(Head(cmdRx.q))
        /\ Accepts(Head(cmdRx.q).val)
        /\ UNCHANGED <<coordRx, sendRx, devices, bounds>>
    BY <1>7, <2>1, Zenon DEF ReplyToCommand
  <2> QED BY <1>1, <1>3, <2>2
<1> QED BY <1>6, <1>7

\* What each step of a connection does to the queues of packets.
LEMMA SenderWriteEffect ==
  ASSUME TypeOK, NEW i \in Inverters, SenderWrite(i)
  PROVE  /\ sendRx[i].q # <<>> /\ HasMessage(sendRx[i])
         /\ sendRx'[i] = Popped(sendRx[i]) /\ sendRx'[i].q = Tail(sendRx[i].q)
         /\ wire'[i] = Append(wire[i], Framed(i, Head(sendRx[i].q)))
         /\ \A j \in Inverters : j # i => sendRx'[j] = sendRx[j] /\ wire'[j] = wire[j]
         /\ UNCHANGED <<handler, coordRx, back, regs, executed, bounds>>
BY DEF SenderWrite, HasMessage, Popped, TypeOK

LEMMA SenderEndEffect ==
  ASSUME TypeOK, NEW i \in Inverters, SenderEnd(i)
  PROVE  /\ sendRx'[i] = Subscribed
         /\ \A j \in Inverters : j # i => sendRx'[j] = sendRx[j]
         /\ UNCHANGED <<handler, coordRx, wire, back, regs, executed, events>>
BY DEF SenderEnd, TypeOK, devices

LEMMA ReaderDeliverEffect ==
  ASSUME TypeOK, NEW i \in Inverters, ReaderDeliver(i)
  PROVE  /\ back[i] # <<>> /\ back'[i] = Tail(back[i])
         /\ cmdRx' = cmdRx \/ cmdRx' = Push(cmdRx, Head(back[i]))
         /\ \A j \in Inverters : j # i => back'[j] = back[j]
         /\ UNCHANGED <<loop, cmd, todo, want, outcome, coordRx, sendRx, wire, regs,
                        executed, bounds>>
BY DEF ReaderDeliver, TypeOK

LEMMA ReaderEndEffect ==
  ASSUME TypeOK, NEW i \in Inverters, ReaderEnd(i)
  PROVE  /\ back'[i] = <<>>
         /\ \A j \in Inverters : j # i => back'[j] = back[j]
         /\ UNCHANGED <<handler, coordRx, sendRx, wire, regs, executed, events>>
BY DEF ReaderEnd, TypeOK

\* The device's answer to a request p.
Answer(p, v) == Pkt(p.func, p.inv, p.reg, v, p.count, p.id)

\* Device i takes request p, executes it and may answer.
Executes(i, p) ==
  /\ wire[i] # <<>> /\ p = Head(wire[i]) /\ p.inv = i
  /\ wire'[i] = Tail(wire[i])
  /\ regs'[i] = IF p.func = "WriteSingle" THEN [regs[i] EXCEPT ![p.reg] = p.val] ELSE regs[i]
  /\ executed'[i] = IF Writes(p) THEN Append(executed[i], p) ELSE executed[i]
  /\ \/ back'[i] = back[i]
     \/ \E v \in Values :
          /\ back'[i] = Append(back[i], Answer(p, v))
          /\ ~Writes(p) => v = regs[i][p.reg]
          /\ p.func = "WriteSingle" => v = p.val
  /\ \A j \in Inverters : j # i =>
       /\ wire'[j] = wire[j] /\ regs'[j] = regs[j]
       /\ executed'[j] = executed[j] /\ back'[j] = back[j]
  /\ UNCHANGED <<handler, coordRx, sendRx, bounds>>

LEMMA DeviceExecuteEffect ==
  ASSUME TypeOK, NEW i \in Inverters, DeviceExecute(i)
  PROVE  \E p \in Packets : Executes(i, p)
<1>0. PICK p : p = Head(wire[i])
  OBVIOUS
<1> DEFINE now == IF p.func = "WriteSingle" THEN p.val
                  ELSE IF p.func = "WriteParam" THEN {} ELSE regs[i][p.reg]
<1>1. wire[i] # <<>> /\ p.inv = i
  BY <1>0 DEF DeviceExecute
<1>2. p \in Packets
  <2>1. wire[i] \in Seq(Packets)
    BY DEF TypeOK
  <2> QED BY <1>0, <1>1, <2>1, HeadTailProperties
<1>3. now \in Values
  <2>1. p.func \in Functions /\ p.reg \in Registers /\ p.val \in Values
    BY <1>2 DEF Packets
  <2>2. regs[i][p.reg] \in Values /\ {} \in Values
    BY <2>1 DEF TypeOK, Values
  <2> QED BY <2>1, <2>2
<1>4. back' = [back EXCEPT ![i] = IF reader[i] THEN Append(@, Answer(p, now)) ELSE @]
  BY <1>0, <1>1 DEF DeviceExecute, Answer
<1>5. back'[i] = back[i] \/ back'[i] = Append(back[i], Answer(p, now))
  BY <1>4 DEF TypeOK
<1>6. \/ back'[i] = back[i]
      \/ \E v \in Values :
           /\ back'[i] = Append(back[i], Answer(p, v))
           /\ ~Writes(p) => v = regs[i][p.reg]
           /\ p.func = "WriteSingle" => v = p.val
  BY <1>3, <1>5 DEF Writes
<1>7. \A j \in Inverters : j # i => back'[j] = back[j]
  BY <1>4 DEF TypeOK
<1> HIDE DEF now
<1>8. /\ wire'[i] = Tail(wire[i])
      /\ \A j \in Inverters : j # i => wire'[j] = wire[j]
      /\ UNCHANGED <<handler, coordRx, sendRx, bounds>>
  BY DEF DeviceExecute, TypeOK
<1>9. /\ regs'[i] = IF p.func = "WriteSingle" THEN [regs[i] EXCEPT ![p.reg] = p.val]
                    ELSE regs[i]
      /\ \A j \in Inverters : j # i => regs'[j] = regs[j]
  BY <1>0 DEF DeviceExecute, TypeOK
<1>10. /\ executed'[i] = IF Writes(p) THEN Append(executed[i], p) ELSE executed[i]
       /\ \A j \in Inverters : j # i => executed'[j] = executed[j]
  BY <1>0 DEF DeviceExecute, TypeOK, Writes
<1>11. Executes(i, p)
  BY <1>0, <1>1, <1>6, <1>7, <1>8, <1>9, <1>10 DEF Executes
<1> QED BY <1>2, <1>11

LEMMA DeviceRefuseEffect ==
  ASSUME TypeOK, NEW i \in Inverters, DeviceRefuse(i)
  PROVE  /\ wire[i] # <<>> /\ wire'[i] = Tail(wire[i])
         /\ \/ back'[i] = back[i]
            \/ \E p \in Packets :
                 p.inv = i /\ p.func = "Error" /\ back'[i] = Append(back[i], p)
         /\ \A j \in Inverters : j # i => wire'[j] = wire[j] /\ back'[j] = back[j]
         /\ UNCHANGED <<handler, coordRx, sendRx, regs, executed, bounds>>
<1> DEFINE p == Head(wire[i])
           e == Pkt("Error", i, p.reg, {}, p.count, p.id)
<1>1. wire[i] # <<>> /\ wire[i] \in Seq(Packets)
  BY DEF DeviceRefuse, TypeOK
<1>2. p \in Packets
  BY <1>1, HeadTailProperties
<1>3. e \in Packets /\ e.inv = i /\ e.func = "Error"
  BY <1>2, PktType DEF Packets, Functions, Values, Pkt
<1>4. back' = back \/ back' = [back EXCEPT ![i] = Append(@, e)]
  BY DEF DeviceRefuse
<1> HIDE DEF e, p
<1>5. /\ back'[i] = back[i] \/ back'[i] = Append(back[i], e)
      /\ \A j \in Inverters : j # i => back'[j] = back[j]
  BY <1>4 DEF TypeOK
<1>6. /\ wire'[i] = Tail(wire[i])
      /\ \A j \in Inverters : j # i => wire'[j] = wire[j]
      /\ UNCHANGED <<handler, coordRx, sendRx, regs, executed, bounds>>
  BY DEF DeviceRefuse, TypeOK
<1> QED BY <1>1, <1>3, <1>5, <1>6

\* A forwarded packet reaches each connection's sender, or does not.
LEMMA BroadcastEffect ==
  ASSUME TypeOK, NEW p \in Packets, sendRx' = Broadcasted(p), NEW i \in Inverters
  PROVE  /\ sendRx'[i] = sendRx[i] \/ sendRx'[i] = Push(sendRx[i], p)
         /\ ToSet(sendRx'[i].q) \subseteq ToSet(sendRx[i].q) \cup {p}
<1>1. sendRx'[i] = sendRx[i] \/ sendRx'[i] = Push(sendRx[i], p)
  BY DEF Broadcasted
<1>2. sendRx[i] \in Receivers(Packets)
  BY DEF TypeOK
<1> QED BY <1>1, <1>2, PushMembers

\* The queues as sequences of packets, and what is in them.
LEMMA QueuesType ==
  ASSUME TypeOK
  PROVE  /\ coordRx.q \in Seq(Packets) /\ cmdRx.q \in Seq(Packets)
         /\ ToSet(coordRx.q) \subseteq Packets /\ ToSet(cmdRx.q) \subseteq Packets
         /\ \A i \in Inverters :
              /\ sendRx[i].q \in Seq(Packets) /\ wire[i] \in Seq(Packets)
              /\ executed[i] \in Seq(Packets) /\ back[i] \in Seq(Packets)
              /\ ToSet(sendRx[i].q) \subseteq Packets /\ ToSet(wire[i]) \subseteq Packets
              /\ ToSet(executed[i]) \subseteq Packets /\ ToSet(back[i]) \subseteq Packets
<1>1. /\ coordRx.q \in Seq(Packets) /\ cmdRx.q \in Seq(Packets)
      /\ \A i \in Inverters :
           /\ sendRx[i].q \in Seq(Packets) /\ wire[i] \in Seq(Packets)
           /\ executed[i] \in Seq(Packets) /\ back[i] \in Seq(Packets)
  BY DEF TypeOK, Receivers
<1>2. \A s \in Seq(Packets) : ToSet(s) \subseteq Packets
  BY DEF ToSet
<1> QED BY <1>1, <1>2


\* The packets UpdateHold sends, and the device's answers, are packets.
LEMMA OwnReadType ==
  ASSUME TypeOK, SendRead
  PROVE  OwnRead \in Packets /\ ~Writes(OwnRead)
BY PktType, CountType, CurrentType
   DEF SendRead, OwnRead, TypeOK, Command, Functions, Values, Writes, Pkt

LEMMA OwnWriteType ==
  ASSUME TypeOK, SendWrite
  PROVE  OwnWrite \in Packets /\ OwnWrite.id = CurrentId /\ Head(cmdRx.q) \in Packets
<1>1. Head(cmdRx.q) \in Packets
  BY PoppedType DEF SendWrite, TypeOK
<1>2. Updated(Head(cmdRx.q).val) \in Values
  BY <1>1 DEF Updated, TypeOK, Command, Packets, Values
<1> QED BY <1>1, <1>2, PktType, CountType, CurrentType
        DEF SendWrite, OwnWrite, TypeOK, Command, Functions, Pkt

LEMMA AnswerType ==
  ASSUME NEW p \in Packets, NEW v \in Values
  PROVE  /\ Answer(p, v) \in Packets /\ Answer(p, v).val = v /\ Answer(p, v).inv = p.inv
         /\ Answer(p, v).func = p.func /\ Answer(p, v).reg = p.reg /\ Answer(p, v).id = p.id
<1>1. /\ p.func \in Functions /\ p.inv \in Inverters /\ p.reg \in Registers
      /\ p.count \in Counts /\ p.id \in Nat
  BY DEF Packets
<1> QED BY <1>1, PktType DEF Answer, Pkt

------------------------------------------------------------------------------
(* Which commands the packets in each place belong to.                     *)

\* Up to which command writes have been forwarded: UpdateHold writes in its second wait.
WritesUpTo == IF loop = "write" THEN CurrentId ELSE Len(outcome)

\* The requests that may have reached device i: done, written to it, to be written.
Sent(i) == ToSet(executed[i]) \cup ToSet(wire[i]) \cup ToSet(sendRx[i].q)

KindsInPlace ==
  /\ loop = "reply" => ViaCoordinator(cmd.kind)
  /\ \A p \in ToSet(coordRx.q) :
       ViaCoordinator(CommandOf(p.id).kind) /\ p.func = Function(CommandOf(p.id).kind)
  /\ \A i \in Inverters :
       /\ \A p \in Sent(i) : Writes(p) => p.id <= WritesUpTo
       /\ \A p \in ToSet(executed[i]) : Writes(p)
       /\ \A p \in ToSet(back[i]) : p.inv = i

LEMMA WritesUpToKept ==
  ASSUME TypeOK, [Next]_vars
  PROVE  /\ WritesUpTo \in Nat /\ WritesUpTo' \in Nat /\ WritesUpTo <= WritesUpTo'
         /\ Len(outcome) \in Nat /\ Len(outcome) <= WritesUpTo /\ WritesUpTo <= ForwardedUpTo
<1> USE DEF WritesUpTo, ForwardedUpTo, CurrentId, Waiting
<1>1. Len(outcome) \in Nat /\ Len(outcome') \in Nat
  <2>1. outcome \in Seq(Ended) /\ outcome' \in Seq(Ended)
    BY NextType DEF TypeOK
  <2> QED BY <2>1
<1>2. CASE /\ UNCHANGED <<cmd, todo, outcome>>
           /\ loop' = loop \/ (loop = "read" /\ loop' = "write")
  BY <1>1, <1>2
<1>3. CASE outcome' = outcome /\ ~Waiting
  BY <1>1, <1>3
<1>4. CASE loop \notin {"select", "exited"} /\ (Succeed \/ Fail \/ LoopPanic)
  BY <1>1, <1>4, LeaveLimits
<1> QED BY <1>2, <1>3, <1>4, StepShape

\* The numbers of the packets in each place.
LEMMA PlacedIds ==
  ASSUME TypeOK, PacketsInPlace
  PROVE  /\ \A p \in ToSet(coordRx.q) : p \in Requests(RequestedUpTo)
         /\ \A p \in ToSet(cmdRx.q) : p \in Answers(ForwardedUpTo)
         /\ \A i \in Inverters :
              /\ \A p \in Sent(i) : /\ p \in Packets
                                    /\ p.id # 0 => p \in Requests(ForwardedUpTo)
              /\ \A p \in ToSet(executed[i]) : p.inv = i
              /\ \A p \in ToSet(back[i]) : p \in Answers(ForwardedUpTo)
<1> DEFINE R == Requests(RequestedUpTo)
           F == Requests(ForwardedUpTo)
           A == Answers(ForwardedUpTo)
           Own(i) == Executions(i)
<1>1. /\ coordRx.q \in Seq(R) /\ cmdRx.q \in Seq(A)
      /\ \A i \in Inverters :
           /\ sendRx[i].q \in Seq(F) /\ wire[i] \in Seq(F) /\ back[i] \in Seq(A)
           /\ executed[i] \in Seq(Own(i))
  BY DEF PacketsInPlace, Receivers
<1> HIDE DEF R, F, A, Own
<1>2. \A S : \A s \in Seq(S) : ToSet(s) \subseteq S
  BY DEF ToSet
<1>3. \A i \in Inverters :
        /\ ToSet(executed[i]) \subseteq Own(i) /\ ToSet(wire[i]) \subseteq F
        /\ ToSet(sendRx[i].q) \subseteq F /\ ToSet(back[i]) \subseteq A
  BY <1>1, <1>2
<1>4. \A i \in Inverters : \A p \in Own(i) :
        p.inv = i /\ p \in Packets /\ (p.id # 0 => p \in F)
  BY DEF Own, F, Executions, OthersWrites, Requests
<1>6. \A p \in F : p \in Packets
  BY DEF F, Requests
<1>5. ToSet(coordRx.q) \subseteq R /\ ToSet(cmdRx.q) \subseteq A
  BY <1>1, <1>2
<1> QED BY <1>3, <1>4, <1>5, <1>6 DEF R, F, A, Sent

\* Packets that have been requested keep their command in a step.
LEMMA CommandKept ==
  ASSUME TypeOK, [Next]_vars, NEW p \in Requests(RequestedUpTo)
  PROVE  CommandOf(p.id)' = CommandOf(p.id) /\ InverterOf(p.id)' = InverterOf(p.id)
BY NumbersKept DEF Requests

\* The members of a queue after a message has been taken from it.
LEMMA PoppedFrom ==
  ASSUME NEW rx \in Receivers(Packets), HasMessage(rx)
  PROVE  /\ Popped(rx).q = Tail(rx.q) /\ rx.q # <<>> /\ rx.q \in Seq(Packets)
         /\ ToSet(Popped(rx).q) \subseteq ToSet(rx.q) /\ Head(rx.q) \in ToSet(rx.q)
BY PoppedMembers DEF HasMessage, Popped, Receivers

LEMMA NothingIn == ToSet(<<>>) = {}
BY DEF ToSet

LEMMA KindsInit == Init => KindsInPlace
<1> SUFFICES ASSUME Init PROVE KindsInPlace
  OBVIOUS
<1>1. ToSet(<<>>) = {} /\ ToSet(Subscribed.q) = {}
  BY NothingIn, SubscribedType
<1>2. \A i \in Inverters : Sent(i) = {} /\ ToSet(executed[i]) = {} /\ ToSet(back[i]) = {}
  BY <1>1 DEF Init, Sent
<1> QED BY <1>1, <1>2 DEF Init, KindsInPlace

LEMMA KindsStep ==
  ASSUME TypeOK, PacketsInPlace, KindsInPlace, [Next]_vars
  PROVE  KindsInPlace'
<1>0. TypeOK'
  BY NextType
<1>1. (loop = "reply" => ViaCoordinator(cmd.kind))'
  <2>1. CASE BeginViaCoordinator
    BY <2>1 DEF BeginViaCoordinator
  <2>2. loop' = "reply" => BeginViaCoordinator \/ (loop = "reply" /\ cmd' = cmd)
    <3>1. CASE LoopStep
      <4>1. ASSUME loop \notin {"select", "exited"}, Succeed \/ Fail \/ LoopPanic
            PROVE  loop' # "reply"
        BY <4>1, LeaveLimits
      <4>2. CASE LoopMqtt \/ LoopMqttLagged \/ LoopForward \/ LoopInverter \/ LoopExit
        BY <4>2 DEF LoopMqtt, LoopMqttLagged, LoopForward, LoopInverter, LoopExit, handler
      <4>3. CASE BeginUnparsed \/ SkipPacket
        BY <4>3 DEF BeginUnparsed, SkipPacket, Leave
      <4>4. CASE BeginRejected \/ ReplyToCommand \/ LoopPanic \/ GiveUp
        <5>1. loop \notin {"select", "exited"} /\ (Succeed \/ Fail \/ LoopPanic)
          BY <4>4, Zenon DEF BeginRejected, ReplyToCommand, LoopPanic, GiveUp, Waiting
        <5> QED BY <4>1, <5>1
      <4>5. CASE BeginUpdateHold \/ ReplyToRead
        <5>1. \/ loop' \in {"read", "write"}
              \/ loop \notin {"select", "exited"} /\ Fail
          BY <4>5, Zenon DEF BeginUpdateHold, ReplyToRead
        <5> QED BY <4>1, <5>1
      <4> QED BY <3>1, <4>2, <4>3, <4>4, <4>5, Zenon DEF LoopStep
    <3>2. ASSUME NEW i \in Inverters, Connection(i)
          PROVE  UNCHANGED <<cmd, loop>>
      BY <3>2 DEF Connection, SenderWrite, SenderEnd, ReaderDeliver, ReaderEnd, handler
    <3>3. CASE Environment
      BY <3>3, EnvironmentStep DEF handler
    <3>4. CASE UNCHANGED vars
      BY <3>4 DEF vars, handler
    <3> QED BY <3>1, <3>2, <3>3, <3>4 DEF Next
  <2> QED BY <2>1, <2>2 DEF KindsInPlace
<1> DEFINE InCoord(p) == ViaCoordinator(CommandOf(p.id).kind) /\ p.func = Function(CommandOf(p.id).kind)
           InSent(p)  == Writes(p) => p.id <= WritesUpTo'
           Coord == \A p \in ToSet(coordRx'.q) : InCoord(p)'
           Line  == \A i \in Inverters : \A p \in Sent(i)' : InSent(p)
           Done  == \A i \in Inverters : \A p \in ToSet(executed'[i]) : Writes(p)
           Back  == \A i \in Inverters : \A p \in ToSet(back'[i]) : p.inv = i
<1> SUFFICES Coord /\ Line /\ Done /\ Back
  BY <1>1 DEF KindsInPlace
<1>2. \A p \in ToSet(coordRx.q) : InCoord(p)'
  BY PlacedIds, CommandKept DEF KindsInPlace
<1>3. \A i \in Inverters : \A p \in Sent(i) : InSent(p)
  <2>1. ASSUME NEW i \in Inverters, NEW p \in Sent(i), Writes(p)
        PROVE  p.id <= WritesUpTo'
    <3>1. p.id <= WritesUpTo /\ p.id \in Nat
      BY <2>1, PlacedIds DEF KindsInPlace, Packets
    <3> QED BY <3>1, WritesUpToKept
  <2> QED BY <2>1
<1>4. /\ \A i \in Inverters : \A p \in ToSet(executed[i]) : Writes(p)
      /\ \A i \in Inverters : \A p \in ToSet(back[i]) : p.inv = i
  BY DEF KindsInPlace
<1> HIDE DEF InCoord, InSent
<1>5. coordRx' = coordRx => Coord
  BY <1>2
<1>6. executed' = executed => Done
  BY <1>4
<1>7. back' = back => Back
  BY <1>4
<1>8. UNCHANGED <<executed, wire, sendRx>> => Line
  BY <1>3 DEF Sent
<1>9. CASE Quiet
  BY <1>5, <1>6, <1>7, <1>8, <1>9 DEF Quiet
<1>10. CASE LoopForward
  <2> DEFINE h == Head(coordRx.q)
  <2>1. /\ coordRx' = Popped(coordRx) /\ HasMessage(coordRx) /\ coordRx \in Receivers(Packets)
        /\ sendRx' = Broadcasted(h) /\ UNCHANGED <<executed, wire, back>>
        /\ loop = "select" /\ UNCHANGED <<loop, outcome>>
    BY <1>10 DEF LoopForward, devices, handler, TypeOK
  <2>2. h \in ToSet(coordRx.q) /\ ToSet(coordRx'.q) \subseteq ToSet(coordRx.q)
    BY <2>1, PoppedFrom
  <2>3. h \in Requests(Len(outcome)) /\ h \in Packets
    <3>1. RequestedUpTo = Len(outcome)
      BY <2>1 DEF RequestedUpTo, Waiting
    <3> QED BY <2>2, <3>1, PlacedIds DEF Requests
  <2> HIDE DEF h
  <2>4. InSent(h)
    <3>1. WritesUpTo' = Len(outcome)
      BY <2>1 DEF WritesUpTo
    <3> QED BY <2>3, <3>1 DEF InSent, Requests
  <2>5. \A i \in Inverters : Sent(i)' \subseteq Sent(i) \cup {h}
    BY <2>1, <2>3, BroadcastEffect DEF Sent
  <2> QED BY <1>2, <1>3, <1>6, <1>7, <2>1, <2>2, <2>4, <2>5
<1>11. CASE BeginViaCoordinator
  <2>1. PICK p \in Packets :
           p = Pkt(Function(cmd.kind), Current, cmd.reg, cmd.val, Count(cmd), CurrentId)
    BY <1>11, PktType, FunctionType, CountType, CurrentType
       DEF BeginViaCoordinator, TypeOK, Command
  <2>2. p.id = CurrentId /\ p.func = Function(cmd.kind)
    BY <2>1 DEF Pkt
  <2>3. /\ coordRx' = Push(coordRx, p) /\ coordRx \in Receivers(Packets)
        /\ UNCHANGED <<cmd, outcome, sendRx, wire, executed, back>>
        /\ ViaCoordinator(cmd.kind)
    BY <1>11, <2>1 DEF BeginViaCoordinator, TypeOK, devices
  <2>4. CommandOf(p.id)' = cmd
    <3>1. CurrentId \notin DOMAIN outcome
      BY DEF TypeOK, CurrentId
    <3> QED BY <2>2, <2>3, <3>1 DEF CommandOf
  <2>5. InCoord(p)'
    BY <2>2, <2>3, <2>4 DEF InCoord
  <2>6. ToSet(coordRx'.q) \subseteq ToSet(coordRx.q) \cup {p}
    BY <2>1, <2>3, PushMembers
  <2> QED BY <1>2, <1>6, <1>7, <1>8, <2>3, <2>5, <2>6
<1>12. CASE SendRead
  <2>1. OwnRead \in Packets /\ ~Writes(OwnRead)
    BY <1>12, OwnReadType
  <2>2. sendRx' = Broadcasted(OwnRead) /\ UNCHANGED <<coordRx, executed, wire, back>>
    BY <1>12 DEF SendRead, devices
  <2>3. \A i \in Inverters : Sent(i)' \subseteq Sent(i) \cup {OwnRead}
    BY <2>1, <2>2, BroadcastEffect DEF Sent
  <2> QED BY <1>3, <1>5, <1>6, <1>7, <2>1, <2>2, <2>3 DEF InSent
<1>13. CASE SendWrite
  <2>1. OwnWrite \in Packets /\ OwnWrite.id = CurrentId
    BY <1>13, OwnWriteType
  <2>2. /\ sendRx' = Broadcasted(OwnWrite) /\ UNCHANGED <<coordRx, executed, wire, back, outcome>>
        /\ loop' = "write"
    BY <1>13 DEF SendWrite, devices
  <2>3. \A i \in Inverters : Sent(i)' \subseteq Sent(i) \cup {OwnWrite}
    BY <2>1, <2>2, BroadcastEffect DEF Sent
  <2>4. InSent(OwnWrite)
    <3>1. WritesUpTo' = CurrentId /\ CurrentId \in Nat
      BY <2>2 DEF WritesUpTo, CurrentId, TypeOK
    <3> QED BY <2>1, <3>1 DEF InSent
  <2> QED BY <1>3, <1>5, <1>6, <1>7, <2>2, <2>3, <2>4
\* A packet of the device is told.
<1>14. ASSUME NEW i \in Inverters, NEW q \in Packets, q.inv = i,
              back'[i] = Append(back[i], q), NEW p \in ToSet(back'[i])
       PROVE  p.inv = i
  <2>1. ToSet(back'[i]) = ToSet(back[i]) \cup {q}
    BY <1>14, QueuesType, ToSetAppend
  <2> QED BY <1>4, <1>14, <2>1
<1>16. CASE Pushed
  <2>1. UNCHANGED <<coordRx, sendRx, wire, executed>>
    BY <1>16 DEF Pushed
  <2>2. \A i \in Inverters : \/ back'[i] = back[i]
                              \/ \E q \in Packets : q.inv = i /\ back'[i] = Append(back[i], q)
    BY <1>16 DEF Pushed
  <2> QED BY <1>4, <1>5, <1>6, <1>8, <1>14, <2>1, <2>2
<1>17. CASE Changed
  <2>1. UNCHANGED <<coordRx, sendRx, wire>>
    BY <1>17 DEF Changed
  <2>2. ASSUME NEW i \in Inverters
        PROVE  /\ \A p \in Sent(i)' : InSent(p)
               /\ \A p \in ToSet(executed'[i]) : Writes(p)
               /\ \A p \in ToSet(back'[i]) : p.inv = i
    <3>1. CASE executed'[i] = executed[i] /\ back'[i] = back[i]
      BY <1>3, <1>4, <2>1, <3>1 DEF Sent
    <3>2. ASSUME NEW q \in OthersWrites, q.inv = i, executed'[i] = Append(executed[i], q),
                 back'[i] = back[i] \/ back'[i] = Append(back[i], q)
          PROVE  /\ \A p \in Sent(i)' : InSent(p)
                 /\ \A p \in ToSet(executed'[i]) : Writes(p)
                 /\ \A p \in ToSet(back'[i]) : p.inv = i
      <4>1. q \in Packets /\ Writes(q) /\ q.id = 0
        BY <3>2 DEF OthersWrites, Writes
      <4>2. ToSet(executed'[i]) = ToSet(executed[i]) \cup {q}
        BY <3>2, <4>1, QueuesType, ToSetAppend
      <4>3. InSent(q)
        BY <4>1, WritesUpToKept DEF InSent
      <4>4. Sent(i)' = Sent(i) \cup {q}
        BY <2>1, <4>2 DEF Sent
      <4> QED BY <1>3, <1>4, <1>14, <3>2, <4>1, <4>2, <4>3, <4>4
    <3> QED BY <1>17, <3>1, <3>2 DEF Changed
  <2> QED BY <1>5, <2>1, <2>2
<1>15. ASSUME NEW i \in Inverters, Transport(i)
       PROVE  Coord /\ Line /\ Done /\ Back
  <2>1. CASE SenderWrite(i)
    <3>0. PICK p, f : p = Head(sendRx[i].q) /\ f = Framed(i, p)
      OBVIOUS
    <3>1. /\ sendRx[i].q # <<>> /\ sendRx'[i].q = Tail(sendRx[i].q)
          /\ wire'[i] = Append(wire[i], f)
          /\ \A j \in Inverters : j # i => sendRx'[j] = sendRx[j] /\ wire'[j] = wire[j]
          /\ UNCHANGED <<coordRx, back, executed>>
      BY <2>1, <3>0, SenderWriteEffect
    <3>2. ToSet(sendRx'[i].q) \subseteq ToSet(sendRx[i].q) /\ p \in ToSet(sendRx[i].q)
      BY <3>0, <3>1, QueuesType, ToSetTail
    <3>3. f \in Packets /\ f.func = p.func /\ f.id = p.id
      BY <3>0, <3>2, QueuesType, FramedType
    <3>4. InSent(f)
      BY <1>3, <3>2, <3>3 DEF InSent, Sent, Writes
    <3>5. ToSet(wire'[i]) = ToSet(wire[i]) \cup {f}
      BY <3>1, <3>3, QueuesType, ToSetAppend
    <3>6. \A j \in Inverters : Sent(j)' \subseteq Sent(j) \cup {f}
      BY <3>1, <3>2, <3>5 DEF Sent
    <3> QED BY <1>3, <1>5, <1>6, <1>7, <3>1, <3>4, <3>6
  <2>2. CASE SenderEnd(i)
    <3>1. /\ sendRx'[i] = Subscribed
          /\ \A j \in Inverters : j # i => sendRx'[j] = sendRx[j]
          /\ UNCHANGED <<coordRx, wire, back, executed>>
      BY <2>2, SenderEndEffect
    <3>2. \A j \in Inverters : Sent(j)' \subseteq Sent(j)
      BY <3>1, SubscribedType DEF Sent
    <3> QED BY <1>3, <1>5, <1>6, <1>7, <3>1, <3>2
  <2>3. CASE ReaderDeliver(i)
    <3>1. /\ back[i] # <<>> /\ back'[i] = Tail(back[i])
          /\ \A j \in Inverters : j # i => back'[j] = back[j]
          /\ UNCHANGED <<coordRx, sendRx, wire, executed>>
      BY <2>3, ReaderDeliverEffect
    <3>2. \A j \in Inverters : ToSet(back'[j]) \subseteq ToSet(back[j])
      BY <3>1, QueuesType, ToSetTail
    <3> QED BY <1>4, <1>5, <1>6, <1>8, <3>1, <3>2
  <2>4. CASE ReaderEnd(i)
    <3>1. /\ back'[i] = <<>>
          /\ \A j \in Inverters : j # i => back'[j] = back[j]
          /\ UNCHANGED <<coordRx, sendRx, wire, executed>>
      BY <2>4, ReaderEndEffect
    <3>2. ToSet(<<>>) = {}
      BY NothingIn
    <3>3. \A j \in Inverters : ToSet(back'[j]) \subseteq ToSet(back[j])
      BY <3>1, <3>2
    <3> QED BY <1>4, <1>5, <1>6, <1>8, <3>1, <3>3
  <2>5. CASE DeviceExecute(i)
    <3>0. PICK p \in Packets : Executes(i, p)
      BY <2>5, DeviceExecuteEffect
    <3>1. /\ wire[i] # <<>> /\ p \in Packets /\ p.inv = i /\ wire'[i] = Tail(wire[i])
          /\ executed'[i] = IF Writes(p) THEN Append(executed[i], p) ELSE executed[i]
          /\ \A j \in Inverters : j # i =>
               wire'[j] = wire[j] /\ executed'[j] = executed[j] /\ back'[j] = back[j]
          /\ UNCHANGED <<coordRx, sendRx>>
      BY <3>0 DEF Executes
    <3>9. back'[i] = back[i] \/ \E v \in Values : back'[i] = Append(back[i], Answer(p, v))
      BY <3>0 DEF Executes
    <3>2. p \in ToSet(wire[i]) /\ ToSet(wire'[i]) \subseteq ToSet(wire[i])
      BY <3>0, <3>1, QueuesType, ToSetTail DEF Executes
    <3>3. ToSet(Append(executed[i], p)) = ToSet(executed[i]) \cup {p}
      BY <3>1, QueuesType, ToSetAppend
    <3>4. \A j \in Inverters : Sent(j)' \subseteq Sent(j)
      BY <3>1, <3>2, <3>3 DEF Sent
    <3>5. Done
      BY <1>4, <3>1, <3>3
    <3>6. \A v \in Values : Answer(p, v) \in Packets /\ Answer(p, v).inv = i
      BY <3>1, AnswerType
    <3>7. \A v \in Values : ToSet(Append(back[i], Answer(p, v))) = ToSet(back[i]) \cup {Answer(p, v)}
      BY <3>6, QueuesType, ToSetAppend
    <3>8. Back
      <4> SUFFICES ASSUME NEW j \in Inverters, NEW a \in ToSet(back'[j]) PROVE a.inv = j
        OBVIOUS
      <4>1. CASE back'[j] = back[j]
        BY <1>4, <4>1
      <4>2. ASSUME j = i, NEW v \in Values, back'[i] = Append(back[i], Answer(p, v))
            PROVE  a.inv = j
        BY <1>4, <3>6, <3>7, <4>2
      <4> QED BY <3>1, <3>9, <4>1, <4>2
    <3> QED BY <1>3, <1>5, <3>1, <3>4, <3>5, <3>8
  <2>6. CASE DeviceRefuse(i)
    <3>1. /\ wire[i] # <<>> /\ wire'[i] = Tail(wire[i])
          /\ \/ back'[i] = back[i]
             \/ \E p \in Packets : p.inv = i /\ back'[i] = Append(back[i], p)
          /\ \A j \in Inverters : j # i => wire'[j] = wire[j] /\ back'[j] = back[j]
          /\ UNCHANGED <<coordRx, sendRx, executed>>
      BY <2>6, DeviceRefuseEffect
    <3>2. \A j \in Inverters : Sent(j)' \subseteq Sent(j)
      BY <3>1, QueuesType, ToSetTail DEF Sent
    <3>3. \A p \in Packets : ToSet(Append(back[i], p)) = ToSet(back[i]) \cup {p}
      BY QueuesType, ToSetAppend
    <3>4. Back
      <4> SUFFICES ASSUME NEW j \in Inverters, NEW a \in ToSet(back'[j]) PROVE a.inv = j
        OBVIOUS
      <4>1. CASE back'[j] = back[j]
        BY <1>4, <4>1
      <4>2. ASSUME j = i, NEW p \in Packets, p.inv = i, back'[i] = Append(back[i], p)
            PROVE  a.inv = j
        BY <1>4, <3>3, <4>2
      <4> QED BY <3>1, <4>1, <4>2
    <3> QED BY <1>3, <1>5, <1>6, <3>1, <3>2, <3>4
  <2> QED BY <1>15, <2>1, <2>2, <2>3, <2>4, <2>5, <2>6 DEF Transport
<1> QED BY <1>9, <1>10, <1>11, <1>12, <1>13, <1>15, <1>16, <1>17, StepCases

------------------------------------------------------------------------------
(* The order along each path.  Two writes of commands that go the same way *)
(* are in the order of their commands all along the line: executed,        *)
(* written to the device, waiting for its sender, waiting in               *)
(* to_coordinator.                                                         *)

SamePath(m, n) == ViaCoordinator(CommandOf(m).kind) <=> ViaCoordinator(CommandOf(n).kind)

\* Writes of commands (not of other clients) that take the same path.
Rivals(a, b) ==
  /\ Writes(a) /\ Writes(b) /\ a.id # 0 /\ b.id # 0
  /\ SamePath(a.id, b.id)

PathOrder == {ab \in Packets \X Packets : Rivals(ab[1], ab[2]) => ab[1].id < ab[2].id}

LineInOrder(i, R) ==
  /\ Ordered(executed[i], R) /\ Ordered(wire[i], R) /\ Ordered(sendRx[i].q, R)
  /\ Ahead(ToSet(executed[i]), ToSet(wire[i]), R)
  /\ Ahead(ToSet(executed[i]), ToSet(sendRx[i].q), R)
  /\ Ahead(ToSet(executed[i]), ToSet(coordRx.q), R)
  /\ Ahead(ToSet(wire[i]), ToSet(sendRx[i].q), R)
  /\ Ahead(ToSet(wire[i]), ToSet(coordRx.q), R)
  /\ Ahead(ToSet(sendRx[i].q), ToSet(coordRx.q), R)

InOrder ==
  /\ Ordered(coordRx.q, PathOrder)
  /\ \A i \in Inverters : LineInOrder(i, PathOrder)

LEMMA OrderInit == Init => InOrder
<1> SUFFICES ASSUME Init PROVE InOrder
  OBVIOUS
<1>1. ToSet(<<>>) = {} /\ ToSet(Subscribed.q) = {}
  BY NothingIn, SubscribedType
<1>2. \A R : Ordered(<<>>, R) /\ Ordered(Subscribed.q, R) /\ Ahead({}, {}, R)
  BY OrderedEmpty DEF Ahead
<1> QED BY <1>1, <1>2 DEF Init, InOrder, LineInOrder

\* Packets in their places that are in order stay so: the command behind a number
\* does not change.
Placed(p) == p \in Requests(RequestedUpTo) \cup OthersWrites

LEMMA PathOrderKept ==
  ASSUME TypeOK, [Next]_vars, NEW a, NEW b, Placed(a), Placed(b), <<a, b>> \in PathOrder
  PROVE  <<a, b>> \in PathOrder'
<1>1. a \in Packets /\ b \in Packets
  BY DEF Placed, Requests, OthersWrites
<1>2. CASE a.id = 0 \/ b.id = 0
  BY <1>1, <1>2 DEF PathOrder, Rivals
<1>3. CASE a.id # 0 /\ b.id # 0
  <2>1. a \in Requests(RequestedUpTo) /\ b \in Requests(RequestedUpTo)
    BY <1>3 DEF Placed, OthersWrites
  <2>2. SamePath(a.id, b.id)' <=> SamePath(a.id, b.id)
    BY <2>1, CommandKept DEF SamePath
  <2>3. Rivals(a, b) => a.id < b.id
    BY DEF PathOrder
  <2>4. Rivals(a, b)' => a.id < b.id
    BY <2>2, <2>3 DEF Rivals, Writes
  <2> QED BY <1>1, <2>4 DEF PathOrder
<1> QED BY <1>2, <1>3

LEMMA InPathOrder ==
  ASSUME NEW a \in Packets, NEW b \in Packets, Rivals(a, b)' => a.id < b.id
  PROVE  <<a, b>> \in PathOrder'
BY DEF PathOrder

LEMMA OrderStep ==
  ASSUME TypeOK, PacketsInPlace, KindsInPlace, InOrder, [Next]_vars
  PROVE  InOrder'
<1>0. PICK R : R = PathOrder'
  OBVIOUS
<1> DEFINE M == Requests(RequestedUpTo) \cup OthersWrites
           Coord == Ordered(coordRx'.q, R)
           Line(i) == LineInOrder(i, R)'
           Lines == \A i \in Inverters : Line(i)
<1> SUFFICES Coord /\ Lines
  <2>1. Coord => Ordered(coordRx.q, PathOrder)'
    BY <1>0 DEF Ordered
  <2>2. ASSUME NEW i \in Inverters, Line(i) PROVE LineInOrder(i, PathOrder)'
    BY <1>0, <2>2 DEF LineInOrder
  <2> QED BY <2>1, <2>2 DEF InOrder
<1>1. /\ coordRx.q \in Seq(M) /\ ToSet(coordRx.q) \subseteq M
      /\ \A i \in Inverters :
           /\ sendRx[i].q \in Seq(M) /\ wire[i] \in Seq(M) /\ executed[i] \in Seq(M)
           /\ ToSet(sendRx[i].q) \subseteq M /\ ToSet(wire[i]) \subseteq M
           /\ ToSet(executed[i]) \subseteq M
  <2> DEFINE F == Requests(ForwardedUpTo)
             Q == Requests(RequestedUpTo)
             Own(i) == Executions(i)
  <2>1. /\ coordRx.q \in Seq(Q)
        /\ \A i \in Inverters :
             sendRx[i].q \in Seq(F) /\ wire[i] \in Seq(F) /\ executed[i] \in Seq(Own(i))
    BY DEF PacketsInPlace, Receivers
  <2>2. F \subseteq M /\ Q \subseteq M /\ \A i \in Inverters : Own(i) \subseteq M
    BY PlacesKept DEF Executions
  <2> HIDE DEF M, F, Q, Own
  <2>3. Seq(F) \subseteq Seq(M) /\ Seq(Q) \subseteq Seq(M) /\ \A i \in Inverters : Seq(Own(i)) \subseteq Seq(M)
    BY <2>2, Wider
  <2>4. \A s \in Seq(M) : ToSet(s) \subseteq M
    BY DEF ToSet
  <2> QED BY <2>1, <2>3, <2>4
<1>2. \A a, b \in M : <<a, b>> \in PathOrder => <<a, b>> \in R
  BY <1>0, PathOrderKept DEF Placed
<1>3. \A a \in M : a \in Packets /\ a.id \in Nat /\ a.id <= RequestedUpTo
  BY NumbersKept DEF Requests, OthersWrites, Packets
<1> HIDE DEF M
<1>4. /\ \A s \in Seq(M) : Ordered(s, PathOrder) => Ordered(s, R)
      /\ \A A, B \in SUBSET M : Ahead(A, B, PathOrder) => Ahead(A, B, R)
  BY <1>2, OrderedWider
<1>5. Ordered(coordRx.q, R) /\ \A i \in Inverters : LineInOrder(i, R)
  <2>1. Ordered(coordRx.q, R)
    BY <1>1, <1>4 DEF InOrder
  <2>2. ASSUME NEW i \in Inverters PROVE LineInOrder(i, R)
    <3>1. LineInOrder(i, PathOrder)
      BY DEF InOrder
    <3> QED BY <1>1, <1>4, <3>1 DEF LineInOrder
  <2> QED BY <2>1, <2>2
<1>6. UNCHANGED coordRx => Coord
  BY <1>5
<1>7. UNCHANGED <<coordRx, executed, wire, sendRx>> => Coord /\ Lines
  BY <1>5 DEF LineInOrder
<1>8. /\ ToSet(<<>>) = {} /\ ToSet(Subscribed.q) = {} /\ Subscribed.q = <<>>
      /\ Ordered(<<>>, R) /\ \A A : Ahead(A, {}, R) /\ Ahead({}, A, R)
  BY NothingIn, SubscribedType, OrderedEmpty DEF Ahead, Subscribed
\* A packet that is sent on: it is in order with all before it and with all in
\* to_coordinator.
<1>9. ASSUME NEW p \in Packets, sendRx' = Broadcasted(p), UNCHANGED <<wire, executed>>,
             NEW i \in Inverters,
             Ahead(Sent(i), {p}, R), Ahead({p}, ToSet(coordRx'.q), R),
             ToSet(coordRx'.q) \subseteq ToSet(coordRx.q)
      PROVE  Line(i)
  <2>1. LineInOrder(i, R) /\ sendRx[i] \in Receivers(Packets)
    BY <1>5 DEF TypeOK
  <2>2. Ordered(sendRx'[i].q, R)
    <3>1. Ahead(ToSet(sendRx[i].q), {p}, R)
      BY <1>9 DEF Sent, Ahead
    <3>2. sendRx'[i] = sendRx[i] \/ sendRx'[i] = Push(sendRx[i], p)
      BY <1>9, BroadcastEffect
    <3> QED BY <2>1, <3>1, <3>2, OrderedPush DEF LineInOrder
  <2>3. ToSet(sendRx'[i].q) \subseteq ToSet(sendRx[i].q) \cup {p}
    BY <1>9, BroadcastEffect
  <2> QED BY <1>9, <2>1, <2>2, <2>3 DEF LineInOrder, Ahead, Sent
<1>10. CASE Quiet
  BY <1>7, <1>10 DEF Quiet
<1>11. CASE LoopForward
  <2>0. PICK h : h = Head(coordRx.q)
    OBVIOUS
  <2>1. /\ coordRx' = Popped(coordRx) /\ HasMessage(coordRx) /\ coordRx \in Receivers(Packets)
        /\ sendRx' = Broadcasted(h) /\ UNCHANGED <<executed, wire>>
    BY <1>11, <2>0 DEF LoopForward, devices, TypeOK
  <2>2. /\ h \in ToSet(coordRx.q) /\ coordRx'.q = Tail(coordRx.q) /\ coordRx.q # <<>>
        /\ ToSet(coordRx'.q) \subseteq ToSet(coordRx.q)
    BY <2>0, <2>1, PoppedFrom
  <2>3. Coord /\ Ahead({h}, ToSet(coordRx'.q), R) /\ h \in Packets
    BY <1>1, <1>3, <1>5, <2>0, <2>2, OrderedTail
  <2>4. \A i \in Inverters : Ahead(Sent(i), {h}, R)
    BY <1>5, <2>2 DEF LineInOrder, Ahead, Sent
  <2> HIDE DEF Line
  <2> QED BY <1>9, <2>1, <2>2, <2>3, <2>4
<1>12. CASE BeginViaCoordinator
  <2>1. PICK p \in Packets :
           p = Pkt(Function(cmd.kind), Current, cmd.reg, cmd.val, Count(cmd), CurrentId)
    BY <1>12, PktType, FunctionType, CountType, CurrentType
       DEF BeginViaCoordinator, TypeOK, Command
  <2>2. p.id = CurrentId
    BY <2>1 DEF Pkt
  <2>3. /\ coordRx' = Push(coordRx, p) /\ coordRx \in Receivers(Packets)
        /\ UNCHANGED <<executed, wire, sendRx>> /\ loop = "begin"
    BY <1>12, <2>1 DEF BeginViaCoordinator, TypeOK, devices
  <2>4. ASSUME NEW a \in M PROVE <<a, p>> \in R
    <3>1. RequestedUpTo = Len(outcome) /\ CurrentId = Len(outcome) + 1 /\ Len(outcome) \in Nat
      BY <2>3 DEF RequestedUpTo, Waiting, CurrentId, TypeOK
    <3>2. a \in Packets /\ a.id < p.id
      BY <1>3, <2>2, <3>1
    <3> QED BY <1>0, <3>2, InPathOrder
  <2>5. Coord
    <3>1. Ahead(ToSet(coordRx.q), {p}, R)
      BY <1>1, <2>4 DEF Ahead
    <3> QED BY <1>5, <2>3, <3>1, OrderedPush
  <2>6. ToSet(coordRx'.q) \subseteq ToSet(coordRx.q) \cup {p}
    BY <2>3, PushMembers
  <2>7. ASSUME NEW i \in Inverters PROVE Line(i)
    <3>1. LineInOrder(i, R)
      BY <1>5
    <3> QED BY <1>1, <2>3, <2>4, <2>6, <3>1 DEF LineInOrder, Ahead
  <2> QED BY <2>5, <2>7
<1>13. CASE SendRead
  <2>1. PICK p \in Packets : p = OwnRead /\ ~Writes(p)
    BY <1>13, OwnReadType
  <2>2. sendRx' = Broadcasted(p) /\ UNCHANGED <<coordRx, executed, wire>>
    BY <1>13, <2>1 DEF SendRead, devices
  <2>3. \A a \in Packets : <<a, p>> \in R /\ <<p, a>> \in R
    BY <1>0, <2>1, InPathOrder DEF Rivals, Writes
  <2>4. /\ Ahead({p}, ToSet(coordRx'.q), R)
        /\ \A i \in Inverters : Ahead(Sent(i), {p}, R)
    BY <2>2, <2>3, QueuesType DEF Ahead, Sent
  <2> HIDE DEF Line
  <2> QED BY <1>6, <1>9, <2>2, <2>4
<1>14. CASE SendWrite
  <2>1. PICK p \in Packets : p = OwnWrite /\ p.id = CurrentId
    BY <1>14, OwnWriteType
  <2>2. /\ sendRx' = Broadcasted(p) /\ UNCHANGED <<coordRx, executed, wire, cmd, outcome>>
        /\ loop = "read"
    BY <1>14, <2>1 DEF SendWrite, devices
  <2>3. /\ WritesUpTo = Len(outcome) /\ CurrentId = Len(outcome) + 1 /\ Len(outcome) \in Nat
        /\ CurrentId \notin DOMAIN outcome
    BY <2>2 DEF WritesUpTo, CurrentId, TypeOK
  <2>4. ASSUME NEW i \in Inverters, NEW a \in Sent(i) PROVE <<a, p>> \in R
    <3>1. a \in Packets /\ a.id \in Nat
      BY <1>1, <1>3 DEF Sent
    <3>2. Writes(a) => a.id < p.id
      BY <2>1, <2>3, <3>1 DEF KindsInPlace
    <3> QED BY <1>0, <3>1, <3>2, InPathOrder DEF Rivals, Writes
  <2>5. ASSUME NEW b \in ToSet(coordRx.q) PROVE <<p, b>> \in R
    <3>1. b \in M /\ b \in Packets
      BY <1>1, <1>3
    <3>2. CommandOf(b.id)' = CommandOf(b.id) /\ ViaCoordinator(CommandOf(b.id).kind)
      BY PlacedIds, CommandKept DEF KindsInPlace
    <3>3. CommandOf(p.id)' = cmd
      BY <2>1, <2>2, <2>3 DEF CommandOf
    <3>4. ~ViaCoordinator(cmd.kind)
      BY <2>2 DEF PacketsInPlace, ViaCoordinator
    <3>5. ~SamePath(p.id, b.id)'
      BY <3>2, <3>3, <3>4 DEF SamePath
    <3> QED BY <1>0, <3>1, <3>5, InPathOrder DEF Rivals
  <2>6. /\ Ahead({p}, ToSet(coordRx'.q), R)
        /\ \A i \in Inverters : Ahead(Sent(i), {p}, R)
    BY <2>2, <2>4, <2>5 DEF Ahead
  <2> HIDE DEF Line
  <2> QED BY <1>6, <1>9, <2>2, <2>6
<1>15. CASE Pushed
  BY <1>7, <1>15 DEF Pushed
<1>17. CASE Changed
  <2>1. UNCHANGED <<coordRx, sendRx, wire>>
    BY <1>17 DEF Changed
  <2>2. ASSUME NEW i \in Inverters PROVE Line(i)
    <3>1. LineInOrder(i, R)
      BY <1>5
    <3>2. CASE executed'[i] = executed[i]
      BY <2>1, <3>1, <3>2 DEF LineInOrder
    <3>3. ASSUME NEW q \in OthersWrites, executed'[i] = Append(executed[i], q)
          PROVE  Line(i)
      <4>1. q \in Packets /\ q.id = 0
        BY DEF OthersWrites
      <4>2. \A a \in Packets : <<a, q>> \in R /\ <<q, a>> \in R
        BY <1>0, <4>1, InPathOrder DEF Rivals
      <4>3. ToSet(executed'[i]) = ToSet(executed[i]) \cup {q}
        BY <3>3, <4>1, QueuesType, ToSetAppend
      <4>4. Ordered(executed'[i], R)
        <5>1. Ahead(ToSet(executed[i]), {q}, R)
          BY <4>2, QueuesType DEF Ahead
        <5> QED BY <3>1, <3>3, <4>1, <5>1, QueuesType, OrderedAppend DEF LineInOrder
      <4>5. /\ Ahead({q}, ToSet(wire[i]), R) /\ Ahead({q}, ToSet(sendRx[i].q), R)
            /\ Ahead({q}, ToSet(coordRx.q), R)
        BY <4>2, QueuesType DEF Ahead
      <4> QED BY <2>1, <3>1, <4>3, <4>4, <4>5 DEF LineInOrder, Ahead
    <3> QED BY <1>17, <3>2, <3>3 DEF Changed
  <2> QED BY <1>6, <2>1, <2>2
<1>16. ASSUME NEW i \in Inverters, Transport(i)
       PROVE  Coord /\ Lines
  <2> SUFFICES ASSUME NEW j \in Inverters PROVE Coord /\ Line(j)
    OBVIOUS
  <2>1. CASE SenderWrite(i)
    <3>0. PICK p, f : p = Head(sendRx[i].q) /\ f = Framed(i, p)
      OBVIOUS
    <3>1. /\ sendRx[i].q # <<>> /\ sendRx'[i].q = Tail(sendRx[i].q)
          /\ wire'[i] = Append(wire[i], f)
          /\ \A k \in Inverters : k # i => sendRx'[k] = sendRx[k] /\ wire'[k] = wire[k]
          /\ UNCHANGED <<coordRx, executed>>
      BY <2>1, <3>0, SenderWriteEffect
    <3>2. CASE j # i
      <4>1. LineInOrder(j, R)
        BY <1>5
      <4> QED BY <1>6, <3>1, <3>2, <4>1 DEF LineInOrder
    <3>3. CASE j = i
      <4>1. LineInOrder(i, R)
        BY <1>5
      <4>2. ToSet(sendRx'[i].q) \subseteq ToSet(sendRx[i].q) /\ p \in ToSet(sendRx[i].q) /\ p \in Packets
        BY <3>0, <3>1, QueuesType, ToSetTail
      <4>8. f \in Packets /\ f.func = p.func /\ f.id = p.id
        BY <3>0, <4>2, FramedType
      <4>9. \A a \in Packets : /\ <<a, p>> \in R => <<a, f>> \in R
                               /\ <<p, a>> \in R => <<f, a>> \in R
        BY <1>0, <4>2, <4>8 DEF PathOrder, Rivals, Writes, SamePath
      <4>3. ToSet(wire'[i]) = ToSet(wire[i]) \cup {f}
        BY <3>1, <4>8, QueuesType, ToSetAppend
      <4>4. Ordered(sendRx'[i].q, R) /\ Ahead({p}, ToSet(sendRx'[i].q), R)
        BY <3>0, <3>1, <4>1, QueuesType, OrderedTail DEF LineInOrder
      <4>5. /\ Ahead(ToSet(executed[i]), {p}, R) /\ Ahead(ToSet(wire[i]), {p}, R)
            /\ Ahead({p}, ToSet(coordRx.q), R)
        BY <4>1, <4>2 DEF LineInOrder, Ahead
      <4>10. /\ Ahead(ToSet(executed[i]), {f}, R) /\ Ahead(ToSet(wire[i]), {f}, R)
             /\ Ahead({f}, ToSet(coordRx.q), R) /\ Ahead({f}, ToSet(sendRx'[i].q), R)
        <5>1. ToSet(sendRx'[i].q) \subseteq Packets
          BY <4>2, QueuesType
        <5> QED BY <4>4, <4>5, <4>9, <5>1, QueuesType DEF Ahead
      <4>6. Ordered(wire'[i], R)
        BY <3>1, <4>1, <4>8, <4>10, QueuesType, OrderedAppend DEF LineInOrder
      <4>7. Line(i)
        BY <3>1, <4>1, <4>2, <4>3, <4>4, <4>6, <4>10 DEF LineInOrder, Ahead
      <4> QED BY <1>6, <3>1, <3>3, <4>7
    <3> QED BY <3>2, <3>3
  <2>2. CASE SenderEnd(i)
    <3>1. /\ sendRx'[i] = Subscribed
          /\ \A k \in Inverters : k # i => sendRx'[k] = sendRx[k]
          /\ UNCHANGED <<coordRx, wire, executed>>
      BY <2>2, SenderEndEffect
    <3>2. LineInOrder(j, R)
      BY <1>5
    <3> QED BY <1>6, <1>8, <3>1, <3>2 DEF LineInOrder
  <2>3. CASE ReaderDeliver(i) \/ ReaderEnd(i)
    BY <1>7, <2>3, ReaderDeliverEffect, ReaderEndEffect
  <2>4. CASE DeviceExecute(i)
    <3>0. PICK p \in Packets : Executes(i, p)
      BY <2>4, DeviceExecuteEffect
    <3>1. /\ wire[i] # <<>> /\ p = Head(wire[i]) /\ wire'[i] = Tail(wire[i])
          /\ executed'[i] = executed[i] \/ executed'[i] = Append(executed[i], p)
          /\ \A k \in Inverters : k # i => wire'[k] = wire[k] /\ executed'[k] = executed[k]
          /\ UNCHANGED <<coordRx, sendRx>>
      BY <3>0 DEF Executes
    <3>2. CASE j # i
      <4>1. LineInOrder(j, R)
        BY <1>5
      <4> QED BY <1>6, <3>1, <3>2, <4>1 DEF LineInOrder
    <3>3. CASE j = i
      <4>1. LineInOrder(i, R)
        BY <1>5
      <4>2. ToSet(wire'[i]) \subseteq ToSet(wire[i]) /\ p \in ToSet(wire[i])
        BY <3>1, QueuesType, ToSetTail
      <4>3. ToSet(executed'[i]) \subseteq ToSet(executed[i]) \cup {p}
        <5>1. ToSet(Append(executed[i], p)) = ToSet(executed[i]) \cup {p}
          BY QueuesType, ToSetAppend
        <5> QED BY <3>1, <5>1
      <4>4. Ordered(wire'[i], R) /\ Ahead({p}, ToSet(wire'[i]), R)
        BY <3>1, <4>1, QueuesType, OrderedTail DEF LineInOrder
      <4>5. Ahead(ToSet(executed[i]), {p}, R)
        BY <4>1, <4>2 DEF LineInOrder, Ahead
      <4>6. Ordered(executed'[i], R)
        BY <3>1, <4>1, <4>5, QueuesType, OrderedAppend DEF LineInOrder
      <4>7. Line(i)
        BY <3>1, <4>1, <4>2, <4>3, <4>4, <4>6 DEF LineInOrder, Ahead
      <4> QED BY <1>6, <3>1, <3>3, <4>7
    <3> QED BY <3>2, <3>3
  <2>5. CASE DeviceRefuse(i)
    <3>1. /\ wire[i] # <<>> /\ wire'[i] = Tail(wire[i])
          /\ \A k \in Inverters : k # i => wire'[k] = wire[k]
          /\ UNCHANGED <<coordRx, sendRx, executed>>
      BY <2>5, DeviceRefuseEffect
    <3>2. LineInOrder(j, R)
      BY <1>5
    <3>3. ToSet(wire'[j]) \subseteq ToSet(wire[j])
      BY <3>1, QueuesType, ToSetTail
    <3>4. Ordered(wire'[j], R)
      BY <3>1, <3>2, QueuesType, OrderedTail DEF LineInOrder
    <3> QED BY <1>6, <3>1, <3>2, <3>3, <3>4 DEF LineInOrder, Ahead
  <2> QED BY <1>16, <2>1, <2>2, <2>3, <2>4, <2>5 DEF Transport
<1> QED BY <1>10, <1>11, <1>12, <1>13, <1>14, <1>15, <1>16, <1>17, StepCases

LEMMA OrderShows == TypeOK /\ KindsInPlace /\ InOrder => OrderWithinPath
<1> SUFFICES ASSUME TypeOK, KindsInPlace, InOrder, NEW i \in Inverters,
                    NEW m \in DOMAIN executed[i], NEW n \in DOMAIN executed[i], m < n,
                    executed[i][m].id # 0, executed[i][n].id # 0,
                    SamePath(executed[i][m].id, executed[i][n].id)
             PROVE  executed[i][m].id < executed[i][n].id
  BY DEF OrderWithinPath, SamePath
<1>1. executed[i] \in Seq(Packets) /\ DOMAIN executed[i] = 1..Len(executed[i])
  BY DEF TypeOK
<1>2. <<executed[i][m], executed[i][n]>> \in PathOrder
  BY <1>1 DEF InOrder, LineInOrder, Ordered
<1>3. Writes(executed[i][m]) /\ Writes(executed[i][n])
  BY DEF KindsInPlace, ToSet
<1> QED BY <1>2, <1>3 DEF PathOrder, Rivals

\* Requests that take the same path are executed in the order of their commands, and
\* none twice, whatever the inverters, the commands, the timing and the losses.
THEOREM PathsKeepOrder == Spec => []OrderWithinPath
<1>1. Init => KindsInPlace /\ InOrder
  BY KindsInit, OrderInit
<1>2. TypeOK /\ PacketsInPlace /\ KindsInPlace /\ InOrder /\ [Next]_vars
        => (KindsInPlace /\ InOrder)'
  BY KindsStep, OrderStep
<1> QED BY <1>1, <1>2, OrderShows, TypeCorrect, PacketsStayInPlace, PTL DEF Spec

------------------------------------------------------------------------------
(* What a step adds to the requests on the way to a device, and to what    *)
(* has been told of its registers.                                         *)

Pending(i) == ToSet(wire[i]) \cup ToSet(sendRx[i].q)
Told(i)    == ToSet(back[i]) \cup {p \in ToSet(cmdRx.q) : p.inv = i}

LEMMA MembersType ==
  TypeOK => \A i \in Inverters : Told(i) \subseteq Packets /\ Pending(i) \subseteq Packets
BY QueuesType DEF Told, Pending

LEMMA PendingStep ==
  ASSUME TypeOK, [Next]_vars, NEW i \in Inverters, NEW p \in Pending(i)', p.func = "WriteSingle"
  PROVE  \/ p \in Pending(i)
         \/ LoopForward /\ p \in ToSet(coordRx.q)
         \/ SendWrite /\ p = OwnWrite
<1>1. UNCHANGED <<wire, sendRx>> => p \in Pending(i)
  BY DEF Pending
<1>2. ASSUME NEW q \in Packets, sendRx' = Broadcasted(q), UNCHANGED wire
      PROVE  p \in Pending(i) \/ p = q
  BY <1>2, BroadcastEffect DEF Pending
<1>3. CASE Quiet \/ BeginViaCoordinator \/ Pushed \/ Changed
  BY <1>1, <1>3 DEF Quiet, BeginViaCoordinator, Pushed, Changed, devices
<1>4. CASE LoopForward
  <2>1. PICK h : h = Head(coordRx.q)
    OBVIOUS
  <2>2. /\ HasMessage(coordRx) /\ coordRx \in Receivers(Packets)
        /\ sendRx' = Broadcasted(h) /\ UNCHANGED wire
    BY <1>4, <2>1 DEF LoopForward, devices, TypeOK
  <2>3. h \in ToSet(coordRx.q) /\ h \in Packets
    BY <2>1, <2>2, PoppedFrom, PoppedType
  <2> QED BY <1>2, <1>4, <2>2, <2>3
<1>5. CASE SendRead
  <2>1. PICK q \in Packets : q = OwnRead /\ ~Writes(q)
    BY <1>5, OwnReadType
  <2> QED BY <1>2, <1>5, <2>1 DEF SendRead, devices, Writes
<1>6. CASE SendWrite
  <2>1. PICK q \in Packets : q = OwnWrite
    BY <1>6, OwnWriteType
  <2> QED BY <1>2, <1>6, <2>1 DEF SendWrite, devices
<1>7. ASSUME NEW j \in Inverters, Transport(j) PROVE p \in Pending(i)
  <2>1. CASE SenderWrite(j)
    <3>0. PICK h, f : h = Head(sendRx[j].q) /\ f = Framed(j, h)
      OBVIOUS
    <3>1. /\ sendRx[j].q # <<>> /\ sendRx'[j].q = Tail(sendRx[j].q)
          /\ wire'[j] = Append(wire[j], f)
          /\ \A k \in Inverters : k # j => sendRx'[k] = sendRx[k] /\ wire'[k] = wire[k]
      BY <2>1, <3>0, SenderWriteEffect
    <3>2. ToSet(sendRx'[j].q) \subseteq ToSet(sendRx[j].q) /\ h \in ToSet(sendRx[j].q)
      BY <3>0, <3>1, QueuesType, ToSetTail
    <3>3. f \in Packets /\ (f.func = "WriteSingle" => f = h)
      BY <3>0, <3>2, QueuesType, FramedType
    <3>4. ToSet(wire'[j]) = ToSet(wire[j]) \cup {f}
      BY <3>1, <3>3, QueuesType, ToSetAppend
    <3> QED BY <3>1, <3>2, <3>3, <3>4 DEF Pending
  <2>2. CASE SenderEnd(j)
    BY <2>2, SenderEndEffect, SubscribedType DEF Pending
  <2>3. CASE ReaderDeliver(j) \/ ReaderEnd(j)
    BY <1>1, <2>3, ReaderDeliverEffect, ReaderEndEffect
  <2>4. CASE DeviceExecute(j) \/ DeviceRefuse(j)
    <3>1. /\ wire[j] # <<>> /\ wire'[j] = Tail(wire[j])
          /\ \A k \in Inverters : k # j => wire'[k] = wire[k]
          /\ UNCHANGED sendRx
      <4>1. CASE DeviceExecute(j)
        <5>1. PICK q \in Packets : Executes(j, q)
          BY <4>1, DeviceExecuteEffect
        <5> QED BY <5>1 DEF Executes
      <4> QED BY <2>4, <4>1, DeviceRefuseEffect
    <3>2. ToSet(wire'[j]) \subseteq ToSet(wire[j])
      BY <3>1, QueuesType, ToSetTail
    <3> QED BY <3>1, <3>2 DEF Pending
  <2> QED BY <1>7, <2>1, <2>2, <2>3, <2>4 DEF Transport
<1> QED BY <1>3, <1>4, <1>5, <1>6, <1>7, StepCases

\* Device i does nothing that shows, but may tell what a register holds; it is changed
\* by somebody else; or it executes a request and may answer it.
Unmoved(i) ==
  /\ executed'[i] = executed[i] /\ regs'[i] = regs[i]
  /\ \A p \in Told(i)' :
       \/ p \in Told(i)
       \/ p.func # "WriteSingle" /\ (p.func = "ReadHold" => p.val = regs[i][p.reg])

ChangedAt(i) ==
  /\ changes' > 0
  /\ ToSet(executed[i]) \subseteq ToSet(executed'[i])
  /\ \A p \in ToSet(executed'[i]) : p \in ToSet(executed[i]) \/ p.id = 0
  /\ \A p \in Told(i)' : p \in Told(i) \/ p \in ToSet(executed'[i])

Answered(i, q) ==
  /\ Executes(i, q)
  /\ \A p \in Told(i)' : p \in Told(i) \/ \E v \in Values :
       /\ p = Answer(q, v)
       /\ ~Writes(q) => v = regs[i][q.reg]
       /\ q.func = "WriteSingle" => v = q.val

LEMMA DeviceStep ==
  ASSUME TypeOK, KindsInPlace, [Next]_vars, NEW i \in Inverters
  PROVE  Unmoved(i) \/ ChangedAt(i) \/ \E q \in ToSet(wire[i]) : Answered(i, q)
<1>1. /\ \A j \in Inverters : \A p \in ToSet(back[j]) : p.inv = j
      /\ ToSet(<<>>) = {} /\ ToSet(Subscribed.q) = {}
  BY NothingIn, SubscribedType DEF KindsInPlace
<1>2. UNCHANGED <<executed, regs, back, cmdRx>> => Unmoved(i)
  BY DEF Unmoved, Told
<1>3. CASE Quiet
  <2>1. ToSet(cmdRx'.q) \subseteq ToSet(cmdRx.q)
    <3>1. cmdRx \in Receivers(Packets)
      BY DEF TypeOK
    <3> QED BY <1>1, <1>3, <3>1, PoppedFrom DEF Quiet
  <2> QED BY <1>3, <2>1 DEF Quiet, Unmoved, Told
<1>4. CASE LoopForward
  BY <1>2, <1>4 DEF LoopForward, handler, devices
<1>5. CASE BeginViaCoordinator \/ SendRead
  BY <1>1, <1>5 DEF BeginViaCoordinator, SendRead, devices, Unmoved, Told
<1>6. CASE SendWrite
  <2>1. ToSet(cmdRx'.q) \subseteq ToSet(cmdRx.q)
    <3>1. cmdRx \in Receivers(Packets)
      BY DEF TypeOK
    <3> QED BY <1>6, <3>1, PoppedFrom DEF SendWrite
  <2> QED BY <1>6, <2>1 DEF SendWrite, devices, Unmoved, Told
<1>7. CASE Pushed
  <2>1. /\ executed' = executed /\ regs' = regs /\ cmdRx' = cmdRx
        /\ \/ back'[i] = back[i]
           \/ \E p \in Packets : /\ p.func # "WriteSingle" /\ p.val = regs[i][p.reg]
                                 /\ back'[i] = Append(back[i], p)
    BY <1>7 DEF Pushed, handler
  <2>2. \A p \in Packets : ToSet(Append(back[i], p)) = ToSet(back[i]) \cup {p}
    BY QueuesType, ToSetAppend
  <2>3. \A p \in ToSet(back'[i]) :
          p \in ToSet(back[i]) \/ (p.func # "WriteSingle" /\ p.val = regs[i][p.reg])
    BY <2>1, <2>2
  <2> QED BY <2>1, <2>3 DEF Unmoved, Told
<1>9. CASE Changed
  <2>1. changes' > 0 /\ cmdRx' = cmdRx
    BY <1>9 DEF Changed, handler
  <2>2. CASE executed'[i] = executed[i] /\ back'[i] = back[i]
    BY <2>1, <2>2 DEF ChangedAt, Told
  <2>3. ASSUME NEW q \in OthersWrites, executed'[i] = Append(executed[i], q),
               back'[i] = back[i] \/ back'[i] = Append(back[i], q)
        PROVE  ChangedAt(i)
    <3>1. q \in Packets /\ q.id = 0
      BY DEF OthersWrites
    <3>2. \A s \in Seq(Packets) : ToSet(Append(s, q)) = ToSet(s) \cup {q}
      BY <3>1, ToSetAppend
    <3>3. executed[i] \in Seq(Packets) /\ back[i] \in Seq(Packets)
      BY QueuesType
    <3>4. /\ ToSet(executed'[i]) = ToSet(executed[i]) \cup {q}
          /\ ToSet(back'[i]) \subseteq ToSet(back[i]) \cup {q}
      BY <2>3, <3>2, <3>3
    <3> QED BY <2>1, <3>1, <3>4 DEF ChangedAt, Told
  <2> QED BY <1>9, <2>2, <2>3 DEF Changed
<1>8. ASSUME NEW j \in Inverters, Transport(j)
      PROVE  Unmoved(i) \/ \E q \in ToSet(wire[i]) : Answered(i, q)
  <2>1. CASE SenderWrite(j)
    BY <1>2, <2>1, SenderWriteEffect DEF handler
  <2>2. CASE SenderEnd(j)
    BY <1>2, <2>2, SenderEndEffect DEF handler
  <2>3. CASE ReaderDeliver(j)
    <3>1. /\ back[j] # <<>> /\ back'[j] = Tail(back[j])
          /\ cmdRx' = cmdRx \/ cmdRx' = Push(cmdRx, Head(back[j]))
          /\ \A k \in Inverters : k # j => back'[k] = back[k]
          /\ UNCHANGED <<regs, executed>>
      BY <2>3, ReaderDeliverEffect
    <3>2. ToSet(back'[j]) \subseteq ToSet(back[j]) /\ Head(back[j]) \in ToSet(back[j])
      BY <3>1, QueuesType, ToSetTail
    <3>3. ToSet(cmdRx'.q) \subseteq ToSet(cmdRx.q) \cup {Head(back[j])}
      <4>1. cmdRx \in Receivers(Packets) /\ Head(back[j]) \in Packets
        BY <3>2, QueuesType DEF TypeOK
      <4> QED BY <3>1, <4>1, PushMembers
    <3>4. \A p \in Told(i)' : p \in Told(i)
      BY <1>1, <3>1, <3>2, <3>3 DEF Told
    <3> QED BY <3>1, <3>4 DEF Unmoved
  <2>4. CASE ReaderEnd(j)
    <3>1. Told(i)' \subseteq Told(i) /\ UNCHANGED <<regs, executed>>
      BY <1>1, <2>4, ReaderEndEffect DEF Told, handler
    <3> QED BY <3>1 DEF Unmoved
  <2>5. CASE DeviceExecute(j)
    <3>1. PICK q \in Packets : Executes(j, q)
      BY <2>5, DeviceExecuteEffect
    <3>2. CASE j # i
      <4>1. UNCHANGED <<executed[i], regs[i], back[i], cmdRx>>
        BY <3>1, <3>2 DEF Executes, handler
      <4> QED BY <4>1 DEF Unmoved, Told
    <3>3. CASE j = i
      <4>1. q \in ToSet(wire[i])
        BY <3>1, <3>3, QueuesType, ToSetTail DEF Executes
      <4>2. cmdRx' = cmdRx
        BY <3>1 DEF Executes, handler
      <4>3. CASE back'[i] = back[i]
        BY <3>1, <3>3, <4>1, <4>2, <4>3 DEF Answered, Told
      <4>4. ASSUME NEW v \in Values, back'[i] = Append(back[i], Answer(q, v)),
                   ~Writes(q) => v = regs[i][q.reg], q.func = "WriteSingle" => v = q.val
            PROVE  Answered(i, q)
        <5>1. ToSet(back'[i]) = ToSet(back[i]) \cup {Answer(q, v)}
          BY <4>4, AnswerType, QueuesType, ToSetAppend
        <5> QED BY <3>1, <3>3, <4>2, <4>4, <5>1 DEF Answered, Told
      <4> QED BY <3>1, <3>3, <4>1, <4>3, <4>4 DEF Executes
    <3> QED BY <3>2, <3>3
  <2>6. CASE DeviceRefuse(j)
    <3>1. /\ \/ back'[j] = back[j]
             \/ \E p \in Packets : p.func = "Error" /\ back'[j] = Append(back[j], p)
          /\ \A k \in Inverters : k # j => back'[k] = back[k]
          /\ UNCHANGED <<cmdRx, regs, executed>>
      BY <2>6, DeviceRefuseEffect DEF handler
    <3>2. \A p \in Packets : ToSet(Append(back[j], p)) = ToSet(back[j]) \cup {p}
      BY QueuesType, ToSetAppend
    <3>3. \A p \in ToSet(back'[i]) : p \in ToSet(back[i]) \/ p.func = "Error"
      BY <3>1, <3>2
    <3> QED BY <3>1, <3>3 DEF Unmoved, Told
  <2> QED BY <1>8, <2>1, <2>2, <2>3, <2>4, <2>5, <2>6 DEF Transport
<1> QED BY <1>3, <1>4, <1>5, <1>6, <1>7, <1>8, <1>9, StepCases

------------------------------------------------------------------------------
(* What is reported as done has been done: an echo of a write is only ever *)
(* the answer to a write that has been executed.                           *)

Echo(p) == p.func = "WriteSingle" =>
             \E q \in ToSet(executed[p.inv]) :
               q.func = p.func /\ q.reg = p.reg /\ q.val = p.val /\ q.id = p.id

Echoed ==
  /\ loop = "write" => Shows(want, cmd)
  /\ \A i \in Inverters : \A p \in Told(i) : Echo(p)


\* The write of an UpdateHold is waited for from the step that sends it on.
LEMMA WaitsForWrite ==
  ASSUME TypeOK, [Next]_vars, loop' = "write"
  PROVE  SendWrite \/ (loop = "write" /\ UNCHANGED <<cmd, todo, want, outcome>>)
<1> USE DEF handler
<1>1. CASE LoopStep
  <2>1. ASSUME loop \notin {"select", "exited"}, Succeed \/ Fail \/ LoopPanic
        PROVE  FALSE
    BY <2>1, LeaveLimits
  <2>2. CASE LoopMqtt \/ LoopMqttLagged \/ LoopForward \/ LoopInverter \/ LoopExit
    BY <2>2 DEF LoopMqtt, LoopMqttLagged, LoopForward, LoopInverter, LoopExit
  <2>3. CASE BeginUnparsed \/ BeginViaCoordinator \/ SkipPacket
    BY <2>3 DEF BeginUnparsed, BeginViaCoordinator, SkipPacket, Leave
  <2>4. CASE BeginRejected \/ ReplyToCommand \/ LoopPanic \/ GiveUp
    <3>1. loop \notin {"select", "exited"} /\ (Succeed \/ Fail \/ LoopPanic)
      BY <2>4, Zenon DEF BeginRejected, ReplyToCommand, LoopPanic, GiveUp, Waiting
    <3> QED BY <2>1, <3>1
  <2>5. CASE BeginUpdateHold
    <3>1. loop = "begin" /\ (loop' = "read" \/ Fail)
      BY <2>5, Zenon DEF BeginUpdateHold
    <3> QED BY <2>1, <3>1
  <2>6. CASE ReplyToRead
    <3>1. CASE ToInverterOpen
      BY <2>6, <3>1, Zenon DEF ReplyToRead, SendWrite, OwnWrite
    <3>2. CASE ~ToInverterOpen
      <4>1. loop = "read" /\ Fail
        BY <2>6, <3>2, Zenon DEF ReplyToRead
      <4> QED BY <2>1, <4>1
    <3> QED BY <3>1, <3>2
  <2> QED BY <1>1, <2>2, <2>3, <2>4, <2>5, <2>6, Zenon DEF LoopStep
<1>2. ASSUME NEW i \in Inverters, Connection(i)
      PROVE  UNCHANGED <<loop, cmd, todo, want, outcome>>
  BY <1>2 DEF Connection, SenderWrite, SenderEnd, ReaderDeliver, ReaderEnd
<1>3. CASE Environment
  BY <1>3, EnvironmentStep DEF handler
<1>4. CASE UNCHANGED vars
  BY <1>4 DEF vars
<1> QED BY <1>1, <1>2, <1>3, <1>4 DEF Next

\* What has ended stays as it ended.
LEMMA OutcomeKept ==
  ASSUME TypeOK, [Next]_vars, NEW n \in DOMAIN outcome
  PROVE  /\ n \in DOMAIN outcome' /\ outcome'[n] = outcome[n]
         /\ n \in 1..Len(outcome) /\ n <= WritesUpTo
<1>1. Len(outcome) \in Nat /\ DOMAIN outcome = 1..Len(outcome)
  BY DEF TypeOK
<1>2. n \in 1..Len(outcome) /\ n <= WritesUpTo
  BY <1>1, WritesUpToKept
<1> QED BY <1>1, <1>2, LeaveLimits, StepShape

LEMMA UpdatedShows ==
  ASSUME NEW v
  PROVE  Shows(Updated(v), cmd)
BY DEF Updated, Shows

LEMMA EchoedInit == Init => Echoed
<1> SUFFICES ASSUME Init PROVE Echoed
  OBVIOUS
<1>1. \A i \in Inverters : Told(i) = {}
  BY NothingIn, SubscribedType DEF Init, Told
<1> QED BY <1>1 DEF Init, Echoed

LEMMA ToldFrom ==
  ASSUME KindsInPlace, NEW i \in Inverters, NEW p \in Told(i)
  PROVE  p.inv = i
BY DEF KindsInPlace, Told

LEMMA KindsNext ==
  ASSUME TypeOK, PacketsInPlace, KindsInPlace, [Next]_vars
  PROVE  TypeOK' /\ PacketsInPlace' /\ KindsInPlace'
BY NextType, NextPlaces, KindsStep

\* Device i executes writes, and never undoes one.
LEMMA ExecutedGrows ==
  ASSUME TypeOK, KindsInPlace, [Next]_vars, NEW i \in Inverters
  PROVE  /\ ToSet(executed[i]) \subseteq ToSet(executed'[i])
         /\ \A p \in ToSet(executed'[i]) :
              p \in ToSet(executed[i]) \/ p \in Pending(i) \/ p.id = 0
<1>1. CASE Unmoved(i) \/ ChangedAt(i)
  BY <1>1 DEF Unmoved, ChangedAt
<1>2. ASSUME NEW q \in ToSet(wire[i]), Answered(i, q)
      PROVE  ToSet(executed'[i]) = ToSet(executed[i])
             \/ ToSet(executed'[i]) = ToSet(executed[i]) \cup {q}
  <2>1. q \in Packets
    BY QueuesType
  <2>2. ToSet(Append(executed[i], q)) = ToSet(executed[i]) \cup {q}
    BY <2>1, QueuesType, ToSetAppend
  <2> QED BY <1>2, <2>2 DEF Answered, Executes
<1> QED BY <1>1, <1>2, DeviceStep DEF Pending

LEMMA EchoedStep ==
  ASSUME TypeOK, PacketsInPlace, KindsInPlace, Echoed, [Next]_vars
  PROVE  Echoed'
<1>1. (loop = "write" => Shows(want, cmd))'
  <2>1. CASE SendWrite
    <3>1. want' = Updated(Head(cmdRx.q).val) /\ cmd' = cmd
      BY <2>1 DEF SendWrite
    <3> QED BY <3>1, UpdatedShows
  <2>2. CASE loop = "write" /\ UNCHANGED <<cmd, want>>
    BY <2>2 DEF Echoed
  <2> QED BY <2>1, <2>2, WaitsForWrite
<1>2. ASSUME NEW i \in Inverters, NEW p \in Told(i)' PROVE Echo(p)'
  <2>1. p.inv = i
    BY KindsNext DEF KindsInPlace, Told
  <2>2. p \in Told(i) => Echo(p)'
    BY <2>1, ExecutedGrows DEF Echoed, Echo
  <2>3. CASE Unmoved(i) \/ ChangedAt(i)
    BY <2>1, <2>2, <2>3 DEF Unmoved, ChangedAt, Echo
  <2>4. ASSUME NEW q \in ToSet(wire[i]), Answered(i, q), p \notin Told(i)
        PROVE  Echo(p)'
    <3>1. q \in Packets
      BY QueuesType
    <3>2. PICK v \in Values : p = Answer(q, v) /\ (q.func = "WriteSingle" => v = q.val)
      BY <2>4 DEF Answered
    <3>3. ToSet(Append(executed[i], q)) = ToSet(executed[i]) \cup {q}
      BY <3>1, QueuesType, ToSetAppend
    <3>4. q.func = "WriteSingle" => q \in ToSet(executed'[i])
      BY <2>4, <3>3 DEF Answered, Executes, Writes
    <3>5. /\ p.val = v /\ p.func = q.func /\ p.reg = q.reg /\ p.id = q.id
      BY <3>1, <3>2, AnswerType
    <3> QED BY <2>1, <3>2, <3>4, <3>5 DEF Echo
  <2> QED BY <2>2, <2>3, <2>4, DeviceStep
<1> QED BY <1>1, <1>2 DEF Echoed

\* The reply a SetHold or UpdateHold ends well with is the echo of a write.
LEMMA OwnEcho ==
  ASSUME TypeOK, PacketsInPlace, KindsInPlace, Echoed, [Next]_vars,
         NEW n \in DOMAIN outcome', n \notin DOMAIN outcome,
         outcome'[n].result = "ok", cmd.kind \in {"SetHold", "UpdateHold"}
  PROVE  /\ Head(cmdRx.q) \in Told(Current) /\ Head(cmdRx.q).func = "WriteSingle"
         /\ Head(cmdRx.q).reg = cmd.reg /\ Head(cmdRx.q).id <= n
         /\ cmd.kind = "UpdateHold" => loop = "write" /\ Shows(Head(cmdRx.q).val, cmd)
         /\ cmd.kind = "SetHold" => Head(cmdRx.q).val = cmd.val
         /\ Current \in Inverters
<1>1. /\ n = CurrentId /\ loop \in {"reply", "write"} /\ loop \notin {"select", "exited"}
      /\ HasMessage(cmdRx) /\ Replies(Head(cmdRx.q)) /\ Accepts(Head(cmdRx.q).val)
  BY NewOutcome
<1>2. PICK p : p = Head(cmdRx.q)
  OBVIOUS
<1>3. p \in ToSet(cmdRx.q) /\ p.inv = Current /\ p.reg = cmd.reg
  <2>1. cmdRx \in Receivers(Packets)
    BY DEF TypeOK
  <2> QED BY <1>1, <1>2, <2>1, PoppedFrom DEF Replies
<1>4. (cmd.kind = "UpdateHold" <=> loop = "write") /\ p.func = "WriteSingle"
  <2>1. loop = "write" => cmd.kind = "UpdateHold"
    BY DEF PacketsInPlace
  <2>2. loop = "reply" => cmd.kind = "SetHold"
    BY DEF KindsInPlace, ViaCoordinator
  <2>3. p.func = IF loop = "write" THEN "WriteSingle" ELSE Function(cmd.kind)
    BY <1>1, <1>2 DEF Replies
  <2> QED BY <1>1, <2>1, <2>2, <2>3 DEF Function
<1>5. p.id <= n
  <2>1. p.id <= ForwardedUpTo /\ p.id \in Nat
    BY <1>3, PlacedIds DEF Answers, Packets
  <2>2. ForwardedUpTo \in Nat /\ ForwardedUpTo <= CurrentId /\ CurrentId \in Nat
    BY DEF ForwardedUpTo, CurrentId, TypeOK
  <2> QED BY <1>1, <2>1, <2>2
<1>6. /\ cmd.kind = "UpdateHold" => Shows(p.val, cmd)
      /\ cmd.kind = "SetHold" => p.val = cmd.val
  BY <1>1, <1>2, <1>4 DEF Accepts, Echoed
<1>7. Current \in Inverters
  BY <1>1, CurrentType
<1> QED BY <1>2, <1>3, <1>4, <1>5, <1>6, <1>7 DEF Told

LEMMA OkStep ==
  ASSUME TypeOK, PacketsInPlace, KindsInPlace, Echoed, OkMeansWritten, [Next]_vars
  PROVE  OkMeansWritten'
<1> DEFINE Did(q, n, c) ==
             /\ q.func = "WriteSingle" /\ q.reg = c.reg /\ q.id <= n
             /\ IF c.kind = "SetHold" THEN q.val = c.val
                ELSE IF c.enable THEN c.val \subseteq q.val ELSE c.val \cap q.val = {}
           Written(n) == outcome[n].result = "ok" /\ outcome[n].cmd.kind \in {"SetHold", "UpdateHold"}
                           => \E q \in ToSet(executed[outcome[n].inv]) : Did(q, n, outcome[n].cmd)
<1>1. \A n \in DOMAIN outcome : Written(n)
  BY DEF OkMeansWritten
<1>2. SUFFICES ASSUME NEW n \in DOMAIN outcome', outcome'[n].result = "ok",
                      outcome'[n].cmd.kind \in {"SetHold", "UpdateHold"}
               PROVE  \E q \in ToSet(executed'[outcome'[n].inv]) : Did(q, n, outcome'[n].cmd)
  BY DEF OkMeansWritten
<1> HIDE DEF Did
<1>3. CASE n \in DOMAIN outcome
  <2>1. outcome'[n] = outcome[n] /\ outcome[n].inv \in Inverters
    <3>1. outcome[n] \in Ended
      BY <1>3 DEF TypeOK
    <3> QED BY <1>3, <3>1, OutcomeKept DEF Ended
  <2>2. \E q \in ToSet(executed[outcome[n].inv]) : Did(q, n, outcome[n].cmd)
    BY <1>1, <1>2, <1>3, <2>1
  <2> QED BY <2>1, <2>2, ExecutedGrows
<1>4. CASE n \notin DOMAIN outcome
  <2>1. outcome'[n].cmd = cmd /\ outcome'[n].inv = Current /\ executed' = executed
    BY <1>2, <1>4, NewOutcome DEF devices
  <2>2. PICK p : p = Head(cmdRx.q)
    OBVIOUS
  <2>3. /\ p \in Told(Current) /\ p.func = "WriteSingle" /\ p.reg = cmd.reg /\ p.id <= n
        /\ cmd.kind = "UpdateHold" => Shows(p.val, cmd)
        /\ cmd.kind = "SetHold" => p.val = cmd.val
        /\ Current \in Inverters /\ p.inv = Current
    BY <1>2, <1>4, <2>1, <2>2, OwnEcho, ToldFrom
  <2>4. PICK q \in ToSet(executed[Current]) :
           q.func = p.func /\ q.reg = p.reg /\ q.val = p.val /\ q.id = p.id
    BY <2>3 DEF Echoed, Echo
  <2>5. Did(q, n, cmd)
    BY <1>2, <2>1, <2>3, <2>4 DEF Did, Shows
  <2> QED BY <2>1, <2>4, <2>5
<1> QED BY <1>3, <1>4

\* A SetHold or UpdateHold is reported as done only when the device has executed a
\* write of that register that did what it asked.
THEOREM OkIsWritten == Spec => []OkMeansWritten
<1>1. Init => KindsInPlace /\ Echoed /\ OkMeansWritten
  <2>1. Init => OkMeansWritten
    BY DEF Init, OkMeansWritten
  <2> QED BY <2>1, KindsInit, EchoedInit
<1>2. TypeOK /\ PacketsInPlace /\ KindsInPlace /\ Echoed /\ OkMeansWritten /\ [Next]_vars
        => (KindsInPlace /\ Echoed /\ OkMeansWritten)'
  BY KindsStep, EchoedStep, OkStep
<1> QED BY <1>1, <1>2, TypeCorrect, PacketsStayInPlace, PTL DEF Spec

------------------------------------------------------------------------------
(* What has been told of a register, what is on the way to it, and what it *)
(* holds, as long as nobody but the bridge writes it.                      *)

Tells(p, i, r) == p.inv = i /\ p.reg = r /\ p.func \in {"ReadHold", "WriteSingle"}
Sets(p, i, r)  == p.inv = i /\ p.reg = r /\ p.func = "WriteSingle"

\* Commands up to n leave the bits B of register r alone, but for command own.
LeftAlone(n, own, i, r, B) == \A m \in (1..n) \ {own} : ~Overwrites(m, i, r, B)

\* Every value told of, written to or held by register r passes the test of V.
Agree(i, r, V) ==
  /\ regs[i][r] \in V
  /\ \A p \in Told(i) : Tells(p, i, r) => p.val \in V
  /\ \A p \in Pending(i) : Sets(p, i, r) => p.val \in V

\* The values with the same bits of B as v; those that show what c asked for.
Like(v, B)  == {w \in Values : w \cap B = v \cap B}
Showing(c) == {w \in Values : Shows(w, c)}

\* A register nobody has written shows one value in its bits B everywhere.
Steady ==
  \A i \in Inverters, r \in Registers, B \in Values :
    LeftAlone(WritesUpTo, 0, i, r, B) => Agree(i, r, Like(regs[i][r], B))

\* Once an UpdateHold is done, everything shows it, until its bits are written again.
Settled ==
  \A n \in DOMAIN outcome : Acknowledged(n) =>
    LET e == outcome[n]
    IN LeftAlone(WritesUpTo, n, e.inv, e.cmd.reg, e.cmd.val)
         => Agree(e.inv, e.cmd.reg, Showing(e.cmd))

\* And so does every write of a later command until then.
KeptBy(n, i, r, c) ==
  \A p \in Sent(i) :
    Sets(p, i, r) /\ p.id > n /\ LeftAlone(p.id, n, i, r, c.val) => Shows(p.val, c)

Kept ==
  \A n \in DOMAIN outcome : Acknowledged(n) =>
    KeptBy(n, outcome[n].inv, outcome[n].cmd.reg, outcome[n].cmd)

\* A set of values that writes to other bits than B do not leave.
Closed(V, B) == \A v \in V, d \in SUBSET (Bits \ B) :
                  v \cup d \in V /\ v \ d \in V

LEMMA ClosedSets ==
  /\ \A v, B : Closed(Like(v, B), B)
  /\ \A c \in Command : Closed(Showing(c), c.val)
BY DEF Closed, Like, Showing, Shows, Command, Values

LEMMA LeftAloneKept ==
  ASSUME TypeOK, PacketsInPlace, [Next]_vars, NEW own, NEW i, NEW r, NEW B,
         LeftAlone(WritesUpTo, own, i, r, B)'
  PROVE  LeftAlone(WritesUpTo, own, i, r, B)
<1>1. ASSUME NEW m \in 1..WritesUpTo PROVE Overwrites(m, i, r, B)' <=> Overwrites(m, i, r, B)
  <2>1. m \in 1..RequestedUpTo
    BY WritesUpToKept, NumbersKept
  <2> QED BY <2>1, NumbersKept DEF Overwrites
<1> QED BY <1>1, WritesUpToKept DEF LeftAlone

\* Agreement is lost only to a write of the register's bits.
LEMMA AgreeKept ==
  ASSUME TypeOK, PacketsInPlace, KindsInPlace, [Next]_vars, changes' = 0,
         NEW i \in Inverters, NEW r \in Registers, NEW B \in Values, NEW own,
         own \in DOMAIN outcome => outcome[own].cmd.kind = "UpdateHold",
         own \notin DOMAIN outcome => own = 0,
         LeftAlone(WritesUpTo, own, i, r, B)',
         NEW V, V \subseteq Values, Closed(V, B), Agree(i, r, V)
  PROVE  Agree(i, r, V)'
<1>1. LeftAlone(WritesUpTo, own, i, r, B)
  BY LeftAloneKept
<1>2. ASSUME NEW p \in Pending(i)', Sets(p, i, r) PROVE p.val \in V
  <2>1. CASE p \in Pending(i)
    BY <1>2, <2>1 DEF Agree
  <2>2. CASE LoopForward /\ p \in ToSet(coordRx.q)
    <3>1. p \in Requests(RequestedUpTo) /\ RequestedUpTo = Len(outcome) /\ WritesUpTo = Len(outcome)
          /\ Len(outcome) \in Nat /\ DOMAIN outcome = 1..Len(outcome)
      BY <2>2, PlacedIds DEF LoopForward, RequestedUpTo, WritesUpTo, Waiting, TypeOK
    <3>2. p.id \in 1..Len(outcome) /\ InverterOf(p.id) = i /\ CommandOf(p.id).reg = r
      BY <1>2, <3>1 DEF Requests, Asked, Stray, Sets
    <3>3. CommandOf(p.id).kind = "SetHold"
      BY <1>2, <2>2 DEF KindsInPlace, Sets, Function, ViaCoordinator
    <3>4. p.id # own
      BY <3>1, <3>2, <3>3 DEF CommandOf
    <3>5. Overwrites(p.id, i, r, B)
      BY <3>2, <3>3 DEF Overwrites
    <3> QED BY <1>1, <3>1, <3>2, <3>4, <3>5 DEF LeftAlone
  <2>3. CASE SendWrite /\ p = OwnWrite
    <3>1. PICK h : h = Head(cmdRx.q)
      OBVIOUS
    <3>2. /\ h \in Packets /\ h.inv = Current /\ h.reg = cmd.reg
          /\ h.func = "ReadHold" /\ h \in ToSet(cmdRx.q) /\ cmd.kind = "UpdateHold"
      <4>1. cmdRx \in Receivers(Packets)
        BY DEF TypeOK
      <4>2. cmd.kind = "UpdateHold" /\ HasMessage(cmdRx) /\ Replies(h) /\ loop = "read"
        BY <2>3, <3>1 DEF SendWrite, PacketsInPlace
      <4> QED BY <2>3, <3>1, <4>1, <4>2, PoppedFrom, OwnWriteType DEF Replies, Function
    <3>3. p.inv = Current /\ p.reg = cmd.reg /\ p.val = Updated(h.val)
      BY <2>3, <3>1 DEF OwnWrite, Pkt
    <3>4. Tells(h, i, r) /\ h \in Told(i)
      BY <1>2, <3>2, <3>3 DEF Told, Tells, Sets
    <3>5. h.val \in V
      BY <3>4 DEF Agree
    <3>6. cmd.val \cap B = {}
      <4>0. PICK n : n = CurrentId
        OBVIOUS
      <4>1. /\ WritesUpTo' = n /\ n \in Nat \ {0} /\ n \notin DOMAIN outcome
            /\ UNCHANGED <<cmd, todo, outcome>>
        BY <2>3, <4>0 DEF SendWrite, WritesUpTo, CurrentId, TypeOK
      <4>2. InverterOf(n)' = Current /\ CommandOf(n)' = cmd
        BY <4>1 DEF InverterOf, CommandOf, Current
      <4>3. n \in (1..WritesUpTo') \ {own}
        BY <4>1
      <4>4. ~Overwrites(n, i, r, B)'
        BY <4>3 DEF LeftAlone
      <4> QED BY <1>2, <3>2, <3>3, <4>2, <4>4 DEF Overwrites, Sets
    <3>7. cmd.val \in SUBSET (Bits \ B)
      BY <3>6 DEF TypeOK, Command, Values
    <3> QED BY <3>3, <3>5, <3>7 DEF Updated, Closed
  <2> QED BY <1>2, <2>1, <2>2, <2>3, PendingStep DEF Sets
<1>5. ~ChangedAt(i)
  BY DEF ChangedAt
<1>3. CASE Unmoved(i)
  <2>1. regs'[i][r] \in V
    BY <1>3 DEF Unmoved, Agree
  <2>2. \A p \in Told(i)' : Tells(p, i, r) => p.val \in V
    BY <1>3 DEF Unmoved, Agree, Tells
  <2> QED BY <1>2, <2>1, <2>2 DEF Agree
<1>4. ASSUME NEW q \in ToSet(wire[i]), Answered(i, q) PROVE Agree(i, r, V)'
  <2>1. q \in Packets /\ q \in Pending(i) /\ q.inv = i /\ q.reg \in Registers /\ q.val \in Values
    BY <1>4, QueuesType DEF Pending, Answered, Executes, Packets
  <2>2. regs[i] \in [Registers -> Values]
    BY DEF TypeOK
  <2>3. Sets(q, i, r) => q.val \in V
    BY <2>1 DEF Agree
  <2>4. regs'[i][r] = IF Sets(q, i, r) THEN q.val ELSE regs[i][r]
    BY <1>4, <2>1, <2>2 DEF Answered, Executes, Sets
  <2>5. ASSUME NEW p \in Told(i)', Tells(p, i, r) PROVE p.val \in V
    <3>1. CASE p \in Told(i)
      BY <2>5, <3>1 DEF Agree
    <3>2. ASSUME NEW v \in Values, p = Answer(q, v), ~Writes(q) => v = regs[i][q.reg],
                 q.func = "WriteSingle" => v = q.val
          PROVE  p.val \in V
      <4>1. p.val = v /\ p.func = q.func /\ p.reg = q.reg
        BY <2>1, <3>2, AnswerType
      <4>2. CASE q.func = "WriteSingle"
        BY <2>1, <2>3, <2>5, <3>2, <4>1, <4>2 DEF Tells, Sets
      <4>3. CASE q.func = "ReadHold"
        BY <2>5, <3>2, <4>1, <4>3 DEF Tells, Writes, Agree
      <4> QED BY <2>5, <4>1, <4>2, <4>3 DEF Tells
    <3> QED BY <1>4, <3>1, <3>2 DEF Answered
  <2> QED BY <1>2, <2>3, <2>4, <2>5 DEF Agree
<1> QED BY <1>3, <1>4, <1>5, DeviceStep

LEMMA SteadyStep ==
  ASSUME TypeOK, PacketsInPlace, KindsInPlace, Steady, [Next]_vars, changes' = 0
  PROVE  Steady'
<1> SUFFICES ASSUME NEW i \in Inverters, NEW r \in Registers, NEW B \in Values,
                    LeftAlone(WritesUpTo, 0, i, r, B)'
             PROVE  Agree(i, r, Like(regs[i][r], B))'
  BY DEF Steady
<1>1. PICK V : V = Like(regs[i][r], B)
  OBVIOUS
<1>2. Agree(i, r, V)
  BY <1>1, LeftAloneKept DEF Steady
<1>3. V \subseteq Values /\ Closed(V, B)
  BY <1>1, ClosedSets DEF Like
<1>4. 0 \notin DOMAIN outcome
  BY DEF TypeOK
<1>5. Agree(i, r, V)'
  BY <1>2, <1>3, <1>4, AgreeKept
<1>6. V = Like(regs'[i][r], B)
  <2>1. regs'[i][r] \in V
    BY <1>5 DEF Agree
  <2> QED BY <1>1, <2>1 DEF Like
<1> QED BY <1>5, <1>6 DEF Agree

------------------------------------------------------------------------------
(* While an UpdateHold waits for the echo of its write, a register changes *)
(* over to what the command asked for once, all along the line: after one  *)
(* value that shows it, no older value comes.                              *)

RepliesSwitch(i, r, c) ==
  {ab \in Packets \X Packets :
     Tells(ab[1], i, r) /\ Tells(ab[2], i, r) /\ Shows(ab[1].val, c) => Shows(ab[2].val, c)}

WritesSwitch(i, r, c) ==
  {ab \in Packets \X Packets :
     Sets(ab[1], i, r) /\ Sets(ab[2], i, r) /\ Shows(ab[1].val, c) => Shows(ab[2].val, c)}

\* From a packet on that shows what c asked for, the whole way shows it.
Along(i, r, c) ==
  /\ Ordered(cmdRx.q, RepliesSwitch(i, r, c)) /\ Ordered(back[i], RepliesSwitch(i, r, c))
  /\ Ahead(ToSet(cmdRx.q), ToSet(back[i]), RepliesSwitch(i, r, c))
  /\ \A p \in ToSet(cmdRx.q) \cup ToSet(back[i]) :
       Tells(p, i, r) /\ Shows(p.val, c) => Shows(regs[i][r], c)
  /\ \A p \in Pending(i) : Shows(regs[i][r], c) /\ Sets(p, i, r) => Shows(p.val, c)
  /\ Ordered(wire[i], WritesSwitch(i, r, c)) /\ Ordered(sendRx[i].q, WritesSwitch(i, r, c))
  /\ Ahead(ToSet(wire[i]), ToSet(sendRx[i].q), WritesSwitch(i, r, c))

\* So it is while c waits for its echo, if no earlier command was about its bits.
Switching ==
  loop = "write" /\ LeftAlone(Len(outcome), 0, Current, cmd.reg, cmd.val)
    => Along(Current, cmd.reg, cmd)

\* A line of packets that are all related to each other is ordered.
LEMMA OrderedAll ==
  ASSUME NEW S, NEW s \in Seq(S), NEW R, Ahead(ToSet(s), ToSet(s), R)
  PROVE  Ordered(s, R)
<1>1. \A n \in 1..Len(s) : s[n] \in ToSet(s)
  BY DEF ToSet
<1> QED BY <1>1 DEF Ordered, Ahead

LEMMA AlongBegins ==
  ASSUME TypeOK, NEW i \in Inverters, NEW r, NEW c, SendWrite,
         NEW V, Agree(i, r, V), \A v, w \in V : Shows(v, c) => Shows(w, c),
         Shows(OwnWrite.val, c)
  PROVE  Along(i, r, c)'
<1>1. PICK p \in Packets : p = OwnWrite
  BY OwnWriteType
<1>2. PICK Rep : Rep = RepliesSwitch(i, r, c)
  OBVIOUS
<1>3. PICK Req : Req = WritesSwitch(i, r, c)
  OBVIOUS
<1>4. /\ sendRx' = Broadcasted(p) /\ cmdRx' = Popped(cmdRx) /\ HasMessage(cmdRx)
      /\ UNCHANGED <<back, wire, regs>>
  BY <1>1 DEF SendWrite, devices
<1>5. /\ ToSet(cmdRx'.q) \subseteq ToSet(cmdRx.q) /\ cmdRx'.q \in Seq(Packets)
      /\ sendRx[i] \in Receivers(Packets)
  <2>1. cmdRx \in Receivers(Packets) /\ sendRx[i] \in Receivers(Packets)
    BY DEF TypeOK
  <2>2. cmdRx.q # <<>> /\ cmdRx.q \in Seq(Packets) /\ cmdRx'.q = Tail(cmdRx.q)
        /\ ToSet(cmdRx'.q) \subseteq ToSet(cmdRx.q)
    BY <1>4, <2>1, PoppedFrom
  <2> QED BY <2>1, <2>2
<1>6. /\ back[i] \in Seq(Packets) /\ wire[i] \in Seq(Packets) /\ sendRx[i].q \in Seq(Packets)
      /\ ToSet(back[i]) \subseteq Packets /\ ToSet(cmdRx.q) \subseteq Packets
      /\ ToSet(wire[i]) \subseteq Packets /\ ToSet(sendRx[i].q) \subseteq Packets
  BY QueuesType
<1> DEFINE T == ToSet(cmdRx.q) \cup ToSet(back[i])
<1>7. /\ \A a \in T : Tells(a, i, r) => a.val \in V
      /\ \A a \in Pending(i) : Sets(a, i, r) => a.val \in V
      /\ regs[i][r] \in V
  BY DEF Agree, Told, Tells
<1>8. /\ \A a, b \in T : <<a, b>> \in Rep
      /\ \A a, b \in Pending(i) : <<a, b>> \in Req
  <2>1. T \subseteq Packets /\ Pending(i) \subseteq Packets
    BY <1>6 DEF Pending
  <2> HIDE DEF T
  <2> QED BY <1>2, <1>3, <1>7, <2>1 DEF RepliesSwitch, WritesSwitch
<1>9. /\ Ordered(cmdRx'.q, Rep) /\ Ordered(back[i], Rep)
      /\ Ahead(ToSet(cmdRx'.q), ToSet(back[i]), Rep)
  <2>1. /\ Ahead(ToSet(cmdRx'.q), ToSet(cmdRx'.q), Rep) /\ Ahead(ToSet(back[i]), ToSet(back[i]), Rep)
        /\ Ahead(ToSet(cmdRx'.q), ToSet(back[i]), Rep)
    BY <1>5, <1>8 DEF Ahead
  <2> QED BY <1>5, <1>6, <2>1, OrderedAll
<1>10. \A a \in Packets : <<a, p>> \in Req
  BY <1>1, <1>3 DEF WritesSwitch
<1>11. /\ Ordered(wire[i], Req) /\ Ordered(sendRx'[i].q, Req)
       /\ Ahead(ToSet(wire[i]), ToSet(sendRx'[i].q), Req)
  <2>1. /\ Ahead(ToSet(wire[i]), ToSet(wire[i]), Req)
        /\ Ahead(ToSet(sendRx[i].q), ToSet(sendRx[i].q), Req)
        /\ Ahead(ToSet(wire[i]), ToSet(sendRx[i].q), Req)
        /\ Ahead(ToSet(sendRx[i].q), {p}, Req) /\ Ahead(ToSet(wire[i]), {p}, Req)
    BY <1>6, <1>8, <1>10 DEF Ahead, Pending
  <2>2. Ordered(wire[i], Req) /\ Ordered(sendRx[i].q, Req)
    BY <1>6, <2>1, OrderedAll
  <2>3. sendRx'[i] = sendRx[i] \/ sendRx'[i] = Push(sendRx[i], p)
    BY <1>4, BroadcastEffect
  <2>4. Ordered(sendRx'[i].q, Req)
    BY <1>5, <2>1, <2>2, <2>3, OrderedPush
  <2>5. ToSet(sendRx'[i].q) \subseteq ToSet(sendRx[i].q) \cup {p}
    BY <1>4, BroadcastEffect
  <2> QED BY <2>1, <2>2, <2>4, <2>5 DEF Ahead
<1>12. \A a \in ToSet(cmdRx'.q) \cup ToSet(back[i]) :
         Tells(a, i, r) /\ Shows(a.val, c) => Shows(regs[i][r], c)
  BY <1>5, <1>7
<1>13. \A a \in Pending(i)' : Shows(regs[i][r], c) /\ Sets(a, i, r) => Shows(a.val, c)
  <2>1. Pending(i)' \subseteq Pending(i) \cup {p}
    BY <1>4, BroadcastEffect DEF Pending
  <2> QED BY <1>1, <1>7, <2>1
<1>14. Rep = RepliesSwitch(i, r, c)' /\ Req = WritesSwitch(i, r, c)'
  BY <1>2, <1>3 DEF RepliesSwitch, WritesSwitch, Tells, Sets, Shows
<1> QED BY <1>4, <1>9, <1>11, <1>12, <1>13, <1>14 DEF Along

LEMMA AlongKept ==
  ASSUME TypeOK, KindsInPlace, [Next]_vars, changes' = 0, loop = "write", loop' = "write",
         NEW i \in Inverters, NEW r \in Registers, NEW c, Along(i, r, c)
  PROVE  Along(i, r, c)'
<1>1. PICK Rep : Rep = RepliesSwitch(i, r, c)
  OBVIOUS
<1>2. PICK Req : Req = WritesSwitch(i, r, c)
  OBVIOUS
<1>3. Rep = RepliesSwitch(i, r, c)' /\ Req = WritesSwitch(i, r, c)'
  BY <1>1, <1>2 DEF RepliesSwitch, WritesSwitch, Tells, Sets, Shows
<1> DEFINE In == /\ Ordered(cmdRx.q, Rep) /\ Ordered(back[i], Rep)
                 /\ Ahead(ToSet(cmdRx.q), ToSet(back[i]), Rep)
           Out == /\ Ordered(wire[i], Req) /\ Ordered(sendRx[i].q, Req)
                  /\ Ahead(ToSet(wire[i]), ToSet(sendRx[i].q), Req)
           Heard == \A p \in ToSet(cmdRx.q) \cup ToSet(back[i]) :
                      Tells(p, i, r) /\ Shows(p.val, c) => Shows(regs[i][r], c)
           Due == \A p \in Pending(i) :
                    Shows(regs[i][r], c) /\ Sets(p, i, r) => Shows(p.val, c)
<1>4. In /\ Out /\ Heard /\ Due
  BY <1>1, <1>2 DEF Along
<1> SUFFICES In' /\ Out' /\ Heard' /\ Due'
  BY <1>3 DEF Along
<1>5. UNCHANGED <<wire, sendRx>> => Out'
  BY <1>4
<1>6. UNCHANGED <<wire, sendRx, regs>> => Out' /\ Due'
  BY <1>4 DEF Pending
<1>7. UNCHANGED <<cmdRx, back>> => In'
  BY <1>4
<1>8. UNCHANGED <<cmdRx, back, regs>> => In' /\ Heard'
  BY <1>4
<1>9. /\ ToSet(<<>>) = {} /\ Subscribed.q = <<>> /\ Ordered(<<>>, Rep) /\ Ordered(<<>>, Req)
      /\ cmdRx \in Receivers(Packets) /\ sendRx[i] \in Receivers(Packets)
  BY NothingIn, OrderedEmpty DEF Subscribed, TypeOK
<1>10. CASE Quiet
  <2>1. Ordered(cmdRx'.q, Rep) /\ ToSet(cmdRx'.q) \subseteq ToSet(cmdRx.q)
    BY <1>4, <1>9, <1>10, PoppedFrom, OrderedTail DEF Quiet
  <2>2. UNCHANGED <<back, wire, sendRx, regs>>
    BY <1>10 DEF Quiet
  <2> QED BY <1>4, <1>6, <2>1, <2>2 DEF Ahead
<1>11. ~(LoopForward \/ BeginViaCoordinator \/ SendRead \/ SendWrite \/ Changed)
  BY DEF LoopForward, BeginViaCoordinator, SendRead, SendWrite, Changed
\* The device tells what the register holds, which still shows what it showed.
<1>13. ASSUME NEW a \in Packets, Tells(a, i, r) => a.val = regs'[i][r],
              back'[i] = Append(back[i], a), UNCHANGED cmdRx,
              Shows(regs[i][r], c) => Shows(regs'[i][r], c)
       PROVE  In' /\ Heard'
  <2>1. ToSet(back'[i]) = ToSet(back[i]) \cup {a}
    BY <1>13, QueuesType, ToSetAppend
  <2>2. Heard'
    BY <1>4, <1>13, <2>1
  <2>3. ASSUME NEW b \in ToSet(cmdRx.q) \cup ToSet(back[i]) PROVE <<b, a>> \in Rep
    <3>1. Tells(b, i, r) /\ Shows(b.val, c) => Shows(regs'[i][r], c)
      BY <1>4, <1>13
    <3>2. b \in Packets
      BY QueuesType
    <3> QED BY <1>1, <1>13, <3>1, <3>2 DEF RepliesSwitch
  <2>4. Ahead(ToSet(cmdRx.q), {a}, Rep) /\ Ahead(ToSet(back[i]), {a}, Rep)
    BY <2>3 DEF Ahead
  <2>5. Ordered(back'[i], Rep)
    BY <1>4, <1>13, <2>4, QueuesType, OrderedAppend
  <2>6. In'
    BY <1>4, <1>13, <2>1, <2>4, <2>5 DEF Ahead
  <2> QED BY <2>2, <2>6
<1>14. CASE Pushed
  <2>1. UNCHANGED <<cmdRx, sendRx, wire, regs>>
    BY <1>14 DEF Pushed, handler
  <2>2. CASE back'[i] = back[i]
    BY <1>4, <1>6, <2>1, <2>2
  <2>3. ASSUME NEW a \in Packets, a.val = regs[i][a.reg], back'[i] = Append(back[i], a)
        PROVE  In' /\ Heard'
    BY <1>13, <2>1, <2>3 DEF Tells
  <2> QED BY <1>6, <1>14, <2>1, <2>2, <2>3 DEF Pushed
<1>12. ASSUME NEW j \in Inverters, Transport(j)
       PROVE  In' /\ Out' /\ Heard' /\ Due'
  <2>1. CASE SenderWrite(j)
    <3>0. PICK p, f : p = Head(sendRx[j].q) /\ f = Framed(j, p)
      OBVIOUS
    <3>1. /\ sendRx[j].q # <<>> /\ sendRx'[j].q = Tail(sendRx[j].q)
          /\ wire'[j] = Append(wire[j], f)
          /\ \A k \in Inverters : k # j => sendRx'[k] = sendRx[k] /\ wire'[k] = wire[k]
          /\ UNCHANGED <<cmdRx, back, regs>>
      BY <2>1, <3>0, SenderWriteEffect DEF handler
    <3>2. CASE j # i
      BY <1>4, <1>8, <3>1, <3>2 DEF Pending
    <3>3. CASE j = i
      <4>1. /\ ToSet(sendRx'[i].q) \subseteq ToSet(sendRx[i].q) /\ p \in ToSet(sendRx[i].q)
            /\ p \in Packets
        BY <3>0, <3>1, <3>3, QueuesType, ToSetTail
      <4>8. /\ f \in Packets /\ f.func = p.func
            /\ f.func = "WriteSingle" => f = p
        BY <3>0, <3>3, <4>1, FramedType
      <4>9. \A a \in Packets : /\ <<a, p>> \in Req => <<a, f>> \in Req
                               /\ <<p, a>> \in Req => <<f, a>> \in Req
        BY <1>2, <4>1, <4>8 DEF WritesSwitch, Sets
      <4>2. ToSet(wire'[i]) = ToSet(wire[i]) \cup {f}
        <5>1. ToSet(Append(wire[i], f)) = ToSet(wire[i]) \cup {f}
          BY <4>8, QueuesType, ToSetAppend
        <5> QED BY <3>1, <3>3, <5>1
      <4>3. Ordered(sendRx'[i].q, Req) /\ Ahead({p}, ToSet(sendRx'[i].q), Req)
        BY <1>4, <3>0, <3>1, <3>3, QueuesType, OrderedTail
      <4>4. Ahead(ToSet(wire[i]), {f}, Req) /\ Ahead({f}, ToSet(sendRx'[i].q), Req)
        <5>1. Ahead(ToSet(wire[i]), {p}, Req)
          BY <1>4, <4>1 DEF Ahead
        <5>2. ToSet(sendRx'[i].q) \subseteq Packets /\ ToSet(wire[i]) \subseteq Packets
          BY <4>1, QueuesType
        <5> QED BY <4>3, <4>9, <5>1, <5>2 DEF Ahead
      <4>5. Ordered(wire'[i], Req)
        BY <1>4, <3>1, <3>3, <4>4, <4>8, QueuesType, OrderedAppend
      <4>6. Out'
        BY <1>4, <4>1, <4>2, <4>3, <4>4, <4>5 DEF Ahead
      <4>7. Due'
        <5>1. \A a \in Pending(i)' : Sets(a, i, r) => a \in Pending(i)
          BY <4>1, <4>2, <4>8 DEF Pending, Sets
        <5> QED BY <1>4, <3>1, <5>1
      <4> QED BY <1>8, <3>1, <4>6, <4>7
    <3> QED BY <3>2, <3>3
  <2>2. CASE SenderEnd(j)
    <3>1. /\ sendRx'[j] = Subscribed
          /\ \A k \in Inverters : k # j => sendRx'[k] = sendRx[k]
          /\ UNCHANGED <<cmdRx, back, wire, regs>>
      BY <2>2, SenderEndEffect DEF handler
    <3>2. Out'
      BY <1>4, <1>9, <3>1 DEF Ahead
    <3>3. Due'
      BY <1>4, <1>9, <3>1 DEF Pending
    <3> QED BY <1>8, <3>1, <3>2, <3>3
  <2>3. CASE ReaderDeliver(j)
    <3>0. PICK p : p = Head(back[j])
      OBVIOUS
    <3>1. /\ back[j] # <<>> /\ back'[j] = Tail(back[j])
          /\ cmdRx' = cmdRx \/ cmdRx' = Push(cmdRx, p)
          /\ \A k \in Inverters : k # j => back'[k] = back[k]
          /\ UNCHANGED <<sendRx, wire, regs>>
      BY <2>3, <3>0, ReaderDeliverEffect
    <3>2. p \in ToSet(back[j]) /\ ToSet(back'[j]) \subseteq ToSet(back[j]) /\ p \in Packets
          /\ p.inv = j
      BY <3>0, <3>1, QueuesType, ToSetTail DEF KindsInPlace
    <3>3. ToSet(cmdRx'.q) \subseteq ToSet(cmdRx.q) \cup {p}
      BY <1>9, <3>1, <3>2, PushMembers
    <3>4. Ahead(ToSet(cmdRx.q), {p}, Rep) => Ordered(cmdRx'.q, Rep)
      BY <1>4, <1>9, <3>1, <3>2, OrderedPush
    <3>5. CASE j # i
      <4>1. \A a \in Packets : <<a, p>> \in Rep /\ <<p, a>> \in Rep
        BY <1>1, <3>2, <3>5 DEF RepliesSwitch, Tells
      <4>2. ToSet(cmdRx.q) \subseteq Packets /\ ToSet(back[i]) \subseteq Packets
        BY QueuesType
      <4>3. In'
        BY <1>4, <3>1, <3>3, <3>4, <3>5, <4>1, <4>2 DEF Ahead
      <4>4. Heard'
        BY <1>4, <3>1, <3>2, <3>3, <3>5 DEF Tells
      <4> QED BY <1>6, <3>1, <4>3, <4>4
    <3>6. CASE j = i
      <4>1. Ahead(ToSet(cmdRx.q), {p}, Rep)
        BY <1>4, <3>2, <3>6 DEF Ahead
      <4>2. Ordered(back'[i], Rep) /\ Ahead({p}, ToSet(back'[i]), Rep)
        BY <1>4, <3>0, <3>1, <3>6, QueuesType, OrderedTail
      <4>3. In'
        BY <1>4, <3>2, <3>3, <3>4, <3>6, <4>1, <4>2 DEF Ahead
      <4>4. Heard'
        BY <1>4, <3>1, <3>2, <3>3, <3>6
      <4> QED BY <1>6, <3>1, <4>3, <4>4
    <3> QED BY <3>5, <3>6
  <2>4. CASE ReaderEnd(j)
    <3>1. /\ back'[j] = <<>>
          /\ \A k \in Inverters : k # j => back'[k] = back[k]
          /\ UNCHANGED <<cmdRx, sendRx, wire, regs>>
      BY <2>4, ReaderEndEffect DEF handler
    <3>2. In' /\ Heard'
      BY <1>4, <1>9, <3>1 DEF Ahead
    <3> QED BY <1>6, <3>1, <3>2
  <2>5. CASE DeviceExecute(j)
    <3>0. PICK q \in Packets : Executes(j, q)
      BY <2>5, DeviceExecuteEffect
    <3>1. UNCHANGED <<cmdRx, sendRx>>
      BY <3>0 DEF Executes, handler
    <3>2. CASE j # i
      <4>1. UNCHANGED <<wire[i], back[i], regs[i]>>
        BY <3>0, <3>2 DEF Executes
      <4> QED BY <1>4, <3>1, <4>1 DEF Pending
    <3>3. CASE j = i
      <4>1. /\ wire[i] # <<>> /\ q = Head(wire[i]) /\ wire'[i] = Tail(wire[i]) /\ q.inv = i
            /\ q.reg \in Registers /\ q.val \in Values
        BY <3>0, <3>3 DEF Executes, Packets
      <4>2. q \in ToSet(wire[i]) /\ ToSet(wire'[i]) \subseteq ToSet(wire[i]) /\ q \in Pending(i)
        BY <4>1, QueuesType, ToSetTail DEF Pending
      <4>3. regs'[i][r] = IF Sets(q, i, r) THEN q.val ELSE regs[i][r]
        <5>1. regs[i] \in [Registers -> Values]
          BY DEF TypeOK
        <5> QED BY <3>0, <3>3, <4>1, <5>1 DEF Executes, Sets
      <4>4. Shows(regs[i][r], c) => Shows(regs'[i][r], c)
        BY <1>4, <4>2, <4>3
      <4>5. Ordered(wire'[i], Req) /\ Ahead({q}, ToSet(wire'[i]), Req)
        BY <1>4, <4>1, QueuesType, OrderedTail
      <4>6. Out'
        BY <1>4, <3>1, <4>2, <4>5 DEF Ahead
      <4>7. Due'
        <5>1. Pending(i)' \subseteq Pending(i)
          BY <3>1, <4>2 DEF Pending
        <5>2. Ahead({q}, Pending(i)', Req)
          BY <1>4, <3>1, <4>2, <4>5 DEF Ahead, Pending
        <5>3. ASSUME NEW p \in Pending(i)', Shows(regs'[i][r], c), Sets(p, i, r)
              PROVE  Shows(p.val, c)
          <6>1. CASE Sets(q, i, r)
            <7>1. <<q, p>> \in Req
              BY <5>2, <5>3 DEF Ahead
            <7> QED BY <1>2, <4>3, <5>3, <6>1, <7>1 DEF WritesSwitch
          <6>2. CASE ~Sets(q, i, r)
            BY <1>4, <4>3, <5>1, <5>3, <6>2
          <6> QED BY <6>1, <6>2
        <5> QED BY <5>3
      <4>8. CASE back'[i] = back[i]
        BY <1>4, <3>1, <4>4, <4>6, <4>7, <4>8
      <4>9. ASSUME NEW v \in Values, back'[i] = Append(back[i], Answer(q, v)),
                   ~Writes(q) => v = regs[i][q.reg], q.func = "WriteSingle" => v = q.val
            PROVE  In' /\ Out' /\ Heard' /\ Due'
        <5>0. PICK a \in Packets : a = Answer(q, v)
          BY AnswerType
        <5>1. a.val = v /\ a.func = q.func /\ a.reg = q.reg
          BY <5>0, AnswerType
        <5>2. Tells(a, i, r) => a.val = regs'[i][r]
          BY <4>1, <4>3, <4>9, <5>1 DEF Tells, Sets, Writes
        <5>3. In' /\ Heard'
          BY <1>13, <3>1, <4>4, <4>9, <5>0, <5>2
        <5> QED BY <4>6, <4>7, <5>3
      <4> QED BY <3>0, <3>3, <4>8, <4>9 DEF Executes
    <3> QED BY <3>2, <3>3
  <2>6. CASE DeviceRefuse(j)
    <3>1. /\ wire[j] # <<>> /\ wire'[j] = Tail(wire[j])
          /\ \/ back'[j] = back[j]
             \/ \E p \in Packets : p.func = "Error" /\ back'[j] = Append(back[j], p)
          /\ \A k \in Inverters : k # j => wire'[k] = wire[k] /\ back'[k] = back[k]
          /\ UNCHANGED <<cmdRx, sendRx, regs>>
      BY <2>6, DeviceRefuseEffect DEF handler
    <3>2. /\ ToSet(wire'[i]) \subseteq ToSet(wire[i]) /\ Ordered(wire'[i], Req)
      BY <1>4, <3>1, QueuesType, ToSetTail, OrderedTail
    <3>3. Out' /\ Due'
      BY <1>4, <3>1, <3>2 DEF Ahead, Pending
    <3>4. CASE back'[i] = back[i]
      BY <1>4, <3>1, <3>3, <3>4
    <3>5. ASSUME NEW p \in Packets, p.func = "Error", back'[i] = Append(back[i], p)
          PROVE  In' /\ Heard'
      BY <1>13, <3>1, <3>5 DEF Tells
    <3> QED BY <3>1, <3>3, <3>4, <3>5
  <2> QED BY <1>12, <2>1, <2>2, <2>3, <2>4, <2>5, <2>6 DEF Transport
<1> QED BY <1>10, <1>11, <1>12, <1>14, StepCases


LEMMA SwitchingStep ==
  ASSUME TypeOK, PacketsInPlace, KindsInPlace, Steady, Switching, [Next]_vars, changes' = 0
  PROVE  Switching'
<1> SUFFICES ASSUME loop' = "write",
                    LeftAlone(Len(outcome), 0, Current, cmd.reg, cmd.val)'
             PROVE  Along(Current, cmd.reg, cmd)'
  BY DEF Switching
<1>1. UNCHANGED <<cmd, todo, outcome>> /\ loop \in {"read", "write"}
  BY WaitsForWrite DEF SendWrite
<1>2. PICK i, r, c : i = Current /\ r = cmd.reg /\ c = cmd
  OBVIOUS
<1>3. Current' = i /\ cmd'.reg = r /\ cmd' = c /\ cmd'.val = c.val
  BY <1>1, <1>2 DEF Current
<1>4. i \in Inverters /\ r \in Registers /\ c.val \in Values
  BY <1>1, <1>2, CurrentType DEF TypeOK, Command
<1>5. LeftAlone(Len(outcome), 0, i, r, c.val)
  <2>1. LeftAlone(Len(outcome), 0, i, r, c.val)'
    BY <1>3
  <2>2. \A m : Overwrites(m, i, r, c.val)' <=> Overwrites(m, i, r, c.val)
    BY <1>1 DEF Overwrites, InverterOf, CommandOf, Current
  <2> QED BY <1>1, <2>1, <2>2 DEF LeftAlone
<1>6. CASE SendWrite
  <2>1. PICK V : V = Like(regs[i][r], c.val)
    OBVIOUS
  <2>2. Agree(i, r, V)
    <3>1. WritesUpTo = Len(outcome)
      BY <1>6 DEF SendWrite, WritesUpTo
    <3> QED BY <1>4, <1>5, <2>1, <3>1 DEF Steady
  <2>3. \A v, w \in V : Shows(v, c) => Shows(w, c)
    BY <2>1 DEF Like, Shows
  <2>4. Shows(OwnWrite.val, c)
    BY <1>2, UpdatedShows DEF OwnWrite, Pkt
  <2>5. Along(i, r, c)'
    BY <1>4, <1>6, <2>2, <2>3, <2>4, AlongBegins
  <2> QED BY <1>3, <2>5
<1>7. CASE loop = "write"
  <2>1. Along(i, r, c)
    BY <1>2, <1>5, <1>7 DEF Switching
  <2>2. Along(i, r, c)'
    BY <1>4, <1>7, <2>1, AlongKept
  <2> QED BY <1>3, <2>2
<1> QED BY <1>6, <1>7, WaitsForWrite

\* Commands that have been forwarded keep what they may overwrite.
LEMMA OverwritesKept ==
  ASSUME TypeOK, [Next]_vars, NEW m \in 1..RequestedUpTo, NEW i, NEW r, NEW B
  PROVE  Overwrites(m, i, r, B)' <=> Overwrites(m, i, r, B)
BY NumbersKept DEF Overwrites

\* What an UpdateHold that has just been reported as done leaves behind.
LEMMA NewlySettled ==
  ASSUME TypeOK, PacketsInPlace, KindsInPlace, Echoed, Switching, [Next]_vars,
         NEW n, n \notin DOMAIN outcome, Acknowledged(n)',
         LeftAlone(WritesUpTo, n, outcome[n].inv, outcome[n].cmd.reg, outcome[n].cmd.val)'
  PROVE  Agree(outcome[n].inv, outcome[n].cmd.reg, Showing(outcome[n].cmd))'
<1>1. /\ n \in DOMAIN outcome' /\ outcome'[n].result = "ok" /\ outcome'[n].cmd.kind = "UpdateHold"
  BY DEF Acknowledged
<1>2. PICK i, r, c : i = Current /\ r = cmd.reg /\ c = cmd
  OBVIOUS
<1>3. /\ n = CurrentId /\ outcome'[n].cmd = c /\ outcome'[n].inv = i
      /\ UNCHANGED <<sendRx, wire, back, regs>> /\ cmdRx' = Subscribed
  BY <1>1, <1>2, NewOutcome DEF devices
<1>4. PICK h : h = Head(cmdRx.q)
  OBVIOUS
<1>5. /\ h \in Told(i) /\ h.func = "WriteSingle" /\ h.reg = r /\ h.inv = i
      /\ loop = "write" /\ Shows(h.val, c) /\ i \in Inverters
  BY <1>1, <1>2, <1>3, <1>4, OwnEcho, ToldFrom
<1>6. h \in ToSet(cmdRx.q)
  <2>1. cmdRx \in Receivers(Packets) /\ HasMessage(cmdRx)
    BY <1>1, NewOutcome DEF TypeOK
  <2> QED BY <1>4, <2>1, PoppedFrom
<1>7. LeftAlone(Len(outcome), 0, i, r, c.val)
  <2>0. LeftAlone(WritesUpTo, n, i, r, c.val)'
    BY <1>2, <1>3
  <2>1. Len(outcome) \in Nat /\ n = Len(outcome) + 1 /\ WritesUpTo' \in Nat /\ n <= WritesUpTo'
    <3>1. TypeOK' /\ Len(outcome) \in Nat /\ Len(outcome') \in Nat /\ DOMAIN outcome' = 1..Len(outcome')
      <4>1. outcome' \in Seq(Ended) /\ outcome \in Seq(Ended)
        BY NextType DEF TypeOK
      <4> QED BY <4>1, NextType
    <3>2. Len(outcome') <= WritesUpTo' /\ WritesUpTo' \in Nat
      BY <3>1 DEF WritesUpTo, CurrentId
    <3> QED BY <1>1, <1>3, <3>1, <3>2 DEF CurrentId
  <2>2. ASSUME NEW m \in (1..Len(outcome)) \ {0} PROVE ~Overwrites(m, i, r, c.val)
    <3>1. m \in (1..WritesUpTo') \ {n} /\ m \in 1..RequestedUpTo
      BY <2>1 DEF RequestedUpTo, CurrentId
    <3>2. ~Overwrites(m, i, r, c.val)'
      BY <2>0, <3>1 DEF LeftAlone
    <3> QED BY <3>1, <3>2, OverwritesKept
  <2> QED BY <2>2 DEF LeftAlone
<1>8. Along(i, r, c)
  BY <1>2, <1>5, <1>7 DEF Switching
<1>9. Tells(h, i, r) /\ Shows(regs[i][r], c)
  BY <1>5, <1>6, <1>8 DEF Along, Tells
<1>10. \A p \in Pending(i)' : Sets(p, i, r) => Shows(p.val, c)
  BY <1>3, <1>8, <1>9 DEF Along, Pending
<1>11. \A p \in Told(i)' : Tells(p, i, r) => Shows(p.val, c)
  <2>1. Told(i)' = ToSet(back[i])
    BY <1>3, SubscribedType DEF Told
  <2>2. ASSUME NEW p \in ToSet(back[i]) PROVE <<h, p>> \in RepliesSwitch(i, r, c)
    BY <1>6, <1>8 DEF Along, Ahead
  <2> QED BY <1>5, <1>9, <2>1, <2>2 DEF RepliesSwitch
<1>12. PICK V : V = Showing(c)
  OBVIOUS
<1>13. Agree(i, r, V)'
  <2>1. Told(i)' \subseteq Told(i) /\ Pending(i)' = Pending(i)
    BY <1>3, SubscribedType DEF Told, Pending
  <2>2. \A p \in Told(i)' \cup Pending(i)' : p.val \in Values
    BY <1>5, <2>1, MembersType DEF Packets
  <2>3. regs'[i][r] \in Values
    <3>1. r \in Registers
      BY <1>2 DEF TypeOK, Command
    <3> QED BY <1>3, <1>5, <3>1 DEF TypeOK
  <2> QED BY <1>3, <1>9, <1>10, <1>11, <1>12, <2>2, <2>3 DEF Agree, Showing
<1>14. V = Showing(c)'
  BY <1>12 DEF Showing, Shows
<1> QED BY <1>2, <1>3, <1>13, <1>14

LEMMA SettledStep ==
  ASSUME TypeOK, PacketsInPlace, KindsInPlace, Echoed, Switching, Settled,
         [Next]_vars, changes' = 0
  PROVE  Settled'
<1> SUFFICES ASSUME NEW n, Acknowledged(n)',
                    LeftAlone(WritesUpTo, n, outcome[n].inv, outcome[n].cmd.reg, outcome[n].cmd.val)'
             PROVE  Agree(outcome[n].inv, outcome[n].cmd.reg, Showing(outcome[n].cmd))'
  BY DEF Settled
<1>1. CASE n \notin DOMAIN outcome
  BY <1>1, NewlySettled
<1>2. CASE n \in DOMAIN outcome
  <2>1. outcome'[n] = outcome[n]
    BY <1>2, OutcomeKept
  <2>2. PICK i, r, c : i = outcome[n].inv /\ r = outcome[n].cmd.reg /\ c = outcome[n].cmd
    OBVIOUS
  <2>3. i \in Inverters /\ r \in Registers /\ c \in Command /\ c.val \in Values
    <3>1. outcome[n] \in Ended
      BY <1>2 DEF TypeOK
    <3> QED BY <2>2, <3>1 DEF Ended, Command
  <2>4. Acknowledged(n) /\ c.kind = "UpdateHold"
    BY <1>2, <2>1, <2>2 DEF Acknowledged
  <2>5. LeftAlone(WritesUpTo, n, i, r, c.val)'
    BY <2>1, <2>2
  <2>6. Agree(i, r, Showing(c))
    BY <1>2, <2>2, <2>4, <2>5, LeftAloneKept DEF Settled
  <2>7. PICK V : V = Showing(c)
    OBVIOUS
  <2>8. V \subseteq Values /\ Closed(V, c.val) /\ V = Showing(c)'
    BY <2>3, <2>7, ClosedSets DEF Showing, Shows
  <2>9. Agree(i, r, V)'
    BY <1>2, <2>2, <2>3, <2>4, <2>5, <2>6, <2>7, <2>8, AgreeKept
  <2> QED BY <2>1, <2>2, <2>8, <2>9
<1> QED BY <1>1, <1>2

LEMMA KeptStep ==
  ASSUME TypeOK, PacketsInPlace, KindsInPlace, Echoed, Settled', Kept, [Next]_vars
  PROVE  Kept'
<1> SUFFICES ASSUME NEW n \in DOMAIN outcome', Acknowledged(n)', NEW i, NEW r, NEW c,
                    i = outcome'[n].inv /\ r = outcome'[n].cmd.reg /\ c = outcome'[n].cmd
             PROVE  KeptBy(n, i, r, c)'
  BY DEF Kept
<1> SUFFICES ASSUME NEW p \in Sent(i)', Sets(p, i, r), p.id > n,
                    LeftAlone(p.id, n, i, r, c.val)'
             PROVE  Shows(p.val, c)
  BY DEF KeptBy, Sets, Shows
<1>1. i = outcome'[n].inv /\ r = outcome'[n].cmd.reg /\ c = outcome'[n].cmd
  OBVIOUS
<1>2. /\ n \in DOMAIN outcome' /\ outcome'[n].result = "ok" /\ c.kind = "UpdateHold"
      /\ p \in Sent(i)' /\ Sets(p, i, r)
      /\ LeftAlone(p.id, n, i, r, c.val)'
  BY <1>1 DEF Acknowledged
<1>3. i \in Inverters /\ n \in Nat /\ Len(outcome) \in Nat /\ DOMAIN outcome = 1..Len(outcome)
  <2>1. outcome' \in Seq(Ended) /\ outcome \in Seq(Ended)
    BY NextType DEF TypeOK
  <2>2. outcome'[n] \in Ended /\ n \in Nat
    BY <1>2, <2>1
  <2> QED BY <1>1, <2>1, <2>2 DEF Ended
<1>5. p \in Sent(i) => p.id \in 1..ForwardedUpTo /\ p.id \in 1..RequestedUpTo /\ p.id \in Nat
  <2>1. p \in Sent(i) => p \in Packets /\ (p.id # 0 => p \in Requests(ForwardedUpTo))
    BY <1>3, PlacedIds
  <2>2. p \in Sent(i) => p.id # 0
    BY <1>3, <2>1 DEF Packets
  <2> QED BY <2>1, <2>2, NumbersKept DEF Requests
<1>6. ASSUME n \notin DOMAIN outcome PROVE Shows(p.val, c)
  <2>1. n = CurrentId /\ UNCHANGED <<sendRx, wire, executed>>
    BY <1>2, <1>6, NewOutcome DEF devices
  <2>2. p.id <= n
    BY <1>2, <1>3, <1>5, <2>1 DEF Sent, ForwardedUpTo, CurrentId
  <2>3. p.id \in Nat
    BY <1>2, <1>5, <2>1 DEF Sent
  <2> QED BY <1>3, <2>2, <2>3
<1>7. ASSUME n \in DOMAIN outcome PROVE Shows(p.val, c)
  <2>1. outcome'[n] = outcome[n] /\ Acknowledged(n)
    BY <1>2, <1>7, OutcomeKept DEF Acknowledged
  <2>2. CASE p \in Sent(i)
    <3>1. LeftAlone(p.id, n, i, r, c.val)
      <4>1. ASSUME NEW m \in (1..p.id) \ {n} PROVE ~Overwrites(m, i, r, c.val)
        <5>1. m \in 1..RequestedUpTo
          BY <1>5, <2>2, NumbersKept
        <5>2. ~Overwrites(m, i, r, c.val)'
          BY <1>2 DEF LeftAlone
        <5> QED BY <5>1, <5>2, OverwritesKept
      <4> QED BY <4>1 DEF LeftAlone
    <3> QED BY <1>1, <1>2, <1>7, <2>1, <2>2, <3>1 DEF Kept, KeptBy
  <2>3. CASE p \notin Sent(i)
    <3>1. p \in Pending(i)'
      <4>1. p \in ToSet(executed'[i]) \cup Pending(i)'
        BY <1>2 DEF Sent, Pending
      <4>2. p \in ToSet(executed'[i]) => p.id = 0
        BY <1>3, <2>3, ExecutedGrows DEF Sent, Pending
      <4> QED BY <1>3, <4>1, <4>2
    <3>2. p \notin Pending(i) /\ p.func = "WriteSingle"
      BY <1>2, <2>3 DEF Sent, Pending, Sets
    <3>3. CASE LoopForward /\ p \in ToSet(coordRx.q)
      <4>1. p \in Requests(RequestedUpTo) /\ RequestedUpTo = Len(outcome)
        BY <3>3, PlacedIds DEF LoopForward, RequestedUpTo, Waiting
      <4>2. p.id \in 1..Len(outcome) /\ InverterOf(p.id) = i /\ CommandOf(p.id).reg = r
        BY <1>2, <4>1 DEF Requests, Asked, Stray, Sets
      <4>3. CommandOf(p.id).kind = "SetHold"
        BY <1>2, <3>3 DEF KindsInPlace, Sets, Function, ViaCoordinator
      <4>4. Overwrites(p.id, i, r, c.val)'
        <5>1. Overwrites(p.id, i, r, c.val)
          BY <4>2, <4>3 DEF Overwrites
        <5> QED BY <4>1, <4>2, <5>1, OverwritesKept
      <4>5. p.id \in (1..p.id) \ {n}
        BY <1>3, <4>2
      <4> QED BY <1>2, <4>4, <4>5 DEF LeftAlone
    <3>4. CASE SendWrite /\ p = OwnWrite
      <4>1. WritesUpTo' = p.id
        BY <3>4, OwnWriteType DEF SendWrite, WritesUpTo, CurrentId
      <4>2. LeftAlone(WritesUpTo, n, i, r, c.val)'
        BY <1>2, <4>1 DEF LeftAlone
      <4>3. Agree(i, r, Showing(c))'
        BY <1>1, <1>2, <4>2 DEF Settled
      <4> QED BY <1>2, <3>1, <4>3 DEF Agree, Showing, Shows, Sets
    <3> QED BY <1>3, <3>1, <3>2, <3>3, <3>4, PendingStep
  <2> QED BY <2>2, <2>3
<1> QED BY <1>6, <1>7

\* As long as nobody but the bridge writes a register.
Undisturbed == changes = 0 => Steady /\ Switching /\ Settled /\ Kept

LEMMA UndisturbedInit == Init => Undisturbed
<1> SUFFICES ASSUME Init PROVE Steady /\ Switching /\ Settled /\ Kept
  BY DEF Undisturbed
<1>1. \A i \in Inverters : Told(i) = {} /\ Pending(i) = {}
  BY NothingIn, SubscribedType DEF Init, Told, Pending
<1>2. \A i \in Inverters, r \in Registers : regs[i][r] \in Values
  BY DEF Init
<1>3. Steady
  BY <1>1, <1>2 DEF Steady, Agree, Like
<1>4. Switching /\ Settled /\ Kept
  BY DEF Init, Switching, Settled, Kept, Acknowledged
<1> QED BY <1>3, <1>4

LEMMA UndisturbedStep ==
  ASSUME TypeOK, PacketsInPlace, KindsInPlace, Echoed, Undisturbed, [Next]_vars
  PROVE  Undisturbed'
<1> SUFFICES ASSUME changes' = 0 PROVE Steady' /\ Switching' /\ Settled' /\ Kept'
  BY DEF Undisturbed
<1>1. Steady /\ Switching /\ Settled /\ Kept
  BY EventsKept DEF Undisturbed
<1>2. Steady' /\ Switching'
  BY <1>1, SteadyStep, SwitchingStep
<1>3. Settled'
  BY <1>1, SettledStep
<1> QED BY <1>1, <1>2, <1>3, KeptStep

LEMMA KeptSticks ==
  ASSUME TypeOK, PacketsInPlace, KindsInPlace, Undisturbed
  PROVE  AcknowledgedUpdatesStick
<1> SUFFICES ASSUME changes = 0, NEW n \in DOMAIN outcome, Acknowledged(n),
                    NEW p \in ToSet(executed[outcome[n].inv]), p.func = "WriteSingle",
                    p.reg = outcome[n].cmd.reg, p.id > n,
                    ~\E m \in (1..p.id) \ {n} :
                       Overwrites(m, outcome[n].inv, p.reg, outcome[n].cmd.val)
             PROVE  Shows(p.val, outcome[n].cmd)
  BY DEF AcknowledgedUpdatesStick
<1>1. outcome[n].inv \in Inverters
  <2>1. outcome[n] \in Ended
    BY DEF TypeOK
  <2> QED BY <2>1 DEF Ended
<1>2. p \in Sent(outcome[n].inv) /\ p.inv = outcome[n].inv
  BY <1>1, PlacedIds DEF Sent
<1>3. LeftAlone(p.id, n, outcome[n].inv, outcome[n].cmd.reg, outcome[n].cmd.val)
  BY DEF LeftAlone
<1> QED BY <1>2, <1>3 DEF Undisturbed, Kept, KeptBy, Sets

\* Once an UpdateHold is reported as done, no later write puts its bits back, unless
\* somebody else writes the register or another command is about those bits.
THEOREM UpdatesStick == Spec => []AcknowledgedUpdatesStick
<1>1. Init => KindsInPlace /\ Echoed /\ Undisturbed
  BY KindsInit, EchoedInit, UndisturbedInit
<1>2. TypeOK /\ PacketsInPlace /\ KindsInPlace /\ Echoed /\ Undisturbed /\ [Next]_vars
        => (KindsInPlace /\ Echoed /\ Undisturbed)'
  BY KindsStep, EchoedStep, UndisturbedStep
<1> QED BY <1>1, <1>2, KeptSticks, TypeCorrect, PacketsStayInPlace, PTL DEF Spec
==============================================================================
