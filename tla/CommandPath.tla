----------------------------- MODULE CommandPath -----------------------------
(***************************************************************************)
(* From an MQTT command to the registers of an inverter and back: the      *)
(* coordinator's main loop (Coordinator::start), the handler it runs       *)
(* inline for a message (process_message, process_command and the          *)
(* commands), the channels to_coordinator, to_inverter and from_inverter,  *)
(* the tasks of each TCP connection that write requests and read replies,  *)
(* wait_for_reply with its timeout, and the device behind the connection.  *)
(*                                                                         *)
(* The loop is ONE task: while a command waits for its reply, nothing is   *)
(* received from to_coordinator.  A u16 register value is the set of its   *)
(* one bits.  Packets carry in `id` the number of the command that sent    *)
(* them (0: none).  The code has no such field and no action reads it: it  *)
(* is there for the properties, as are `outcome` and `executed`.           *)
(***************************************************************************)
EXTENDS Naturals, Sequences, SequencesExt, Broadcast

CONSTANTS
  ConfigOrder,    \* the enabled inverters, in the order of the configuration
  ReadOnly,       \* those that may not be written: read_only, global or their own
  Registers,      \* holding registers
  Bits,           \* the bits of a register
  Commands,       \* the commands MQTT messages may ask for
  MaxMessages,    \* bound: MQTT command messages
  MaxEvents,      \* bound: packets nobody asked for
  MaxChanges,     \* bound: registers changed by somebody else
  MaxFailures,    \* bound: connection tasks that end, and the MQTT task
  Prompt          \* TRUE: the device answers every request, and long before a timeout

Inverters == ToSet(ConfigOrder)
Values    == SUBSET Bits
Kinds     == {"ReadHold", "ReadInput", "ReadParam", "ReadTime", "SetHold", "WriteParam",
              "SetTime", "UpdateHold", "Unparsed"}

\* A number of registers: 1 is fewer than two, 2 is two or more.
Counts    == {1, 2}
Command   == [kind : Kinds, reg : Registers, val : Values, enable : BOOLEAN, count : Counts]

ASSUME CommandAssumption ==
  /\ ConfigOrder \in Seq(Inverters)
  /\ ReadOnly \subseteq Inverters
  /\ Registers # {}
  /\ Commands \subseteq Command
  /\ MaxMessages \in Nat /\ MaxEvents \in Nat /\ MaxChanges \in Nat /\ MaxFailures \in Nat
  /\ Prompt \in BOOLEAN

\* A command message: the topic names one inverter, all, or one not configured.
Messages == [to : {<<>>, ConfigOrder} \cup {<<i>> : i \in Inverters}, cmd : Commands]

Functions == {"ReadHold", "ReadInput", "ReadParam", "WriteSingle", "WriteParam", "Error"}
Packets   == [func : Functions, inv : Inverters, reg : Registers, val : Values,
              count : Counts, id : Nat]

Pkt(f, i, r, v, c, n) ==
  [func |-> f, inv |-> i, reg |-> r, val |-> v, count |-> c, id |-> n]

NoCommand == [kind |-> "Unparsed", reg |-> CHOOSE r \in Registers : TRUE,
              val |-> {}, enable |-> FALSE, count |-> 1]

VARIABLES
  loop,        \* where the coordinator's task is (Phases)
  cmd,         \* the command process_message is at
  todo,        \* the inverters process_message has yet to do, the current one first
  want,        \* the value UpdateHold writes
  mqttRx,      \* the loop's receiver of from_mqtt
  coordRx,     \* the loop's receiver of to_coordinator
  loopRx,      \* the loop's receiver of from_inverter
  cmdRx,       \* the running command's receiver of from_inverter
  sendRx,      \* each connection's sender: its receiver of to_inverter
  sender,      \* each connection's sender task runs
  reader,      \* each connection's reader task runs
  wire,        \* requests written to the socket, not yet taken by the device
  back,        \* the device's packets the reader has not yet decoded
  regs,        \* the device's holding registers
  mqttUp,      \* the MQTT task still receives to_mqtt
  outcome,     \* history: how each command on each inverter ended, in order
  executed,    \* history: the write requests each device has executed, in order
  received, events, changes, failures      \* counters of the bounds

bounds  == <<received, events, changes, failures>>
handler == <<loop, cmd, todo, want, cmdRx, outcome>>
devices == <<wire, back, regs, executed>>
vars    == <<handler, mqttRx, coordRx, loopRx, sendRx, sender, reader,
             devices, mqttUp, bounds>>

\* "select": in tokio::select!.  "begin": in process_message, about to process
\* the command for Head(todo).  "reply": a command sent through to_coordinator
\* waits.  "read", "write": the two waits of UpdateHold.  "exited": the loop broke.
Phases  == {"select", "begin", "reply", "read", "write", "exited"}
Waiting == loop \in {"reply", "read", "write"}

Current   == Head(todo)
CurrentId == Len(outcome) + 1

Results == {"ok", "FAIL", "unreported"}
Ended   == [cmd : Command, inv : Inverters, result : Results]
------------------------------------------------------------------------------
\* The device function each command asks for.
Function(kind) ==
  CASE kind = "SetHold" -> "WriteSingle"
    [] kind \in {"UpdateHold", "ReadTime"} -> "ReadHold"
    [] kind \in {"ReadHold", "ReadInput", "ReadParam", "WriteParam"} -> kind
    [] OTHER -> "Error"

\* Mutant: a time is read from one register.
CountOfOne(c) == IF c.kind = "ReadHold" THEN c.count ELSE 1

\* The registers a command's request is about: the two of a time, as many as the
\* message says, or one.  (Only those of a ReadHold request matter.)
Count(c) == IF c.kind = "ReadTime" THEN 2 ELSE IF c.kind = "ReadHold" THEN c.count ELSE 1

\* Writes that go through WriteInverter, which checks read_only before anything.
Guarded(kind) == kind \in {"SetHold", "WriteParam", "SetTime"}

\* Commands whose request is sent to to_coordinator, for the loop to forward.
ViaCoordinator(kind) ==
  kind \in {"ReadHold", "ReadInput", "ReadParam", "ReadTime", "SetHold", "WriteParam"}

\* check_read_only bails; or Action::register() does, since WriteInverter always
\* asks for time slot 0 and only 1 to 3 have registers.  (A time read of another slot
\* ends the same way, and is not a kind of its own.)
Rejected(c, i) == Guarded(c.kind) /\ (i \in ReadOnly \/ c.kind = "SetTime")

\* A send on to_inverter reaches every connection's sender that runs.
Broadcasted(p) == [i \in Inverters |-> IF sender[i] THEN Push(sendRx[i], p) ELSE sendRx[i]]

\* to_inverter has a receiver: some sender or reader task is alive.
ToInverterOpen == \E i \in Inverters : sender[i] \/ reader[i]

\* Is p the reply to the request the command waits for?  wait_for_reply compares
\* datalog, register and function, and neither value nor length.
Replies(p) ==
  /\ p.inv = Current
  /\ p.reg = cmd.reg
  /\ p.func = IF loop = "write" THEN "WriteSingle" ELSE Function(cmd.kind)

\* UpdateHold: set or clear the command's bit in the value it has read.
Updated(v) == IF cmd.enable THEN v \cup cmd.val ELSE v \ cmd.val

\* Mutant: UpdateHold does not compare the value of its reply.
AcceptsAnyUpdate(v) == cmd.kind = "SetHold" => v = cmd.val

\* What the command makes of the value of its reply.  A time is published, which fails
\* without the MQTT task.
Accepts(v) ==
  CASE cmd.kind = "SetHold"    -> v = cmd.val
    [] cmd.kind = "WriteParam" -> v = {}
    [] cmd.kind = "UpdateHold" -> v = want
    [] cmd.kind = "ReadTime"   -> mqttUp
    [] OTHER                   -> TRUE

\* A time read takes four bytes out of its reply and does not look at the length.
TooShort(p) == cmd.kind = "ReadTime" /\ p.count < 2
------------------------------------------------------------------------------
Init ==
  /\ loop = "select" /\ cmd = NoCommand /\ todo = <<>> /\ want = {}
  /\ mqttRx = Subscribed /\ coordRx = Subscribed
  /\ loopRx = Subscribed /\ cmdRx = Subscribed
  /\ sendRx = [i \in Inverters |-> Subscribed]
  /\ sender = [i \in Inverters |-> TRUE]
  /\ reader = [i \in Inverters |-> TRUE]
  /\ wire = [i \in Inverters |-> <<>>] /\ back = [i \in Inverters |-> <<>>]
  /\ regs \in [Inverters -> [Registers -> Values]]
  /\ mqttUp = TRUE
  /\ outcome = <<>>
  /\ executed = [i \in Inverters |-> <<>>]
  /\ received = 0 /\ events = 0 /\ changes = 0 /\ failures = 0

(***************************************************************************)
(* The coordinator's task.                                                 *)
(***************************************************************************)

\* Mutant: the handler does not notice that it has done the last inverter.
LeaveToNext ==
  /\ todo' = Tail(todo) /\ loop' = "begin"
  /\ want' = {} /\ cmdRx' = Subscribed
  /\ UNCHANGED cmd

\* Leave the current inverter of process_message: on to the next, or to select!.
Leave ==
  /\ todo' = Tail(todo)
  /\ loop' = IF Len(todo) = 1 THEN "select" ELSE "begin"
  /\ cmd' = IF Len(todo) = 1 THEN NoCommand ELSE cmd
  /\ want' = {}
  /\ cmdRx' = Subscribed

\* The command has ended well; nothing is published about it.
Succeed ==
  /\ Leave
  /\ outcome' = Append(outcome, [cmd |-> cmd, inv |-> Current, result |-> "ok"])

\* The command has failed: FAIL goes to to_mqtt; with no receiver there,
\* process_message bails and the remaining inverters are dropped.
Fail ==
  \/ /\ mqttUp
     /\ Leave
     /\ outcome' = Append(outcome, [cmd |-> cmd, inv |-> Current, result |-> "FAIL"])
  \/ /\ ~mqttUp
     /\ loop' = "select" /\ cmd' = NoCommand /\ todo' = <<>>
     /\ want' = {} /\ cmdRx' = Subscribed
     /\ outcome' = Append(outcome, [cmd |-> cmd, inv |-> Current, result |-> "unreported"])

\* select! receives a message of from_mqtt; process_message begins, or finds
\* no inverter the message is for.
LoopMqtt ==
  /\ loop = "select" /\ HasMessage(mqttRx)
  /\ mqttRx' = Popped(mqttRx)
  /\ LET m == Head(mqttRx.q)
     IN IF m.to = <<>>
        THEN UNCHANGED <<loop, cmd, todo>>
        ELSE loop' = "begin" /\ cmd' = m.cmd /\ todo' = m.to
  /\ UNCHANGED <<want, cmdRx, outcome, coordRx, loopRx, sendRx, sender, reader,
                 devices, mqttUp, bounds>>

\* A lagging from_mqtt is only logged.
LoopMqttLagged ==
  /\ loop = "select" /\ HasLagged(mqttRx)
  /\ mqttRx' = CaughtUp(mqttRx)
  /\ UNCHANGED <<handler, coordRx, loopRx, sendRx, sender, reader, devices, mqttUp, bounds>>

\* Mutants: forwarding does not wait for the handler; or a request is put off while
\* the sender of its inverter has ended.
LoopForwardAnytime ==
  /\ HasMessage(coordRx)
  /\ coordRx' = Popped(coordRx)
  /\ sendRx' = Broadcasted(Head(coordRx.q))
  /\ UNCHANGED <<handler, mqttRx, loopRx, sender, reader, devices, mqttUp, bounds>>

LoopForwardWhenSending ==
  loop = "select" /\ HasMessage(coordRx) /\ sender[Head(coordRx.q).inv] /\ LoopForwardAnytime

\* select! receives SendPacket from to_coordinator and forwards it to to_inverter.
LoopForward ==
  /\ loop = "select" /\ HasMessage(coordRx)
  /\ coordRx' = Popped(coordRx)
  /\ sendRx' = Broadcasted(Head(coordRx.q))
  /\ UNCHANGED <<handler, mqttRx, loopRx, sender, reader, devices, mqttUp, bounds>>

\* select! receives a packet of an inverter: process_packet changes nothing here.
LoopInverter ==
  /\ loop = "select" /\ HasMessage(loopRx)
  /\ loopRx' = Popped(loopRx)
  /\ UNCHANGED <<handler, mqttRx, coordRx, sendRx, sender, reader, devices, mqttUp, bounds>>

\* An error of from_inverter or to_coordinator breaks out of the loop for good.
LoopExit ==
  /\ loop = "select" /\ (HasLagged(loopRx) \/ HasLagged(coordRx))
  /\ loop' = "exited"
  /\ UNCHANGED <<cmd, todo, want, cmdRx, outcome, mqttRx, coordRx, loopRx, sendRx,
                 sender, reader, devices, mqttUp, bounds>>

\* to_command fails: logged, on to the next inverter.
BeginUnparsed ==
  /\ loop = "begin" /\ cmd.kind = "Unparsed"
  /\ Leave
  /\ UNCHANGED <<outcome, mqttRx, coordRx, loopRx, sendRx, sender, reader,
                 devices, mqttUp, bounds>>

\* process_command refuses a write.
BeginRejected ==
  /\ loop = "begin" /\ Rejected(cmd, Current)
  /\ Fail
  /\ UNCHANGED <<mqttRx, coordRx, loopRx, sendRx, sender, reader, devices, mqttUp, bounds>>

\* The other reads and writes subscribe to from_inverter, send their request to
\* to_coordinator, and wait.
BeginViaCoordinator ==
  /\ loop = "begin" /\ ViaCoordinator(cmd.kind) /\ ~Rejected(cmd, Current)
  /\ coordRx' = Push(coordRx, Pkt(Function(cmd.kind), Current, cmd.reg, cmd.val, Count(cmd),
                               CurrentId))
  /\ loop' = "reply" /\ cmdRx' = Subscribed
  /\ UNCHANGED <<cmd, todo, want, outcome, mqttRx, loopRx, sendRx, sender, reader,
                 devices, mqttUp, bounds>>

\* UpdateHold subscribes, sends its read straight to to_inverter, and waits.  It
\* does not ask whether the inverter is read-only.
BeginUpdateHold ==
  /\ loop = "begin" /\ cmd.kind = "UpdateHold"
  /\ \/ /\ ToInverterOpen
        /\ sendRx' = Broadcasted(Pkt("ReadHold", Current, cmd.reg, {}, Count(cmd), CurrentId))
        /\ loop' = "read" /\ cmdRx' = Subscribed
        /\ UNCHANGED <<cmd, todo, want, outcome>>
     \/ /\ ~ToInverterOpen
        /\ Fail
        /\ UNCHANGED sendRx
  /\ UNCHANGED <<mqttRx, coordRx, loopRx, sender, reader, devices, mqttUp, bounds>>

\* wait_for_reply passes over a packet that is not the reply.
SkipPacket ==
  /\ Waiting /\ HasMessage(cmdRx) /\ ~Replies(Head(cmdRx.q))
  /\ cmdRx' = Popped(cmdRx)
  /\ UNCHANGED <<loop, cmd, todo, want, outcome, mqttRx, coordRx, loopRx, sendRx,
                 sender, reader, devices, mqttUp, bounds>>

\* UpdateHold has its read: it sends the write and waits again, on the same receiver.
ReplyToRead ==
  /\ loop = "read" /\ HasMessage(cmdRx) /\ Replies(Head(cmdRx.q))
  /\ LET new == Updated(Head(cmdRx.q).val)
     IN \/ /\ ToInverterOpen
           /\ sendRx' = Broadcasted(Pkt("WriteSingle", Current, cmd.reg, new, 1, CurrentId))
           /\ loop' = "write" /\ want' = new /\ cmdRx' = Popped(cmdRx)
           /\ UNCHANGED <<cmd, todo, outcome>>
        \/ /\ ~ToInverterOpen
           /\ Fail
           /\ UNCHANGED sendRx
  /\ UNCHANGED <<mqttRx, coordRx, loopRx, sender, reader, devices, mqttUp, bounds>>

\* The last reply a command waits for decides how it ends.
ReplyToCommand ==
  /\ loop \in {"reply", "write"} /\ HasMessage(cmdRx) /\ Replies(Head(cmdRx.q))
  /\ ~TooShort(Head(cmdRx.q))
  /\ IF Accepts(Head(cmdRx.q).val) THEN Succeed ELSE Fail
  /\ UNCHANGED <<mqttRx, coordRx, loopRx, sendRx, sender, reader, devices, mqttUp, bounds>>

\* The reply to a time read is too short: the coordinator's task panics.
LoopPanic ==
  /\ loop = "reply" /\ HasMessage(cmdRx) /\ Replies(Head(cmdRx.q))
  /\ TooShort(Head(cmdRx.q))
  /\ loop' = "exited" /\ cmd' = NoCommand /\ todo' = <<>> /\ want' = {}
  /\ cmdRx' = Subscribed
  /\ outcome' = Append(outcome, [cmd |-> cmd, inv |-> Current, result |-> "unreported"])
  /\ UNCHANGED <<mqttRx, coordRx, loopRx, sendRx, sender, reader, devices, mqttUp, bounds>>

\* No packet is under way to or from a device, nor waiting for the command.
NothingUnderWay ==
  /\ \A i \in Inverters : sendRx[i].q = <<>> /\ wire[i] = <<>> /\ back[i] = <<>>
  /\ cmdRx.q = <<>>

\* Mutant: wait_for_reply has no timeout.
GiveUpOnLag ==
  /\ Waiting /\ HasLagged(cmdRx)
  /\ Fail
  /\ UNCHANGED <<mqttRx, coordRx, loopRx, sendRx, sender, reader, devices, mqttUp, bounds>>

\* wait_for_reply gives up: 30 seconds have passed, or its receiver lags.
GiveUp ==
  /\ Waiting
  /\ Prompt => NothingUnderWay \/ HasLagged(cmdRx)
  /\ Fail
  /\ UNCHANGED <<mqttRx, coordRx, loopRx, sendRx, sender, reader, devices, mqttUp, bounds>>

(***************************************************************************)
(* The tasks of a connection.                                              *)
(***************************************************************************)

\* Mutant: the serial of every frame is that of the connection.
FramedForConnection(i, p) == [p EXCEPT !.inv = i]

\* The frame that connection i's sender makes of p.  create_frame writes the data
\* logger of the connection, never the packet's: what a frame still says of the
\* inverter p is meant for is the serial in its data, which a ReadParam and a
\* WriteParam do not have.
Framed(i, p) == IF p.func \in {"ReadParam", "WriteParam"} THEN [p EXCEPT !.inv = i] ELSE p

\* Mutant: a packet is written again, as if the first write had failed.
SenderWriteTwice(i) ==
  /\ sender[i] /\ HasMessage(sendRx[i])
  /\ sendRx' = [sendRx EXCEPT ![i] = Popped(@)]
  /\ wire' = [wire EXCEPT ![i] = @ \o [n \in 1..2 |-> Framed(i, Head(sendRx[i].q))]]
  /\ UNCHANGED <<handler, mqttRx, coordRx, loopRx, sender, reader, back, regs,
                 executed, mqttUp, bounds>>

\* The sender writes the next packet of to_inverter, whichever inverter it is for.
SenderWrite(i) ==
  /\ sender[i] /\ HasMessage(sendRx[i])
  /\ sendRx' = [sendRx EXCEPT ![i] = Popped(@)]
  /\ wire' = [wire EXCEPT ![i] = Append(@, Framed(i, Head(sendRx[i].q)))]
  /\ UNCHANGED <<handler, mqttRx, coordRx, loopRx, sender, reader, back, regs,
                 executed, mqttUp, bounds>>

\* The sender ends: its receiver lagged, or a write failed or timed out.
SenderEnd(i) ==
  /\ sender[i]
  /\ \/ HasLagged(sendRx[i]) /\ UNCHANGED failures
     \/ failures < MaxFailures /\ failures' = failures + 1
  /\ sender' = [sender EXCEPT ![i] = FALSE]
  /\ sendRx' = [sendRx EXCEPT ![i] = Subscribed]
  /\ UNCHANGED <<handler, mqttRx, coordRx, loopRx, reader, devices, mqttUp,
                 received, events, changes>>

\* The reader decodes a packet and sends it to from_inverter: the loop's receiver
\* and, while a command waits, the command's.
ReaderDeliver(i) ==
  /\ reader[i] /\ back[i] # <<>>
  /\ back' = [back EXCEPT ![i] = Tail(@)]
  /\ loopRx' = IF loop = "exited" THEN loopRx ELSE Push(loopRx, Head(back[i]))
  /\ cmdRx' = IF Waiting THEN Push(cmdRx, Head(back[i])) ELSE cmdRx
  /\ UNCHANGED <<loop, cmd, todo, want, outcome, mqttRx, coordRx, sendRx, sender,
                 reader, wire, regs, executed, mqttUp, bounds>>

\* The reader ends: end of file, a read error, an undecodable frame, a silence.
ReaderEnd(i) ==
  /\ reader[i] /\ failures < MaxFailures
  /\ failures' = failures + 1
  /\ reader' = [reader EXCEPT ![i] = FALSE]
  /\ back' = [back EXCEPT ![i] = <<>>]
  /\ UNCHANGED <<handler, mqttRx, coordRx, loopRx, sendRx, sender, wire, regs,
                 executed, mqttUp, received, events, changes>>

(***************************************************************************)
(* The world around the bridge.                                            *)
(***************************************************************************)

\* A command message arrives on MQTT and is sent to from_mqtt.
MqttMessage(m) ==
  /\ mqttUp /\ received < MaxMessages
  /\ received' = received + 1
  /\ mqttRx' = IF loop = "exited" THEN mqttRx ELSE Push(mqttRx, m)
  /\ UNCHANGED <<handler, coordRx, loopRx, sendRx, sender, reader, devices, mqttUp,
                 events, changes, failures>>

\* The MQTT task ends, and with it the receiver of to_mqtt.
MqttEnd ==
  /\ mqttUp /\ failures < MaxFailures
  /\ mqttUp' = FALSE /\ failures' = failures + 1
  /\ UNCHANGED <<handler, mqttRx, coordRx, loopRx, sendRx, sender, reader, devices,
                 received, events, changes>>

\* The device takes a request whose frame names it, executes it, and answers with the
\* register's value (a param write: with zero).
DeviceExecute(i) ==
  /\ wire[i] # <<>>
  /\ LET p == Head(wire[i])
         now == IF p.func = "WriteSingle" THEN p.val
                ELSE IF p.func = "WriteParam" THEN {} ELSE regs[i][p.reg]
     IN /\ p.inv = i
        /\ regs' = IF p.func = "WriteSingle"
                   THEN [regs EXCEPT ![i] = [@ EXCEPT ![p.reg] = p.val]] ELSE regs
        /\ executed' = IF p.func \in {"WriteSingle", "WriteParam"}
                       THEN [executed EXCEPT ![i] = Append(@, p)] ELSE executed
        /\ back' = [back EXCEPT ![i] =
                      IF reader[i] THEN Append(@, Pkt(p.func, i, p.reg, now, p.count, p.id)) ELSE @]
  /\ wire' = [wire EXCEPT ![i] = Tail(@)]
  /\ UNCHANGED <<handler, mqttRx, coordRx, loopRx, sendRx, sender, reader, mqttUp, bounds>>

\* The device passes over a frame for another inverter; unless Prompt it may also
\* drop a request of its own, or refuse it with an error function.
DeviceRefuse(i) ==
  /\ wire[i] # <<>>
  /\ LET p == Head(wire[i])
     IN \/ UNCHANGED back /\ (p.inv # i \/ ~Prompt)
        \/ /\ p.inv = i /\ ~Prompt /\ reader[i]
           /\ back' = [back EXCEPT ![i] = Append(@, Pkt("Error", i, p.reg, {}, p.count, p.id))]
  /\ wire' = [wire EXCEPT ![i] = Tail(@)]
  /\ UNCHANGED <<handler, mqttRx, coordRx, loopRx, sendRx, sender, reader, regs,
                 executed, mqttUp, bounds>>

\* The device sends a packet no command asked for: its periodic input blocks, the
\* answer to the reader's own periodic ReadParam, or to another client's read.
DevicePush(i, f, r) ==
  /\ reader[i] /\ events < MaxEvents
  /\ events' = events + 1
  /\ \E c \in IF f = "ReadHold" THEN Counts ELSE {1} :
       back' = [back EXCEPT ![i] = Append(@, Pkt(f, i, r, regs[i][r], c, 0))]
  /\ UNCHANGED <<handler, mqttRx, coordRx, loopRx, sendRx, sender, reader, wire, regs,
                 executed, mqttUp, received, changes, failures>>

\* A register is changed at the inverter's panel.
PanelChange(i, r, v) ==
  /\ changes < MaxChanges
  /\ changes' = changes + 1
  /\ regs' = [regs EXCEPT ![i] = [@ EXCEPT ![r] = v]]
  /\ UNCHANGED <<handler, mqttRx, coordRx, loopRx, sendRx, sender, reader, wire, back,
                 executed, mqttUp, received, events, failures>>

\* The device executes another client's write, and its echo reaches the bridge too.
ClientWrite(i, r, v) ==
  /\ changes < MaxChanges
  /\ changes' = changes + 1
  /\ LET p == Pkt("WriteSingle", i, r, v, 1, 0)
     IN /\ regs' = [regs EXCEPT ![i] = [@ EXCEPT ![r] = v]]
        /\ executed' = [executed EXCEPT ![i] = Append(@, p)]
        /\ back' = [back EXCEPT ![i] = IF reader[i] THEN Append(@, p) ELSE @]
  /\ UNCHANGED <<handler, mqttRx, coordRx, loopRx, sendRx, sender, reader, wire,
                 mqttUp, received, events, failures>>
------------------------------------------------------------------------------
LoopStep ==
  \/ LoopMqtt \/ LoopMqttLagged \/ LoopForward \/ LoopInverter \/ LoopExit
  \/ BeginUnparsed \/ BeginRejected \/ BeginViaCoordinator \/ BeginUpdateHold
  \/ SkipPacket \/ ReplyToRead \/ ReplyToCommand \/ LoopPanic \/ GiveUp

Connection(i) == SenderWrite(i) \/ SenderEnd(i) \/ ReaderDeliver(i) \/ ReaderEnd(i)

Environment ==
  \/ \E m \in Messages : MqttMessage(m)
  \/ MqttEnd
  \/ \E i \in Inverters :
       \/ DeviceExecute(i) \/ DeviceRefuse(i)
       \/ \E r \in Registers :
            \/ \E f \in {"ReadHold", "ReadInput", "ReadParam"} : DevicePush(i, f, r)
            \/ \E v \in Values : PanelChange(i, r, v) \/ ClientWrite(i, r, v)

Next == LoopStep \/ (\E i \in Inverters : Connection(i)) \/ Environment

Spec == Init /\ [][Next]_vars
------------------------------------------------------------------------------
(***************************************************************************)
(* Fairness.  Every task is polled again and again; select! picks its      *)
(* ready branch at random, so a branch that is ready again and again is    *)
(* taken.  A timeout passes.  Nothing is assumed of the connections, of    *)
(* the devices behind them, or of the MQTT broker.                         *)
(***************************************************************************)
Fairness ==
  /\ WF_vars(BeginUnparsed \/ BeginRejected \/ BeginViaCoordinator \/ BeginUpdateHold)
  /\ WF_vars(GiveUp)
  /\ SF_vars(LoopMqtt) /\ SF_vars(LoopMqttLagged) /\ SF_vars(LoopForward)
  /\ SF_vars(LoopInverter) /\ SF_vars(LoopExit)

FairSpec == Spec /\ Fairness
------------------------------------------------------------------------------
(***************************************************************************)
(* Properties.                                                             *)
(***************************************************************************)

\* Every variable has its type, and a command runs exactly while some inverter is
\* still to be done.
TypeOK ==
  /\ loop \in Phases
  /\ cmd \in Command
  /\ todo \in Seq(Inverters)
  /\ (todo = <<>>) <=> (loop \in {"select", "exited"})
  /\ want \in Values
  /\ mqttRx \in Receivers(Messages)
  /\ coordRx \in Receivers(Packets) /\ loopRx \in Receivers(Packets)
  /\ cmdRx \in Receivers(Packets)
  /\ sendRx \in [Inverters -> Receivers(Packets)]
  /\ sender \in [Inverters -> BOOLEAN] /\ reader \in [Inverters -> BOOLEAN]
  /\ wire \in [Inverters -> Seq(Packets)] /\ back \in [Inverters -> Seq(Packets)]
  /\ regs \in [Inverters -> [Registers -> Values]]
  /\ mqttUp \in BOOLEAN
  /\ outcome \in Seq(Ended)
  /\ executed \in [Inverters -> Seq(Packets)]
  /\ received \in Nat /\ events \in Nat /\ changes \in Nat /\ failures \in Nat

\* The packets somewhere between the loop's forwarding and the command's receiver.
Forwarded ==
  ToSet(cmdRx.q) \cup
  UNION {ToSet(sendRx[i].q) \cup ToSet(wire[i]) \cup ToSet(back[i]) : i \in Inverters}

\* The command that sent a packet: one that has ended, or the running one.
CommandOf(n) == IF n \in DOMAIN outcome THEN outcome[n].cmd ELSE cmd

\* The inverter that command n is, or was, at.
InverterOf(n) == IF n \in DOMAIN outcome THEN outcome[n].inv ELSE Current

\* A command sent through to_coordinator can never be answered by the device's
\* reply to it: as long as it waits, the loop that would forward its request is
\* the task that waits, so neither the request nor a reply to it is anywhere on
\* the way.  What ends it is a timeout, or a packet that answers something else.
OwnReplyCannotArrive ==
  loop = "reply" => \A p \in Forwarded : p.id # CurrentId

\* Whatever write a device executes, its command was let through for the inverter it
\* named, if WriteInverter guards it, and the device is that inverter unless it is a
\* parameter write.  That one strays: let through for one inverter, it is executed by
\* every one that is connected, a read-only one too.
OnlyParamWritesStray ==
  \A i \in Inverters : \A p \in ToSet(executed[i]) : p.id # 0 =>
    /\ Guarded(CommandOf(p.id).kind) => InverterOf(p.id) \notin ReadOnly
    /\ InverterOf(p.id) = i \/ CommandOf(p.id).kind = "WriteParam"

\* The loop ends by itself only when one of its receivers lags, or when a time read
\* takes the late answer to a command that read one register at its address of its
\* inverter: a time read is never ended by time reads.  (Packets that nobody asked for
\* are set aside: one of them may be such an answer, too.)
ExitsHaveAReason ==
  loop = "exited" /\ events = 0 =>
    \/ HasLagged(loopRx) \/ HasLagged(coordRx)
    \/ \E n \in DOMAIN outcome :
         /\ outcome[n].cmd.kind \in {"UpdateHold", "ReadHold"}
         /\ outcome[n].cmd.kind = "ReadHold" => outcome[n].cmd.count = 1
         /\ outcome[n].inv = Last(outcome).inv /\ outcome[n].cmd.reg = Last(outcome).cmd.reg

\* A SetHold or UpdateHold is reported as done only if the device has executed a
\* write of that register that did what the command asked: its own, an equal one of an
\* earlier command whose echo came late, or another client's.
OkMeansWritten ==
  \A n \in DOMAIN outcome :
    LET e == outcome[n]
    IN e.result = "ok" /\ e.cmd.kind \in {"SetHold", "UpdateHold"} =>
         \E p \in ToSet(executed[e.inv]) :
           /\ p.func = "WriteSingle" /\ p.reg = e.cmd.reg /\ p.id <= n
           /\ IF e.cmd.kind = "SetHold" THEN p.val = e.cmd.val
              ELSE IF e.cmd.enable THEN e.cmd.val \subseteq p.val
              ELSE e.cmd.val \cap p.val = {}

\* Does a register value show what UpdateHold command c asked for?
Shows(v, c) == IF c.enable THEN c.val \subseteq v ELSE c.val \cap v = {}

\* Does command n, on inverter i, write some of the bits B of register r itself?
Overwrites(n, i, r, B) ==
  /\ InverterOf(n) = i /\ CommandOf(n).reg = r
  /\ \/ CommandOf(n).kind = "SetHold"
     \/ CommandOf(n).kind = "UpdateHold" /\ CommandOf(n).val \cap B # {}

Acknowledged(n) ==
  n \in DOMAIN outcome /\ outcome[n].result = "ok" /\ outcome[n].cmd.kind = "UpdateHold"

\* Replies carry no request number, so a command may take the late reply to an
\* earlier one for its own.  Still, once an UpdateHold has been reported as done,
\* a later UpdateHold of other bits of that register never writes its bit back, as
\* long as nobody else writes the register and no other command is about that bit.
\* (An earlier one counts too: reported as FAIL, its write may still be on the way
\* when an equal write is taken for the later one's.)
AcknowledgedUpdatesStick ==
  changes = 0 =>
    \A n \in DOMAIN outcome :
      LET e == outcome[n]
      IN Acknowledged(n) =>
           \A p \in ToSet(executed[e.inv]) :
             p.func = "WriteSingle" /\ p.reg = e.cmd.reg /\ p.id > n =>
               \/ \E m \in (1..p.id) \ {n} : Overwrites(m, e.inv, p.reg, e.cmd.val)
               \/ Shows(p.val, e.cmd)

\* Requests that take the same path are executed in the order of their commands,
\* and none twice.  (Between the paths there is no order: a SetHold that has failed
\* waits in to_coordinator while a later UpdateHold goes straight to the device.)
OrderWithinPath ==
  \A i \in Inverters : \A m, n \in DOMAIN executed[i] :
    LET a == executed[i][m]
        b == executed[i][n]
    IN /\ m < n /\ a.id # 0 /\ b.id # 0
       /\ ViaCoordinator(CommandOf(a.id).kind) <=> ViaCoordinator(CommandOf(b.id).kind)
       => a.id < b.id

\* Every command message is taken from from_mqtt and processed to its end, unless
\* the loop has exited.
MessagesAreProcessed ==
  (mqttRx.q # <<>> \/ Waiting) ~> ((mqttRx.q = <<>> /\ todo = <<>>) \/ loop = "exited")

\* A request left in to_coordinator by a command that has given up is forwarded
\* all the same: what was reported as FAIL is still going to be done.
RequestsAreForwarded ==
  (coordRx.q # <<>>) ~> (coordRx.q = <<>> \/ loop = "exited")

\* What read_only says: "preventing any write operations".
ReadOnlyIsNeverWritten == \A i \in ReadOnly : \A p \in ToSet(executed[i]) : p.id = 0

\* What mqtt_read_hold_command_reaches_inverter_and_publishes_hold expects: a read
\* command's request reaches to_inverter, and nothing is published about the
\* command before that.
ReadReachesInverterFirst ==
  \A p \in ToSet(coordRx.q) :
    p.func = "ReadHold" /\ p.id \in DOMAIN outcome => outcome[p.id].result # "FAIL"
==============================================================================
