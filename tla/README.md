# A formal model of eg4-bridge

eg4-bridge connects to one or more EG4/LuxPower inverters over TCP (through their
data loggers), publishes what they send on MQTT, InfluxDB, SQL databases and a file,
and passes commands that arrive on MQTT on to the inverters. It is a tokio program:
a handful of tasks that share a configuration, some timestamps and ten broadcast
channels. This directory has TLA+ modules of the parts where those tasks interact,
the TLC configurations that check them on small instances, and theorems about them
that TLAPS proves for every instance. Source paths below are relative to the crate,
`src/src/`.

Every definition that stands for code is listed with its lines in `PROJECT.json`
(`map`), and so is every hazard of the code with the properties aimed at it
(`hazards`).

## 1. The system

### Components, their state and operations

| component | state | operations | modelled in |
|---|---|---|---|
| coordinator loop (`Coordinator::start` in `coordinator/mod.rs`) | receivers of from_inverter, to_coordinator, from_mqtt | `select!` of the three; everything a message causes runs inline | CommandPath; its side towards the packets in InputRows, Sinks, Identity |
| commands (`process_message`, `process_command`, `coordinator/commands/*`) | the command, the inverters left to do, a receiver of from_inverter | read, SetHold, WriteParam, UpdateHold (read, modify, write), time reads and writes | CommandPath |
| channels (`channels.rs`) | the last 2048 messages, a cursor for each receiver | send, recv, Lagged | Broadcast |
| a connection (`eg4/inverter.rs`) | socket, timestamps, the tasks sender, reader, requests and timer | connect, write a packet, read and decode, close, heartbeat | CommandPath (packets), InverterLink (time), Identity (serials), Frames (bytes) |
| packet decoder and parser (`eg4/packet_decoder.rs`, `eg4/packet.rs`) | the reader's buffer | find the header, wait for the frame, checksum, parse | Frames |
| `wait_for_reply` (`eg4/inverter.rs` 40-70) | deadline, receiver | match, pass over, time out | CommandPath |
| packet fan-out (`process_packet`) | none of its own | serial update, cache, points, MQTT messages, input blocks | Identity, Sinks, InputRows |
| shared configuration (`config.rs`, `ConfigWrapper`) | the inverters' entries behind a mutex | look up; replace a serial or a datalog by its old value | Identity |
| `inputs_store` and rows (`coordinator/mod.rs` 940-1020, `packet.rs`) | the last block of each kind per data logger | merge, test, clear, send | InputRows |
| database writer (`database.rs`) | connection, receiver, attempts | connect, subscribe, insert with retries | InputRows |
| InfluxDB writer (`influx.rs`) | receiver, attempts | test the connection at the start; write with retries | Startup (test), Sinks |
| MQTT client (`mqtt.rs`) | receiver of to_mqtt, connection | set up a session; publish with retries; messages to from_mqtt | Startup (session), Sinks (sending), CommandPath (receiving) |
| process start and end (`main.rs`, `Coordinator::start`) | how far the start has come | start the components in order, connect the inverters, enter and leave the loop | Startup |
| register cache (`register_cache.rs`) | 512 values | set, get (never called) | Sinks |
| datalog writer (`datalog_writer.rs`) | file, receiver of from_inverter | append a line | Sinks |
| encoding of packets, configuration file, validators, Home Assistant, tables of names, scheduler | none that interacts | pure functions, or never called | not modelled, see section 7 |

### How they interact

```
            from_mqtt                 to_coordinator (SendPacket)
 MQTT task ----------> coordinator <------------------+
     ^                 loop (one task) ---------------+ the commands it runs inline
     | to_mqtt          |  |  |  |
     +------------------+  |  |  +--> to_influx --> InfluxDB task
                           |  +-----> to_database -> database tasks
        to_register_cache  |
   cache task <------------+          to_inverter
                           | ------------------------> each connection's sender
                           |                           (and its reader, which only wakes)
                           +<------------------------- each connection's reader
                                from_inverter          (also the waiting command,
                                                        also the datalog writer)
```

`main.rs` spawns the coordinator. `Coordinator::start` subscribes the loop's receivers,
connects the inverters **one after the other** (each with attempts without end), and
only then enters the loop. A loop that has broken out is not noticed: the process waits
on for ctrl-c. An inverter whose reader has ended is never connected again.

### What is hard

* **One task does everything.** The loop awaits a whole command, and most commands put
  their request on a channel that only the loop receives. The request leaves the bridge
  when the command has given up on it (`mod.rs:487`).
* **Two paths.** `SetHold` goes through to_coordinator, `UpdateHold` straight to
  to_inverter. Requests of different paths overtake each other.
* **Replies have no number.** A reply is matched by data logger, register and function:
  a late reply, one that another client asked for, or the echo of another client's write,
  is taken for the answer.
* **Frames carry the connection's name.** Every connection's sender writes every packet of
  to_inverter, with its own data logger in front (`packet.rs:1463`). What says whose a packet
  is stands in its data, and a parameter's read or write has no such field (`packet.rs:2124`).
* **Channels lose messages.** A receiver more than 2048 messages behind gets `Lagged`,
  which ends the loop, a sender, a database, MQTT, the cache or the datalog file, and is
  only logged by from_mqtt's receiver and InfluxDB.
* **Time.** Two timeouts (300 s and 900 s), a heartbeat, and periodic requests share
  one reader that blocks on its socket; what wakes it is what other tasks send.
* **Blocks without a beginning.** `inputs_store` keeps the last block of each kind and
  does not know where a poll begins.
* **Bytes.** TCP cuts frames anywhere, and the parser counts in `u8`: it takes the length of
  a frame modulo 256 and subtracts from it.
* **A start that may last.** The MQTT task runs from the second step of the start on, and
  inverters may take for ever to accept. Commands that come in the meantime wait in from_mqtt.
* **Setup is done once.** Status, subscriptions and will belong to the first session; a
  connection to the broker that is lost and made again subscribes to nothing.
* **Shared configuration.** Readers and loop look up a value under one lock and replace
  it, *by value*, under another.

### What makes it correct

| component | what should hold |
|---|---|
| commands | every message is processed; an OK means that a device has done it; a switched bit is not switched back by another command; a read-only inverter is not written; a request reaches the inverter it is meant for; requests of one path are executed in order, once |
| connections | a silent connection is closed within a known time, whatever the timers do |
| frames | what has arrived is decoded, whatever the cuts; nothing an inverter regularly sends ends the reader; no arithmetic goes below zero; the buffer does not fill |
| start and end | commands wait, in order, and are taken; waiting commands do not end the loop; the broker does not call a bridge that is gone online |
| rows | a row is one poll as far as the polls are undisturbed; no block in two rows; rows arrive in order and not more often than they are tried; nothing holds the later ones up |
| other sinks | order, at most so many copies, no gaps where the code ends rather than goes on; the cache is not stale while it is alive |
| configuration | a value is never given to the wrong entry when values tell the entries apart; strict_data_check keeps what it promises; the right values are learned |

## 2. The modules

`Broadcast` (a receiver of a tokio broadcast channel) is extended by `CommandPath`,
`InputRows`, `Sinks`, `Identity` and `Startup`. `Delivery` is the abstract specification of
what passes items on in order; `InputRows`, `Sinks` and `Frames` instantiate it with
refinement mappings. `InverterLink` stands alone. Each has an MC module with the small
instances. `CommandPath`, `InputRows`, `Sinks` and `Identity` are four views of the
coordinator's loop that share no state: the packets' way through the fan-out does not
depend on commands except through the time the loop needs, and that is arbitrary in each
module. `Frames` is what lies below a reader's `Receive` in those modules, `Startup` what
comes before the loop and beside it.

**Broadcast.** A receiver is a record of the queue and a flag `lagged`. `Push` drops the oldest
message of a full queue and sets the flag; `Lagged` is returned once and clears it (`CaughtUp`);
`PushAll` sends several in a row. 2048 in the code, the constant `Capacity` here. tokio rounds
capacities up to a power of two; the code's is one.

**CommandPath.** From an MQTT message to the registers and back. `loop` is the position of the
coordinator's task: in `select!`, at the beginning of a command (`begin`), in one of the waits
(`reply` for a request sent through to_coordinator, `read` and `write` of UpdateHold), or out of
the loop. `todo` has the inverters `process_message` has yet to do. Each await is a step
boundary: `BeginViaCoordinator`, `BeginUpdateHold`, `SkipPacket`, `ReplyToRead`,
`ReplyToCommand` and `GiveUp` are what the handler does between two awaits. The sender and
reader of each connection and the device behind it are actions of their own, so a reply may be
late by any amount. `Framed` is what a frame still says of the inverter its packet is meant for:
a device passes over the frame of another one's register write, but executes a parameter write
whoever it was for. `DevicePush` and `PanelChange` are packets nobody asked for and registers
changed at the panel; `ClientWrite` is another client's write, whose echo reaches the bridge.
The register changes of others are counted by `changes` (bound `MaxChanges`), their packets
without a change by `events` (`MaxEvents`). A register's value is the set of its one bits; of
the number of registers a packet is about, `count` keeps whether it is less than two, which a
time read indexes without looking (`LoopPanic`). The pause of `delay_ms` after a read is a step
that takes its time. `id`, `outcome` and `executed` are history. `Prompt` restricts the
environment to devices that answer before any timeout; only the run `read_first` uses it, to
show that the finding needs no fault of the device.

**InverterLink.** The order of connecting, and each connection's clocks: `silent` is
`time_since_received`, which runs from `Inverter::new`; `quiet` runs from the connection
(history); `reading` is the age of the read under way. Whatever is sent to to_inverter
wakes every reader (`WakeReaders`), which looks at inverter_timeout and reads anew
(`ReaderAgain`). `Tick` is a unit of time and waits until the tasks have done what they
have to: they are prompt compared to 15 seconds.

**InputRows.** Inverters send polls of blocks in order, with disturbances (`LostBlock`,
values that do not decode or validate, blocks `Asked` for apart). `ProcessPacket` merges,
tests and sends; a database task connects twice with the subscription in between
(`Subscribe`, `Opened`), takes a row, and tries to insert it (`Insert`, `InsertFails`,
whose effect may be there all the same).

**Sinks.** The rest of `process_packet`, and the tasks of InfluxDB, MQTT, the cache and
the datalog file, each with its own reaction to a lag and a failure.

**Identity.** `Compare`, `Lookup` and `Replace` are the three times a reader locks the
configuration; `ProcessPacket` and `ProcessReplace` are the loop's two. An entry is
identified with its host.

**Frames.** Bytes are counted, not kept: a frame is its function, its length field, and
whether header, checksum and number of values are right; it lies at an offset of the
stream. `Read` takes any number of bytes in `Chunks`, `Decode`, `Refuse` and `Wait` are the
three ways `PacketDecoder::decode` returns, and `closing` is `decode_eof`. `Admitted`,
`Intact`, `TooShort`, `Underflows`, `Mismatch` and `Decodes` are the tests in the code's
order, with `u8` arithmetic as `% 256`. `Regular` has the frames an inverter answers with.

**Startup.** `phase` is the step `Coordinator::start` is at; each step has its action, and
its failure one of its own when it has one. The MQTT task runs beside it: `Connect`,
`SendRequest` (status and subscriptions, in order), `Drop` (the client keeps what was not
acknowledged), `Receive`. The broker has the retained `status` and publishes the `will` of a
lost session. `heard` and `taken` number the commands. What a command or packet does then is
not here.

**Delivery.** `Send` raises the number of items sent, by any number (`Fresh`); `Deliver` appends
one that does not precede the last, has not arrived `Copies` times and, unless `MayDrop`, is not
ahead of a missing one.

## 3. The runs

All configurations are checked exhaustively; no symmetry or state constraint is used,
the bounds are constants in the guards of the environment's actions. The actions of the
program itself are unbounded, except that there is nothing for them to do.

| run | question | instance, and why it is enough |
|---|---|---|
| `switches` | `AcknowledgedUpdatesStick`: may a bit that was reported as switched be switched back by a command on another bit, through late replies? | three UpdateHold commands on two bits of one register, and one packet nobody asked for. A stale reply needs one command that times out and one that takes its reply; a third can undo what was reported. (The exception for *earlier* commands about the bit needs six, see below; the theorem covers them.) 6,345,256 states. |
| `paths` | `OwnReplyCannotArrive`, `OnlyParamWritesStray`, `OrderWithinPath` | two inverters, one read-only; two messages, each to one inverter or to all, so up to four commands: writes of a register on both paths, and of a parameter, whose frame names no inverter. 6,151,962 states. |
| `kinds` | every way a command can take, and `TypeOK`, `ExitsHaveAReason`, `OkMeansWritten`, `MessagesAreProcessed`, `RequestsAreForwarded` | one inverter, time reads among the commands, channels of capacity 1 (so that everything can lag), one write of another client or change at the panel, one task that ends; two messages, so that the second can take what is late of the first. |
| `link` | `SilenceIsNoticed`, `SilenceEndsReader` | two inverters, periods 2, 3, 4, 5 in the order of the code's 30, 45, 120, 300 s; one read_timeout above and one below the requests' period. |
| `rows` | `RowsSpanFewPolls`, `NoBlockTwice`, `DatabasesDeliver`, `RowsAreDone` | six packets: three polls of two blocks, two disturbances, one database with two attempts and a channel of two rows. |
| `sinks` | `CacheIsCurrent`, `LogHasNoGaps`, `InfluxDelivers`, `MqttDelivers`, `PointsAreDone` | four packets of all kinds, channels of two messages, so that each can lag, two attempts. The optional sinks do not affect each other, so one is enabled at a time. |
| `identity` | `OwnValues`, `StrictKeepsDatalogs`, `Learned` | two inverters and a disabled entry, every combination of wrong values (sixteen), strict or not. |
| `frames` | `NothingLeftBehind`, `RegularFramesAreRead`, `BufferHoldsOneFrame`, `NoUnderflow`, `DecoderDelivers` | seventeen kinds of frames, so that each test of decoder and parser refuses one; three frames, so that one lies between two others; reads of 17 bytes, less than the smallest frame, or of 300, more than most. |
| `startup` | `CommandsWait`, `LoopEndHasAReason`, `StaysDeaf`, `EndIsNoticed`, `WaitingCommandsAreTaken` | all optional components or none; two inverters, so that the first sends while the second is awaited; three commands and four messages of inverters for channels of two, so that both can lag; two lost connections, so that one hits the setup and one what comes after it. |
| `read_only`, `read_first`, `read_timeout` | the three findings below | violations. `read_timeout`: one inverter with a read_timeout of 90 s, everything else as in the code, 15 s to a unit. |

Deadlock is not checked in `kinds`, `paths`, `switches`, `rows`, `sinks`, `frames`, `startup`,
`read_only` and `read_first`, where the bounds on messages, packets and frames let the
system come to rest, or the process or the reader has ended.

What the passing runs show, in words:

* A command sent through to_coordinator **never** sees the reply to its own request: it
  ends with a timeout, or with a packet that answers something else (`OwnReplyCannotArrive`).
  Its request is forwarded and executed all the same (`RequestsAreForwarded`), in order and
  once within its path (`OrderWithinPath`). Between the paths there is no order, and the
  overtaking does happen; no property says otherwise.
* However late it is executed, a write that `WriteInverter` guards was let through for the
  inverter its command named, and only a write of a parameter is executed by another one
  (`OnlyParamWritesStray`). That one is executed by every connected inverter, a read-only
  one too, because its frame does not say which one is meant.
* Even so an OK is never wrong about the register: some write that did what was asked
  has been executed (`OkMeansWritten`): the command's own, an equal one of an earlier
  command, or another client's. And UpdateHold commands, which may take each
  other's late replies, do not undo one another unless some other command is about the
  same bits (`AcknowledgedUpdatesStick`). That command need not be a later one: switch b2 on,
  b2 on, b1 on, b1 off, all reported as FAIL with their writes still on the way, then b1 on,
  which takes the echo of the earlier equal write for its own and is reported as done, and
  then b2 on, which reads the register after the late `b1 off` and writes b1 back as off.
  `Overwrites` excuses this, and a SetHold, which replaces the whole register. The run has
  three commands, too few for it; the attempt to prove the property without the exception
  showed it, and a run with six commands confirmed it.
* A time read takes four bytes of its reply. The reply it takes may be the late one to an
  UpdateHold or to a read of one register at the same address: the coordinator's task
  panics, and the bridge is deaf while the process goes on. Nothing but that, a packet
  nobody here asked for, or a lag ends the loop: time reads do not end one another
  (`ExitsHaveAReason`).
* A silent connection is closed at the latest one round of requests after
  inverter_timeout, and one look of the timer after it when the heartbeats have begun by
  then. read_timeout does not close it: see the finding `read_timeout`.
* Rows mix at most as many polls as the inverter's polls have been disturbed. The
  bound is tight: one disturbance mixes all later rows. No packet is in two rows.
* Each sink implements `Delivery` with its own constants: databases and InfluxDB may
  miss items and repeat one up to their number of attempts; MQTT misses and repeats
  nothing until its task ends. The latter is about what the client takes: what the broker gets
  of it, with QoS 1 and lost connections, is not here.
* An InfluxDB or a database that fails does not stop the points and rows behind, **as long as
  its attempts return** (`PointsAreDone`, `RowsAreDone`).
* As long as the configured values tell the entries apart, all interleavings of
  readers and loop only ever give an entry the values of its own host.
* However TCP cuts the bytes, every frame that has arrived whole is decoded before the
  reader waits again, and the buffer never holds as much as one frame of the largest size
  then. Nothing an inverter answers with ends the reader; a heartbeat does, being shorter
  than the decoder's minimum, and so does a reply about 110 to 118 registers, whose length
  modulo 256 is too small. The parser's unguarded subtraction is never below zero, but only
  because the same wrap-around has refused the frame before.
* Commands that come while the inverters are being connected are taken in order and none is
  lost up to the channel's capacity; more of them are lost without ending the loop, while
  more packets than that end it as it starts. A loop that has ended by itself has taken a
  command (whose ways of ending it are CommandPath's) or met such an overrun
  (`LoopEndHasAReason`).
* Whatever ends the MQTT task, the broker's status does not stay online. But a connection
  that is lost after the setup leaves a bridge that never hears a command again.

### Fairness

* A task that can go on does (`WF` on the steps of each task): tokio polls it.
* `select!` picks a ready branch at random, so a branch that is ready again and again is taken:
  `SF` on the loop's branches.
* Timeouts pass: `WF` on `GiveUp`, `Tick`, `ReaderTimeout`.
* Of the outside of the bridge no answer is assumed. `reqwest::Client::new()` (`influx.rs:25`)
  and the request (`influx.rs:31-57`) have no timeout, so an InfluxDB that accepts and never
  answers holds its task for ever; the ten seconds at `influx.rs:268` are the pause after an
  attempt that failed. An INSERT has no timeout either, only the acquire of a connection has
  (`database.rs:78`). `FairSpec` of Sinks and InputRows therefore has no fairness for attempts,
  and `PointsAreDone` and `RowsAreDone` name it as their assumption (`AttemptsReturn`,
  `InsertsReturn`). MQTT's publish is repeated without limit, and no liveness property is stated
  about it.
* In `Startup`, an inverter that accepts from some time on is connected by the next attempt
  (`WF` on `ConnectInverter`), and the broker notices a dead connection, by its keep-alive if by
  nothing else (`WF` on `BrokerNotices`). There the loop does nothing but take messages or end
  by one, and each branch has `WF`. Nothing makes InfluxDB answer or the broker accept a
  connection.
* Nothing is assumed of devices, panel, other clients, broker, or of connections being made or
  staying up; in CommandPath not even that a connection's tasks run, as its liveness properties
  do without. The one exception is `Identity`, where `Learned` is about inverters that go on
  sending translated data: `SF` on `Receive(e, TRUE)`.

## 4. Findings

Disagreements between the code and what is written about it, each with a run in which
TLC finds it:

1. `read_only`: UpdateHold commands (AC charge, charge priority, forced discharge) write
   a read-only inverter; `config.yaml.example:40` and a comment at `mod.rs:736` say they do
   not.
2. `read_first`: a read command publishes FAIL before its request has left the bridge,
   with a perfect device; a test expects the value.
3. `read_timeout`: a connection without a packet outlives read_timeout, because every round
   of requests starts the wait for a read anew; `config.yaml.example:36` and `CHANGELOG.md:3` say
   that it is then dead.

`PROJECT.json` quotes the lines. Behaviour of the models that also differs from what is
written, or from what one would expect, and has no run of its own:

* A parameter write let through for one inverter is executed by every connected one, also a
  read-only one (`OnlyParamWritesStray` has the exception; `packet.rs:1458-1481`, 2124,
  `inverter.rs:495`); `config.yaml.example:40`.
* The coordinator's loop replaces a serial without looking at strict_data_check
  (Identity, `ProcessReplace`; `mod.rs:546-556`); `config.yaml.example:3` says that serials must
  not be updated then.
* An inverter that accepts more than inverter_timeout after the start is closed at once, for
  good, because the silence is counted from the start (InverterLink, `ReaderAgain`).
* The INSERT of `database.rs:266-273` has 91 placeholders for 68 columns, so PostgreSQL refuses
  every one. InputRows lets an INSERT succeed or fail, which covers it and more.
* A heartbeat ends the reader, and so does a reply about 110 to 118 registers (Frames).
* A serial or data logger is replaced in the first entry that has the old value, not in the
  one of the host (Identity, `Replace`); `config.yaml.example:30`.
* `CHANGELOG.md:3` says that the bridge reconnects to an inverter; nothing in the code does, and
  an end of a connection is final in every module.

## 5. What is proved

`BroadcastProofs` and `CommandPathProofs` hold for every set of inverters, registers, bits and
commands, every capacity, and every value of the bounds, from `CommandAssumption` and
`CapacityAssumption` (the configuration is a sequence of the inverters, read-only
ones are among them, there is a register, commands have their type, bounds are natural
numbers, channels keep at least one message).

* `TypeCorrect`: `Spec => []TypeOK`. TypeOK also says that a command is at work exactly
  while an inverter is still to be done, which the other proofs need to know that
  `Head(todo)` is an inverter.
* `PacketsStayInPlace`: `Spec => []PacketsInPlace`, the inductive invariant.
* `OwnReplyNeverArrives`: `Spec => []OwnReplyCannotArrive`.
* `ExitsAreExplained`: `Spec => []ExitsHaveAReason`.
* `OnlyParamsStray`: `Spec => []OnlyParamWritesStray`.
* `PathsKeepOrder`: `Spec => []OrderWithinPath`.
* `OkIsWritten`: `Spec => []OkMeansWritten`.
* `UpdatesStick`: `Spec => []AcknowledgedUpdatesStick`.

The properties of `OwnReplyNeverArrives`, `ExitsAreExplained` and `OnlyParamsStray` are not
inductive. That no packet of the running command is on its way
depends on where packets can come from: a reply is to a request on the wire, a request on
the wire comes from a sender's receiver, and what is there was forwarded by the loop,
which it does only while no command waits. `PacketsInPlace` says this for each
place at once: a packet in to_coordinator belongs to a command up to the running one;
everywhere past it, to a command that has ended, except while UpdateHold (which does not
use to_coordinator) waits; and the command of a guarded request was let through for the inverter
it named (`Requests`). And every packet that carries a number asks, or answers, what the command of
that number asked (`Asked`: register, number of registers, and the inverter, unless its frame
does not have one: `Stray`), so the short reply of `LoopPanic` leads to a command; a packet
without a number is the echo of another client's write or needs somebody who pushes it
(`events > 0`). What a device executes is such a request or another client's write
(`Executions`). The invariant is of the proofs only and stands in `CommandPathProofs`.
`CommandOf` reads the command from the history, and the proof has a lemma that
appending an outcome does not change the command of an earlier packet. The proof has one
lemma for each action, and the theorem combines them. `BroadcastProofs` has what a receiver's
operations do to the set its messages come from: each place's invariant is membership
in `Receivers(S)` or `Seq(S)`, so moving a packet is moving a member of S.

`PathsKeepOrder` needs the order of everything in front of the device. `KindsInPlace` says which
commands the packets in each place are of, and up to which number writes have gone
(`WritesUpTo`). `InOrder` says that each place is in order in itself and that the places are in
order (leaving out other clients' writes), the device's history ahead of the wire, the wire
ahead of the sender's receiver, that one ahead of to_coordinator. Both are stated with `Ordered`
and `Ahead` for any relation on packets, so the lemmas about appending, popping and dropping the
oldest are proved once; the relation is `PathOrder`.

`OkIsWritten` rests on `Echoed`: every echo of a write on its way to a command is of a write
in the device's history, and a waiting UpdateHold wants a value that shows what it asked. A
command that is reported as done took such an echo, its own, another command's or another
client's.

`UpdatesStick` says what becomes of a bit after the acknowledgement. `Undisturbed` has, as
long as nobody else writes (`changes = 0`; packets nobody asked for may come, they tell what the
register holds), four parts. `Steady`: bits that no command was about
have one value everywhere, in the register, in all that tells of it and in what is still to be
written. `Switching`: while an UpdateHold waits for the echo of its write and no earlier command
was about its bits, these bits switch only once along the way (`Along`): behind the first packet
that shows what it asked for, every packet shows it, and so do the register and what is to be
written. `Settled`: from an acknowledged command on, the register, what tells of it and what is
to be written show what it asked for, unless another command is about its bits. `Kept`: so does
every later command's write, also when it has been executed. The echo that acknowledged the
command may be an earlier one's: `Settled` begins nevertheless, because by `Switching` all that
is behind that echo shows what was asked (`NewlySettled`). An earlier command about the same
bits may leave its own writes there, which is why it must be excepted.

`IdentityProofs` holds for any number of entries, any set of configurations and any values
the inverters send, from `IdentityAssumption` (configurations and inverters have a serial
and a data logger each, the enabled entries are entries).

* `TypeCorrect`: `Spec => []TypeOK`. The first entry with a value is found by `CHOOSE`, so the
  proof needs that a set of numbers has a least one (`LeastNumber`, from the library's
  well-foundedness of `<`).
* `DatalogsStay`: `Spec => []StrictKeepsDatalogs`, with the invariant `Restrained`: under
  strict_data_check no reader gets beyond its comparison, and the loop changes serials only.
* `ValuesStayOwn`: `Spec => []OwnValues`. OwnValues speaks of the configuration only and is not
  inductive: a task replaces what it has looked up earlier. `Tracked` adds that what a
  reader or the loop is about to replace is a value of the entry it means. When the values
  tell the entries apart, the entries that have that value are that entry or none
  (`OwnerIs`), so a replacement by value is one by host, or does nothing.

`InverterLinkProofs` holds for any inverters, periods and timeouts, from `LinkAssumption`.
`SilenceIsBounded` (`Spec => []SilenceIsNoticed`) and `ReadTimeoutIsIdle`
(`Spec => []ReadTimeoutIsNeverReached`: a read_timeout longer than the requests' period ends no
reader, which is why the run `read_timeout` finds what it does) follow from one invariant,
`LinkInvariant`:

* `Counted`: the bridge's `silent` is at least `quiet` (up to the horizon), and only
  connected readers run;
* `Watched`: while a reader blocks, `reading + request` is at most the requests' period
  (a read began no earlier than the last round), `quiet` is less than inverter_timeout plus
  the age of the read (the silence was looked at when the read began), and, if the timer
  sends heartbeats by then, `quiet + timer` is at most inverter_timeout plus the timer's period.

Each action either wakes the reader, which exempts it until it looks again, or changes
these sums in the right direction: a unit of time leaves them as they are
(`TickArithmetic`). `ReadTimeoutIsNeverReached` is part of the invariant, since its
violation would be an end, which does not show later in the clocks.

`FramesProofs` holds for any traffic, any cuts and any number of frames, from
`FramesAssumption` (frames have their type, a read asks for at most 109 registers).
`FramesInvariant` says that the frames lie one behind the other, that what has been consumed
ends where a frame ends, and that the frames decoded are exactly those up to there. All of
it rests on one lemma about positions: two frames that begin at the same offset are the
same.

* `TypeCorrect`, `NoFrameIsLeft`, `BufferIsBounded`: what the decoder waits for is always the
  next frame, and it lacks a byte of it, so all frames before it are decoded and the rest is
  less than one frame.
* `RegularTrafficIsRead`: every frame of `Regular` is `Readable`. `ParserNeverUnderflows`:
  `Byte(len) < 6` makes `Byte(len + 6) < 12`, which is refused before.
* `DrainIsEmpty`: `Spec => [][ClosingDecodesNothing]`, for which no run is needed.
* `FramesAreDelivered`: the reader implements `Delivery`.

`StartupProofs` holds for any number of inverters, any configurations, capacity and bounds,
from `StartupAssumption` and `CapacityAssumption`. The invariant has four parts: `TypeOK`;
`Unstarted`, what no step has touched before its turn; `Waiting`, that the numbers taken and
waiting ascend to `heard`, and are all of them up to the channel's capacity; and `Overrun`,
that a receiver of from_inverter that has lagged has had more messages than it keeps.

* `TypeCorrect`, `CommandsWaitForTheLoop`, `LoopEndIsExplained`: from the invariant.
* `DeafForGood`: an action property, from the invariant and the actions alone.

`SinksProofs` and `InputRowsProofs` hold for any packets, inverters, blocks, databases,
capacity and numbers of attempts. InfluxDB and the databases are the same task to the proof:
one that takes numbered items off a receiver and tries each several times.
`InSequence` (in `BroadcastProofs`) says that its deliveries, the item in hand and its queue
ascend in this order, and that none was delivered more often than it has been tried;
there is one lemma for each step of such a task (send, take, try, deliver).

* Sinks: `InvariantHolds` has a part for each sink: `PointsInOrder` (InSequence),
  `MessagesInOrder` (what was published and what is queued are all the messages, until a lag),
  `ValuesInOrder` (for the cache: what was stored last and what waits is the last value of
  each register) and `LinesInOrder`. From it `TypeCorrect`, `CacheStaysCurrent`, `LogIsWhole`,
  and the two refinements `PointsAreDelivered` and `MessagesAreDelivered`.
* InputRows: a row is made of what the store has, and `NoBlockTwice` says nothing of the
  store. `InvariantHolds` orders an inverter's blocks along their way: what waits in the
  channel ascends and is newer than the store (`QueueInOrder`, `PartsBefore`), the store is
  newer than every row of its inverter (`RowsBeforeStore`), and rows do not overlap
  (`NoBlockTwice`). With `LoopTypes`, `TaskTypes` and `TablesInOrder` (InSequence, for
  each database) this gives `TypeCorrect`, `BlocksAreUsedOnce` and `RowsAreDelivered`.
* `RowsAreNarrow`: `Spec => []RowsSpanFewPolls`. The invariant `PollsInvariant` says that there
  are, for each inverter, a set `calm` of polls that nothing disturbed, a set `clean` of those
  with no disturbance up to their end, and for each poll f the oldest poll `oldest[f]` whose
  blocks may be in the store while the blocks of f are taken. After a calm poll no block
  of an older one is left, because a row was made with its last block or before (`PollCompletes`);
  after a clean one none at all; a disturbed one leaves `oldest` as it is, and has raised
  `upsets`. So `f <= oldest[f] + upsets` (`Polls`), and the parts of a row lie between `oldest[f]`
  and f (`RowIsNarrow`). `Queued` and `Gathered` relate this to what waits and what is stored, as
  long as the loop takes everything (`Live`). The three are not variables: the invariant
  says that they exist, and each step's lemma gives the next ones. TLC checked it, with the
  three as history variables, before it was proved.

## 6. What is only model-checked

Liveness (`MessagesAreProcessed`, `RequestsAreForwarded`, `SilenceEndsReader`, `RowsAreDone`,
`PointsAreDone`, `Learned`, `EndIsNoticed`, `WaitingCommandsAreTaken`), which is beyond the proof
system. Every invariant and every action property of a passing run is a theorem.

## 7. What is not modelled

* Encoding of packets, and the values of a packet's fields: Frames has lengths, functions
  and checksums. A number of value bytes that is odd panics where the values are read as
  words (`packet.rs:1571`); the readers of frames here do not read them.
* The configuration file, Home Assistant's messages, the tables of names and scale
  factors, statistics and logging: no state that anything interacts with.
* `Scheduler::new`, `Components::stop`, `RegisterCache::get`, TimeSync, the set_* helpers of
  `inverter.rs` 819-1052 and the messages Shutdown and Disconnect: never called or sent.
* The wrap-around of `time_since_received` when a packet arrives between the two loads
  (`inverter.rs:215`).
* "All required subscribers are ready" (`mod.rs:387`) tests receivers subscribed some lines
  before, so it always is; Startup has no step for it.
* Times other than order: back-off and pauses between attempts.
* What rumqttc, sqlx, reqwest and the kernel's sockets do with accepted data.
* Translated data with fewer than two value bytes, which the datalog file leaves out
  (`datalog_writer.rs:144`): Sinks' packets have values.
* The panic of the cache's setter over a register of 512 or more is an end of the setter in
  Sinks; `CacheIsCurrent` is about a setter that runs.

## 8. Plan

Done: Broadcast, Delivery, CommandPath, InverterLink, InputRows, Sinks, Identity, Frames and
Startup, each with its run and, but for liveness, its proofs. What would come next, most useful
first:

1. A refinement of the reader's `Receive` in the other modules by Frames, so that a
   reader's end for a refused frame is one of their reasons.
2. InverterLink: a clock fine enough for the two loads of `time_since_received`.
