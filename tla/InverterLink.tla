----------------------------- MODULE InverterLink -----------------------------
(***************************************************************************)
(* The life of the connections to the inverters: Coordinator::start, which *)
(* connects them one after the other, and for each inverter the reader     *)
(* task (inverter_periodic_reader), the task it spawns to send two         *)
(* ReadParam requests again and again, and the timer task that sends a     *)
(* heartbeat when nothing has been received for long.                      *)
(*                                                                         *)
(* Whatever any of them sends to to_inverter wakes every reader, which     *)
(* then looks at inverter_timeout and starts a new read, with a new        *)
(* read_timeout.  Time passes in units of 15 seconds (one failed attempt   *)
(* to connect and the pause after it), and only when none of these tasks   *)
(* has anything to do: they are prompt.                                    *)
(***************************************************************************)
EXTENDS Naturals, Sequences, SequencesExt

CONSTANTS
  Order,            \* the enabled inverters, in the order of the configuration
  TimerPeriod,      \* between two looks of the timer task (30 s)
  RequestPeriod,    \* between two rounds of requests (45 s)
  HeartbeatAfter,   \* silence after which the timer sends heartbeats (120 s)
  InverterTimeout,  \* silence after which the reader closes (inverter_timeout, 300 s)
  ReadTimeout,      \* the longest a read of each inverter lasts (read_timeout, 900 s)
  Horizon,          \* bound: a silence longer than this is not told from it
  MaxFailures,      \* bound: readers that end for other reasons
  MaxCommands       \* bound: requests of commands

Inverters == ToSet(Order)

ASSUME LinkAssumption ==
  /\ Order \in Seq(Inverters) /\ IsInjective(Order)
  /\ TimerPeriod \in Nat \ {0} /\ RequestPeriod \in Nat \ {0}
  /\ HeartbeatAfter \in Nat /\ InverterTimeout \in Nat \ {0}
  /\ ReadTimeout \in [Inverters -> Nat \ {0}]
  /\ Horizon \in Nat /\ InverterTimeout <= Horizon
  /\ MaxFailures \in Nat /\ MaxCommands \in Nat

VARIABLES
  started,    \* how many inverters Coordinator::start has connected
  reader,     \* each inverter's reader task: "none", "runs", or why it has ended
  woken,      \* the reader is about to begin its loop again
  reading,    \* how long its current read has lasted
  silent,     \* time_since_received: since the last packet, or since Inverter::new
  quiet,      \* since the last packet, or since the connection was made
  timer,      \* until the timer task looks again
  request,    \* until the requests are sent again
  failures, commands      \* counters of the bounds

clocks == <<reading, silent, quiet, timer, request>>
vars   == <<started, reader, woken, clocks, failures, commands>>

Runs(i)      == reader[i] = "runs"
Connected(i) == \E n \in 1..started : Order[n] = i

Min2(a, b) == IF a < b THEN a ELSE b
------------------------------------------------------------------------------
Init ==
  /\ started = 0
  /\ reader = [i \in Inverters |-> "none"]
  /\ woken = [i \in Inverters |-> FALSE]
  /\ reading = [i \in Inverters |-> 0]
  /\ silent = [i \in Inverters |-> 0]
  /\ quiet = [i \in Inverters |-> 0]
  /\ timer = [i \in Inverters |-> 0]
  /\ request = [i \in Inverters |-> RequestPeriod]
  /\ failures = 0 /\ commands = 0

\* Mutant: nobody is woken.
WakeNobody == UNCHANGED woken

\* A send to to_inverter.
WakeReaders == woken' = [i \in Inverters |-> woken[i] \/ Runs(i)]

\* The next inverter accepts the connection: its tasks are spawned.  The timestamps
\* are those of Inverter::new, before the first attempt.
Connect ==
  /\ started < Len(Order)
  /\ started' = started + 1
  /\ LET i == Order[started + 1]
     IN /\ reader' = [reader EXCEPT ![i] = "runs"]
        /\ woken' = [woken EXCEPT ![i] = TRUE]
        /\ quiet' = [quiet EXCEPT ![i] = 0]
  /\ UNCHANGED <<reading, silent, timer, request, failures, commands>>

\* Mutant: the silence is not looked at.
AgainUnchecked(i) == reading' = [reading EXCEPT ![i] = 0] /\ UNCHANGED reader

\* The reader begins its loop: it closes after too long a silence, or reads anew.
Again(i) ==
  IF silent[i] >= InverterTimeout
  THEN reader' = [reader EXCEPT ![i] = "silence"] /\ UNCHANGED reading
  ELSE reading' = [reading EXCEPT ![i] = 0] /\ UNCHANGED reader

ReaderAgain(i) ==
  /\ Runs(i) /\ woken[i]
  /\ woken' = [woken EXCEPT ![i] = FALSE]
  /\ Again(i)
  /\ UNCHANGED <<started, silent, quiet, timer, request, failures, commands>>

\* A packet is read, decoded and sent to from_inverter; the timestamps are renewed.
ReaderPacket(i) ==
  /\ Runs(i) /\ ~woken[i]
  /\ silent' = [silent EXCEPT ![i] = 0] /\ quiet' = [quiet EXCEPT ![i] = 0]
  /\ reading' = [reading EXCEPT ![i] = 0]
  /\ UNCHANGED <<started, reader, woken, timer, request, failures, commands>>

\* Bytes are read that do not complete a packet.
ReaderBytes(i) ==
  /\ Runs(i) /\ ~woken[i]
  /\ Again(i)
  /\ UNCHANGED <<started, woken, silent, quiet, timer, request, failures, commands>>

\* The read has lasted for read_timeout.
ReaderTimeout(i) ==
  /\ Runs(i) /\ ~woken[i] /\ reading[i] >= ReadTimeout[i]
  /\ reader' = [reader EXCEPT ![i] = "timeout"]
  /\ UNCHANGED <<started, woken, clocks, failures, commands>>

\* End of file, a read error, or a frame that cannot be decoded.
ReaderFail(i) ==
  /\ Runs(i) /\ ~woken[i] /\ failures < MaxFailures
  /\ failures' = failures + 1
  /\ reader' = [reader EXCEPT ![i] = "failed"]
  /\ UNCHANGED <<started, woken, clocks, commands>>

\* A command's request is sent to to_inverter by the coordinator.
Command ==
  /\ commands < MaxCommands
  /\ commands' = commands + 1
  /\ WakeReaders
  /\ UNCHANGED <<started, reader, clocks, failures>>

\* Mutant: the next round of requests is one unit late.
RequestLate(i) ==
  /\ Connected(i) /\ request[i] = 0
  /\ request' = [request EXCEPT ![i] = RequestPeriod + 1]
  /\ WakeReaders
  /\ UNCHANGED <<started, reader, reading, silent, quiet, timer, failures, commands>>

\* The requests of a connection, which go on after its reader has ended.
Request(i) ==
  /\ Connected(i) /\ request[i] = 0
  /\ request' = [request EXCEPT ![i] = RequestPeriod]
  /\ WakeReaders
  /\ UNCHANGED <<started, reader, reading, silent, quiet, timer, failures, commands>>

\* The timer task looks, from Inverter::new on, connected or not.
Timer(i) ==
  /\ timer[i] = 0
  /\ timer' = [timer EXCEPT ![i] = TimerPeriod]
  /\ IF silent[i] >= HeartbeatAfter THEN WakeReaders ELSE UNCHANGED woken
  /\ UNCHANGED <<started, reader, reading, silent, quiet, request, failures, commands>>

\* Time passes, once no task of a connection has anything to do.
Tick ==
  /\ \A i \in Inverters :
       /\ timer[i] > 0
       /\ Connected(i) => request[i] > 0
       /\ Runs(i) => ~woken[i] /\ reading[i] < ReadTimeout[i]
  /\ timer' = [i \in Inverters |-> timer[i] - 1]
  /\ request' = [i \in Inverters |-> IF Connected(i) THEN request[i] - 1 ELSE request[i]]
  /\ silent' = [i \in Inverters |-> Min2(silent[i] + 1, Horizon)]
  /\ quiet' = [i \in Inverters |->
                IF Runs(i) THEN Min2(quiet[i] + 1, InverterTimeout + RequestPeriod + 1)
                ELSE quiet[i]]
  /\ reading' = [i \in Inverters |-> IF Runs(i) THEN reading[i] + 1 ELSE reading[i]]
  /\ UNCHANGED <<started, reader, woken, failures, commands>>

Reader(i) == ReaderAgain(i) \/ ReaderPacket(i) \/ ReaderBytes(i) \/ ReaderTimeout(i)
               \/ ReaderFail(i)

Next ==
  \/ Connect \/ Command \/ Tick
  \/ \E i \in Inverters : Reader(i) \/ Request(i) \/ Timer(i)

Spec == Init /\ [][Next]_vars

\* Tasks that have something to do do it, and time passes.  Nothing is assumed of
\* the inverters: they may never accept a connection, nor send anything.
Fairness ==
  /\ WF_vars(Tick)
  /\ \A i \in Inverters :
       /\ WF_vars(ReaderAgain(i)) /\ WF_vars(ReaderTimeout(i))
       /\ WF_vars(Request(i)) /\ WF_vars(Timer(i))

FairSpec == Spec /\ Fairness
------------------------------------------------------------------------------
(***************************************************************************)
(* Properties.                                                             *)
(***************************************************************************)

\* Every variable has its type.
TypeOK ==
  /\ started \in 0..Len(Order)
  /\ reader \in [Inverters -> {"none", "runs", "silence", "timeout", "failed"}]
  /\ woken \in [Inverters -> BOOLEAN]
  /\ reading \in [Inverters -> Nat] /\ quiet \in [Inverters -> Nat]
  /\ silent \in [Inverters -> 0..Horizon]
  /\ timer \in [Inverters -> 0..TimerPeriod]
  /\ request \in [Inverters -> 0..RequestPeriod]
  /\ failures \in 0..MaxFailures /\ commands \in 0..MaxCommands

\* A connection that gets no packet is closed no later than one round of requests
\* after inverter_timeout, and than one look of the timer if the timer sends
\* heartbeats by then.  The reader blocks on its socket and would look at the time
\* only when data comes: it is what its own tasks send, delivered or not, that makes
\* it look.
SilenceIsNoticed ==
  \A i \in Inverters : Runs(i) =>
    /\ quiet[i] <= InverterTimeout + RequestPeriod
    /\ HeartbeatAfter <= InverterTimeout => quiet[i] <= InverterTimeout + TimerPeriod

\* What config.yaml.example says of read_timeout, "Read timeout in seconds before
\* considering connection dead": a connection without a packet for so long is dead.
ReadTimeoutEndsSilence ==
  \A i \in Inverters : Runs(i) => quiet[i] <= ReadTimeout[i]

\* The reader is woken so often that read_timeout never expires when it is longer than
\* the period of the requests, which the default is: the wait for a read starts anew
\* with every message on to_inverter.
ReadTimeoutIsNeverReached ==
  \A i \in Inverters : RequestPeriod < ReadTimeout[i] => reader[i] # "timeout"

\* A connection stays up for ever only if packets come for ever.
SilenceEndsReader ==
  \A i \in Inverters : []<>(~Runs(i) \/ quiet[i] = 0)
==============================================================================
