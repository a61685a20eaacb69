-------------------------- MODULE InverterLinkProofs --------------------------
(***************************************************************************)
(* Proofs about InverterLink, for any inverters, periods and timeouts: how *)
(* long a silent connection may live, and that read_timeout is not what    *)
(* ends it.                                                                *)
(***************************************************************************)
EXTENDS InverterLink, TLAPS

------------------------------------------------------------------------------
(* The invariant.                                                          *)

\* The reader that runs has a connection, and the bridge's idea of the silence is
\* never too short: it may only have begun earlier than the connection.
Counted ==
  \A i \in Inverters :
    /\ Runs(i) => Connected(i)
    /\ silent[i] >= Min2(quiet[i], Horizon)

\* A read has lasted no longer than since the last round of requests, and when it
\* began the silence was shorter than inverter_timeout; the time until the timer
\* looks again is counted in.
Watched ==
  \A i \in Inverters : Runs(i) =>
    /\ ~woken[i] => /\ reading[i] + request[i] <= RequestPeriod
                    /\ quiet[i] < InverterTimeout + reading[i]
                    /\ HeartbeatAfter <= InverterTimeout =>
                         quiet[i] + timer[i] <= InverterTimeout + TimerPeriod
    /\ quiet[i] <= InverterTimeout + RequestPeriod
    /\ HeartbeatAfter <= InverterTimeout => quiet[i] <= InverterTimeout + TimerPeriod

LinkInvariant == TypeOK /\ Counted /\ Watched /\ ReadTimeoutIsNeverReached

\* The inverter that is connected next.
LEMMA OrderType ==
  ASSUME NEW n \in 1..Len(Order)
  PROVE  Order[n] \in Inverters
  BY LinkAssumption

LEMMA LengthType == Len(Order) \in Nat
  BY LinkAssumption

LEMMA InitInvariant == Init => LinkInvariant
<1> SUFFICES ASSUME Init PROVE LinkInvariant
  OBVIOUS
<1> USE LinkAssumption DEF Init
<1>1. TypeOK
  BY LengthType DEF TypeOK
<1>2. Counted
  BY DEF Counted, Runs, Min2
<1>3. Watched /\ ReadTimeoutIsNeverReached
  BY DEF Watched, Runs, ReadTimeoutIsNeverReached
<1> QED BY <1>1, <1>2, <1>3 DEF LinkInvariant

------------------------------------------------------------------------------
(* What each action does to one inverter, as far as the invariant goes.    *)

LEMMA ConnectStep ==
  ASSUME LinkInvariant, Connect
  PROVE  LinkInvariant'
<1> DEFINE i == Order[started + 1]
<1>1. /\ started \in Nat /\ started + 1 \in 1..Len(Order) /\ i \in Inverters
  BY LengthType, OrderType DEF Connect, LinkInvariant, TypeOK
<1>2. /\ started' = started + 1
      /\ reader' = [reader EXCEPT ![i] = "runs"]
      /\ woken' = [woken EXCEPT ![i] = TRUE]
      /\ quiet' = [quiet EXCEPT ![i] = 0]
      /\ UNCHANGED <<reading, silent, timer, request, failures, commands>>
  BY DEF Connect
<1>3. \A j \in Inverters : Connected(j) \/ j = i => Connected(j)'
  BY <1>1, <1>2 DEF Connected
<1> HIDE DEF i
<1>4. TypeOK'
  BY <1>1, <1>2, LengthType DEF LinkInvariant, TypeOK
<1>8. /\ i \in Inverters /\ woken'[i] /\ quiet'[i] = 0 /\ reader'[i] = "runs"
      /\ \A j \in Inverters : j # i =>
           woken'[j] = woken[j] /\ quiet'[j] = quiet[j] /\ reader'[j] = reader[j]
      /\ UNCHANGED <<reading, silent, timer, request>>
  BY <1>1, <1>2 DEF LinkInvariant, TypeOK
<1>9. silent[i] >= 0 /\ Horizon >= 0
  BY <1>1, LinkAssumption DEF LinkInvariant, TypeOK
<1>5. Counted'
  <2> SUFFICES ASSUME NEW j \in Inverters
               PROVE  /\ Runs(j)' => Connected(j)'
                      /\ silent'[j] >= Min2(quiet'[j], Horizon)
    BY DEF Counted
  <2>1. CASE j = i
    <3>1. Connected(j)'
      BY <1>3, <2>1, Zenon
    <3>2. silent'[j] >= 0 /\ quiet'[j] = 0
      BY <1>8, <1>9, <2>1
    <3>3. Min2(0, Horizon) = 0
      BY LinkAssumption DEF Min2
    <3> QED BY <3>1, <3>2, <3>3
  <2>2. CASE j # i
    BY <1>3, <1>8, <2>2 DEF LinkInvariant, Counted, Runs, Min2
  <2> QED BY <2>1, <2>2
<1>6. Watched'
  <2>1. /\ 0 <= InverterTimeout + RequestPeriod /\ 0 <= InverterTimeout + TimerPeriod
    BY LinkAssumption
  <2> QED BY <1>8, <2>1 DEF LinkInvariant, Watched, Runs
<1>7. ReadTimeoutIsNeverReached'
  BY <1>1, <1>2 DEF LinkInvariant, TypeOK, ReadTimeoutIsNeverReached
<1> QED BY <1>4, <1>5, <1>6, <1>7 DEF LinkInvariant

\* Whoever sends to to_inverter, the readers are only woken.
LEMMA WakeStep ==
  ASSUME LinkInvariant, WakeReaders \/ UNCHANGED woken,
         UNCHANGED <<started, reader, reading, silent, quiet>>,
         timer' \in [Inverters -> 0..TimerPeriod],
         request' \in [Inverters -> 0..RequestPeriod],
         failures' \in 0..MaxFailures, commands' \in 0..MaxCommands,
         \A i \in Inverters : Runs(i) /\ ~woken'[i] =>
           request'[i] <= request[i] /\ (timer'[i] <= timer[i] \/ silent[i] < HeartbeatAfter)
  PROVE  LinkInvariant'
<1>1. /\ woken' \in [Inverters -> BOOLEAN]
      /\ \A i \in Inverters : Runs(i) /\ woken[i] => woken'[i]
  BY Zenon DEF LinkInvariant, TypeOK, WakeReaders
<1>2. TypeOK'
  BY <1>1 DEF LinkInvariant, TypeOK
<1>3. Counted'
  BY DEF LinkInvariant, Counted, Runs, Connected, Min2
<1>4. ReadTimeoutIsNeverReached'
  BY DEF LinkInvariant, ReadTimeoutIsNeverReached
<1>5. Watched'
  <2> SUFFICES ASSUME NEW i \in Inverters, Runs(i)
               PROVE  /\ ~woken'[i] =>
                           /\ reading[i] + request'[i] <= RequestPeriod
                           /\ quiet[i] < InverterTimeout + reading[i]
                           /\ HeartbeatAfter <= InverterTimeout =>
                                quiet[i] + timer'[i] <= InverterTimeout + TimerPeriod
                      /\ quiet[i] <= InverterTimeout + RequestPeriod
                      /\ HeartbeatAfter <= InverterTimeout =>
                           quiet[i] <= InverterTimeout + TimerPeriod
    BY DEF Watched, Runs
  <2>1. /\ reading[i] \in Nat /\ quiet[i] \in Nat /\ silent[i] \in Nat
        /\ timer[i] \in Nat /\ request[i] \in Nat
        /\ timer'[i] \in Nat /\ timer'[i] <= TimerPeriod /\ request'[i] \in Nat
        /\ TimerPeriod \in Nat /\ RequestPeriod \in Nat /\ HeartbeatAfter \in Nat
        /\ InverterTimeout \in Nat /\ Horizon \in Nat /\ InverterTimeout <= Horizon
    BY LinkAssumption DEF LinkInvariant, TypeOK
  <2>2. /\ quiet[i] <= InverterTimeout + RequestPeriod
        /\ HeartbeatAfter <= InverterTimeout => quiet[i] <= InverterTimeout + TimerPeriod
    BY DEF LinkInvariant, Watched
  <2>3. ASSUME ~woken'[i]
        PROVE  /\ reading[i] + request'[i] <= RequestPeriod
               /\ quiet[i] < InverterTimeout + reading[i]
               /\ HeartbeatAfter <= InverterTimeout =>
                    quiet[i] + timer'[i] <= InverterTimeout + TimerPeriod
    <3>1. ~woken[i]
      BY <1>1, <2>3
    <3>2. /\ reading[i] + request[i] <= RequestPeriod
          /\ quiet[i] < InverterTimeout + reading[i]
          /\ HeartbeatAfter <= InverterTimeout =>
               quiet[i] + timer[i] <= InverterTimeout + TimerPeriod
      BY <3>1 DEF LinkInvariant, Watched
    <3>3. silent[i] >= quiet[i] \/ silent[i] >= Horizon
      BY DEF LinkInvariant, Counted, Min2
    <3>4. request'[i] <= request[i] /\ (timer'[i] <= timer[i] \/ silent[i] < HeartbeatAfter)
      BY <2>3
    <3>5. reading[i] + request'[i] <= RequestPeriod
      BY <2>1, <3>2, <3>4
    <3>6. ASSUME HeartbeatAfter <= InverterTimeout
          PROVE  quiet[i] + timer'[i] <= InverterTimeout + TimerPeriod
      <4>1. CASE timer'[i] <= timer[i]
        BY <2>1, <3>2, <3>6, <4>1
      <4>2. CASE silent[i] < HeartbeatAfter
        BY <2>1, <3>3, <3>6, <4>2
      <4> QED BY <3>4, <4>1, <4>2
    <3> QED BY <3>2, <3>5, <3>6
  <2> QED BY <2>2, <2>3
<1> QED BY <1>2, <1>3, <1>4, <1>5 DEF LinkInvariant

\* The reader reads anew, unless the silence is too long.
LEMMA AgainStep ==
  ASSUME LinkInvariant, NEW i \in Inverters, Runs(i), Again(i),
         woken' \in [Inverters -> BOOLEAN],
         \A j \in Inverters : j # i => woken'[j] = woken[j],
         UNCHANGED <<started, silent, quiet, timer, request, failures, commands>>
  PROVE  LinkInvariant'
<1>1. CASE silent[i] >= InverterTimeout
  <2>1. reader' = [reader EXCEPT ![i] = "silence"] /\ UNCHANGED reading
    BY <1>1 DEF Again
  <2>2. \A j \in Inverters : Runs(j)' => Runs(j) /\ j # i
    BY <2>1 DEF LinkInvariant, TypeOK, Runs
  <2>3. TypeOK'
    BY <2>1 DEF LinkInvariant, TypeOK
  <2>4. Counted'
    BY <2>2 DEF LinkInvariant, Counted, Connected, Min2
  <2>5. Watched'
    BY <2>1, <2>2 DEF LinkInvariant, Watched
  <2>6. ReadTimeoutIsNeverReached'
    BY <2>1 DEF LinkInvariant, TypeOK, ReadTimeoutIsNeverReached
  <2> QED BY <2>3, <2>4, <2>5, <2>6 DEF LinkInvariant
<1>2. CASE ~(silent[i] >= InverterTimeout)
  <2>1. reading' = [reading EXCEPT ![i] = 0] /\ UNCHANGED reader
    BY <1>2 DEF Again
  <2>2. TypeOK'
    BY <2>1 DEF LinkInvariant, TypeOK
  <2>3. Counted'
    BY <2>1 DEF LinkInvariant, Counted, Runs, Connected, Min2
  <2>4. ReadTimeoutIsNeverReached'
    BY <2>1 DEF LinkInvariant, ReadTimeoutIsNeverReached
  <2>5. quiet[i] < InverterTimeout /\ quiet[i] + timer[i] <= InverterTimeout + TimerPeriod
    BY <1>2, LinkAssumption, SMTT(30) DEF LinkInvariant, TypeOK, Counted, Min2
  <2>6. Watched'
    <3>1. /\ reading'[i] = 0 /\ \A j \in Inverters : j # i => reading'[j] = reading[j]
          /\ UNCHANGED <<reader, quiet, timer, request>>
      BY <2>1 DEF LinkInvariant, TypeOK
    <3>2. 0 + request[i] <= RequestPeriod /\ quiet[i] < InverterTimeout + 0
      BY <2>5, LinkAssumption DEF LinkInvariant, TypeOK
    <3> QED BY <2>5, <3>1, <3>2 DEF LinkInvariant, Watched, Runs
  <2> QED BY <2>2, <2>3, <2>4, <2>6 DEF LinkInvariant
<1> QED BY <1>1, <1>2

LEMMA PacketStep ==
  ASSUME LinkInvariant, NEW i \in Inverters, ReaderPacket(i)
  PROVE  LinkInvariant'
<1>1. /\ silent' = [silent EXCEPT ![i] = 0] /\ quiet' = [quiet EXCEPT ![i] = 0]
      /\ reading' = [reading EXCEPT ![i] = 0]
      /\ UNCHANGED <<started, reader, woken, timer, request, failures, commands>>
  BY DEF ReaderPacket
<1>2. TypeOK'
  BY <1>1, LinkAssumption DEF LinkInvariant, TypeOK
<1>3. Counted'
  BY <1>1, LinkAssumption, SMTT(30) DEF LinkInvariant, TypeOK, Counted, Runs, Connected, Min2
<1>4. Watched'
  <2>1. /\ quiet'[i] = 0 /\ reading'[i] = 0
        /\ \A j \in Inverters : j # i => quiet'[j] = quiet[j] /\ reading'[j] = reading[j]
        /\ UNCHANGED <<reader, woken, timer, request>>
    BY <1>1 DEF LinkInvariant, TypeOK
  <2>2. /\ 0 + request[i] <= RequestPeriod /\ 0 < InverterTimeout + 0
        /\ 0 + timer[i] <= InverterTimeout + TimerPeriod
        /\ 0 <= InverterTimeout + RequestPeriod /\ 0 <= InverterTimeout + TimerPeriod
    BY LinkAssumption DEF LinkInvariant, TypeOK
  <2> QED BY <2>1, <2>2 DEF LinkInvariant, Watched, Runs
<1>5. ReadTimeoutIsNeverReached'
  BY <1>1 DEF LinkInvariant, ReadTimeoutIsNeverReached
<1> QED BY <1>2, <1>3, <1>4, <1>5 DEF LinkInvariant

\* A reader ends; not by read_timeout if the requests come more often than that.
LEMMA EndStep ==
  ASSUME LinkInvariant, NEW i \in Inverters, NEW why \in {"timeout", "failed"},
         reader' = [reader EXCEPT ![i] = why],
         why = "timeout" => ~(RequestPeriod < ReadTimeout[i]),
         failures' \in 0..MaxFailures,
         UNCHANGED <<started, woken, clocks, commands>>
  PROVE  LinkInvariant'
<1>1. \A j \in Inverters : Runs(j)' => Runs(j)
  BY DEF LinkInvariant, TypeOK, Runs
<1>2. TypeOK'
  BY DEF LinkInvariant, TypeOK, clocks
<1>3. Counted'
  BY <1>1 DEF LinkInvariant, Counted, Connected, Min2, clocks
<1>4. Watched'
  BY <1>1 DEF LinkInvariant, Watched, clocks
<1>5. ReadTimeoutIsNeverReached'
  BY DEF LinkInvariant, TypeOK, ReadTimeoutIsNeverReached
<1> QED BY <1>2, <1>3, <1>4, <1>5 DEF LinkInvariant

\* A unit of time, for the clocks of one reader: the read and the silence are one
\* longer, the requests and the timer one nearer.
LEMMA TickArithmetic ==
  ASSUME NEW rd \in Nat, NEW rq \in Nat, NEW q \in Nat, NEW q1 \in Nat, NEW tm \in Nat,
         NEW rd1, NEW rq1, NEW tm1, rd1 = rd + 1, rq1 = rq - 1, tm1 = tm - 1, rq > 0, tm > 0,
         q1 <= q + 1, rd + rq <= RequestPeriod, q < InverterTimeout + rd
  PROVE  /\ rd1 + rq1 <= RequestPeriod
         /\ q1 < InverterTimeout + rd1
         /\ q1 <= InverterTimeout + RequestPeriod
         /\ q + tm <= InverterTimeout + TimerPeriod =>
              q1 + tm1 <= InverterTimeout + TimerPeriod /\ q1 <= InverterTimeout + TimerPeriod
<1>1. InverterTimeout \in Nat /\ RequestPeriod \in Nat /\ TimerPeriod \in Nat
  BY LinkAssumption
<1> QED BY <1>1

LEMMA TickStep ==
  ASSUME LinkInvariant, Tick
  PROVE  LinkInvariant'
<1> DEFINE Cap == InverterTimeout + RequestPeriod + 1
<1>1. UNCHANGED <<started, reader, woken, failures, commands>>
  BY DEF Tick
<1>2. ASSUME NEW i \in Inverters
      PROVE  /\ timer[i] \in Nat /\ timer[i] > 0 /\ timer[i] <= TimerPeriod
             /\ request[i] \in Nat /\ request[i] <= RequestPeriod
             /\ reading[i] \in Nat /\ quiet[i] \in Nat /\ silent[i] \in 0..Horizon
             /\ Connected(i) => request[i] > 0
             /\ Runs(i) => ~woken[i] /\ Connected(i)
  BY <1>2 DEF Tick, LinkInvariant, TypeOK, Counted
<1>3. ASSUME NEW i \in Inverters
      PROVE  /\ timer'[i] = timer[i] - 1
             /\ request'[i] = IF Connected(i) THEN request[i] - 1 ELSE request[i]
             /\ silent'[i] = Min2(silent[i] + 1, Horizon)
             /\ quiet'[i] = IF Runs(i) THEN Min2(quiet[i] + 1, Cap) ELSE quiet[i]
             /\ reading'[i] = IF Runs(i) THEN reading[i] + 1 ELSE reading[i]
  BY <1>3, Zenon DEF Tick
<1>8. /\ TimerPeriod \in Nat /\ RequestPeriod \in Nat /\ InverterTimeout \in Nat
      /\ Horizon \in Nat /\ Cap \in Nat
  BY LinkAssumption
<1> HIDE DEF Cap
<1>9. ASSUME NEW i \in Inverters
      PROVE  /\ quiet'[i] \in Nat /\ quiet'[i] <= quiet[i] + 1
             /\ silent'[i] \in 0..Horizon
             /\ silent'[i] = silent[i] + 1 \/ silent'[i] = Horizon
  <2> DEFINE q == quiet[i]  t == silent[i]
  <2>1. q \in Nat /\ t \in 0..Horizon
    BY <1>2, <1>9
  <2>2. quiet'[i] = Min2(q + 1, Cap) \/ quiet'[i] = q
    BY <1>3, <1>9, Zenon
  <2>3. silent'[i] = Min2(t + 1, Horizon)
    BY <1>3, <1>9, Zenon
  <2> HIDE DEF q, t
  <2>4. Min2(q + 1, Cap) \in Nat /\ Min2(q + 1, Cap) <= q + 1 /\ q <= q + 1
    BY <1>8, <2>1 DEF Min2
  <2>5. /\ Min2(t + 1, Horizon) \in 0..Horizon
        /\ Min2(t + 1, Horizon) = t + 1 \/ Min2(t + 1, Horizon) = Horizon
    BY <1>8, <2>1 DEF Min2
  <2>6. quiet'[i] \in Nat /\ quiet'[i] <= q + 1
    BY <2>1, <2>2, <2>4
  <2>7. /\ silent'[i] \in 0..Horizon
        /\ silent'[i] = t + 1 \/ silent'[i] = Horizon
    BY <2>3, <2>5
  <2> QED BY <2>6, <2>7 DEF q, t
<1>4. TypeOK'
  <2>1. ASSUME NEW i \in Inverters
        PROVE  /\ timer'[i] \in 0..TimerPeriod /\ request'[i] \in 0..RequestPeriod
               /\ silent'[i] \in 0..Horizon /\ quiet'[i] \in Nat /\ reading'[i] \in Nat
    <3>1. timer'[i] \in 0..TimerPeriod /\ request'[i] \in 0..RequestPeriod
      BY <1>2, <1>3, <1>8
    <3>2. reading'[i] \in Nat
      BY <1>2, <1>3
    <3> QED BY <1>9, <3>1, <3>2
  <2>2. /\ timer' = [i \in Inverters |-> timer'[i]]
        /\ request' = [i \in Inverters |-> request'[i]]
        /\ silent' = [i \in Inverters |-> silent'[i]]
        /\ quiet' = [i \in Inverters |-> quiet'[i]]
        /\ reading' = [i \in Inverters |-> reading'[i]]
    BY Zenon DEF Tick
  <2>3. /\ timer' \in [Inverters -> 0..TimerPeriod]
        /\ request' \in [Inverters -> 0..RequestPeriod]
        /\ silent' \in [Inverters -> 0..Horizon]
        /\ quiet' \in [Inverters -> Nat] /\ reading' \in [Inverters -> Nat]
    BY <2>1, <2>2
  <2> QED BY <1>1, <2>3 DEF LinkInvariant, TypeOK
<1>5. Counted'
  <2> SUFFICES ASSUME NEW i \in Inverters
               PROVE  /\ Runs(i)' => Connected(i)'
                      /\ silent'[i] >= Min2(quiet'[i], Horizon)
    BY DEF Counted
  <2>1. Runs(i)' => Connected(i)'
    BY <1>1, <1>2 DEF Runs, Connected
  <2>2. silent[i] >= Min2(quiet[i], Horizon)
    BY DEF LinkInvariant, Counted
  <2>3. silent'[i] >= Min2(quiet'[i], Horizon)
    BY <1>2, <1>8, <1>9, <2>2 DEF Min2
  <2> QED BY <2>1, <2>3
<1>6. Watched'
  <2> SUFFICES ASSUME NEW i \in Inverters, Runs(i)
               PROVE  /\ reading'[i] + request'[i] <= RequestPeriod
                      /\ quiet'[i] < InverterTimeout + reading'[i]
                      /\ HeartbeatAfter <= InverterTimeout =>
                           quiet'[i] + timer'[i] <= InverterTimeout + TimerPeriod
                      /\ quiet'[i] <= InverterTimeout + RequestPeriod
                      /\ HeartbeatAfter <= InverterTimeout =>
                           quiet'[i] <= InverterTimeout + TimerPeriod
    BY <1>1, Zenon DEF Watched, Runs
  <2>1. /\ reading[i] + request[i] <= RequestPeriod
        /\ quiet[i] < InverterTimeout + reading[i]
        /\ HeartbeatAfter <= InverterTimeout =>
             quiet[i] + timer[i] <= InverterTimeout + TimerPeriod
    BY <1>2 DEF LinkInvariant, Watched
  <2>2. /\ reading'[i] = reading[i] + 1 /\ request'[i] = request[i] - 1
        /\ timer'[i] = timer[i] - 1
    BY <1>2, <1>3
  <2>3. /\ quiet'[i] \in Nat /\ quiet'[i] <= quiet[i] + 1
        /\ timer[i] \in Nat /\ timer[i] > 0 /\ request[i] \in Nat /\ request[i] > 0
        /\ reading[i] \in Nat /\ quiet[i] \in Nat
    BY <1>2, <1>9
  <2>4. /\ reading'[i] + request'[i] <= RequestPeriod
        /\ quiet'[i] < InverterTimeout + reading'[i]
        /\ quiet'[i] <= InverterTimeout + RequestPeriod
        /\ quiet[i] + timer[i] <= InverterTimeout + TimerPeriod =>
             /\ quiet'[i] + timer'[i] <= InverterTimeout + TimerPeriod
             /\ quiet'[i] <= InverterTimeout + TimerPeriod
    BY <2>1, <2>2, <2>3, TickArithmetic, SMTT(30)
  <2> QED BY <2>1, <2>4, Zenon
<1>7. ReadTimeoutIsNeverReached'
  BY <1>1 DEF LinkInvariant, ReadTimeoutIsNeverReached
<1> QED BY <1>4, <1>5, <1>6, <1>7 DEF LinkInvariant

------------------------------------------------------------------------------
LEMMA NextInvariant == LinkInvariant /\ [Next]_vars => LinkInvariant'
<1> SUFFICES ASSUME LinkInvariant, [Next]_vars PROVE LinkInvariant'
  OBVIOUS
<1> USE LinkAssumption
<1>1. CASE Command
  <2>1. commands' \in 0..MaxCommands
    BY <1>1 DEF Command, LinkInvariant, TypeOK
  <2>2. /\ WakeReaders
        /\ UNCHANGED <<started, reader, reading, silent, quiet, timer, request, failures>>
    BY <1>1 DEF Command, clocks
  <2>3. \A i \in Inverters : Runs(i) => woken'[i]
    BY <2>2 DEF WakeReaders
  <2> QED BY <2>1, <2>2, <2>3, WakeStep DEF LinkInvariant, TypeOK
<1>2. ASSUME NEW i \in Inverters, Request(i) PROVE LinkInvariant'
  <2>1. /\ WakeReaders /\ request' \in [Inverters -> 0..RequestPeriod]
        /\ UNCHANGED <<started, reader, reading, silent, quiet, timer, failures, commands>>
    BY <1>2 DEF Request, LinkInvariant, TypeOK
  <2>2. \A j \in Inverters : Runs(j) => woken'[j]
    BY <2>1 DEF WakeReaders
  <2> QED BY <2>1, <2>2, WakeStep DEF LinkInvariant, TypeOK
<1>3. ASSUME NEW i \in Inverters, Timer(i) PROVE LinkInvariant'
  <2>1. /\ timer' = [timer EXCEPT ![i] = TimerPeriod]
        /\ UNCHANGED <<started, reader, reading, silent, quiet, request, failures, commands>>
    BY <1>3 DEF Timer
  <2>2. timer' \in [Inverters -> 0..TimerPeriod]
    BY <2>1 DEF LinkInvariant, TypeOK
  <2>3. CASE silent[i] >= HeartbeatAfter
    <3>1. WakeReaders
      BY <1>3, <2>3 DEF Timer
    <3>2. \A j \in Inverters : Runs(j) => woken'[j]
      BY <3>1 DEF WakeReaders
    <3> QED BY <2>1, <2>2, <3>1, <3>2, WakeStep DEF LinkInvariant, TypeOK
  <2>4. CASE ~(silent[i] >= HeartbeatAfter)
    <3>1. UNCHANGED woken
      BY <1>3, <2>4 DEF Timer
    <3>2. \A j \in Inverters :
            request'[j] <= request[j] /\ (timer'[j] <= timer[j] \/ silent[j] < HeartbeatAfter)
      BY <2>1, <2>4, SMTT(30) DEF LinkInvariant, TypeOK
    <3>3. /\ request' \in [Inverters -> 0..RequestPeriod]
          /\ failures' \in 0..MaxFailures /\ commands' \in 0..MaxCommands
      BY <2>1 DEF LinkInvariant, TypeOK
    <3>4. UNCHANGED <<started, reader, reading, silent, quiet>>
      BY <2>1
    <3> QED BY <2>2, <3>1, <3>2, <3>3, <3>4, WakeStep, Zenon
  <2> QED BY <2>3, <2>4
<1>4. ASSUME NEW i \in Inverters, ReaderAgain(i) PROVE LinkInvariant'
  <2>1. /\ woken' \in [Inverters -> BOOLEAN]
        /\ \A j \in Inverters : j # i => woken'[j] = woken[j]
    BY <1>4 DEF ReaderAgain, LinkInvariant, TypeOK
  <2> QED BY <1>4, <2>1, AgainStep DEF ReaderAgain
<1>5. ASSUME NEW i \in Inverters, ReaderBytes(i) PROVE LinkInvariant'
  BY <1>5, AgainStep DEF ReaderBytes, LinkInvariant, TypeOK
<1>6. ASSUME NEW i \in Inverters, ReaderTimeout(i) PROVE LinkInvariant'
  <2>1. ~(RequestPeriod < ReadTimeout[i])
    BY <1>6 DEF ReaderTimeout, LinkInvariant, TypeOK, Watched
  <2> QED BY <1>6, <2>1, EndStep DEF ReaderTimeout, LinkInvariant, TypeOK
<1>7. ASSUME NEW i \in Inverters, ReaderFail(i) PROVE LinkInvariant'
  <2>1. failures' \in 0..MaxFailures
    BY <1>7 DEF ReaderFail, LinkInvariant, TypeOK
  <2> QED BY <1>7, <2>1, EndStep DEF ReaderFail
<1>8. ASSUME UNCHANGED vars PROVE LinkInvariant'
  BY <1>8, WakeStep DEF vars, clocks, LinkInvariant, TypeOK
<1> QED BY <1>1, <1>2, <1>3, <1>4, <1>5, <1>6, <1>7, <1>8, ConnectStep, TickStep,
           PacketStep, Zenon DEF Next, Reader

\* Every variable of InverterLink keeps its type, and with it the rest of the
\* invariant holds: silences are counted, and every read is watched.
THEOREM TypeCorrect == Spec => []TypeOK
<1>1. LinkInvariant => TypeOK
  BY DEF LinkInvariant
<1> QED BY <1>1, InitInvariant, NextInvariant, PTL DEF Spec

\* A connection that gets no packet is closed no later than one round of requests
\* after inverter_timeout, and than one look of the timer if heartbeats have begun,
\* for any periods and timeouts.
THEOREM SilenceIsBounded == Spec => []SilenceIsNoticed
<1>1. LinkInvariant => SilenceIsNoticed
  BY DEF LinkInvariant, Watched, SilenceIsNoticed
<1> QED BY <1>1, InitInvariant, NextInvariant, PTL DEF Spec

\* A read_timeout longer than the period of the requests never ends a reader.
THEOREM ReadTimeoutIsIdle == Spec => []ReadTimeoutIsNeverReached
<1>1. LinkInvariant => ReadTimeoutIsNeverReached
  BY DEF LinkInvariant
<1> QED BY <1>1, InitInvariant, NextInvariant, PTL DEF Spec
==============================================================================
