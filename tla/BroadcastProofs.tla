--------------------------- MODULE BroadcastProofs ---------------------------
(***************************************************************************)
(* What the receiver operators of Broadcast return, for every capacity and *)
(* every set of messages.                                                  *)
(***************************************************************************)
EXTENDS Broadcast, SequencesExt, TLAPS

\* A send leaves a receiver of messages of M, with at most Capacity of them.
LEMMA PushType ==
  ASSUME NEW M, NEW rx \in Receivers(M), NEW m \in M
  PROVE  Push(rx, m) \in Receivers(M)
<1> USE CapacityAssumption DEF Receivers
<1>1. CASE Len(rx.q) < Capacity
  <2>1. Append(rx.q, m) \in Seq(M) /\ Len(Append(rx.q, m)) = Len(rx.q) + 1
    OBVIOUS
  <2>2. Push(rx, m) = [q |-> Append(rx.q, m), lagged |-> rx.lagged]
    BY <1>1 DEF Push
  <2> QED BY <1>1, <2>1, <2>2
<1>2. CASE ~(Len(rx.q) < Capacity)
  <2>1. rx.q # <<>>
    BY <1>2
  <2>2. Tail(rx.q) \in Seq(M) /\ Len(Tail(rx.q)) = Len(rx.q) - 1
    BY <2>1
  <2>3. Append(Tail(rx.q), m) \in Seq(M) /\ Len(Append(Tail(rx.q), m)) = Len(rx.q)
    BY <2>2
  <2>4. Push(rx, m) = [q |-> Append(Tail(rx.q), m), lagged |-> TRUE]
    BY <1>2 DEF Push
  <2> QED BY <2>3, <2>4
<1> QED BY <1>1, <1>2

\* A recv that returns a message returns one of M.
LEMMA PoppedType ==
  ASSUME NEW M, NEW rx \in Receivers(M), HasMessage(rx)
  PROVE  Popped(rx) \in Receivers(M) /\ Head(rx.q) \in M
<1> USE CapacityAssumption DEF Receivers
<1>1. rx.q # <<>> /\ rx.q \in Seq(M)
  BY DEF HasMessage
<1>2. Tail(rx.q) \in Seq(M) /\ Len(Tail(rx.q)) = Len(rx.q) - 1 /\ Head(rx.q) \in M
  BY <1>1
<1>3. Popped(rx) = [q |-> Tail(rx.q), lagged |-> rx.lagged]
  BY DEF Popped
<1> QED BY <1>2, <1>3

LEMMA SubscribedType ==
  ASSUME NEW M
  PROVE  Subscribed \in Receivers(M) /\ ToSet(Subscribed.q) = {}
  BY CapacityAssumption DEF Subscribed, Receivers, ToSet

LEMMA CaughtUpType ==
  ASSUME NEW M, NEW rx \in Receivers(M)
  PROVE  CaughtUp(rx) \in Receivers(M) /\ CaughtUp(rx).q = rx.q
  BY DEF CaughtUp, Receivers

\* The members of a sequence that grows or shrinks by one element.
LEMMA ToSetAppend ==
  ASSUME NEW S, NEW s \in Seq(S), NEW x \in S
  PROVE  ToSet(Append(s, x)) = ToSet(s) \cup {x}
<1>1. /\ DOMAIN s = 1..Len(s) /\ DOMAIN Append(s, x) = 1..(Len(s) + 1)
      /\ \A n \in 1..Len(s) : Append(s, x)[n] = s[n]
      /\ Append(s, x)[Len(s) + 1] = x
  OBVIOUS
<1>2. Len(s) \in Nat
  OBVIOUS
<1> QED BY <1>1, <1>2 DEF ToSet

LEMMA ToSetTail ==
  ASSUME NEW S, NEW s \in Seq(S), s # <<>>
  PROVE  ToSet(Tail(s)) \subseteq ToSet(s) /\ Head(s) \in ToSet(s)
<1>1. /\ DOMAIN s = 1..Len(s) /\ DOMAIN Tail(s) = 1..(Len(s) - 1)
      /\ \A n \in 1..(Len(s) - 1) : Tail(s)[n] = s[n + 1]
      /\ Head(s) = s[1] /\ Len(s) \in Nat \ {0}
  OBVIOUS
<1> QED BY <1>1 DEF ToSet

\* The messages a receiver holds after a send, and after a recv.
LEMMA PushMembers ==
  ASSUME NEW M, NEW rx \in Receivers(M), NEW m \in M
  PROVE  ToSet(Push(rx, m).q) \subseteq ToSet(rx.q) \cup {m}
<1> USE CapacityAssumption DEF Receivers
<1>1. CASE Len(rx.q) < Capacity
  <2>1. Push(rx, m).q = Append(rx.q, m)
    BY <1>1 DEF Push
  <2> QED BY <2>1, ToSetAppend
<1>2. CASE ~(Len(rx.q) < Capacity)
  <2>1. rx.q # <<>> /\ rx.q \in Seq(M) /\ Tail(rx.q) \in Seq(M)
    BY <1>2
  <2>2. Push(rx, m).q = Append(Tail(rx.q), m)
    BY <1>2 DEF Push
  <2>3. \A t \in Seq(M) : ToSet(Append(t, m)) = ToSet(t) \cup {m}
    BY ToSetAppend
  <2>4. ToSet(Tail(rx.q)) \subseteq ToSet(rx.q)
    BY <2>1, ToSetTail
  <2> QED BY <2>1, <2>2, <2>3, <2>4
<1> QED BY <1>1, <1>2

LEMMA PoppedMembers ==
  ASSUME NEW M, NEW rx \in Receivers(M), HasMessage(rx)
  PROVE  ToSet(Popped(rx).q) \subseteq ToSet(rx.q) /\ Head(rx.q) \in ToSet(rx.q)
<1>1. rx.q # <<>> /\ rx.q \in Seq(M)
  BY DEF HasMessage, Receivers
<1>2. Popped(rx).q = Tail(rx.q)
  BY DEF Popped, Receivers
<1> QED BY <1>1, <1>2, ToSetTail

------------------------------------------------------------------------------
(* A receiver of numbered messages: 1..n have been sent, those in t taken, those in
   q wait. *)
Ascending(s)   == \A j, k \in 1..Len(s) : j < k => s[j] < s[k]
Before(t, q)   == \A j \in 1..Len(t) : \A k \in 1..Len(q) : t[j] < q[k]
AtMost(s, n)   == \A k \in 1..Len(s) : s[k] <= n
Counting(s, m) == \A k \in 1..Len(s) : s[k] = m + k

Numbered(t, q, n) ==
  /\ Ascending(t) /\ Ascending(q) /\ Before(t, q) /\ AtMost(t, n) /\ AtMost(q, n)
  /\ n <= Capacity => Len(t) + Len(q) = n /\ Counting(t, 0) /\ Counting(q, Len(t))

\* What a send makes of a queue q: a longer queue r, or one without the oldest message.
Longer(q, r, m) ==
  /\ Len(q) < Capacity /\ Len(r) = Len(q) + 1 /\ r[Len(q) + 1] = m
  /\ \A k \in 1..Len(q) : r[k] = q[k]

Shifted(q, r, m) ==
  /\ Len(q) = Capacity /\ Len(r) = Capacity /\ r[Capacity] = m
  /\ \A k \in 1..(Capacity - 1) : r[k] = q[k + 1]

LEMMA PushElements ==
  ASSUME NEW M, NEW rx \in Receivers(M), NEW m \in M
  PROVE  \/ Longer(rx.q, Push(rx, m).q, m) /\ Push(rx, m).lagged = rx.lagged
         \/ Shifted(rx.q, Push(rx, m).q, m) /\ Push(rx, m).lagged = TRUE
<1> USE CapacityAssumption DEF Receivers
<1> DEFINE q == rx.q
           r == Push(rx, m).q
<1>1. q \in Seq(M) /\ Len(q) \in Nat /\ Len(q) <= Capacity
  OBVIOUS
<1>2. CASE Len(q) < Capacity
  <2>1. r = Append(q, m) /\ Push(rx, m).lagged = rx.lagged
    BY <1>2 DEF Push
  <2> QED BY <1>1, <1>2, <2>1 DEF Longer
<1>3. CASE ~(Len(q) < Capacity)
  <2>1. r = Append(Tail(q), m) /\ Push(rx, m).lagged = TRUE
    BY <1>3 DEF Push
  <2>2. Len(q) = Capacity /\ q # <<>>
    BY <1>1, <1>3
  <2>3. Tail(q) \in Seq(M) /\ Len(Tail(q)) = Capacity - 1
    BY <1>1, <2>2
  <2>4. \A k \in 1..(Capacity - 1) : Tail(q)[k] = q[k + 1]
    BY <1>1, <2>2
  <2>5. /\ Len(r) = Capacity /\ r[Capacity] = m
        /\ \A k \in 1..(Capacity - 1) : r[k] = Tail(q)[k]
    BY <2>1, <2>3
  <2> QED BY <2>1, <2>2, <2>4, <2>5 DEF Shifted
<1> QED BY <1>2, <1>3

\* Sending the next number keeps the order.
LEMMA PushNumbered ==
  ASSUME NEW t \in Seq(Nat), NEW rx \in Receivers(Nat), NEW n \in Nat,
         Numbered(t, rx.q, n)
  PROVE  Numbered(t, Push(rx, n + 1).q, n + 1)
<1> DEFINE q == rx.q
           r == Push(rx, n + 1).q
<1>1. /\ Len(q) \in Nat /\ Len(t) \in Nat
      /\ \A k \in 1..Len(q) : q[k] \in Nat
      /\ \A k \in 1..Len(t) : t[k] \in Nat
  BY DEF Receivers
<1>2. Longer(q, r, n + 1) \/ Shifted(q, r, n + 1)
  <2>1. n + 1 \in Nat
    OBVIOUS
  <2> QED BY <2>1, PushElements
<1>3. Numbered(t, q, n)
  OBVIOUS
<1> HIDE DEF q, r
<1>4. /\ \A k \in 1..Len(t) : t[k] <= n
      /\ \A k \in 1..Len(q) : q[k] <= n
  BY <1>3 DEF Numbered, AtMost
<1>5. Ascending(t) /\ AtMost(t, n + 1)
  BY <1>1, <1>3, <1>4 DEF Numbered, AtMost
<1>6. ASSUME Longer(q, r, n + 1)
      PROVE  Numbered(t, r, n + 1)
  <2>1. \A k \in 1..Len(r) : k \in 1..Len(q) \/ k = Len(q) + 1
    BY <1>1, <1>6 DEF Longer
  <2>2. Ascending(r)
    <3>1. ASSUME NEW j \in 1..Len(r), NEW k \in 1..Len(r), j < k
          PROVE  r[j] < r[k]
      <4>1. j \in 1..Len(q) /\ r[j] = q[j] /\ q[j] <= n /\ q[j] \in Nat
        BY <1>1, <1>4, <1>6, <3>1 DEF Longer
      <4>2. CASE k = Len(q) + 1
        BY <1>6, <4>1, <4>2 DEF Longer
      <4>3. CASE k \in 1..Len(q)
        BY <1>3, <1>6, <3>1, <4>1, <4>3 DEF Numbered, Ascending, Longer
      <4> QED BY <2>1, <4>2, <4>3
    <3> QED BY <3>1 DEF Ascending
  <2>3. Before(t, r)
    BY <1>1, <1>3, <1>4, <1>6, <2>1 DEF Numbered, Before, Longer
  <2>4. AtMost(r, n + 1)
    <3>1. ASSUME NEW k \in 1..Len(q)
          PROVE  r[k] <= n + 1
      <4>1. r[k] = q[k] /\ q[k] <= n /\ q[k] \in Nat
        BY <1>1, <1>4, <1>6 DEF Longer
      <4> QED BY <4>1
    <3> QED BY <1>6, <2>1, <3>1 DEF AtMost, Longer
  <2>5. ASSUME n + 1 <= Capacity
        PROVE  Len(t) + Len(r) = n + 1 /\ Counting(t, 0) /\ Counting(r, Len(t))
    <3>1. Len(t) + Len(q) = n /\ Counting(t, 0) /\ Counting(q, Len(t))
      BY <1>3, <2>5, CapacityAssumption DEF Numbered
    <3> QED BY <1>1, <1>6, <2>1, <3>1 DEF Counting, Longer
  <2> QED BY <1>5, <2>2, <2>3, <2>4, <2>5 DEF Numbered
<1>7. ASSUME Shifted(q, r, n + 1)
      PROVE  Numbered(t, r, n + 1)
  <2>1. \A k \in 1..Len(r) : k \in 1..(Capacity - 1) \/ k = Capacity
    BY <1>7, CapacityAssumption DEF Shifted
  <2>2. \A k \in 1..(Capacity - 1) : k + 1 \in 1..Len(q) /\ k \in Nat
    BY <1>7, CapacityAssumption DEF Shifted
  <2>3. Ascending(r)
    <3>1. ASSUME NEW j \in 1..Len(r), NEW k \in 1..Len(r), j < k
          PROVE  r[j] < r[k]
      <4>1. j \in 1..(Capacity - 1)
        BY <1>7, <3>1, CapacityAssumption DEF Shifted
      <4>2. j + 1 \in 1..Len(q) /\ r[j] = q[j + 1]
        BY <1>7, <2>2, <4>1 DEF Shifted
      <4>3. CASE k = Capacity
        BY <1>1, <1>4, <1>7, <4>2, <4>3 DEF Shifted
      <4>4. CASE k \in 1..(Capacity - 1)
        <5>1. k + 1 \in 1..Len(q) /\ r[k] = q[k + 1] /\ j + 1 < k + 1
          BY <1>7, <2>2, <3>1, <4>4, CapacityAssumption DEF Shifted
        <5> QED BY <1>3, <4>2, <5>1 DEF Numbered, Ascending
      <4> QED BY <2>1, <4>3, <4>4
    <3> QED BY <3>1 DEF Ascending
  <2>4. Before(t, r)
    <3>1. ASSUME NEW j \in 1..Len(t), NEW k \in 1..Len(r)
          PROVE  t[j] < r[k]
      <4>1. CASE k = Capacity
        BY <1>1, <1>4, <1>7, <4>1 DEF Shifted
      <4>2. CASE k \in 1..(Capacity - 1)
        BY <1>3, <1>7, <2>2, <4>2 DEF Numbered, Before, Shifted
      <4> QED BY <2>1, <4>1, <4>2
    <3> QED BY <3>1 DEF Before
  <2>5. AtMost(r, n + 1)
    <3>1. ASSUME NEW k \in 1..Len(r)
          PROVE  r[k] <= n + 1
      <4>1. CASE k = Capacity
        BY <1>7, <4>1 DEF Shifted
      <4>2. CASE k \in 1..(Capacity - 1)
        <5>1. k + 1 \in 1..Len(q) /\ r[k] = q[k + 1]
          BY <1>7, <2>2, <4>2 DEF Shifted
        <5>2. q[k + 1] \in Nat /\ q[k + 1] <= n
          BY <1>1, <1>4, <5>1
        <5> QED BY <5>1, <5>2
      <4> QED BY <2>1, <4>1, <4>2
    <3> QED BY <3>1 DEF AtMost
  <2>6. ~(n + 1 <= Capacity)
    <3>1. SUFFICES ASSUME n <= Capacity PROVE n >= Capacity
      BY CapacityAssumption
    <3>2. Len(t) + Len(q) = n
      BY <1>3, <3>1 DEF Numbered
    <3> QED BY <1>1, <1>7, <3>2, CapacityAssumption DEF Shifted
  <2> QED BY <1>5, <2>3, <2>4, <2>5, <2>6 DEF Numbered
<1>8. Numbered(t, r, n + 1)
  BY <1>2, <1>6, <1>7
<1> QED BY <1>8 DEF r

\* So does taking the first one.
LEMMA PopNumbered ==
  ASSUME NEW t \in Seq(Nat), NEW rx \in Receivers(Nat), NEW n \in Nat,
         Numbered(t, rx.q, n), HasMessage(rx)
  PROVE  Numbered(Append(t, Head(rx.q)), Popped(rx).q, n)
<1> DEFINE q == rx.q
           r == Popped(rx).q
           u == Append(t, Head(q))
<1>1. /\ Len(q) \in Nat \ {0} /\ Len(t) \in Nat
      /\ \A k \in 1..Len(q) : q[k] \in Nat
      /\ \A k \in 1..Len(t) : t[k] \in Nat
  BY DEF Receivers, HasMessage
<1>2. /\ Len(r) = Len(q) - 1 /\ \A k \in 1..(Len(q) - 1) : r[k] = q[k + 1]
  BY DEF Popped, Receivers, HasMessage
<1>3. /\ Len(u) = Len(t) + 1 /\ \A k \in 1..Len(t) : u[k] = t[k]
      /\ u[Len(t) + 1] = q[1]
  BY <1>1 DEF Receivers, HasMessage
<1>4. Numbered(t, q, n)
  OBVIOUS
<1> HIDE DEF q, r, u
<1>5. /\ \A k \in 1..Len(u) : k \in 1..Len(t) \/ k = Len(t) + 1
      /\ \A k \in 1..Len(r) : k + 1 \in 1..Len(q) /\ k \in Nat /\ r[k] = q[k + 1]
      /\ 1 \in 1..Len(q)
  BY <1>1, <1>2, <1>3
<1>6. Ascending(u)
  <2>1. ASSUME NEW j \in 1..Len(u), NEW k \in 1..Len(u), j < k
        PROVE  u[j] < u[k]
    <3>1. j \in 1..Len(t) /\ u[j] = t[j]
      BY <1>1, <1>3, <2>1
    <3>2. CASE k = Len(t) + 1
      BY <1>3, <1>4, <1>5, <3>1, <3>2 DEF Numbered, Before
    <3>3. CASE k \in 1..Len(t)
      BY <1>3, <1>4, <2>1, <3>1, <3>3 DEF Numbered, Ascending
    <3> QED BY <1>5, <3>2, <3>3
  <2> QED BY <2>1 DEF Ascending
<1>7. Ascending(r)
  <2>1. ASSUME NEW j \in 1..Len(r), NEW k \in 1..Len(r), j < k
        PROVE  r[j] < r[k]
    <3>1. j + 1 < k + 1
      BY <1>5, <2>1
    <3> QED BY <1>4, <1>5, <3>1 DEF Numbered, Ascending
  <2> QED BY <2>1 DEF Ascending
<1>8. Before(u, r)
  <2>1. ASSUME NEW j \in 1..Len(u), NEW k \in 1..Len(r)
        PROVE  u[j] < r[k]
    <3>1. CASE j \in 1..Len(t)
      BY <1>3, <1>4, <1>5, <3>1 DEF Numbered, Before
    <3>2. CASE j = Len(t) + 1
      <4>1. 1 < k + 1
        BY <1>1, <1>2
      <4> QED BY <1>3, <1>4, <1>5, <3>2, <4>1 DEF Numbered, Ascending
    <3> QED BY <1>5, <3>1, <3>2
  <2> QED BY <2>1 DEF Before
<1>9. AtMost(u, n) /\ AtMost(r, n)
  BY <1>3, <1>4, <1>5 DEF Numbered, AtMost
<1>10. ASSUME n <= Capacity
       PROVE  Len(u) + Len(r) = n /\ Counting(u, 0) /\ Counting(r, Len(u))
  <2>1. Len(t) + Len(q) = n /\ Counting(t, 0) /\ Counting(q, Len(t))
    BY <1>4, <1>10 DEF Numbered
  <2>2. Counting(u, 0)
    <3>1. ASSUME NEW k \in 1..Len(u)
          PROVE  u[k] = 0 + k
      <4>1. CASE k \in 1..Len(t)
        BY <1>3, <2>1, <4>1 DEF Counting
      <4>2. CASE k = Len(t) + 1
        <5>1. u[k] = q[1] /\ q[1] = Len(t) + 1
          BY <1>3, <1>5, <2>1, <4>2 DEF Counting
        <5> QED BY <1>1, <4>2, <5>1
      <4> QED BY <1>5, <4>1, <4>2
    <3> QED BY <3>1 DEF Counting
  <2>3. Counting(r, Len(u))
    <3>1. ASSUME NEW k \in 1..Len(r)
          PROVE  r[k] = Len(u) + k
      <4>1. r[k] = q[k + 1] /\ q[k + 1] = Len(t) + (k + 1)
        BY <1>5, <2>1 DEF Counting
      <4> QED BY <1>1, <1>3, <1>5, <4>1
    <3> QED BY <3>1 DEF Counting
  <2>4. Len(u) + Len(r) = n
    <3>1. Len(t) \in Nat /\ Len(q) \in Nat /\ Len(t) + Len(q) = n
      BY <1>1, <2>1
    <3>2. Len(u) = Len(t) + 1 /\ Len(r) = Len(q) - 1
      BY <1>2, <1>3
    <3> QED BY <3>1, <3>2, SMTT(30)
  <2> QED BY <2>2, <2>3, <2>4
<1>11. Numbered(u, r, n)
  BY <1>6, <1>7, <1>8, <1>9, <1>10 DEF Numbered
<1> QED BY <1>11 DEF u, r, q
------------------------------------------------------------------------------
(* A receiver of several messages at once, and one of consecutive numbers. *)

LEMMA ReceiversMonotone ==
  ASSUME NEW M, NEW N, M \subseteq N
  PROVE  Receivers(M) \subseteq Receivers(N) /\ Seq(M) \subseteq Seq(N)
<1>1. Seq(M) \subseteq Seq(N)
  OBVIOUS
<1> QED BY <1>1 DEF Receivers

LEMMA PopElements ==
  ASSUME NEW M, NEW rx \in Receivers(M), HasMessage(rx)
  PROVE  /\ Len(rx.q) \in Nat \ {0} /\ Head(rx.q) = rx.q[1] /\ rx.q[1] \in M
         /\ Len(Popped(rx).q) = Len(rx.q) - 1
         /\ \A k \in 1..(Len(rx.q) - 1) : Popped(rx).q[k] = rx.q[k + 1]
         /\ rx.lagged = FALSE /\ Popped(rx).lagged = FALSE
<1>1. rx.q \in Seq(M) /\ rx.q # <<>> /\ rx.lagged = FALSE
  BY DEF Receivers, HasMessage
<1>2. Popped(rx).q = Tail(rx.q) /\ Popped(rx).lagged = rx.lagged
  BY DEF Popped
<1> QED BY <1>1, <1>2

LEMMA PushAllType ==
  ASSUME NEW M, NEW rx \in Receivers(M), NEW s \in Seq(M)
  PROVE  PushAll(rx, s) \in Receivers(M)
<1> USE CapacityAssumption DEF Receivers
<1> DEFINE all == rx.q \o s
<1>1. all \in Seq(M) /\ Len(all) \in Nat /\ rx.lagged \in BOOLEAN
  OBVIOUS
<1>2. PushAll(rx, s) = IF Len(all) <= Capacity
                       THEN [q |-> all, lagged |-> rx.lagged]
                       ELSE [q |-> SubSeq(all, Len(all) - Capacity + 1, Len(all)), lagged |-> TRUE]
  BY DEF PushAll
<1> HIDE DEF all
<1>3. CASE Len(all) <= Capacity
  BY <1>1, <1>2, <1>3
<1>4. CASE ~(Len(all) <= Capacity)
  <2> DEFINE r == SubSeq(all, Len(all) - Capacity + 1, Len(all))
  <2>1. r \in Seq(M) /\ Len(r) = Capacity
    <3>1. \A k \in (Len(all) - Capacity + 1)..Len(all) : all[k] \in M
      BY <1>1, <1>4
    <3> QED BY <1>1, <1>4, <3>1
  <2>2. PushAll(rx, s) = [q |-> r, lagged |-> TRUE]
    BY <1>2, <1>4
  <2> HIDE DEF r
  <2> QED BY <2>1, <2>2
<1> QED BY <1>3, <1>4

\* What several sends make of a queue q: r has both, or the newest Capacity of both.
Joined(q, s, r) ==
  /\ Len(r) = Len(q) + Len(s)
  /\ \A k \in 1..Len(q) : r[k] = q[k]
  /\ \A k \in 1..Len(s) : r[Len(q) + k] = s[k]

Overtaken(q, s, r) ==
  /\ Len(r) = Capacity /\ Len(q) + Len(s) > Capacity
  /\ \A k \in 1..Capacity : \A j \in 1..(Len(q) + Len(s)) :
       j = k + (Len(q) + Len(s) - Capacity) =>
         r[k] = IF j <= Len(q) THEN q[j] ELSE s[j - Len(q)]

LEMMA PushAllElements ==
  ASSUME NEW M, NEW rx \in Receivers(M), NEW s \in Seq(M)
  PROVE  \/ Joined(rx.q, s, PushAll(rx, s).q) /\ PushAll(rx, s).lagged = rx.lagged
         \/ Overtaken(rx.q, s, PushAll(rx, s).q) /\ PushAll(rx, s).lagged = TRUE
<1> USE CapacityAssumption DEF Receivers
<1> DEFINE q == rx.q
           all == q \o s
<1>1. /\ q \in Seq(M) /\ Len(q) \in Nat /\ Len(s) \in Nat
      /\ all \in Seq(M) /\ Len(all) = Len(q) + Len(s)
      /\ \A k \in 1..(Len(q) + Len(s)) : all[k] = IF k <= Len(q) THEN q[k] ELSE s[k - Len(q)]
  OBVIOUS
<1>2. PushAll(rx, s) = IF Len(all) <= Capacity
                       THEN [q |-> all, lagged |-> rx.lagged]
                       ELSE [q |-> SubSeq(all, Len(all) - Capacity + 1, Len(all)), lagged |-> TRUE]
  BY DEF PushAll
<1> HIDE DEF all, q
<1>3. ASSUME Len(all) <= Capacity
      PROVE  Joined(q, s, PushAll(rx, s).q) /\ PushAll(rx, s).lagged = rx.lagged
  <2>1. PushAll(rx, s).q = all /\ PushAll(rx, s).lagged = rx.lagged
    BY <1>2, <1>3
  <2>2. \A k \in 1..Len(q) : all[k] = q[k]
    BY <1>1
  <2>3. ASSUME NEW k \in 1..Len(s)
        PROVE  all[Len(q) + k] = s[k]
    <3>1. Len(q) + k \in 1..(Len(q) + Len(s)) /\ ~(Len(q) + k <= Len(q)) /\ Len(q) + k - Len(q) = k
      BY <1>1
    <3> QED BY <1>1, <3>1
  <2> QED BY <1>1, <2>1, <2>2, <2>3 DEF Joined
<1>4. ASSUME ~(Len(all) <= Capacity)
      PROVE  Overtaken(q, s, PushAll(rx, s).q) /\ PushAll(rx, s).lagged = TRUE
  <2>1. /\ PushAll(rx, s).q = SubSeq(all, Len(all) - Capacity + 1, Len(all))
        /\ PushAll(rx, s).lagged = TRUE
    BY <1>2, <1>4, SMTT(30)
  <2>2. /\ Len(PushAll(rx, s).q) = Capacity
        /\ \A k \in 1..Capacity : PushAll(rx, s).q[k] = all[k + (Len(q) + Len(s) - Capacity)]
    BY <1>1, <1>4, <2>1
  <2>3. ASSUME NEW k \in 1..Capacity, NEW j \in 1..(Len(q) + Len(s)),
               j = k + (Len(q) + Len(s) - Capacity)
        PROVE  PushAll(rx, s).q[k] = IF j <= Len(q) THEN q[j] ELSE s[j - Len(q)]
    <3>1. PushAll(rx, s).q[k] = all[j]
      BY <2>2, <2>3
    <3> QED BY <1>1, <3>1
  <2>4. Len(q) + Len(s) > Capacity
    BY <1>1, <1>4
  <2> QED BY <2>1, <2>2, <2>3, <2>4 DEF Overtaken
<1>5. Len(all) <= Capacity \/ ~(Len(all) <= Capacity)
  OBVIOUS
<1> QED BY <1>3, <1>4, <1>5 DEF q

\* Sending a number that is larger than all those sent before keeps a queue in order;
\* so does taking the first one, which is the least.
LEMMA PushAscending ==
  ASSUME NEW n \in Nat, NEW rx \in Receivers(1..n), NEW m \in Nat, m > n, Ascending(rx.q)
  PROVE  /\ Ascending(Push(rx, m).q)
         /\ \A k \in 1..Len(Push(rx, m).q) :
              Push(rx, m).q[k] = m \/ \E j \in 1..Len(rx.q) : Push(rx, m).q[k] = rx.q[j]
<1> DEFINE q == rx.q
           r == Push(rx, m).q
<1>1. Len(q) \in Nat /\ \A k \in 1..Len(q) : q[k] \in 1..n
  BY DEF Receivers
<1>2. Longer(q, r, m) \/ Shifted(q, r, m)
  <2>1. rx \in Receivers(Nat)
    <3>1. 1..n \subseteq Nat
      OBVIOUS
    <3> QED BY <3>1, ReceiversMonotone
  <2> QED BY <2>1, PushElements
<1>3. Ascending(q)
  OBVIOUS
<1> HIDE DEF q, r
<1>4. ASSUME Longer(q, r, m)
      PROVE  /\ Ascending(r)
             /\ \A k \in 1..Len(r) : r[k] = m \/ \E j \in 1..Len(q) : r[k] = q[j]
  <2>1. \A k \in 1..Len(r) : k \in 1..Len(q) \/ k = Len(q) + 1
    BY <1>1, <1>4 DEF Longer
  <2>2. ASSUME NEW j \in 1..Len(r), NEW k \in 1..Len(r), j < k
        PROVE  r[j] < r[k]
    <3>1. j \in 1..Len(q) /\ r[j] = q[j] /\ q[j] \in 1..n
      BY <1>1, <1>4, <2>2 DEF Longer
    <3>2. CASE k = Len(q) + 1
      BY <1>4, <3>1, <3>2 DEF Longer
    <3>3. CASE k \in 1..Len(q)
      BY <1>3, <1>4, <2>2, <3>1, <3>3 DEF Ascending, Longer
    <3> QED BY <2>1, <3>2, <3>3
  <2> QED BY <1>4, <2>1, <2>2 DEF Ascending, Longer
<1>5. ASSUME Shifted(q, r, m)
      PROVE  /\ Ascending(r)
             /\ \A k \in 1..Len(r) : r[k] = m \/ \E j \in 1..Len(q) : r[k] = q[j]
  <2>1. \A k \in 1..Len(r) : k = Capacity \/ (k \in 1..(Capacity - 1) /\ k + 1 \in 1..Len(q))
    BY <1>5, CapacityAssumption DEF Shifted
  <2>2. ASSUME NEW j \in 1..Len(r), NEW k \in 1..Len(r), j < k
        PROVE  r[j] < r[k]
    <3>1. j \in 1..(Capacity - 1) /\ j + 1 \in 1..Len(q)
      BY <1>5, <2>2, CapacityAssumption DEF Shifted
    <3>2. r[j] = q[j + 1] /\ q[j + 1] \in 1..n
      BY <1>1, <1>5, <3>1 DEF Shifted
    <3>3. CASE k = Capacity
      BY <1>5, <3>2, <3>3 DEF Shifted
    <3>4. CASE k \in 1..(Capacity - 1) /\ k + 1 \in 1..Len(q)
      <4>1. r[k] = q[k + 1] /\ j + 1 < k + 1
        BY <1>5, <2>2, <3>1, <3>4, CapacityAssumption DEF Shifted
      <4> QED BY <1>3, <3>1, <3>2, <3>4, <4>1 DEF Ascending
    <3> QED BY <2>1, <3>3, <3>4
  <2>3. ASSUME NEW k \in 1..Len(r)
        PROVE  r[k] = m \/ \E j \in 1..Len(q) : r[k] = q[j]
    BY <1>5, <2>1 DEF Shifted
  <2> QED BY <2>2, <2>3 DEF Ascending
<1> QED BY <1>2, <1>4, <1>5 DEF q, r

LEMMA PopAscending ==
  ASSUME NEW n \in Nat, NEW rx \in Receivers(1..n), HasMessage(rx), Ascending(rx.q)
  PROVE  /\ Ascending(Popped(rx).q) /\ Head(rx.q) \in 1..n
         /\ \A k \in 1..Len(Popped(rx).q) : Head(rx.q) < Popped(rx).q[k]
         /\ \E j \in 1..Len(rx.q) : Head(rx.q) = rx.q[j]
         /\ \A k \in 1..Len(Popped(rx).q) : \E j \in 1..Len(rx.q) : Popped(rx).q[k] = rx.q[j]
<1> DEFINE q == rx.q
           r == Popped(rx).q
<1>1. /\ Len(q) \in Nat \ {0} /\ Head(q) = q[1] /\ q[1] \in 1..n /\ Len(r) = Len(q) - 1
      /\ \A k \in 1..(Len(q) - 1) : r[k] = q[k + 1]
  BY PopElements
<1>2. Ascending(q)
  OBVIOUS
<1> HIDE DEF q, r
<1>3. \A k \in 1..Len(r) : k + 1 \in 1..Len(q) /\ r[k] = q[k + 1] /\ 1 < k + 1
  BY <1>1
<1>4. \A j, k \in 1..Len(r) : j < k => j + 1 < k + 1
  BY <1>1
<1>5. 1 \in 1..Len(q)
  BY <1>1
<1>6. Ascending(r)
  BY <1>2, <1>3, <1>4 DEF Ascending
<1>7. \A k \in 1..Len(r) : q[1] < r[k]
  BY <1>2, <1>3, <1>5 DEF Ascending
<1> QED BY <1>1, <1>3, <1>5, <1>6, <1>7 DEF q, r

\* The queue has the last of the numbers 1..n, none missing.
Running(q, n) == Len(q) <= n /\ Counting(q, n - Len(q))

LEMMA PushAllRunning ==
  ASSUME NEW M, NEW rx \in Receivers(M), NEW n \in Nat, NEW c \in Nat, NEW s \in Seq(M),
         Running(rx.q, n), Len(s) = c, Counting(s, n)
  PROVE  /\ Running(PushAll(rx, s).q, n + c)
         /\ PushAll(rx, s).lagged = FALSE =>
              rx.lagged = FALSE /\ Len(PushAll(rx, s).q) = Len(rx.q) + c
<1> DEFINE q == rx.q
           r == PushAll(rx, s).q
<1>1. Len(q) \in Nat /\ Len(q) <= n /\ Counting(q, n - Len(q))
  BY DEF Receivers, Running
<1>2. \/ Joined(q, s, r) /\ PushAll(rx, s).lagged = rx.lagged
      \/ Overtaken(q, s, r) /\ PushAll(rx, s).lagged = TRUE
  BY PushAllElements
<1>3. rx.lagged \in BOOLEAN
  BY DEF Receivers
<1> HIDE DEF q, r
<1>4. ASSUME Joined(q, s, r)
      PROVE  Running(r, n + c) /\ Len(r) = Len(q) + c
  <2>1. Len(r) = Len(q) + c /\ (n + c) - Len(r) = n - Len(q)
    BY <1>1, <1>4 DEF Joined
  <2>2. ASSUME NEW k \in 1..Len(r)
        PROVE  r[k] = (n - Len(q)) + k
    <3>1. CASE k <= Len(q)
      BY <1>1, <1>4, <2>1, <2>2, <3>1 DEF Joined, Counting
    <3>2. CASE ~(k <= Len(q))
      <4>1. PICK j \in 1..c : k = Len(q) + j
        <5>1. k - Len(q) \in 1..c /\ k = Len(q) + (k - Len(q))
          BY <1>1, <2>1, <2>2, <3>2
        <5> QED BY <5>1
      <4>2. r[k] = s[j] /\ s[j] = n + j
        BY <1>4, <4>1 DEF Joined, Counting
      <4> QED BY <1>1, <4>1, <4>2
    <3> QED BY <3>1, <3>2
  <2> QED BY <1>1, <2>1, <2>2 DEF Running, Counting
<1>5. ASSUME Overtaken(q, s, r)
      PROVE  Running(r, n + c)
  <2>1. Len(r) = Capacity /\ Len(q) + c > Capacity /\ Len(r) <= n + c
    BY <1>1, <1>5, CapacityAssumption DEF Overtaken
  <2>2. ASSUME NEW k \in 1..Len(r)
        PROVE  r[k] = (n + c - Len(r)) + k
    <3>1. PICK j \in 1..(Len(q) + c) : j = k + (Len(q) + c - Capacity)
      <4>1. k + (Len(q) + c - Capacity) \in 1..(Len(q) + c)
        BY <1>1, <2>1, <2>2, CapacityAssumption
      <4> QED BY <4>1
    <3>2. r[k] = IF j <= Len(q) THEN q[j] ELSE s[j - Len(q)]
      BY <1>5, <2>1, <3>1 DEF Overtaken
    <3>3. CASE j <= Len(q)
      <4>1. q[j] = (n - Len(q)) + j
        BY <1>1, <3>1, <3>3 DEF Counting
      <4> QED BY <1>1, <2>1, <3>1, <3>2, <3>3, <4>1, CapacityAssumption
    <3>4. CASE ~(j <= Len(q))
      <4>1. j - Len(q) \in 1..c
        BY <1>1, <3>1, <3>4
      <4>2. s[j - Len(q)] = n + (j - Len(q))
        BY <4>1 DEF Counting
      <4> QED BY <1>1, <2>1, <3>1, <3>2, <3>4, <4>2, CapacityAssumption
    <3> QED BY <3>3, <3>4
  <2> QED BY <2>1, <2>2 DEF Running, Counting
<1> QED BY <1>2, <1>3, <1>4, <1>5 DEF q, r
------------------------------------------------------------------------------
(* A task that takes the numbers of a queue q one by one and tries each up to a times,
   with or without effect: h is the one in hand (0: none), tried c times, t has those
   that arrived. *)

\* The number in hand is before those that wait, and it arrived in its last attempts
\* only, no more often than there were.
InHand(h, c, t, q, a) ==
  /\ c < a
  /\ \A k \in 1..Len(q) : h < q[k]
  /\ \A k \in 1..Len(t) :
       /\ t[k] <= h
       /\ t[k] = h => k > Len(t) - c

InSequence(h, c, t, q, a) ==
  /\ Ascending(q) /\ Before(t, q)
  /\ h # 0 => InHand(h, c, t, q, a)

\* The next number is sent.
LEMMA SendInSequence ==
  ASSUME NEW n \in Nat, NEW rx \in Receivers(1..n), NEW t \in Seq(1..n), NEW h \in 0..n,
         NEW c \in Nat, NEW a \in Nat, InSequence(h, c, t, rx.q, a)
  PROVE  InSequence(h, c, t, Push(rx, n + 1).q, a)
<1> DEFINE q == rx.q
           r == Push(rx, n + 1).q
<1>1. /\ Ascending(q) /\ Before(t, q)
      /\ h # 0 => InHand(h, c, t, q, a)
  BY DEF InSequence
<1>2. /\ Ascending(r)
      /\ \A k \in 1..Len(r) : r[k] = n + 1 \/ \E j \in 1..Len(q) : r[k] = q[j]
  <2>1. n + 1 \in Nat /\ n + 1 > n
    OBVIOUS
  <2> QED BY <1>1, <2>1, PushAscending
<1> HIDE DEF q, r
<1>3. Before(t, r)
  <2>1. ASSUME NEW j \in 1..Len(t), NEW k \in 1..Len(r)
        PROVE  t[j] < r[k]
    <3>1. t[j] < n + 1
      <4>1. t[j] \in 1..n
        OBVIOUS
      <4> QED BY <4>1
    <3> QED BY <1>1, <1>2, <3>1 DEF Before
  <2> QED BY <2>1 DEF Before
<1>4. ASSUME h # 0
      PROVE  InHand(h, c, t, r, a)
  <2>1. h < n + 1
    OBVIOUS
  <2>2. \A j \in 1..Len(q) : h < q[j]
    BY <1>1, <1>4 DEF InHand
  <2>3. \A k \in 1..Len(r) : h < r[k]
    BY <1>2, <2>1, <2>2
  <2> QED BY <1>1, <1>4, <2>3 DEF InHand
<1>5. InSequence(h, c, t, r, a)
  BY <1>2, <1>3, <1>4 DEF InSequence
<1> QED BY <1>5 DEF r

\* The first number is taken.
LEMMA TakeInSequence ==
  ASSUME NEW n \in Nat, NEW rx \in Receivers(1..n), NEW t \in Seq(1..n), NEW c \in Nat,
         NEW a \in Nat \ {0}, InSequence(0, c, t, rx.q, a), HasMessage(rx)
  PROVE  Head(rx.q) \in 1..n /\ InSequence(Head(rx.q), 0, t, Popped(rx).q, a)
<1> DEFINE q == rx.q
           r == Popped(rx).q
           h == Head(rx.q)
<1>1. Ascending(q) /\ Before(t, q)
  BY DEF InSequence
<1>2. /\ Ascending(r) /\ h \in 1..n
      /\ \A k \in 1..Len(r) : h < r[k]
      /\ \E j \in 1..Len(q) : h = q[j]
      /\ \A k \in 1..Len(r) : \E j \in 1..Len(q) : r[k] = q[j]
  BY <1>1, PopAscending
<1> HIDE DEF q, r, h
<1>3. Before(t, r)
  BY <1>1, <1>2 DEF Before
<1>4. \A k \in 1..Len(t) : t[k] < h
  BY <1>1, <1>2 DEF Before
<1>5. \A k \in 1..Len(t) : t[k] <= h /\ t[k] # h
  <2>1. \A k \in 1..Len(t) : t[k] \in 1..n
    OBVIOUS
  <2> QED BY <1>2, <1>4, <2>1
<1>6. InSequence(h, 0, t, r, a)
  BY <1>2, <1>3, <1>5 DEF InSequence, InHand
<1> QED BY <1>2, <1>6 DEF h, r

\* It arrives, or an attempt fails, with or without effect; after the last one it is
\* given up.
LEMMA TryInSequence ==
  ASSUME NEW n \in Nat, NEW rx \in Receivers(1..n), NEW t \in Seq(1..n), NEW h \in 1..n,
         NEW c \in Nat, NEW a \in Nat, InSequence(h, c, t, rx.q, a)
  PROVE  /\ Ascending(rx.q) /\ Before(t, rx.q) /\ Before(Append(t, h), rx.q)
         /\ c + 1 # a => /\ InSequence(h, c + 1, t, rx.q, a)
                         /\ InSequence(h, c + 1, Append(t, h), rx.q, a)
         /\ c + 1 <= a /\ Append(t, h) \in Seq(1..n)
<1> DEFINE q == rx.q
<1>1. /\ Len(t) \in Nat /\ Append(t, h) \in Seq(1..n)
      /\ \A k \in 1..Len(t) : t[k] \in 1..n
  OBVIOUS
<1>2. Ascending(q) /\ Before(t, q) /\ InHand(h, c, t, q, a)
  BY DEF InSequence
<1> HIDE DEF q
<1>3. c + 1 # a => InSequence(h, c + 1, t, q, a)
  <2>1. \A k \in 1..Len(t) : k > Len(t) - c => k > Len(t) - (c + 1)
    BY <1>1
  <2>2. c + 1 # a => InHand(h, c + 1, t, q, a)
    BY <1>2, <2>1 DEF InHand
  <2> QED BY <1>2, <2>2 DEF InSequence
<1>4. /\ Before(Append(t, h), q)
      /\ c + 1 # a => InSequence(h, c + 1, Append(t, h), q, a)
  <2> DEFINE u == Append(t, h)
  <2>1. /\ Len(u) = Len(t) + 1 /\ u[Len(t) + 1] = h
        /\ \A k \in 1..Len(t) : u[k] = t[k]
    BY <1>1
  <2> HIDE DEF u
  <2>2. \A k \in 1..Len(u) : k \in 1..Len(t) \/ k = Len(t) + 1
    BY <1>1, <2>1
  <2>3. Before(u, q)
    BY <1>2, <2>1, <2>2 DEF Before, InHand
  <2>4. ASSUME NEW k \in 1..Len(u)
        PROVE  u[k] <= h
    <3>1. CASE k \in 1..Len(t)
      BY <1>2, <2>1, <3>1 DEF InHand
    <3>2. CASE k = Len(t) + 1
      BY <2>1, <3>2
    <3> QED BY <2>2, <3>1, <3>2
  <2>5. ASSUME NEW k \in 1..Len(u), u[k] = h
        PROVE  k > Len(u) - (c + 1)
    <3>1. CASE k \in 1..Len(t)
      <4>1. k > Len(t) - c
        BY <1>2, <2>1, <2>5, <3>1 DEF InHand
      <4> QED BY <1>1, <2>1, <4>1
    <3>2. CASE k = Len(t) + 1
      BY <1>1, <2>1, <3>2
    <3> QED BY <2>2, <3>1, <3>2
  <2>6. c + 1 # a => InHand(h, c + 1, u, q, a)
    BY <1>2, <2>4, <2>5 DEF InHand
  <2> QED BY <1>2, <2>3, <2>6 DEF InSequence, u
<1>5. c + 1 <= a
  BY <1>2 DEF InHand
<1> QED BY <1>1, <1>2, <1>3, <1>4, <1>5 DEF q

\* What is in hand is not before what arrived last, and it has arrived fewer than a
\* times.
LEMMA DeliverInSequence ==
  ASSUME NEW n \in Nat, NEW t \in Seq(1..n), NEW h \in 1..n, NEW c \in Nat, NEW a \in Nat \ {0},
         NEW q, InSequence(h, c, t, q, a)
  PROVE  /\ t # <<>> => h >= t[Len(t)]
         /\ Len(t) < a \/ t[Len(t) + 1 - a] # h
<1>1. Len(t) \in Nat /\ \A k \in 1..Len(t) : t[k] \in 1..n
  OBVIOUS
<1>2. InHand(h, c, t, q, a)
  BY DEF InSequence
<1>3. ASSUME t # <<>>
      PROVE  h >= t[Len(t)]
  <2>1. Len(t) \in 1..Len(t)
    BY <1>1, <1>3
  <2> QED BY <1>1, <1>2, <2>1 DEF InHand
<1>4. ASSUME ~(Len(t) < a)
      PROVE  t[Len(t) + 1 - a] # h
  <2>1. PICK k \in 1..Len(t) : k = Len(t) + 1 - a
    <3>1. Len(t) + 1 - a \in 1..Len(t)
      BY <1>1, <1>4
    <3> QED BY <3>1
  <2>2. c < a
    BY <1>2 DEF InHand
  <2>3. ~(k > Len(t) - c)
    BY <1>1, <2>1, <2>2
  <2> QED BY <1>2, <2>1, <2>3 DEF InHand
<1> QED BY <1>3, <1>4
==============================================================================
