------------------------------ MODULE Broadcast ------------------------------
(***************************************************************************)
(* One receiver of a tokio broadcast channel, as the bridge uses it: every *)
(* channel of src/channels.rs keeps the last `Capacity` messages (2048 in  *)
(* the code), every receiver reads them at its own pace, and a receiver    *)
(* that falls more than Capacity messages behind loses the oldest ones and *)
(* gets RecvError::Lagged, once, from its next recv.  A receiver sees the  *)
(* messages sent after it subscribed.                                      *)
(***************************************************************************)
EXTENDS Naturals, Sequences

CONSTANT Capacity    \* messages a channel keeps for its slowest receiver

ASSUME CapacityAssumption == Capacity \in Nat \ {0}

\* What a receiver subscribed just now holds.
Subscribed == [q |-> <<>>, lagged |-> FALSE]

\* The receivers of a channel of messages from the set M.
Receivers(M) == {rx \in [q : Seq(M), lagged : BOOLEAN] : Len(rx.q) <= Capacity}

\* The receiver after the sender has sent m.
Push(rx, m) ==
  IF Len(rx.q) < Capacity
  THEN [q |-> Append(rx.q, m), lagged |-> rx.lagged]
  ELSE [q |-> Append(Tail(rx.q), m), lagged |-> TRUE]

\* The receiver after the sender has sent the messages of s, one after the other.
PushAll(rx, s) ==
  LET all == rx.q \o s
  IN IF Len(all) <= Capacity
     THEN [q |-> all, lagged |-> rx.lagged]
     ELSE [q |-> SubSeq(all, Len(all) - Capacity + 1, Len(all)), lagged |-> TRUE]

\* What the next recv of the receiver returns: Ok(Head), Err(Lagged), or it waits.
HasMessage(rx) == ~rx.lagged /\ rx.q # <<>>
HasLagged(rx)  == rx.lagged

\* The receiver after a recv that returned a message; after one that returned Lagged.
Popped(rx)   == [q |-> Tail(rx.q), lagged |-> rx.lagged]
CaughtUp(rx) == [q |-> rx.q, lagged |-> FALSE]
==============================================================================
