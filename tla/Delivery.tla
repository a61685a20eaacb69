------------------------------- MODULE Delivery -------------------------------
(***************************************************************************)
(* What a sink promises, whatever its channel, its retries and its failing *)
(* service do: the items sent so far are numbered 1..sent, `delivered` has *)
(* the numbers of those that arrived, in the order of their arrival.       *)
(* Nothing arrives that was not sent, nothing overtakes, nothing arrives   *)
(* more than Copies times, and, unless MayDrop, nothing is left out.       *)
(***************************************************************************)
EXTENDS Naturals, Sequences

CONSTANTS Copies, MayDrop

VARIABLES sent, delivered

Latest == IF delivered = <<>> THEN 0 ELSE delivered[Len(delivered)]

\* Item k has arrived fewer than Copies times: as nothing overtakes, the times it has
\* are the last ones.
Fresh(k) ==
  Len(delivered) < Copies \/ delivered[Len(delivered) + 1 - Copies] # k

Init == sent = 0 /\ delivered = <<>>

Send == sent' \in Nat /\ sent' > sent /\ UNCHANGED delivered

Deliver ==
  /\ \E k \in 1..sent :
       /\ k >= Latest /\ Fresh(k)
       /\ MayDrop \/ k <= Latest + 1
       /\ delivered' = Append(delivered, k)
  /\ UNCHANGED sent

Next == Send \/ Deliver

Spec == Init /\ [][Next]_<<sent, delivered>>
===============================================================================
