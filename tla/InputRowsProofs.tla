--------------------------- MODULE InputRowsProofs ---------------------------
(***************************************************************************)
(* Proofs about InputRows, for any inverters, blocks, databases, capacity, *)
(* number of attempts and bounds: what a row is made of, how many polls it *)
(* spans, and what a database has of the rows.                             *)
(***************************************************************************)
EXTENDS InputRows, BroadcastProofs

Turns == [poll : Nat, next : DOMAIN BlockOrder]
Row   == [inv : Inverters, parts : [Blocks -> Parts]]
Tasks == {"connecting", "opening", "idle", "busy", "ended"}

\* The types of what the inverters and the loop have.
LoopTypes ==
  /\ turn \in [Inverters -> Turns]
  /\ count \in 0..MaxPackets /\ upsets \in [Inverters -> 0..MaxUpsets]
  /\ exited \in BOOLEAN /\ loopRx \in Receivers(Packets)
  /\ store \in [Inverters -> [Blocks -> Parts]] /\ rows \in Seq(Row)
  /\ failures \in 0..MaxFailures

\* The types of what the databases have: numbers of rows that were made.
TaskTypes ==
  /\ dbRx \in [Databases -> Receivers(1..Len(rows))]
  /\ db \in [Databases -> Tasks]
  /\ hand \in [Databases -> 0..Len(rows)] /\ tries \in [Databases -> 0..Attempts]
  /\ stored \in [Databases -> Seq(1..Len(rows))]
  /\ \A d \in Databases : db[d] = "busy" <=> hand[d] # 0

\* The rows that wait for a database, the one in hand and those in its table are in
\* order.
TableInOrder(d) == InSequence(hand[d], tries[d], stored[d], dbRx[d].q, Attempts)
TablesInOrder == \A d \in Databases : TableInOrder(d)

\* What waits for the loop is newer than all that it has.
PartsBefore(n) ==
  /\ \A i \in Inverters, b \in Blocks : store[i][b].n < n
  /\ \A m \in 1..Len(rows), b \in Blocks : rows[m].parts[b].n < n

QueueInOrder(q) ==
  /\ \A k \in 1..Len(q) : q[k].part.n \in 1..count /\ PartsBefore(q[k].part.n)
  /\ \A j, k \in 1..Len(q) : j < k => q[j].part.n < q[k].part.n

\* The blocks that an inverter has in the store are newer than those of its rows.
RowsBeforeStore ==
  \A m \in 1..Len(rows), b, c \in Blocks :
    store[rows[m].inv][c].n # 0 => rows[m].parts[b].n < store[rows[m].inv][c].n

RowsInvariant ==
  /\ LoopTypes /\ TaskTypes /\ TablesInOrder
  /\ QueueInOrder(loopRx.q) /\ PartsBefore(count + 1) /\ RowsBeforeStore /\ NoBlockTwice
------------------------------------------------------------------------------
(* The inverters.                                                          *)

LEMMA OrderType ==
  /\ Len(BlockOrder) \in Nat \ {0} /\ DOMAIN BlockOrder = 1..Len(BlockOrder)
  /\ \A k \in DOMAIN BlockOrder : BlockOrder[k] \in Blocks
  /\ BlockOrder[1] \in Blocks
<1>1. BlockOrder \in Seq(Blocks) /\ BlockOrder # <<>>
  BY RowsAssumption
<1> QED BY <1>1

\* A packet that arrives is behind all that wait.
LEMMA ArriveStep ==
  ASSUME RowsInvariant, NEW kind \in Kinds, NEW i \in Inverters, NEW b \in Blocks,
         NEW fit \in Fits, Arrive(kind, i, b, fit)
  PROVE  /\ count' \in 0..MaxPackets /\ loopRx' \in Receivers(Packets)
         /\ QueueInOrder(loopRx.q)' /\ PartsBefore(count + 1)'
         /\ UNCHANGED <<exited, store, rows, dbRx, db, hand, tries, stored, failures>>
<1> DEFINE m == [kind |-> kind, inv |-> i, block |-> b,
                 part |-> [n |-> count + 1, poll |-> turn[i].poll, fit |-> fit]]
           q == loopRx.q
           r == Push(loopRx, m).q
<1>1. /\ count \in Nat /\ count < MaxPackets /\ count' = count + 1
      /\ UNCHANGED <<exited, store, rows, dbRx, db, hand, tries, stored, failures>>
      /\ loopRx' = IF exited THEN loopRx ELSE Push(loopRx, m)
  BY DEF Arrive, databases, RowsInvariant, LoopTypes
<1>2. m \in Packets /\ m.part.n = count + 1
  <2>1. turn[i].poll \in Nat
    BY DEF RowsInvariant, LoopTypes, Turns
  <2>2. [n |-> count + 1, poll |-> turn[i].poll, fit |-> fit] \in Parts
    BY <1>1, <2>1 DEF Parts
  <2> QED BY <2>2 DEF Packets
<1>3. loopRx \in Receivers(Packets)
  BY DEF RowsInvariant, LoopTypes
<1> HIDE DEF m
<1>4. Push(loopRx, m) \in Receivers(Packets)
  BY <1>2, <1>3, PushType
<1>5. Longer(q, r, m) \/ Shifted(q, r, m)
  BY <1>2, <1>3, PushElements
<1>6. /\ \A k \in 1..Len(q) : q[k].part.n \in 1..count /\ PartsBefore(q[k].part.n)
      /\ \A j, k \in 1..Len(q) : j < k => q[j].part.n < q[k].part.n
      /\ PartsBefore(count + 1) /\ Len(q) \in Nat
  BY <1>3 DEF RowsInvariant, QueueInOrder, Receivers
<1> HIDE DEF q, r
<1>7. PICK x \in {0, 1} :
        \A k \in 1..Len(r) :
          \/ r[k] = m /\ k = Len(r)
          \/ k < Len(r) /\ k + x \in 1..Len(q) /\ r[k] = q[k + x]
  <2>1. CASE Longer(q, r, m)
    <3>1. \A k \in 1..Len(r) :
            \/ r[k] = m /\ k = Len(r)
            \/ k < Len(r) /\ k + 0 \in 1..Len(q) /\ r[k] = q[k + 0]
      BY <1>6, <2>1 DEF Longer
    <3> QED BY <3>1
  <2>2. CASE Shifted(q, r, m)
    <3>1. ASSUME NEW k \in 1..Len(r)
          PROVE  \/ r[k] = m /\ k = Len(r)
                 \/ k < Len(r) /\ k + 1 \in 1..Len(q) /\ r[k] = q[k + 1]
      <4>1. CASE k = Capacity
        BY <2>2, <4>1 DEF Shifted
      <4>2. CASE k # Capacity
        <5>1. k \in 1..(Capacity - 1) /\ k + 1 \in 1..Len(q) /\ k < Len(r)
          BY <2>2, <4>2, CapacityAssumption DEF Shifted
        <5> QED BY <2>2, <5>1 DEF Shifted
      <4> QED BY <4>1, <4>2
    <3> QED BY <3>1
  <2> QED BY <1>5, <2>1, <2>2
<1>8. \A k \in 1..Len(r) : r[k].part.n \in 1..(count + 1) /\ PartsBefore(r[k].part.n)
  <2>1. \A n \in 1..count : n \in 1..(count + 1)
    BY <1>1
  <2>2. count + 1 \in 1..(count + 1)
    BY <1>1
  <2> QED BY <1>2, <1>6, <1>7, <2>1, <2>2
<1>9. ASSUME NEW j \in 1..Len(r), NEW k \in 1..Len(r), j < k
      PROVE  r[j].part.n < r[k].part.n
  <2>1. j + x \in 1..Len(q) /\ r[j] = q[j + x]
    BY <1>5, <1>7, <1>9
  <2>2. CASE r[k] = m
    <3>1. q[j + x].part.n \in 1..count
      BY <1>6, <2>1
    <3> QED BY <1>1, <1>2, <2>1, <2>2, <3>1
  <2>3. CASE k + x \in 1..Len(q) /\ r[k] = q[k + x]
    <3>1. j + x < k + x
      BY <1>9
    <3> QED BY <1>6, <2>1, <2>3, <3>1
  <2> QED BY <1>7, <2>2, <2>3
<1>10. PartsBefore(count + 2)
  <2>1. \A i_1 \in Inverters, b_1 \in Blocks : store[i_1][b_1].n < count + 2
    <3>1. ASSUME NEW i_1 \in Inverters, NEW b_1 \in Blocks
          PROVE  store[i_1][b_1].n < count + 2
      <4>1. store[i_1][b_1].n \in Nat
        BY DEF RowsInvariant, LoopTypes, Parts
      <4>2. store[i_1][b_1].n < count + 1
        BY <1>6 DEF PartsBefore
      <4> QED BY <1>1, <4>1, <4>2
    <3> QED BY <3>1
  <2>2. ASSUME NEW j \in 1..Len(rows), NEW b_1 \in Blocks
        PROVE  rows[j].parts[b_1].n < count + 2
    <3>1. rows[j].parts[b_1].n \in Nat
      <4>1. rows[j] \in Row
        BY DEF RowsInvariant, LoopTypes
      <4> QED BY <4>1 DEF Row, Parts
    <3>2. rows[j].parts[b_1].n < count + 1
      BY <1>6 DEF PartsBefore
    <3> QED BY <1>1, <3>1, <3>2
  <2> QED BY <2>1, <2>2 DEF PartsBefore
<1>11. PartsBefore(count + 1)'
  <2>1. count' + 1 = count + 2
    BY <1>1
  <2> QED BY <1>1, <1>10, <2>1 DEF PartsBefore
<1>12. /\ \A k \in 1..Len(loopRx'.q) :
            loopRx'.q[k].part.n \in 1..(count + 1) /\ PartsBefore(loopRx'.q[k].part.n)
       /\ \A j, k \in 1..Len(loopRx'.q) :
            j < k => loopRx'.q[j].part.n < loopRx'.q[k].part.n
  <2>1. CASE exited
    <3>1. loopRx'.q = q
      BY <1>1, <2>1 DEF q
    <3>2. \A n \in 1..count : n \in 1..(count + 1)
      BY <1>1
    <3> QED BY <1>6, <3>1, <3>2
  <2>2. CASE ~exited
    <3>1. loopRx'.q = r
      BY <1>1, <2>2 DEF r
    <3> QED BY <1>8, <1>9, <3>1
  <2> QED BY <2>1, <2>2
<1>13. QueueInOrder(loopRx.q)'
  BY <1>1, <1>12 DEF QueueInOrder, PartsBefore
<1>14. count' \in 0..MaxPackets
  BY <1>1, RowsAssumption
<1> QED BY <1>1, <1>3, <1>4, <1>13, <1>14, <1>11
LEMMA InverterStep ==
  ASSUME RowsInvariant, NEW i \in Inverters, Inverter(i)
  PROVE  RowsInvariant'
<1> DEFINE Ok == /\ count' \in 0..MaxPackets /\ loopRx' \in Receivers(Packets)
                 /\ QueueInOrder(loopRx.q)' /\ PartsBefore(count + 1)'
                 /\ UNCHANGED <<exited, store, rows, dbRx, db, hand, tries, stored, failures>>
<1>1. turn' \in [Inverters -> Turns]
  <2>1. turn[i] \in Turns /\ turn \in [Inverters -> Turns]
    BY DEF RowsInvariant, LoopTypes
  <2>2. NextTurn(turn[i]) \in Turns
    <3> DEFINE t == turn[i]  n == Len(BlockOrder)
    <3>1. /\ t = [poll |-> t.poll, next |-> t.next] /\ t.poll \in Nat /\ t.next \in 1..n
          /\ n \in Nat \ {0} /\ DOMAIN BlockOrder = 1..n
      BY <2>1, OrderType DEF Turns
    <3> HIDE DEF t
    <3>2. CASE t.next = n
      <4>1. NextTurn(t) = [poll |-> t.poll + 1, next |-> 1]
        BY <3>2 DEF NextTurn
      <4> QED BY <3>1, <4>1 DEF Turns, t
    <3>3. CASE t.next # n
      <4>1. NextTurn(t) = [poll |-> t.poll, next |-> t.next + 1]
        BY <3>1, <3>3 DEF NextTurn
      <4>2. t.next + 1 \in 1..n
        BY <3>1, <3>3
      <4> QED BY <3>1, <4>1, <4>2 DEF Turns, t
    <3> QED BY <3>2, <3>3
  <2>3. turn' = turn \/ turn' = [turn EXCEPT ![i] = NextTurn(turn[i])]
    BY DEF Inverter, Block, LostBlock, Asked, OtherPacket
  <2> QED BY <2>1, <2>2, <2>3
<1>2. upsets' \in [Inverters -> 0..MaxUpsets]
  <2>1. upsets \in [Inverters -> 0..MaxUpsets] /\ upsets[i] \in 0..MaxUpsets /\ MaxUpsets \in Nat
    BY RowsAssumption DEF RowsInvariant, LoopTypes
  <2>2. upsets' = upsets \/ (upsets[i] < MaxUpsets /\ upsets' = [upsets EXCEPT ![i] = @ + 1])
    BY DEF Inverter, Block, LostBlock, Asked, OtherPacket, Upset
  <2>3. upsets[i] < MaxUpsets => upsets[i] + 1 \in 0..MaxUpsets
    BY <2>1
  <2> QED BY <2>1, <2>2, <2>3
<1>3. Ok
  <2>1. ASSUME NEW kind \in Kinds, NEW b \in Blocks, NEW fit \in Fits, Arrive(kind, i, b, fit)
        PROVE  Ok
    BY <2>1, ArriveStep
  <2>2. BlockOrder[turn[i].next] \in Blocks /\ BlockOrder[1] \in Blocks
    BY OrderType DEF RowsInvariant, LoopTypes, Turns
  <2>3. "block" \in Kinds /\ "all" \in Kinds /\ "other" \in Kinds /\ "good" \in Fits
    BY DEF Kinds, Fits
  <2>4. CASE LostBlock(i)
    <3>1. UNCHANGED <<count, exited, loopRx, store, rows, dbRx, db, hand, tries, stored, failures>>
      BY <2>4 DEF LostBlock, databases
    <3> QED BY <3>1 DEF RowsInvariant, LoopTypes, QueueInOrder, PartsBefore
  <2>5. CASE \E fit \in Fits : Block(i, fit)
    BY <2>1, <2>2, <2>3, <2>5 DEF Block
  <2>6. CASE \E b \in Blocks : Asked(i, "block", b)
    BY <2>1, <2>3, <2>6 DEF Asked
  <2>7. CASE Asked(i, "all", BlockOrder[1]) \/ OtherPacket(i)
    BY <2>1, <2>2, <2>3, <2>7 DEF Asked, OtherPacket
  <2> HIDE DEF Ok
  <2> QED BY <2>4, <2>5, <2>6, <2>7 DEF Inverter
<1>4. LoopTypes'
  BY <1>1, <1>2, <1>3 DEF RowsInvariant, LoopTypes
<1>5. TaskTypes' /\ TablesInOrder'
  BY <1>3 DEF RowsInvariant, TaskTypes, TablesInOrder, TableInOrder
<1>6. RowsBeforeStore' /\ NoBlockTwice'
  BY <1>3 DEF RowsInvariant, RowsBeforeStore, NoBlockTwice
<1> QED BY <1>3, <1>4, <1>5, <1>6 DEF RowsInvariant
------------------------------------------------------------------------------
(* The coordinator's loop.                                                 *)

\* A row is made of the packet's values and of those in the store, all of them there.
LEMMA MergedParts ==
  ASSUME LoopTypes, NEW p \in Packets
  PROVE  /\ Merged(p) \in [Blocks -> Parts]
         /\ \A b \in Blocks : Merged(p)[b] = p.part \/ Merged(p)[b] = store[p.inv][b]
         /\ Complete(p) /\ Stores(p) /\ p.part.n # 0 => \A b \in Blocks : Merged(p)[b].n # 0
<1>1. /\ p.kind \in Kinds /\ p.inv \in Inverters /\ p.block \in Blocks /\ p.part \in Parts
  BY DEF Packets
<1>2. store[p.inv] \in [Blocks -> Parts]
  BY <1>1 DEF LoopTypes
<1>3. Merged(p) \in [Blocks -> Parts]
  BY <1>1, <1>2 DEF Merged
<1>4. \A b \in Blocks : Merged(p)[b] = p.part \/ Merged(p)[b] = store[p.inv][b]
  BY <1>1, <1>2 DEF Merged
<1>5. ASSUME Complete(p), Stores(p), p.part.n # 0
      PROVE  \A b \in Blocks : Merged(p)[b].n # 0
  <2>1. CASE p.kind = "block"
    BY <1>5, <2>1 DEF Complete
  <2>2. CASE p.kind = "all"
    BY <1>5, <2>2 DEF Merged
  <2> QED BY <1>1, <1>5, <2>1, <2>2 DEF Stores, Kinds
<1> QED BY <1>3, <1>4, <1>5

LEMMA ProcessStep ==
  ASSUME RowsInvariant, ProcessPacket
  PROVE  RowsInvariant'
<1> DEFINE p == Head(loopRx.q)
<1>1. /\ HasMessage(loopRx) /\ loopRx' = Popped(loopRx)
      /\ UNCHANGED <<turn, count, upsets, exited, db, hand, tries, stored, failures>>
      /\ \/ ~Stores(p) /\ UNCHANGED <<store, rows, dbRx>>
         \/ Stores(p) /\ Complete(p) /\ SendRow(p)
         \/ Stores(p) /\ store' = [store EXCEPT ![p.inv] = Merged(p)] /\ UNCHANGED <<rows, dbRx>>
  BY DEF ProcessPacket, inverters
<1>2. LoopTypes /\ TaskTypes
  BY DEF RowsInvariant
<1>3. /\ Len(loopRx.q) \in Nat \ {0} /\ p = loopRx.q[1] /\ p \in Packets
      /\ Len(loopRx'.q) = Len(loopRx.q) - 1
      /\ \A k \in 1..(Len(loopRx.q) - 1) : loopRx'.q[k] = loopRx.q[k + 1]
      /\ loopRx' \in Receivers(Packets)
  <2>1. loopRx \in Receivers(Packets) /\ HasMessage(loopRx)
    BY <1>1, <1>2 DEF LoopTypes
  <2>2. /\ Len(loopRx.q) \in Nat \ {0} /\ p = loopRx.q[1] /\ loopRx.q[1] \in Packets
        /\ Len(Popped(loopRx).q) = Len(loopRx.q) - 1
        /\ \A k \in 1..(Len(loopRx.q) - 1) : Popped(loopRx).q[k] = loopRx.q[k + 1]
    BY <2>1, PopElements
  <2>3. Popped(loopRx) \in Receivers(Packets)
    BY <2>1, PoppedType
  <2> HIDE DEF p
  <2> QED BY <1>1, <2>2, <2>3
<1>4. p.inv \in Inverters /\ p.part \in Parts
  BY <1>3 DEF Packets
<1>5. /\ p.part.n \in 1..count /\ PartsBefore(p.part.n)
      /\ \A k \in 1..Len(loopRx'.q) : /\ loopRx'.q[k].part.n \in 1..count
                                      /\ PartsBefore(loopRx'.q[k].part.n)
                                      /\ p.part.n < loopRx'.q[k].part.n
      /\ \A j, k \in 1..Len(loopRx'.q) :
           j < k => loopRx'.q[j].part.n < loopRx'.q[k].part.n
  <2>1. QueueInOrder(loopRx.q) /\ 1 \in 1..Len(loopRx.q)
    BY <1>3 DEF RowsInvariant
  <2>2. \A k \in 1..Len(loopRx'.q) :
          k + 1 \in 1..Len(loopRx.q) /\ loopRx'.q[k] = loopRx.q[k + 1] /\ 1 < k + 1
    BY <1>3
  <2>3. \A j, k \in 1..Len(loopRx'.q) : j < k => j + 1 < k + 1
    BY <1>3
  <2> QED BY <1>3, <2>1, <2>2, <2>3 DEF QueueInOrder
<1>6. /\ Merged(p) \in [Blocks -> Parts]
      /\ \A b \in Blocks : Merged(p)[b] = p.part \/ Merged(p)[b] = store[p.inv][b]
      /\ Complete(p) /\ Stores(p) => \A b \in Blocks : Merged(p)[b].n # 0
  BY <1>2, <1>3, <1>5, MergedParts
<1> HIDE DEF p
<1>7. /\ store \in [Inverters -> [Blocks -> Parts]] /\ rows \in Seq(Row) /\ count \in Nat
      /\ Len(rows) \in Nat
  BY <1>2 DEF LoopTypes
<1>8. \A i \in Inverters, b \in Blocks : store[i][b].n \in Nat
  BY <1>7 DEF Parts
<1>9. \A m \in 1..Len(rows) : rows[m].inv \in Inverters /\ \A b \in Blocks : rows[m].parts[b].n \in Nat
  <2>1. \A m \in 1..Len(rows) : rows[m] \in Row
    BY <1>7
  <2> QED BY <2>1 DEF Row, Parts
<1>10. CASE UNCHANGED <<store, rows, dbRx>>
  <2>1. LoopTypes' /\ TaskTypes' /\ TablesInOrder'
    BY <1>1, <1>3, <1>10 DEF RowsInvariant, LoopTypes, TaskTypes, TablesInOrder, TableInOrder
  <2>2. QueueInOrder(loopRx.q)' /\ PartsBefore(count + 1)'
    BY <1>1, <1>5, <1>10 DEF RowsInvariant, QueueInOrder, PartsBefore
  <2>3. RowsBeforeStore' /\ NoBlockTwice'
    BY <1>10 DEF RowsInvariant, RowsBeforeStore, NoBlockTwice
  <2> QED BY <2>1, <2>2, <2>3 DEF RowsInvariant
<1>11. ASSUME NEW n \in Nat, PartsBefore(n), p.part.n < n, NEW b \in Blocks
       PROVE  Merged(p)[b].n < n
  BY <1>4, <1>6, <1>11 DEF PartsBefore
<1>12. PartsBefore(count + 1) /\ p.part.n < count + 1
  BY <1>5, <1>7 DEF RowsInvariant
<1>13. CASE store' = [store EXCEPT ![p.inv] = Merged(p)] /\ UNCHANGED <<rows, dbRx>>
  <2>1. LoopTypes' /\ TaskTypes' /\ TablesInOrder'
    BY <1>1, <1>2, <1>3, <1>4, <1>6, <1>7, <1>13
    DEF RowsInvariant, LoopTypes, TaskTypes, TablesInOrder, TableInOrder
  <2>2. ASSUME NEW n \in Nat, PartsBefore(n), p.part.n < n
        PROVE  PartsBefore(n)'
    <3>1. ASSUME NEW i \in Inverters, NEW b \in Blocks
          PROVE  store'[i][b].n < n
      BY <1>4, <1>7, <1>11, <1>13, <2>2 DEF PartsBefore
    <3> QED BY <1>13, <2>2, <3>1 DEF PartsBefore
  <2>3. PartsBefore(count + 1)'
    <3>1. PICK n \in Nat : n = count + 1
      BY <1>7
    <3>2. PartsBefore(n)'
      BY <1>12, <2>2, <3>1
    <3> QED BY <1>1, <3>1, <3>2 DEF PartsBefore
  <2>4. QueueInOrder(loopRx.q)'
    <3>1. ASSUME NEW k \in 1..Len(loopRx'.q)
          PROVE  loopRx'.q[k].part.n \in 1..count' /\ PartsBefore(loopRx.q[k].part.n)'
      <4>1. PICK n \in 1..count : n = loopRx'.q[k].part.n /\ PartsBefore(n) /\ p.part.n < n
        BY <1>5
      <4>2. PartsBefore(n)' /\ n \in Nat
        BY <1>7, <2>2, <4>1
      <4> QED BY <1>1, <4>1, <4>2 DEF PartsBefore
    <3> QED BY <1>5, <3>1 DEF QueueInOrder
  <2>5. RowsBeforeStore'
    <3>1. ASSUME NEW m \in 1..Len(rows), NEW b \in Blocks, NEW c \in Blocks,
                 store'[rows[m].inv][c].n # 0
          PROVE  rows[m].parts[b].n < store'[rows[m].inv][c].n
      <4>1. store'[rows[m].inv][c] = store[rows[m].inv][c] \/ store'[rows[m].inv][c] = p.part
        BY <1>4, <1>6, <1>7, <1>9, <1>13
      <4>2. rows[m].parts[b].n < p.part.n
        BY <1>5 DEF PartsBefore
      <4>3. store[rows[m].inv][c].n # 0 => rows[m].parts[b].n < store[rows[m].inv][c].n
        BY DEF RowsInvariant, RowsBeforeStore
      <4> QED BY <3>1, <4>1, <4>2, <4>3
    <3> QED BY <1>13, <3>1 DEF RowsBeforeStore
  <2>6. NoBlockTwice'
    BY <1>13 DEF RowsInvariant, NoBlockTwice
  <2> QED BY <2>1, <2>3, <2>4, <2>5, <2>6 DEF RowsInvariant
<1>14. CASE Stores(p) /\ Complete(p) /\ SendRow(p)
  <2> DEFINE row == [inv |-> p.inv, parts |-> Merged(p)]
             N == Len(rows)
  <2>1. /\ store' = [store EXCEPT ![p.inv] = NoBlocks] /\ rows' = Append(rows, row)
        /\ dbRx' = [d \in Databases |-> IF d \in Listening THEN Push(dbRx[d], N + 1)
                                        ELSE dbRx[d]]
    BY <1>14 DEF SendRow, Cleared
  <2>2. row \in Row /\ row.inv = p.inv /\ row.parts = Merged(p)
    BY <1>4, <1>6 DEF Row
  <2>3. NoBlocks \in [Blocks -> Parts] /\ \A b \in Blocks : NoBlocks[b].n = 0
    BY DEF NoBlocks, NoPart, Parts, Fits
  <2> HIDE DEF row
  <2>4. /\ rows' \in Seq(Row) /\ Len(rows') = N + 1 /\ rows'[N + 1] = row
        /\ \A m \in 1..N : rows'[m] = rows[m]
    BY <1>7, <2>1, <2>2
  <2>5. \A m \in 1..Len(rows') : m \in 1..N \/ m = N + 1
    BY <1>7, <2>4
  <2>6. LoopTypes'
    <3>1. store' \in [Inverters -> [Blocks -> Parts]]
      BY <1>4, <1>7, <2>1, <2>3
    <3> QED BY <1>1, <1>2, <1>3, <2>4, <3>1 DEF LoopTypes
  <2>7. /\ N \in Nat /\ 1..N \subseteq 1..(N + 1) /\ 0..N \subseteq 0..(N + 1)
        /\ N + 1 \in 1..(N + 1)
    BY <1>7
  <2>8. /\ dbRx' \in [Databases -> Receivers(1..(N + 1))]
        /\ hand' \in [Databases -> 0..(N + 1)] /\ stored' \in [Databases -> Seq(1..(N + 1))]
    <3>1. ASSUME NEW d \in Databases
          PROVE  /\ dbRx[d] \in Receivers(1..(N + 1)) /\ hand[d] \in 0..(N + 1)
                 /\ stored[d] \in Seq(1..(N + 1))
                 /\ Push(dbRx[d], N + 1) \in Receivers(1..(N + 1))
      <4>1. dbRx[d] \in Receivers(1..N) /\ hand[d] \in 0..N /\ stored[d] \in Seq(1..N)
        BY <1>2 DEF TaskTypes
      <4>2. dbRx[d] \in Receivers(1..(N + 1)) /\ stored[d] \in Seq(1..(N + 1))
        BY <2>7, <4>1, ReceiversMonotone
      <4>3. Push(dbRx[d], N + 1) \in Receivers(1..(N + 1))
        BY <2>7, <4>2, PushType
      <4> QED BY <2>7, <4>1, <4>2, <4>3
    <3>2. /\ hand \in [Databases -> 0..N] /\ stored \in [Databases -> Seq(1..N)]
          /\ hand' = hand /\ stored' = stored
      BY <1>1, <1>2 DEF TaskTypes
    <3>3. dbRx' \in [Databases -> Receivers(1..(N + 1))]
      BY <2>1, <3>1
    <3> QED BY <3>1, <3>2, <3>3
  <2>9. TaskTypes'
    BY <1>1, <1>2, <2>4, <2>8 DEF TaskTypes
  <2>10. TablesInOrder'
    <3>1. ASSUME NEW d \in Databases
          PROVE  InSequence(hand[d], tries[d], stored[d], dbRx'[d].q, Attempts)
      <4>1. /\ dbRx[d] \in Receivers(1..N) /\ hand[d] \in 0..N /\ stored[d] \in Seq(1..N)
            /\ tries[d] \in Nat /\ Attempts \in Nat
        BY <1>2, RowsAssumption DEF TaskTypes
      <4>2. InSequence(hand[d], tries[d], stored[d], dbRx[d].q, Attempts)
        BY DEF RowsInvariant, TablesInOrder, TableInOrder
      <4>3. InSequence(hand[d], tries[d], stored[d], Push(dbRx[d], N + 1).q, Attempts)
        BY <2>7, <4>1, <4>2, SendInSequence
      <4> QED BY <2>1, <4>2, <4>3
    <3> QED BY <1>1, <3>1 DEF TablesInOrder, TableInOrder
  <2>11. ASSUME NEW n \in Nat, PartsBefore(n), p.part.n < n
         PROVE  PartsBefore(n)'
    <3>1. ASSUME NEW i \in Inverters, NEW b \in Blocks
          PROVE  store'[i][b].n < n
      <4>1. 0 < n
        BY <1>4, <2>11 DEF Parts
      <4> QED BY <1>4, <1>7, <2>1, <2>3, <2>11, <4>1 DEF PartsBefore
    <3>2. ASSUME NEW m \in 1..Len(rows'), NEW b \in Blocks
          PROVE  rows'[m].parts[b].n < n
      <4>1. CASE m \in 1..N
        BY <2>4, <2>11, <4>1 DEF PartsBefore
      <4>2. CASE m = N + 1
        BY <1>11, <2>2, <2>4, <2>11, <4>2
      <4> QED BY <2>5, <4>1, <4>2
    <3> QED BY <3>1, <3>2 DEF PartsBefore
  <2>12. PartsBefore(count + 1)'
    <3>1. PICK n \in Nat : n = count + 1
      BY <1>7
    <3>2. PartsBefore(n)'
      BY <1>12, <2>11, <3>1
    <3> QED BY <1>1, <3>1, <3>2 DEF PartsBefore
  <2>13. QueueInOrder(loopRx.q)'
    <3>1. ASSUME NEW k \in 1..Len(loopRx'.q)
          PROVE  loopRx'.q[k].part.n \in 1..count' /\ PartsBefore(loopRx.q[k].part.n)'
      <4>1. PICK n \in 1..count : n = loopRx'.q[k].part.n /\ PartsBefore(n) /\ p.part.n < n
        BY <1>5
      <4>2. PartsBefore(n)' /\ n \in Nat
        BY <1>7, <2>11, <4>1
      <4> QED BY <1>1, <4>1, <4>2 DEF PartsBefore
    <3> QED BY <1>5, <3>1 DEF QueueInOrder
  <2>14. RowsBeforeStore'
    <3>1. ASSUME NEW m \in 1..Len(rows'), NEW b \in Blocks, NEW c \in Blocks,
                 store'[rows'[m].inv][c].n # 0
          PROVE  rows'[m].parts[b].n < store'[rows'[m].inv][c].n
      <4>1. rows'[m].inv \in Inverters /\ rows'[m].inv # p.inv
        BY <1>4, <1>7, <1>9, <2>1, <2>2, <2>3, <2>4, <2>5, <3>1
      <4>2. m \in 1..N /\ rows'[m] = rows[m]
        BY <2>2, <2>4, <2>5, <4>1
      <4>3. store'[rows[m].inv] = store[rows[m].inv]
        BY <1>7, <2>1, <4>1, <4>2
      <4> QED BY <3>1, <4>2, <4>3 DEF RowsInvariant, RowsBeforeStore
    <3> QED BY <3>1 DEF RowsBeforeStore
  <2>15. NoBlockTwice'
    <3>1. ASSUME NEW m \in 1..Len(rows'), NEW n \in 1..Len(rows'), m < n,
                 rows'[m].inv = rows'[n].inv, NEW b \in Blocks, NEW c \in Blocks
          PROVE  rows'[m].parts[b].n < rows'[n].parts[c].n
      <4>1. m \in 1..N /\ rows'[m] = rows[m]
        BY <1>7, <2>4, <2>5, <3>1
      <4>2. DOMAIN rows = 1..N
        BY <1>7
      <4>3. CASE n \in 1..N
        BY <2>4, <3>1, <4>1, <4>2, <4>3 DEF RowsInvariant, NoBlockTwice
      <4>4. CASE n = N + 1
        <5>1. rows[m].inv = p.inv /\ rows'[n].parts = Merged(p)
          BY <2>2, <2>4, <3>1, <4>1, <4>4
        <5>2. CASE Merged(p)[c] = p.part
          BY <1>5, <4>1, <5>1, <5>2 DEF PartsBefore
        <5>3. CASE Merged(p)[c] = store[p.inv][c]
          <6>1. store[p.inv][c].n # 0
            BY <1>6, <1>14, <5>3
          <6> QED BY <4>1, <5>1, <5>3, <6>1 DEF RowsInvariant, RowsBeforeStore
        <5> QED BY <1>6, <5>2, <5>3
      <4> QED BY <2>5, <4>3, <4>4
    <3>2. DOMAIN rows' = 1..Len(rows')
      BY <2>4
    <3> QED BY <3>1, <3>2 DEF NoBlockTwice
  <2> QED BY <2>6, <2>9, <2>10, <2>12, <2>13, <2>14, <2>15 DEF RowsInvariant
<1> QED BY <1>1, <1>10, <1>13, <1>14
------------------------------------------------------------------------------
(* The databases.                                                          *)

LEMMA DatabaseStep ==
  ASSUME RowsInvariant, NEW d \in Databases, Database(d)
  PROVE  RowsInvariant'
<1> DEFINE N == Len(rows)
<1>1. UNCHANGED <<turn, count, upsets, exited, loopRx, store, rows>>
  BY DEF Database, Subscribe, Opened, Refused, Take, Insert, InsertFails, Lagged, inverters
<1>2. /\ dbRx \in [Databases -> Receivers(1..N)] /\ db \in [Databases -> Tasks]
      /\ hand \in [Databases -> 0..N] /\ tries \in [Databases -> 0..Attempts]
      /\ stored \in [Databases -> Seq(1..N)]
      /\ \A e \in Databases : db[e] = "busy" <=> hand[e] # 0
      /\ N \in Nat /\ Attempts \in Nat \ {0}
  BY RowsAssumption DEF RowsInvariant, TaskTypes, LoopTypes
<1>3. \A e \in Databases : InSequence(hand[e], tries[e], stored[e], dbRx[e].q, Attempts)
  BY DEF RowsInvariant, TablesInOrder, TableInOrder
<1>4. failures' \in 0..MaxFailures
  <2>1. failures \in 0..MaxFailures /\ MaxFailures \in Nat
    BY RowsAssumption DEF RowsInvariant, LoopTypes
  <2>2. failures' = failures \/ (failures < MaxFailures /\ failures' = failures + 1)
    BY DEF Database, Subscribe, Opened, Refused, Take, Insert, InsertFails, Lagged
  <2> QED BY <2>1, <2>2
<1>5. TaskTypes' /\ TablesInOrder'
  \* What the step makes of d's receiver, task, row in hand, attempts and table.
  <2>1. ASSUME NEW rx \in Receivers(1..N), NEW x \in Tasks, NEW h \in 0..N,
               NEW c \in 0..Attempts, NEW t \in Seq(1..N), x = "busy" <=> h # 0,
               InSequence(h, c, t, rx.q, Attempts),
               dbRx' = [dbRx EXCEPT ![d] = rx], db' = [db EXCEPT ![d] = x],
               hand' = [hand EXCEPT ![d] = h], tries' = [tries EXCEPT ![d] = c],
               stored' = [stored EXCEPT ![d] = t]
        PROVE  TaskTypes' /\ TablesInOrder'
    <3>1. /\ dbRx' \in [Databases -> Receivers(1..N)] /\ db' \in [Databases -> Tasks]
          /\ hand' \in [Databases -> 0..N] /\ tries' \in [Databases -> 0..Attempts]
          /\ stored' \in [Databases -> Seq(1..N)]
      BY <1>2, <2>1
    <3>2. \A e \in Databases : db'[e] = "busy" <=> hand'[e] # 0
      BY <1>2, <2>1
    <3>3. \A e \in Databases : InSequence(hand'[e], tries'[e], stored'[e], dbRx'[e].q, Attempts)
      BY <1>2, <1>3, <2>1
    <3>4. Len(rows') = N
      BY <1>1
    <3> QED BY <3>1, <3>2, <3>3, <3>4 DEF TaskTypes, TablesInOrder, TableInOrder
  <2>2. /\ dbRx[d] \in Receivers(1..N) /\ db[d] \in Tasks /\ hand[d] \in 0..N
        /\ tries[d] \in 0..Attempts /\ stored[d] \in Seq(1..N)
        /\ db[d] = "busy" <=> hand[d] # 0
        /\ InSequence(hand[d], tries[d], stored[d], dbRx[d].q, Attempts)
    BY <1>2, <1>3
  <2>3. /\ dbRx = [dbRx EXCEPT ![d] = dbRx[d]] /\ hand = [hand EXCEPT ![d] = hand[d]]
        /\ tries = [tries EXCEPT ![d] = tries[d]] /\ stored = [stored EXCEPT ![d] = stored[d]]
    BY <1>2
  <2>4. CASE Subscribe(d) \/ Opened(d) \/ Refused(d) \/ Lagged(d)
    <3>1. PICK x \in Tasks \ {"busy"} : db' = [db EXCEPT ![d] = x]
      BY <2>4 DEF Subscribe, Opened, Refused, Lagged, Tasks
    <3>2. db[d] # "busy" /\ UNCHANGED <<dbRx, hand, tries, stored>>
      BY <2>4 DEF Subscribe, Opened, Refused, Lagged
    <3> QED BY <2>1, <2>2, <2>3, <3>1, <3>2
  <2>5. CASE Take(d)
    <3> DEFINE rx == Popped(dbRx[d])
               h == Head(dbRx[d].q)
    <3>1. /\ db[d] = "idle" /\ HasMessage(dbRx[d]) /\ db' = [db EXCEPT ![d] = "busy"]
          /\ hand' = [hand EXCEPT ![d] = h] /\ tries' = [tries EXCEPT ![d] = 0]
          /\ dbRx' = [dbRx EXCEPT ![d] = rx] /\ stored' = stored
      BY <2>5 DEF Take
    <3>2. rx \in Receivers(1..N)
      BY <2>2, <3>1, PoppedType
    <3>3. InSequence(0, tries[d], stored[d], dbRx[d].q, Attempts) /\ tries[d] \in Nat
      BY <2>2, <3>1
    <3>4. h \in 1..N /\ InSequence(h, 0, stored[d], rx.q, Attempts)
      BY <1>2, <2>2, <3>1, <3>3, TakeInSequence
    <3>5. "busy" \in Tasks /\ h \in 0..N /\ h # 0 /\ 0 \in 0..Attempts
      BY <1>2, <3>4 DEF Tasks
    <3> HIDE DEF rx, h
    <3> QED BY <2>1, <2>2, <2>3, <3>1, <3>2, <3>4, <3>5
  <2>6. CASE Insert(d) \/ InsertFails(d)
    <3> DEFINE h == hand[d]
               c == tries[d]
    <3>1. db[d] = "busy" /\ h \in 1..N /\ c \in Nat /\ Attempts \in Nat
      <4>1. db[d] = "busy"
        BY <2>6 DEF Insert, InsertFails
      <4> QED BY <1>2, <2>2, <4>1
    <3>2. dbRx' = dbRx
      BY <2>6 DEF Insert, InsertFails
    <3>3. PICK t \in {stored[d], Append(stored[d], h)} : stored' = [stored EXCEPT ![d] = t]
      <4>1. stored' \in {stored, [stored EXCEPT ![d] = Append(stored[d], h)]}
        BY <2>6 DEF Insert, InsertFails
      <4> QED BY <2>3, <4>1
    <3>4. /\ Ascending(dbRx[d].q) /\ Before(stored[d], dbRx[d].q)
          /\ Before(Append(stored[d], h), dbRx[d].q)
          /\ c + 1 # Attempts =>
               /\ InSequence(h, c + 1, stored[d], dbRx[d].q, Attempts)
               /\ InSequence(h, c + 1, Append(stored[d], h), dbRx[d].q, Attempts)
          /\ c + 1 <= Attempts /\ Append(stored[d], h) \in Seq(1..N)
      BY <1>2, <2>2, <3>1, TryInSequence
    <3>5. t \in Seq(1..N)
      BY <2>2, <3>3, <3>4
    <3>6. PICK y \in 0..Attempts : tries' = [tries EXCEPT ![d] = y] /\ (y = c \/ y = c + 1)
      <4>1. c \in 0..Attempts /\ c + 1 \in 0..Attempts
        BY <2>2, <3>1, <3>4
      <4>2. tries' = tries \/ tries' = [tries EXCEPT ![d] = c + 1]
        BY <2>6 DEF Insert, InsertFails
      <4> QED BY <2>3, <4>1, <4>2
    <3>7. \/ db' = [db EXCEPT ![d] = "idle"] /\ hand' = [hand EXCEPT ![d] = 0]
          \/ db' = db /\ hand' = hand /\ c + 1 # Attempts /\ tries' = [tries EXCEPT ![d] = c + 1]
      BY <2>6 DEF Insert, InsertFails
    <3> HIDE DEF h, c
    <3>8. CASE db' = [db EXCEPT ![d] = "idle"] /\ hand' = [hand EXCEPT ![d] = 0]
      <4>1. InSequence(0, y, t, dbRx[d].q, Attempts)
        BY <3>3, <3>4 DEF InSequence
      <4>2. "idle" \in Tasks /\ 0 \in 0..N
        BY <1>2 DEF Tasks
      <4> QED BY <2>1, <2>2, <2>3, <3>2, <3>3, <3>5, <3>6, <3>8, <4>1, <4>2
    <3>9. CASE db' = db /\ hand' = hand /\ c + 1 # Attempts
               /\ tries' = [tries EXCEPT ![d] = c + 1]
      <4>1. InSequence(h, c + 1, t, dbRx[d].q, Attempts)
        BY <3>3, <3>4, <3>9
      <4>2. c + 1 \in 0..Attempts
        BY <3>1, <3>4
      <4>3. db = [db EXCEPT ![d] = db[d]]
        BY <1>2
      <4> QED BY <2>1, <2>2, <2>3, <3>2, <3>3, <3>5, <3>9, <4>1, <4>2, <4>3 DEF h
    <3> QED BY <3>7, <3>8, <3>9
  <2> QED BY <2>4, <2>5, <2>6 DEF Database
<1>6. LoopTypes' /\ QueueInOrder(loopRx.q)' /\ PartsBefore(count + 1)'
  BY <1>1, <1>4 DEF RowsInvariant, LoopTypes, QueueInOrder, PartsBefore
<1>7. RowsBeforeStore' /\ NoBlockTwice'
  BY <1>1 DEF RowsInvariant, RowsBeforeStore, NoBlockTwice
<1> QED BY <1>5, <1>6, <1>7 DEF RowsInvariant
------------------------------------------------------------------------------
(* The theorems.                                                           *)

LEMMA InvariantInit == ASSUME Init PROVE RowsInvariant
<1>1. \A M : Subscribed \in Receivers(M)
  BY SubscribedType
<1>2. Subscribed.q = <<>> /\ Len(Subscribed.q) = 0
  BY DEF Subscribed
<1>3. NoBlocks \in [Blocks -> Parts] /\ \A b \in Blocks : NoBlocks[b].n = 0
  BY DEF NoBlocks, NoPart, Parts, Fits
<1>4. rows = <<>> /\ Len(rows) = 0 /\ DOMAIN rows = 1..0 /\ count = 0
  BY DEF Init
<1>5. LoopTypes
  <2>1. turn \in [Inverters -> Turns]
    BY OrderType DEF Init, Turns
  <2>2. upsets \in [Inverters -> 0..MaxUpsets] /\ count \in 0..MaxPackets /\ failures \in 0..MaxFailures
    BY RowsAssumption DEF Init
  <2>3. store \in [Inverters -> [Blocks -> Parts]] /\ rows \in Seq(Row)
    BY <1>3 DEF Init
  <2> QED BY <1>1, <2>1, <2>2, <2>3 DEF Init, LoopTypes
<1>6. TaskTypes
  <2>1. /\ hand \in [Databases -> 0..0] /\ tries \in [Databases -> 0..Attempts]
        /\ stored \in [Databases -> Seq(1..0)]
    BY RowsAssumption DEF Init
  <2>2. dbRx \in [Databases -> Receivers(1..0)] /\ db \in [Databases -> Tasks]
    BY <1>1 DEF Init, Tasks
  <2>3. \A d \in Databases : db[d] = "connecting" /\ hand[d] = 0
    BY DEF Init
  <2> QED BY <1>4, <2>1, <2>2, <2>3 DEF TaskTypes
<1>7. TablesInOrder
  <2>1. \A d \in Databases : hand[d] = 0 /\ Len(stored[d]) = 0 /\ Len(dbRx[d].q) = 0
    BY <1>2 DEF Init
  <2> QED BY <2>1 DEF TablesInOrder, TableInOrder, InSequence, Ascending, Before
<1>8. \A i \in Inverters, b \in Blocks : store[i][b].n = 0
  BY <1>3 DEF Init
<1>9. PartsBefore(count + 1)
  BY <1>4, <1>8 DEF PartsBefore
<1>10. QueueInOrder(loopRx.q)
  BY <1>2 DEF Init, QueueInOrder
<1>11. RowsBeforeStore /\ NoBlockTwice
  BY <1>4 DEF RowsBeforeStore, NoBlockTwice
<1> QED BY <1>5, <1>6, <1>7, <1>9, <1>10, <1>11 DEF RowsInvariant

LEMMA InvariantNext == ASSUME RowsInvariant, [Next]_vars PROVE RowsInvariant'
<1>1. CASE \E i \in Inverters : Inverter(i)
  BY <1>1, InverterStep
<1>2. CASE ProcessPacket
  BY <1>2, ProcessStep
<1>3. CASE LoopExit \/ UNCHANGED vars
  <2>1. /\ exited' \in {exited, TRUE}
        /\ UNCHANGED <<turn, count, upsets, loopRx, store, rows, failures>>
        /\ UNCHANGED <<dbRx, db, hand, tries, stored>>
    BY <1>3 DEF LoopExit, vars, inverters, databases
  <2>2. LoopTypes' /\ TaskTypes' /\ TablesInOrder'
    BY <2>1 DEF RowsInvariant, LoopTypes, TaskTypes, TablesInOrder, TableInOrder
  <2>3. QueueInOrder(loopRx.q)' /\ PartsBefore(count + 1)' /\ RowsBeforeStore' /\ NoBlockTwice'
    BY <2>1 DEF RowsInvariant, QueueInOrder, PartsBefore, RowsBeforeStore, NoBlockTwice
  <2> QED BY <2>2, <2>3 DEF RowsInvariant
<1>4. CASE \E d \in Databases : Database(d)
  BY <1>4, DatabaseStep
<1> QED BY <1>1, <1>2, <1>3, <1>4 DEF Next

\* The inductive invariant: what waits is newer than what is stored, what is stored
\* newer than the rows of its inverter, and each table is in the order of the rows.
THEOREM InvariantHolds == Spec => []RowsInvariant
<1> QED BY InvariantInit, InvariantNext, PTL DEF Spec

\* Every variable has its type, and a task is busy exactly while it has a row in hand.
THEOREM TypeCorrect == Spec => []TypeOK
<1>1. RowsInvariant => TypeOK
  <2>1. SUFFICES ASSUME LoopTypes, TaskTypes
                 PROVE  TypeOK
    BY DEF RowsInvariant
  <2>2. /\ turn \in [Inverters -> [poll : Nat, next : DOMAIN BlockOrder]]
        /\ count \in 0..MaxPackets /\ upsets \in [Inverters -> 0..MaxUpsets]
        /\ exited \in BOOLEAN /\ loopRx \in Receivers(Packets)
        /\ store \in [Inverters -> [Blocks -> Parts]]
        /\ rows \in Seq([inv : Inverters, parts : [Blocks -> Parts]])
        /\ failures \in 0..MaxFailures /\ Len(rows) \in Nat
    BY <2>1 DEF LoopTypes, Turns, Row
  <2>3. 1..Len(rows) \subseteq Nat /\ 0..Len(rows) \subseteq Nat
    BY <2>2
  <2>4. ASSUME NEW d \in Databases
        PROVE  dbRx[d] \in Receivers(Nat) /\ hand[d] \in Nat /\ stored[d] \in Seq(Nat)
    BY <2>1, <2>3, ReceiversMonotone DEF TaskTypes
  <2>5. dbRx \in [Databases -> Receivers(Nat)]
    <3>1. dbRx \in [Databases -> Receivers(1..Len(rows))]
      BY <2>1 DEF TaskTypes
    <3> QED BY <2>4, <3>1
  <2>6. hand \in [Databases -> Nat] /\ stored \in [Databases -> Seq(Nat)]
    <3>1. hand \in [Databases -> 0..Len(rows)] /\ stored \in [Databases -> Seq(1..Len(rows))]
      BY <2>1 DEF TaskTypes
    <3> QED BY <2>4, <3>1
  <2>7. /\ db \in [Databases -> {"connecting", "opening", "idle", "busy", "ended"}]
        /\ tries \in [Databases -> 0..Attempts]
        /\ \A d \in Databases : db[d] = "busy" <=> hand[d] # 0
    BY <2>1 DEF TaskTypes, Tasks
  <2> QED BY <2>2, <2>5, <2>6, <2>7 DEF TypeOK
<1> QED BY <1>1, InvariantHolds, PTL

\* No block is part of two rows, however the inverters' blocks are mixed and lost.
THEOREM BlocksAreUsedOnce == Spec => []NoBlockTwice
<1>1. RowsInvariant => NoBlockTwice
  BY DEF RowsInvariant
<1> QED BY <1>1, InvariantHolds, PTL

\* A database has rows in the order they were made, none more often than there are
\* attempts: its task implements Delivery.
THEOREM RowsAreDelivered == Spec => DatabasesDeliver
<1>1. Init => \A d \in Databases : Table(d)!Init
  BY DEF Init, Table!Init
<1>2. RowsInvariant /\ [Next]_vars =>
        [\A d \in Databases : Table(d)!Next \/ UNCHANGED <<Len(rows), stored[d]>>]_vars
  <2>1. SUFFICES ASSUME RowsInvariant, Next, NEW d \in Databases
                 PROVE  Table(d)!Next \/ UNCHANGED <<Len(rows), stored[d]>>
    OBVIOUS
  <2>2. /\ rows \in Seq(Row) /\ Len(rows) \in Nat /\ Attempts \in Nat \ {0}
        /\ stored \in [Databases -> Seq(1..Len(rows))] /\ stored[d] \in Seq(1..Len(rows))
        /\ hand[d] \in 0..Len(rows) /\ tries[d] \in Nat
        /\ db[d] = "busy" <=> hand[d] # 0
        /\ InSequence(hand[d], tries[d], stored[d], dbRx[d].q, Attempts)
    BY <2>1, RowsAssumption
    DEF RowsInvariant, LoopTypes, TaskTypes, TablesInOrder, TableInOrder
  <2>3. CASE ProcessPacket
    <3>1. stored' = stored /\ (rows' = rows \/ \E x : rows' = Append(rows, x))
      BY <2>3 DEF ProcessPacket, SendRow
    <3>2. Len(rows') = Len(rows) \/ Len(rows') = Len(rows) + 1
      BY <2>2, <3>1
    <3>3. CASE Len(rows') = Len(rows)
      BY <3>1, <3>3
    <3>4. CASE Len(rows') = Len(rows) + 1
      BY <2>2, <3>1, <3>4 DEF Table!Next, Table!Send
    <3> QED BY <3>2, <3>3, <3>4
  <2>4. CASE Insert(d) \/ InsertFails(d)
    <3>1. db[d] = "busy" /\ rows' = rows
      BY <2>4 DEF Insert, InsertFails
    <3>2. stored'[d] = stored[d] \/ stored'[d] = Append(stored[d], hand[d])
      BY <2>2, <2>4 DEF Insert, InsertFails
    <3>3. hand[d] \in 1..Len(rows)
      BY <2>2, <3>1
    <3>4. /\ stored[d] # <<>> => hand[d] >= stored[d][Len(stored[d])]
          /\ Len(stored[d]) < Attempts \/ stored[d][Len(stored[d]) + 1 - Attempts] # hand[d]
      BY <2>2, <3>3, DeliverInSequence
    <3>5. hand[d] >= Table(d)!Latest
      BY <3>3, <3>4 DEF Table!Latest
    <3>6. CASE stored'[d] = Append(stored[d], hand[d])
      BY <3>1, <3>3, <3>4, <3>5, <3>6 DEF Table!Next, Table!Deliver, Table!Fresh
    <3> QED BY <3>1, <3>2, <3>6
  <2>5. ASSUME NEW e \in Databases, e # d, Insert(e) \/ InsertFails(e)
        PROVE  UNCHANGED <<Len(rows), stored[d]>>
    BY <2>2, <2>5 DEF Insert, InsertFails
  <2>6. ASSUME NEW e \in Databases,
               Subscribe(e) \/ Opened(e) \/ Refused(e) \/ Take(e) \/ Lagged(e)
        PROVE  UNCHANGED <<Len(rows), stored[d]>>
    BY <2>6 DEF Subscribe, Opened, Refused, Take, Lagged
  <2>7. CASE LoopExit \/ \E i \in Inverters : Inverter(i)
    BY <2>7 DEF LoopExit, Inverter, Block, LostBlock, Asked, OtherPacket, Arrive, databases
  <2> QED BY <2>1, <2>3, <2>4, <2>5, <2>6, <2>7 DEF Next, Database
<1> QED BY <1>1, <1>2, InvariantHolds, PTL DEF Spec, DatabasesDeliver
------------------------------------------------------------------------------
(***************************************************************************)
(* How many polls a row spans.                                             *)
(*                                                                         *)
(* What is kept of an inverter's polls, besides the variables: `calm` has  *)
(* the polls that nothing disturbed, `clean` those with no disturbance up  *)
(* to their end, and oldest[f] is the oldest poll whose blocks may be in   *)
(* the store while those of poll f are taken.  Of a poll that is not calm, *)
(* one disturbance is counted; after a calm one, no block of an older poll *)
(* is left, and after a clean one none at all.                             *)
(*                                                                         *)
(* t is the inverter's turn, u the number of its disturbances, W the set   *)
(* of its blocks that wait for the loop and s what it has in the store.    *)
(***************************************************************************)
Size == Len(BlockOrder)

\* The places of poll f that are past, those whose block waits, those it does not.
Came(t, f)     == {x \in 1..Size : f < t.poll \/ (f = t.poll /\ x < t.next)}
Waits(W, f, x) == \E r \in W : r.part.poll = f /\ r.block = BlockOrder[x]
Gone(t, W, f)  == {x \in Came(t, f) : ~Waits(W, f, x)}

\* No block of a poll before f waits.
Reached(W, f) == \A r \in W : f <= r.part.poll

Intact(q, f) == q.n # 0 /\ q.fit = "good" /\ q.poll = f
Present(s)   == {b \in Blocks : s[b].n # 0}

\* The polls: a poll is no further from its oldest one than there were disturbances.
Spread(t, u, calm, oldest) ==
  /\ t.poll \in 1..t.poll
  /\ \A k \in 1..t.poll : oldest[k] <= k /\ k <= oldest[k] + u
  /\ t.poll \notin calm => t.poll + 1 <= oldest[t.poll] + u

Chained(t, calm, clean, oldest) ==
  /\ \A k, m \in 1..t.poll :
       k <= m /\ (\A f \in k..(m - 1) : f \notin calm) => oldest[m] <= oldest[k]
  /\ \A k \in 1..(t.poll - 1) : k \in calm /\ k \notin clean => oldest[k + 1] <= k

Cleanest(t, u, calm, clean) ==
  /\ clean \subseteq calm /\ calm \subseteq 1..t.poll
  /\ \A k \in clean : \A m \in 1..k : m \in clean
  /\ t.poll \in clean <=> u = 0

Polls(t, u, calm, clean, oldest) ==
  /\ Spread(t, u, calm, oldest)
  /\ Chained(t, calm, clean, oldest)
  /\ Cleanest(t, u, calm, clean)

\* What waits: the polls in order, the blocks of a calm one in theirs, none missing.
Queued(t, W, calm) ==
  /\ \A r \in W : r.part.poll \in 1..t.poll
  /\ \A p, r \in W : p.part.n < r.part.n => p.part.poll <= r.part.poll
  /\ \A r \in W : r.part.poll \in calm =>
       /\ r.kind = "block" /\ r.part.fit = "good"
       /\ \E x \in Came(t, r.part.poll) : r.block = BlockOrder[x]
  /\ \A p, r \in W : p.part.poll = r.part.poll /\ p.part.poll \in calm /\ p.part.n < r.part.n =>
       \A x, y \in 1..Size : p.block = BlockOrder[x] /\ r.block = BlockOrder[y] => x < y
  /\ \A f \in calm : \A x, y \in Came(t, f) : x < y /\ Waits(W, f, x) => Waits(W, f, y)

\* What is stored, of the poll that is being taken: its blocks so far, or, when a row
\* was made within it, nothing of another poll.
Taken(s, t, W, f, clean) ==
  /\ \/ \A x \in Gone(t, W, f) : Intact(s[BlockOrder[x]], f)
     \/ f \notin clean /\ \A b \in Present(s) : s[b].poll = f
  /\ f \in clean => \A x \in 1..Size : BlockOrder[x] \in Present(s) => x \in Gone(t, W, f)

Gathered(s, t, W, calm, clean, oldest) ==
  /\ \A b \in Present(s) : s[b].poll <= t.poll /\ \A r \in W : s[b].poll <= r.part.poll
  /\ \A f \in calm : ~Reached(W, f) => Gone(t, W, f) = {}
  /\ \A b \in Present(s), k \in 1..t.poll : Reached(W, k) => oldest[k] <= s[b].poll
  /\ \A f \in calm : Reached(W, f) /\ Gone(t, W, f) # 1..Size => Taken(s, t, W, f, clean)

LEMMA Places ==
  /\ Size \in Nat \ {0}
  /\ \A x \in 1..Size : BlockOrder[x] \in Blocks
  /\ \A b \in Blocks : \E x \in 1..Size : b = BlockOrder[x]
  /\ \A x, y \in 1..Size : BlockOrder[x] = BlockOrder[y] => x = y
<1>1. DOMAIN BlockOrder = 1..Size /\ Size \in Nat \ {0}
  BY OrderType DEF Size
<1>2. \A x, y \in 1..Size : BlockOrder[x] = BlockOrder[y] => x = y
  BY <1>1, RowsAssumption DEF IsInjective
<1>3. \A b \in Blocks : \E x \in 1..Size : b = BlockOrder[x]
  BY <1>1 DEF Blocks, ToSet
<1> QED BY <1>1, <1>2, <1>3, OrderType

\* What is carried over from one step to the next, of the polls that there are.
Carried(t, u, calm, clean, oldest, u2, calm2, clean2, oldest2) ==
  \A k \in 1..t.poll : /\ oldest2[k] = oldest[k]
                       /\ k \in calm2 <=> k \in calm /\ (k = t.poll => u2 = u)
                       /\ k \in clean2 <=> k \in clean /\ (k = t.poll => u2 = u)

\* A block that comes or not, in its turn or not: what there is to say of the polls
\* before stays, and the next poll begins calm.
LEMMA PollsStep ==
  ASSUME NEW t \in Turns, NEW u \in Nat, NEW calm, NEW clean, NEW oldest \in [Nat -> Nat],
         Polls(t, u, calm, clean, oldest),
         NEW t2 \in Turns, t2.poll = t.poll \/ t2.poll = t.poll + 1,
         NEW u2 \in Nat, u2 = u \/ u2 = u + 1
  PROVE  \E calm2 \in SUBSET Nat, clean2 \in SUBSET Nat, oldest2 \in [Nat -> Nat] :
           /\ Polls(t2, u2, calm2, clean2, oldest2)
           /\ Carried(t, u, calm, clean, oldest, u2, calm2, clean2, oldest2)
<1> USE DEF Carried
<1> DEFINE P == t.poll
           c1 == IF u2 = u THEN calm ELSE calm \ {P}
           z1 == IF u2 = u THEN clean ELSE clean \ {P}
           low == IF P \in z1 THEN P + 1 ELSE IF P \in c1 THEN P ELSE oldest[P]
<1>1. /\ P \in Nat /\ P \in 1..P /\ P >= 1 /\ u \in Nat /\ u2 \in Nat
      /\ clean \subseteq calm /\ calm \subseteq 1..P
      /\ \A k \in 1..P : oldest[k] \in Nat /\ oldest[k] <= k /\ k <= oldest[k] + u
      /\ P \notin calm => P + 1 <= oldest[P] + u
      /\ \A k \in clean : \A m \in 1..k : m \in clean
      /\ P \in clean <=> u = 0
      /\ \A k, m \in 1..P :
           k <= m /\ (\A f \in k..(m - 1) : f \notin calm) => oldest[m] <= oldest[k]
      /\ \A k \in 1..(P - 1) : k \in calm /\ k \notin clean => oldest[k + 1] <= k
  BY DEF Polls, Spread, Chained, Cleanest, Turns
<1> HIDE DEF P
<1>2. /\ c1 \in SUBSET (1..P) /\ z1 \in SUBSET (1..P) /\ z1 \subseteq c1
      /\ \A k \in 1..P : /\ k \in c1 <=> k \in calm /\ (k = P => u2 = u)
                         /\ k \in z1 <=> k \in clean /\ (k = P => u2 = u)
  BY <1>1
<1>3. /\ u <= u2 /\ (P \in z1 <=> u2 = 0)
      /\ P \notin c1 => P + 1 <= oldest[P] + u2
      /\ \A k \in z1 : \A m \in 1..k : m \in z1
      /\ \A k \in 1..(P - 1) : k \in c1 /\ k \notin z1 => oldest[k + 1] <= k
  <2>1. u <= u2 /\ (P \in z1 <=> u2 = 0)
    BY <1>1
  <2>2. P \notin c1 => P + 1 <= oldest[P] + u2
    BY <1>1
  <2>3. ASSUME NEW k \in z1, NEW m \in 1..k
        PROVE  m \in z1
    <3>1. k \in clean /\ k \in 1..P
      BY <1>1, <1>2
    <3>2. m \in clean /\ m \in 1..P /\ m <= k /\ (m = P => k = P)
      BY <1>1, <3>1
    <3> QED BY <1>2, <3>1, <3>2
  <2>4. \A k \in 1..(P - 1) : k \in c1 /\ k \notin z1 => oldest[k + 1] <= k
    BY <1>1, <1>2
  <2> QED BY <2>1, <2>2, <2>3, <2>4
<1>4. \A k, m \in 1..P :
        k <= m /\ (\A f \in k..(m - 1) : f \notin c1) => oldest[m] <= oldest[k]
  <2>1. SUFFICES ASSUME NEW k \in 1..P, NEW m \in 1..P, k <= m,
                        \A f \in k..(m - 1) : f \notin c1
                 PROVE  oldest[m] <= oldest[k]
    OBVIOUS
  <2>2. \A f \in k..(m - 1) : f \in 1..P /\ f # P
    BY <1>1, <2>1
  <2>3. \A f \in k..(m - 1) : f \notin calm
    BY <1>2, <2>1, <2>2
  <2> QED BY <1>1, <2>1, <2>3
<1>5. CASE t2.poll = P
  <2>1. Spread(t2, u2, c1, oldest)
    BY <1>1, <1>3, <1>5 DEF Spread
  <2>2. Chained(t2, c1, z1, oldest)
    BY <1>3, <1>4, <1>5 DEF Chained
  <2>3. Cleanest(t2, u2, c1, z1)
    BY <1>2, <1>3, <1>5 DEF Cleanest
  <2>4. c1 \in SUBSET Nat /\ z1 \in SUBSET Nat
    BY <1>1, <1>2
  <2> HIDE DEF c1, z1
  <2> QED BY <1>2, <2>1, <2>2, <2>3, <2>4 DEF Polls, P
<1>6. CASE t2.poll = P + 1
  <2> DEFINE calm2 == c1 \cup {P + 1}
             clean2 == IF u2 = 0 THEN z1 \cup {P + 1} ELSE z1
             oldest2 == [oldest EXCEPT ![P + 1] = low]
  <2>1. low \in Nat /\ low <= P + 1 /\ P + 1 <= low + u2
    <3>1. CASE P \in z1
      BY <1>1, <3>1
    <3>2. CASE P \notin z1 /\ P \in c1
      <4>1. u2 # 0 /\ low = P
        BY <1>3, <3>2
      <4> QED BY <1>1, <4>1
    <3>3. CASE P \notin c1
      <4>1. low = oldest[P] /\ oldest[P] \in Nat /\ oldest[P] <= P
        BY <1>1, <1>2, <3>3
      <4> QED BY <1>1, <1>3, <3>3, <4>1
    <3> QED BY <1>2, <3>1, <3>2, <3>3
  <2>2. /\ P + 1 \in Nat /\ P + 1 \notin 1..P /\ 1..(P + 1) = 1..P \cup {P + 1}
        /\ oldest2 \in [Nat -> Nat] /\ oldest2[P + 1] = low
        /\ \A k \in 1..P : k \in Nat /\ k # P + 1 /\ oldest2[k] = oldest[k]
    <3>1. P + 1 \in Nat /\ P + 1 \notin 1..P /\ 1..(P + 1) = 1..P \cup {P + 1}
      BY <1>1
    <3>2. \A k \in 1..P : k \in Nat /\ k # P + 1
      BY <1>1
    <3> HIDE DEF low
    <3> QED BY <2>1, <3>1, <3>2
  <2>3. low = IF P \in z1 THEN P + 1 ELSE IF P \in c1 THEN P ELSE oldest[P]
    OBVIOUS
  <2> HIDE DEF low, c1, z1
  <2>4. /\ calm2 \in SUBSET Nat /\ clean2 \in SUBSET Nat /\ P + 1 \in calm2
        /\ P + 1 \in clean2 <=> u2 = 0
        /\ \A k \in 1..P : (k \in calm2 <=> k \in c1) /\ (k \in clean2 <=> k \in z1)
        /\ clean2 \subseteq calm2 /\ calm2 \subseteq 1..(P + 1)
    BY <1>1, <1>2, <2>2
  <2>5. \A k \in clean2 : \A m \in 1..k : m \in clean2
    <3>1. CASE u2 = 0
      <4>1. \A m \in 1..P : m \in z1
        BY <1>3, <3>1
      <4>2. \A m \in 1..(P + 1) : m \in clean2
        BY <2>2, <2>4, <3>1, <4>1
      <4>3. \A k \in clean2 : \A m \in 1..k : m \in 1..(P + 1)
        <5>1. \A k \in clean2 : k \in 1..(P + 1)
          BY <2>4
        <5> QED BY <1>1, <5>1
      <4> QED BY <4>2, <4>3
    <3>2. CASE u2 # 0
      BY <1>3, <3>2
    <3> QED BY <3>1, <3>2
  <2> HIDE DEF calm2, clean2, oldest2
  <2>6. Spread(t2, u2, calm2, oldest2)
    <3>1. \A k \in 1..P : oldest2[k] <= k /\ k <= oldest2[k] + u2
      BY <1>1, <1>3, <2>2
    <3> QED BY <1>1, <1>6, <2>1, <2>2, <2>4, <3>1 DEF Spread
  <2>7. Cleanest(t2, u2, calm2, clean2)
    BY <1>6, <2>4, <2>5 DEF Cleanest
  <2>8. ASSUME NEW k \in 1..(P + 1), NEW m \in 1..(P + 1), k <= m,
               \A f \in k..(m - 1) : f \notin calm2
        PROVE  oldest2[m] <= oldest2[k]
    <3>1. CASE k = m
      <4>1. oldest2[k] \in Nat
        BY <2>2
      <4> QED BY <3>1, <4>1
    <3>2. CASE k # m /\ m \in 1..P
      <4>1. k \in 1..P
        BY <1>1, <2>8, <3>2
      <4>2. \A f \in k..(m - 1) : f \in 1..P
        BY <1>1, <3>2, <4>1
      <4> QED BY <1>4, <2>2, <2>4, <2>8, <3>2, <4>1, <4>2
    <3>3. CASE k # m /\ m = P + 1
      <4>1. k \in 1..P /\ k <= P
        BY <1>1, <2>8, <3>3
      <4>2. \A f \in k..P : f \notin calm2 /\ f \in 1..P
        BY <1>1, <2>8, <3>3, <4>1
      <4>3. \A f \in k..P : f \notin c1
        BY <2>4, <4>2
      <4>4. P \notin c1 /\ \A f \in k..(P - 1) : f \notin c1
        BY <1>1, <4>1, <4>3
      <4>5. low = oldest[P] /\ oldest[P] <= oldest[k]
        BY <1>1, <1>2, <1>4, <2>3, <4>1, <4>4
      <4> QED BY <2>2, <3>3, <4>1, <4>5
    <3> QED BY <1>1, <3>1, <3>2, <3>3, <2>2
  <2>9. ASSUME NEW k \in 1..P, k \in calm2, k \notin clean2
        PROVE  oldest2[k + 1] <= k
    <3>1. k \in c1 /\ k \notin z1
      BY <2>4, <2>9
    <3>2. CASE k = P
      BY <1>1, <2>2, <2>3, <3>1, <3>2
    <3>3. CASE k # P
      <4>1. k \in 1..(P - 1) /\ k + 1 \in 1..P
        BY <1>1, <3>3
      <4> QED BY <1>3, <2>2, <3>1, <4>1
    <3> QED BY <3>2, <3>3
  <2>10. Chained(t2, calm2, clean2, oldest2)
    <3>1. t2.poll = P + 1 /\ t2.poll - 1 = P
      BY <1>1, <1>6
    <3>2. \A k, m \in 1..t2.poll :
            k <= m /\ (\A f \in k..(m - 1) : f \notin calm2) => oldest2[m] <= oldest2[k]
      BY <2>8, <3>1
    <3>3. \A k \in 1..(t2.poll - 1) : k \in calm2 /\ k \notin clean2 => oldest2[k + 1] <= k
      BY <2>9, <3>1
    <3> QED BY <3>2, <3>3 DEF Chained
  <2>11. Polls(t2, u2, calm2, clean2, oldest2)
    BY <2>6, <2>7, <2>10 DEF Polls
  <2>12. \A k \in 1..P : /\ oldest2[k] = oldest[k]
                         /\ k \in calm2 <=> k \in calm /\ (k = P => u2 = u)
                         /\ k \in clean2 <=> k \in clean /\ (k = P => u2 = u)
    BY <1>2, <2>2, <2>4
  <2> QED BY <2>2, <2>4, <2>11, <2>12 DEF P
<1> QED BY <1>5, <1>6 DEF P

\* The turn after a block, and the places that are past then.
LEMMA NextTurnStep ==
  ASSUME NEW t \in Turns
  PROVE  /\ NextTurn(t) \in Turns
         /\ NextTurn(t).poll = t.poll \/ NextTurn(t).poll = t.poll + 1
         /\ Came(NextTurn(t), t.poll) = Came(t, t.poll) \cup {t.next}
         /\ NextTurn(t).poll = t.poll + 1 => Came(NextTurn(t), t.poll + 1) = {}
         /\ t.next \in 1..Size /\ \A x \in Came(t, t.poll) : x < t.next
<1>1. /\ t = [poll |-> t.poll, next |-> t.next] /\ t.poll \in Nat /\ t.next \in 1..Size
      /\ Size \in Nat \ {0} /\ DOMAIN BlockOrder = 1..Size
  BY OrderType DEF Turns, Size
<1>2. Came(t, t.poll) = {x \in 1..Size : x < t.next}
  BY <1>1 DEF Came
<1>3. CASE t.next = Size
  <2>1. NextTurn(t) = [poll |-> t.poll + 1, next |-> 1]
    BY <1>3 DEF NextTurn, Size
  <2>2. NextTurn(t).poll = t.poll + 1 /\ NextTurn(t).next = 1
    BY <2>1
  <2>3. Came(NextTurn(t), t.poll) = 1..Size /\ Came(NextTurn(t), t.poll + 1) = {}
    BY <1>1, <2>2 DEF Came
  <2> QED BY <1>1, <1>2, <1>3, <2>1, <2>2, <2>3 DEF Turns
<1>4. CASE t.next # Size
  <2>1. NextTurn(t) = [poll |-> t.poll, next |-> t.next + 1] /\ t.next + 1 \in 1..Size
    BY <1>1, <1>4 DEF NextTurn, Size
  <2>2. NextTurn(t).poll = t.poll /\ NextTurn(t).next = t.next + 1
    BY <2>1
  <2>3. Came(NextTurn(t), t.poll) = {x \in 1..Size : x < t.next + 1}
    BY <1>1, <2>2 DEF Came
  <2> QED BY <1>1, <1>2, <2>1, <2>2, <2>3 DEF Turns
<1> QED BY <1>3, <1>4

\* The places of a poll that is over.
LEMMA CameAll ==
  ASSUME NEW t \in Turns, NEW f \in Nat
  PROVE  /\ f < t.poll => Came(t, f) = 1..Size
         /\ Came(t, f) \subseteq 1..Size /\ (t.poll < f => Came(t, f) = {})
  BY DEF Came, Turns

\* What an inverter does to its turn, its disturbances and what waits: a block in its
\* place comes; a disturbance, with a block or without; or nothing that matters here.
Turned(t, u, W, m, t2, u2, W2) ==
  \/ /\ m.kind = "block" /\ m.part.fit = "good" /\ m.block = BlockOrder[t.next]
     /\ W2 = W \cup {m} /\ t2 = NextTurn(t) /\ u2 = u
  \/ u2 = u + 1 /\ W2 \in {W, W \cup {m}} /\ t2 \in {t, NextTurn(t)}
  \/ u2 = u /\ W2 = W /\ t2 = t

\* Of the calm polls that there are, the places whose block has come and is gone stay.
LEMMA GoneStays ==
  ASSUME NEW t \in Turns, NEW u \in Nat, NEW W \in SUBSET Packets, NEW calm,
         Queued(t, W, calm),
         NEW m \in Packets, m.part.poll = t.poll,
         NEW t2, NEW u2, NEW W2, Turned(t, u, W, m, t2, u2, W2)
  PROVE  \A f \in calm : f \in 1..t.poll /\ (f = t.poll => u2 = u) =>
           /\ Gone(t2, W2, f) = Gone(t, W, f) /\ Came(t, f) \subseteq Came(t2, f)
           /\ \A x, y \in Came(t2, f) : x < y /\ Waits(W2, f, x) => Waits(W2, f, y)
<1> SUFFICES ASSUME NEW f \in calm, f \in 1..t.poll, f = t.poll => u2 = u
             PROVE  /\ Gone(t2, W2, f) = Gone(t, W, f) /\ Came(t, f) \subseteq Came(t2, f)
                    /\ \A x, y \in Came(t2, f) : x < y /\ Waits(W2, f, x) => Waits(W2, f, y)
  OBVIOUS
<1> DEFINE P == t.poll
<1>1. /\ P \in Nat /\ t.next \in 1..Size /\ f \in Nat /\ f <= P
      /\ \A x, y \in Came(t, f) : x < y /\ Waits(W, f, x) => Waits(W, f, y)
      /\ Came(t, f) \subseteq 1..Size
  BY NextTurnStep, CameAll DEF Turns, Queued
<1>2. CASE f # P
  <2>1. f < P /\ m.part.poll # f
    BY <1>1, <1>2
  <2>2. t2 \in Turns /\ f < t2.poll
    BY <1>1, <2>1, NextTurnStep DEF Turned, Turns
  <2>3. Came(t2, f) = 1..Size /\ Came(t, f) = 1..Size
    BY <1>1, <2>1, <2>2, CameAll
  <2>4. \A x \in 1..Size : Waits(W2, f, x) <=> Waits(W, f, x)
    BY <2>1 DEF Turned, Waits
  <2> QED BY <1>1, <2>3, <2>4 DEF Gone
<1>3. CASE f = P /\ t2 = t /\ W2 = W
  BY <1>1, <1>3 DEF Gone
<1>4. CASE /\ f = P /\ m.block = BlockOrder[t.next]
           /\ W2 = W \cup {m} /\ t2 = NextTurn(t)
  <2>1. Came(t2, f) = Came(t, f) \cup {t.next} /\ \A x \in Came(t, f) : x \in 1..Size /\ x < t.next
    BY <1>1, <1>4, NextTurnStep
  <2>2. Waits(W2, f, t.next)
    BY <1>4 DEF Waits
  <2>3. \A x \in Came(t, f) : Waits(W2, f, x) <=> Waits(W, f, x)
    <3>1. \A x \in Came(t, f) : BlockOrder[x] # BlockOrder[t.next]
      BY <1>1, <2>1, Places
    <3> QED BY <1>4, <3>1 DEF Waits
  <2>4. \A x \in Came(t2, f) : ~(t.next < x)
    BY <1>1, <2>1
  <2>5. \A x, y \in Came(t2, f) : x < y /\ Waits(W2, f, x) => Waits(W2, f, y)
    BY <1>1, <2>1, <2>2, <2>3, <2>4
  <2>6. Gone(t2, W2, f) = Gone(t, W, f)
    BY <2>1, <2>2, <2>3 DEF Gone
  <2> QED BY <2>1, <2>5, <2>6
<1> QED BY <1>1, <1>2, <1>3, <1>4 DEF Turned

\* What waits stays in order.
LEMMA QueuedStep ==
  ASSUME NEW t \in Turns, NEW u \in Nat, NEW W \in SUBSET Packets, NEW calm,
         Queued(t, W, calm),
         NEW m \in Packets, m.part.poll = t.poll, \A r \in W : r.part.n < m.part.n,
         NEW t2, NEW u2, NEW W2, Turned(t, u, W, m, t2, u2, W2),
         NEW calm2 \in SUBSET (1..t2.poll),
         \A k \in 1..t.poll : k \in calm2 => k \in calm /\ (k = t.poll => u2 = u),
         t.poll \in 1..t.poll
  PROVE  Queued(t2, W2, calm2)
<1> DEFINE P == t.poll
<1>1. /\ P \in Nat /\ t2 \in Turns /\ t2.poll \in {P, P + 1} /\ t.next \in 1..Size
      /\ W \subseteq W2 /\ W2 \subseteq W \cup {m}
      /\ t2.poll = P + 1 => Came(t2, P + 1) = {}
  BY NextTurnStep DEF Turned, Turns
<1>2. /\ \A r \in W : r.part.poll \in 1..P
      /\ \A p, r \in W : p.part.n < r.part.n => p.part.poll <= r.part.poll
      /\ \A r \in W : r.part.poll \in calm =>
           /\ r.kind = "block" /\ r.part.fit = "good"
           /\ \E x \in Came(t, r.part.poll) : r.block = BlockOrder[x]
      /\ \A p, r \in W :
           p.part.poll = r.part.poll /\ p.part.poll \in calm /\ p.part.n < r.part.n =>
             \A x, y \in 1..Size : p.block = BlockOrder[x] /\ r.block = BlockOrder[y] => x < y
  BY DEF Queued
<1>3. \A r \in W2 : r.part.n \in Nat /\ r.part.poll \in 1..P
  BY <1>1, <1>2 DEF Packets, Parts
<1>4. \A r \in W2 : r.part.poll \in 1..t2.poll
  BY <1>1, <1>3
<1>5. \A p, r \in W2 : p.part.n < r.part.n => p \in W /\ (r \in W \/ r = m)
  BY <1>1, <1>3
<1>6. \A p, r \in W2 : p.part.n < r.part.n => p.part.poll <= r.part.poll
  BY <1>1, <1>2, <1>3, <1>5
<1>7. /\ \A f \in calm2 : f \in 1..P \/ f = P + 1
      /\ \A f \in calm : f \in 1..t.poll /\ (f = t.poll => u2 = u) =>
           /\ Gone(t2, W2, f) = Gone(t, W, f) /\ Came(t, f) \subseteq Came(t2, f)
           /\ \A x, y \in Came(t2, f) : x < y /\ Waits(W2, f, x) => Waits(W2, f, y)
  <2>1. \A f \in calm2 : f \in 1..P \/ f = P + 1
    <3>1. \A f \in 1..(P + 1) : f \in 1..P \/ f = P + 1
      BY <1>1
    <3>2. 1..t2.poll = 1..P \/ 1..t2.poll = 1..(P + 1)
      BY <1>1
    <3> QED BY <3>1, <3>2
  <2>2. \A f \in calm : f \in 1..t.poll /\ (f = t.poll => u2 = u) =>
           /\ Gone(t2, W2, f) = Gone(t, W, f) /\ Came(t, f) \subseteq Came(t2, f)
           /\ \A x, y \in Came(t2, f) : x < y /\ Waits(W2, f, x) => Waits(W2, f, y)
    BY GoneStays
  <2> QED BY <2>1, <2>2
<1>8. ASSUME NEW r \in W2, r.part.poll \in calm2
      PROVE  /\ r.kind = "block" /\ r.part.fit = "good"
             /\ \E x \in Came(t2, r.part.poll) : r.block = BlockOrder[x]
  <2>1. r.part.poll \in calm /\ r.part.poll \in 1..P /\ (r.part.poll = P => u2 = u)
    BY <1>3, <1>8
  <2>2. Came(t, r.part.poll) \subseteq Came(t2, r.part.poll)
    BY <1>7, <2>1
  <2>3. CASE r \in W
    BY <1>2, <2>1, <2>2, <2>3
  <2>4. CASE r \notin W
    <3>1. r = m /\ u2 = u /\ r.part.poll = P
      BY <1>1, <2>1, <2>4
    <3>2. r.kind = "block" /\ r.part.fit = "good" /\ r.block = BlockOrder[t.next] /\ t2 = NextTurn(t)
      BY <2>4, <3>1 DEF Turned
    <3>3. t.next \in Came(t2, P)
      BY <3>2, NextTurnStep
    <3> QED BY <3>1, <3>2, <3>3
  <2> QED BY <2>3, <2>4
<1>9. ASSUME NEW p \in W2, NEW r \in W2, p.part.poll = r.part.poll, p.part.poll \in calm2,
             p.part.n < r.part.n, NEW x \in 1..Size, NEW y \in 1..Size,
             p.block = BlockOrder[x], r.block = BlockOrder[y]
      PROVE  x < y
  <2>1. p.part.poll \in calm /\ p.part.poll \in 1..P /\ (p.part.poll = P => u2 = u) /\ p \in W
    BY <1>3, <1>5, <1>9
  <2>2. CASE r \in W
    BY <1>2, <1>9, <2>1, <2>2
  <2>3. CASE r \notin W
    <3>1. r = m /\ u2 = u /\ p.part.poll = P
      BY <1>1, <1>9, <2>1, <2>3
    <3>2. r.block = BlockOrder[t.next] /\ y = t.next
      <4>1. r.block = BlockOrder[t.next]
        BY <2>3, <3>1 DEF Turned
      <4> QED BY <1>1, <1>9, <4>1, Places
    <3>3. PICK z \in Came(t, P) : p.block = BlockOrder[z]
      BY <1>2, <2>1, <3>1
    <3>4. z \in 1..Size /\ z < t.next
      BY <1>1, <3>3, NextTurnStep DEF Came
    <3>5. x = z
      BY <1>9, <3>3, <3>4, Places
    <3> QED BY <3>2, <3>4, <3>5
  <2> QED BY <2>2, <2>3
<1>10. ASSUME NEW f \in calm2
       PROVE  \A x, y \in Came(t2, f) : x < y /\ Waits(W2, f, x) => Waits(W2, f, y)
  <2>1. CASE f \in 1..P
    BY <1>7, <2>1
  <2>2. CASE f = P + 1
    <3>1. t2.poll = P + 1
      BY <1>1, <2>2
    <3> QED BY <1>1, <2>2, <3>1
  <2> QED BY <1>7, <2>1, <2>2
<1> QED BY <1>4, <1>6, <1>8, <1>9, <1>10 DEF Queued

\* What is stored is still of the polls it was.
LEMMA GatheredStep ==
  ASSUME NEW t \in Turns, NEW u \in Nat, NEW W \in SUBSET Packets,
         NEW calm, NEW clean, NEW oldest \in [Nat -> Nat], NEW s \in [Blocks -> Parts],
         Polls(t, u, calm, clean, oldest), Queued(t, W, calm),
         Gathered(s, t, W, calm, clean, oldest),
         NEW m \in Packets, m.part.poll = t.poll,
         NEW t2, NEW u2, NEW W2, Turned(t, u, W, m, t2, u2, W2),
         NEW calm2, NEW clean2, NEW oldest2 \in [Nat -> Nat],
         Polls(t2, u2, calm2, clean2, oldest2),
         Carried(t, u, calm, clean, oldest, u2, calm2, clean2, oldest2)
  PROVE  Gathered(s, t2, W2, calm2, clean2, oldest2)
<1> USE DEF Carried
<1> DEFINE P == t.poll
<1>1. /\ P \in Nat /\ P \in 1..P /\ m.part.poll = P /\ t2 \in Turns /\ t2.poll \in {P, P + 1}
      /\ W \subseteq W2 /\ W2 \subseteq W \cup {m}
      /\ t2.poll = P + 1 => Came(t2, P + 1) = {}
      /\ \A r \in W2 : r.part.poll \in 1..P
  <2>1. P \in Nat /\ t2 \in Turns /\ t2.poll \in {P, P + 1}
    BY NextTurnStep DEF Turned, Turns
  <2>2. P \in 1..P /\ W \subseteq W2 /\ W2 \subseteq W \cup {m}
    BY DEF Turned, Polls, Spread
  <2>3. \A r \in W2 : r.part.poll \in 1..P
    BY <2>2 DEF Queued
  <2> QED BY <2>1, <2>2, <2>3, NextTurnStep DEF Turned
<1>2. /\ \A b \in Present(s) : s[b].poll <= P /\ \A r \in W : s[b].poll <= r.part.poll
      /\ \A f \in calm : ~Reached(W, f) => Gone(t, W, f) = {}
      /\ \A b \in Present(s), k \in 1..P : Reached(W, k) => oldest[k] <= s[b].poll
      /\ \A f \in calm : Reached(W, f) /\ Gone(t, W, f) # 1..Size => Taken(s, t, W, f, clean)
      /\ \A b \in Present(s) : s[b].poll \in Nat
  BY DEF Gathered, Present, Parts
<1>3. /\ \A f \in calm2 : f \in 1..P \/ (f = P + 1 /\ t2.poll = P + 1)
      /\ clean2 \subseteq calm2 /\ (t2.poll \in clean2 <=> u2 = 0)
  BY <1>1 DEF Polls, Cleanest
<1>4. ASSUME NEW f \in calm2, f \in 1..P
      PROVE  f \in calm /\ Gone(t2, W2, f) = Gone(t, W, f)
  <2>1. f \in calm /\ (f = P => u2 = u)
    BY <1>4
  <2>2. \A g \in calm : g \in 1..t.poll /\ (g = t.poll => u2 = u) =>
           /\ Gone(t2, W2, g) = Gone(t, W, g) /\ Came(t, g) \subseteq Came(t2, g)
           /\ \A x, y \in Came(t2, g) : x < y /\ Waits(W2, g, x) => Waits(W2, g, y)
    BY GoneStays
  <2> QED BY <1>4, <2>1, <2>2
<1>5. \A f \in 1..P : Reached(W2, f) <=> Reached(W, f)
  <2>1. \A f \in 1..P : f <= m.part.poll
    BY <1>1
  <2> QED BY <1>1, <2>1 DEF Reached
<1>6. ASSUME Reached(W2, P + 1), t2.poll = P + 1
      PROVE  W = {} /\ u2 = u + 1
  <2>1. W2 = {}
    BY <1>1, <1>6 DEF Reached
  <2> QED BY <1>1, <1>6, <2>1 DEF Turned
<1>7. \A f : f = P + 1 /\ t2.poll = P + 1 => Gone(t2, W2, f) = {}
  BY <1>1 DEF Gone
<1>8. /\ \A k \in 1..P : oldest2[k] = oldest[k] /\ (k \in clean2 => k \in clean)
      /\ t2.poll \in Nat /\ P <= t2.poll /\ P + 1 \in Nat
      /\ \A k \in Nat : oldest[k] \in Nat /\ oldest2[k] \in Nat
  BY <1>1
<1> HIDE DEF P
<1>9. \A b \in Present(s) : s[b].poll <= t2.poll /\ \A r \in W2 : s[b].poll <= r.part.poll
  <2>1. ASSUME NEW b \in Present(s)
        PROVE  s[b].poll <= t2.poll
    <3>1. s[b].poll \in Nat /\ s[b].poll <= P /\ P <= t2.poll /\ P \in Nat /\ t2.poll \in Nat
      BY <1>1, <1>2, <1>8
    <3> QED BY <3>1
  <2>2. \A b \in Present(s) : s[b].poll <= m.part.poll
    BY <1>1, <1>2
  <2> QED BY <1>1, <1>2, <2>1, <2>2
<1>10. \A f \in calm2 : ~Reached(W2, f) => Gone(t2, W2, f) = {}
  BY <1>2, <1>3, <1>4, <1>5, <1>7
<1>11. ASSUME NEW b \in Present(s), NEW k \in 1..t2.poll, Reached(W2, k)
       PROVE  oldest2[k] <= s[b].poll
  <2>1. CASE k \in 1..P
    BY <1>2, <1>5, <1>8, <1>11, <2>1
  <2>2. CASE k \notin 1..P
    <3>1. k = P + 1 /\ t2.poll = P + 1
      BY <1>1, <2>2
    <3>2. W = {} /\ u2 = u + 1
      BY <1>6, <1>11, <3>1
    <3>3. oldest[P] <= s[b].poll
      BY <1>1, <1>2, <3>2 DEF Reached
    <3>4. P \notin calm2
      BY <1>1, <3>2
    <3>5. oldest2[P + 1] <= oldest2[P]
      <4>1. P \in 1..(P + 1) /\ P + 1 \in 1..(P + 1) /\ P <= P + 1
        BY <1>1
      <4>2. \A f \in P..(P + 1 - 1) : f \notin calm2
        <5>1. \A f \in P..(P + 1 - 1) : f = P
          BY <1>1
        <5> QED BY <3>4, <5>1
      <4>3. \A j, n \in 1..(P + 1) :
              j <= n /\ (\A f \in j..(n - 1) : f \notin calm2) => oldest2[n] <= oldest2[j]
        BY <3>1 DEF Polls, Chained
      <4> QED BY <4>1, <4>2, <4>3
    <3>6. /\ oldest2[P] = oldest[P] /\ s[b].poll \in Nat
          /\ oldest2[P + 1] \in Nat /\ oldest[P] \in Nat
      BY <1>1, <1>2, <1>8
    <3> QED BY <3>1, <3>3, <3>5, <3>6
  <2> QED BY <2>1, <2>2
<1>12. ASSUME NEW f \in calm2, Reached(W2, f), Gone(t2, W2, f) # 1..Size
       PROVE  Taken(s, t2, W2, f, clean2)
  <2>1. CASE f \in 1..P
    <3>1. f \in calm /\ Reached(W, f) /\ Gone(t2, W2, f) = Gone(t, W, f)
      BY <1>4, <1>5, <1>12, <2>1
    <3>2. Taken(s, t, W, f, clean)
      BY <1>2, <1>12, <3>1
    <3>3. f \in clean2 => f \in clean
      BY <1>8, <2>1
    <3> QED BY <3>1, <3>2, <3>3 DEF Taken
  <2>2. CASE f = P + 1 /\ t2.poll = P + 1
    <3>1. u2 # 0
      <4>1. u2 = u + 1
        BY <1>6, <1>12, <2>2
      <4> QED BY <4>1
    <3>2. f \notin clean2
      BY <1>3, <2>2, <3>1
    <3> QED BY <1>7, <2>2, <3>2 DEF Taken
  <2> QED BY <1>3, <2>1, <2>2
<1> QED BY <1>9, <1>10, <1>11, <1>12 DEF Gathered

\* x is the place of packet p, and the places before it are all that is gone.
Foremost(t, W, p, x) ==
  /\ p.block = BlockOrder[x] /\ x \in Came(t, p.part.poll)
  /\ Gone(t, W, p.part.poll) = 1..(x - 1) /\ Gone(t, W \ {p}, p.part.poll) = 1..x

\* The oldest of what waits is taken: what is left stays in order, and the packet of a
\* calm poll is the next one of its poll.
LEMMA OldestTaken ==
  ASSUME NEW t \in Turns, NEW W \in SUBSET Packets, NEW calm, Queued(t, W, calm),
         NEW p \in W, \A r \in W \ {p} : p.part.n < r.part.n
  PROVE  /\ Queued(t, W \ {p}, calm) /\ Reached(W, p.part.poll)
         /\ \A f : f # p.part.poll => Gone(t, W \ {p}, f) = Gone(t, W, f)
         /\ p.part.poll \in calm => \E x \in 1..Size : Foremost(t, W, p, x)
<1> DEFINE V == W \ {p}
           f == p.part.poll
<1>1. /\ \A r \in W : r.part.poll \in 1..t.poll
      /\ \A q, r \in W : q.part.n < r.part.n => q.part.poll <= r.part.poll
      /\ \A r \in W : r.part.poll \in calm =>
           /\ r.kind = "block" /\ r.part.fit = "good"
           /\ \E x \in Came(t, r.part.poll) : r.block = BlockOrder[x]
      /\ \A q, r \in W :
           q.part.poll = r.part.poll /\ q.part.poll \in calm /\ q.part.n < r.part.n =>
             \A x, y \in 1..Size : q.block = BlockOrder[x] /\ r.block = BlockOrder[y] => x < y
      /\ \A g \in calm : \A x, y \in Came(t, g) : x < y /\ Waits(W, g, x) => Waits(W, g, y)
  BY DEF Queued
<1>2. t.next \in 1..Size /\ \A g : Came(t, g) \subseteq 1..Size
  BY NextTurnStep DEF Came
<1>3. ASSUME NEW x \in 1..Size, NEW y \in 1..Size, x < y, f \in calm,
             p.block = BlockOrder[y]
      PROVE  ~Waits(V, f, x)
  <2>1. SUFFICES ASSUME NEW r \in V, r.part.poll = f, r.block = BlockOrder[x]
                 PROVE  FALSE
    BY DEF Waits
  <2>2. y < x
    BY <1>1, <1>3, <2>1
  <2> QED BY <1>3, <2>2, Places
<1>4. ASSUME NEW g \in calm, NEW x \in Came(t, g), NEW y \in Came(t, g), x < y, Waits(V, g, x)
      PROVE  Waits(V, g, y)
  <2>1. Waits(W, g, x)
    BY <1>4 DEF Waits
  <2>2. PICK r \in W : r.part.poll = g /\ r.block = BlockOrder[y]
    BY <1>1, <1>4, <2>1 DEF Waits
  <2>3. CASE r = p
    <3>1. x \in 1..Size /\ y \in 1..Size /\ g = f
      BY <1>2, <2>2, <2>3
    <3> QED BY <1>3, <1>4, <2>2, <2>3, <3>1
  <2>4. CASE r # p
    BY <2>2, <2>4 DEF Waits
  <2> QED BY <2>3, <2>4
<1>5. Queued(t, V, calm)
  <2>1. V \subseteq W
    OBVIOUS
  <2> HIDE DEF V
  <2> QED BY <1>1, <1>4, <2>1 DEF Queued
<1>6. Reached(W, f)
  <2>1. f \in Nat
    BY <1>1
  <2> QED BY <1>1, <2>1 DEF Reached
<1>7. \A g : g # f => Gone(t, V, g) = Gone(t, W, g)
  BY DEF Gone, Waits
<1>8. ASSUME f \in calm
      PROVE  \E x \in 1..Size : Foremost(t, W, p, x)
  <2>1. PICK x \in Came(t, f) : p.block = BlockOrder[x]
    BY <1>1, <1>8
  <2>2. x \in 1..Size /\ Size \in Nat
    BY <1>2, Places
  <2>3. 1..x \subseteq Came(t, f)
    BY <1>2, <2>1, <2>2 DEF Came
  <2>4. Waits(W, f, x)
    BY <2>1 DEF Waits
  <2>5. \A y \in Came(t, f) : x < y => Waits(W, f, y) /\ Waits(V, f, y)
    <3>1. ASSUME NEW y \in Came(t, f), x < y
          PROVE  Waits(W, f, y) /\ Waits(V, f, y)
      <4>1. PICK r \in W : r.part.poll = f /\ r.block = BlockOrder[y]
        BY <1>1, <1>8, <2>4, <3>1 DEF Waits
      <4>2. r # p
        BY <1>2, <2>1, <2>2, <3>1, <4>1, Places
      <4> QED BY <4>1, <4>2 DEF Waits
    <3> QED BY <3>1
  <2>6. \A y \in 1..Size : y < x => ~Waits(V, f, y) /\ ~Waits(W, f, y)
    <3>1. ASSUME NEW y \in 1..Size, y < x
          PROVE  ~Waits(V, f, y) /\ ~Waits(W, f, y)
      <4>1. ~Waits(V, f, y)
        BY <1>3, <1>8, <2>1, <2>2, <3>1
      <4>2. p.block # BlockOrder[y]
        BY <2>1, <2>2, <3>1, Places
      <4> QED BY <4>1, <4>2 DEF Waits
    <3> QED BY <3>1
  <2>7. ~Waits(V, f, x)
    <3>1. SUFFICES ASSUME NEW r \in V, r.part.poll = f, r.block = BlockOrder[x]
                   PROVE  FALSE
      BY DEF Waits
    <3>2. x < x
      BY <1>1, <1>8, <2>1, <2>2, <3>1
    <3> QED BY <2>2, <3>2
  <2> HIDE DEF V, f
  <2>8. Gone(t, W, f) = 1..(x - 1)
    BY <1>2, <2>2, <2>3, <2>4, <2>5, <2>6 DEF Gone
  <2>9. Gone(t, V, f) = 1..x
    BY <1>2, <2>2, <2>3, <2>5, <2>6, <2>7 DEF Gone
  <2> QED BY <2>1, <2>2, <2>8, <2>9 DEF Foremost, V, f
<1> QED BY <1>5, <1>6, <1>7, <1>8

\* What the loop makes of the blocks s of an inverter when it takes p: nothing, a row,
\* or one block more, with which they do not make a row yet.
Whole(s) == \A b \in Blocks : s[b].n # 0 /\ s[b].fit = "good"

Added(s, p) == [s EXCEPT ![p.block] = p.part]

Processed(s, p, s2) ==
  \/ p.part.fit = "bad" /\ s2 = s
  \/ s2 = NoBlocks /\ (p.kind = "block" => Whole(Added(s, p)))
  \/ p.kind = "block" /\ s2 = Added(s, p) /\ ~Whole(Added(s, p))

LEMMA AddedParts ==
  ASSUME NEW s \in [Blocks -> Parts], NEW p \in Packets, p.part.n # 0
  PROVE  /\ Added(s, p) \in [Blocks -> Parts] /\ Added(s, p)[p.block] = p.part
         /\ \A b \in Blocks : b # p.block => Added(s, p)[b] = s[b]
         /\ Present(Added(s, p)) = Present(s) \cup {p.block}
         /\ Present(NoBlocks) = {} /\ NoBlocks \in [Blocks -> Parts]
<1>1. p.block \in Blocks /\ p.part \in Parts
  BY DEF Packets
<1>2. /\ Added(s, p) \in [Blocks -> Parts] /\ Added(s, p)[p.block] = p.part
      /\ \A b \in Blocks : b # p.block => Added(s, p)[b] = s[b]
  BY <1>1 DEF Added
<1>3. Present(Added(s, p)) = Present(s) \cup {p.block}
  BY <1>1, <1>2 DEF Present
<1>4. Present(NoBlocks) = {} /\ NoBlocks \in [Blocks -> Parts]
  BY DEF Present, NoBlocks, NoPart, Parts, Fits
<1> QED BY <1>2, <1>3, <1>4

\* What is left of the blocks when all of poll f have been taken.
Renewed(s, f, clean) == s = NoBlocks \/ (f \notin clean /\ \A b \in Present(s) : s[b].poll = f)

\* Nothing of a calm poll waits any more: a row was made with its last block, or one
\* before, and then nothing of an older poll is left.
LEMMA PollCompletes ==
  ASSUME NEW t \in Turns, NEW W \in SUBSET Packets,
         NEW calm, NEW clean, NEW oldest, NEW s \in [Blocks -> Parts],
         Queued(t, W, calm), Gathered(s, t, W, calm, clean, oldest),
         NEW p \in W, \A r \in W \ {p} : p.part.n < r.part.n, p.part.n # 0,
         NEW s2, Processed(s, p, s2),
         p.part.poll \in calm, NEW k \in Nat, p.part.poll < k, k <= t.poll, Reached(W \ {p}, k)
  PROVE  Renewed(s2, p.part.poll, clean)
<1> DEFINE f == p.part.poll
           V == W \ {p}
<1>1. PICK x \in 1..Size : Foremost(t, W, p, x)
  BY OldestTaken
<1>2. Reached(W, f) /\ f \in Nat /\ p.kind = "block" /\ p.part.fit = "good" /\ p \in Packets
  BY OldestTaken DEF Queued, Packets, Parts
<1>3. /\ Came(t, f) = 1..Size /\ x \in 1..Size /\ Size \in Nat
      /\ p.block = BlockOrder[x] /\ Gone(t, W, f) = 1..(x - 1) /\ Gone(t, V, f) = 1..x
  <2>1. Came(t, f) = 1..Size
    BY <1>2, CameAll DEF Turns
  <2> QED BY <1>1, <2>1, Places DEF Foremost
<1>4. x = Size
  <2>1. \A y \in 1..Size : ~Waits(V, f, y)
    <3>1. \A r \in V : r.part.poll # f
      <4>1. \A r \in V : k <= r.part.poll
        BY DEF Reached
      <4> QED BY <1>2, <4>1
    <3> QED BY <3>1 DEF Waits
  <2>2. Gone(t, V, f) = 1..Size
    BY <1>3, <2>1 DEF Gone
  <2>3. Size \in 1..x
    BY <1>3, <2>2
  <2> QED BY <1>3, <2>3
<1>5. Taken(s, t, W, f, clean)
  <2>1. Size \notin 1..(x - 1) /\ Size \in 1..Size
    BY <1>3, <1>4
  <2>2. Gone(t, W, f) # 1..Size
    BY <1>3, <2>1
  <2> QED BY <1>2, <2>2 DEF Gathered
<1>6. /\ Added(s, p)[p.block] = p.part /\ p.block \in Blocks
      /\ \A b \in Blocks : b # p.block => Added(s, p)[b] = s[b]
      /\ Present(Added(s, p)) = Present(s) \cup {p.block}
  BY <1>2, AddedParts DEF Packets
<1>7. CASE \A y \in Gone(t, W, f) : Intact(s[BlockOrder[y]], f)
  <2>1. ASSUME NEW b \in Blocks
        PROVE  Added(s, p)[b].n # 0 /\ Added(s, p)[b].fit = "good"
    <3>1. PICK y \in 1..Size : b = BlockOrder[y]
      BY Places
    <3>2. CASE y = x
      BY <1>2, <1>3, <1>6, <3>1, <3>2
    <3>3. CASE y # x
      <4>1. y \in 1..(x - 1)
        BY <1>3, <1>4, <3>1, <3>3
      <4>2. b # p.block
        BY <1>3, <3>1, <3>3, Places
      <4> QED BY <1>3, <1>6, <1>7, <3>1, <4>1, <4>2 DEF Intact
    <3> QED BY <3>2, <3>3
  <2>2. Whole(Added(s, p))
    BY <2>1 DEF Whole
  <2> QED BY <1>2, <2>2 DEF Processed, Renewed
<1>8. CASE f \notin clean /\ \A b \in Present(s) : s[b].poll = f
  <2>1. \A b \in Present(Added(s, p)) : Added(s, p)[b].poll = f
    BY <1>6, <1>8 DEF Present
  <2> QED BY <1>2, <1>8, <2>1 DEF Processed, Renewed
<1> QED BY <1>5, <1>7, <1>8 DEF Taken

\* The oldest poll that may be stored: between a poll and the next one that waits.
LEMMA OldestKept ==
  ASSUME NEW t \in Turns, NEW u \in Nat, NEW W \in SUBSET Packets,
         NEW calm, NEW clean, NEW oldest \in [Nat -> Nat], NEW s \in [Blocks -> Parts],
         Polls(t, u, calm, clean, oldest),
         Queued(t, W, calm), Gathered(s, t, W, calm, clean, oldest),
         NEW p \in W, NEW k \in Nat, p.part.poll < k, k <= t.poll, Reached(W \ {p}, k)
  PROVE  oldest[k] <= oldest[p.part.poll + 1]
<1> DEFINE f == p.part.poll
<1>1. f \in Nat /\ f + 1 \in 1..t.poll /\ k \in 1..t.poll /\ f + 1 <= k
  BY DEF Queued, Packets, Parts, Turns
<1>2. ASSUME NEW g \in (f + 1)..(k - 1)
      PROVE  g \notin calm
  <2>1. SUFFICES ASSUME g \in calm
                 PROVE  FALSE
    OBVIOUS
  <2>2. g \in Nat /\ f < g /\ g < k /\ g < t.poll
    BY <1>1, <1>2 DEF Turns
  <2>3. ~Reached(W, g)
    BY <1>1, <2>2 DEF Reached
  <2>4. Gone(t, W, g) = {}
    BY <2>1, <2>3 DEF Gathered
  <2>5. 1 \in Came(t, g)
    <3>1. Came(t, g) = 1..Size
      BY <2>2, CameAll
    <3> QED BY <3>1, Places
  <2>6. PICK r \in W : r.part.poll = g
    BY <2>4, <2>5 DEF Gone, Waits
  <2>7. r \in W \ {p}
    BY <1>1, <2>2, <2>6
  <2>8. k <= g
    BY <2>6, <2>7 DEF Reached
  <2> QED BY <2>2, <2>8
<1> HIDE DEF f
<1> QED BY <1>1, <1>2 DEF Polls, Chained, f

\* What is stored when a packet has been taken is of the polls it should be.
LEMMA GatheredPop ==
  ASSUME NEW t \in Turns, NEW u \in Nat, NEW W \in SUBSET Packets,
         NEW calm, NEW clean, NEW oldest \in [Nat -> Nat], NEW s \in [Blocks -> Parts],
         Polls(t, u, calm, clean, oldest),
         Queued(t, W, calm), Gathered(s, t, W, calm, clean, oldest),
         NEW p \in W, \A r \in W \ {p} : p.part.n < r.part.n, p.part.n # 0,
         NEW s2, Processed(s, p, s2)
  PROVE  Gathered(s2, t, W \ {p}, calm, clean, oldest)
<1> DEFINE f == p.part.poll
           V == W \ {p}
           P == t.poll
<1>1. /\ f \in Nat /\ f \in 1..P /\ P \in Nat /\ p \in Packets /\ p.block \in Blocks
      /\ Reached(W, f) /\ \A g \in Nat : g <= f => Reached(W, g)
      /\ \A g : g # f => Gone(t, V, g) = Gone(t, W, g)
  <2>1. /\ f \in 1..P /\ f \in Nat /\ P \in Nat /\ p \in Packets /\ p.block \in Blocks
        /\ \A r \in W : r.part.poll \in Nat
    BY DEF Queued, Packets, Parts, Turns
  <2>2. Reached(W, f) /\ \A g : g # f => Gone(t, V, g) = Gone(t, W, g)
    BY OldestTaken
  <2>3. \A g \in Nat : g <= f => Reached(W, g)
    BY <2>1, <2>2 DEF Reached
  <2> QED BY <2>1, <2>2, <2>3
<1>2. /\ \A b \in Present(s) : s[b].poll <= P /\ \A r \in W : s[b].poll <= r.part.poll
      /\ \A g \in calm : ~Reached(W, g) => Gone(t, W, g) = {}
      /\ \A b \in Present(s), k \in 1..P : Reached(W, k) => oldest[k] <= s[b].poll
      /\ \A g \in calm : Reached(W, g) /\ Gone(t, W, g) # 1..Size => Taken(s, t, W, g, clean)
      /\ \A b \in Present(s) : s[b].poll \in Nat
  BY DEF Gathered, Present, Parts
<1>3. /\ clean \subseteq calm /\ calm \subseteq 1..P
      /\ \A k \in clean : \A m \in 1..k : m \in clean
      /\ \A k \in 1..P : oldest[k] \in Nat /\ oldest[k] <= k
      /\ \A k \in 1..(P - 1) : k \in calm /\ k \notin clean => oldest[k + 1] <= k
      /\ f \notin calm /\ f \in 1..(P - 1) => oldest[f + 1] <= oldest[f]
  <2>1. /\ clean \subseteq calm /\ calm \subseteq 1..P
        /\ \A k \in clean : \A m \in 1..k : m \in clean
        /\ \A k \in 1..P : oldest[k] \in Nat /\ oldest[k] <= k
        /\ \A k \in 1..(P - 1) : k \in calm /\ k \notin clean => oldest[k + 1] <= k
    BY DEF Polls, Spread, Chained, Cleanest
  <2>2. ASSUME f \notin calm, f \in 1..(P - 1)
        PROVE  oldest[f + 1] <= oldest[f]
    <3>1. f + 1 \in 1..P /\ f <= f + 1
      BY <1>1, <2>2
    <3>2. \A g \in f..(f + 1 - 1) : g \notin calm
      <4>1. \A g \in f..(f + 1 - 1) : g = f
        BY <1>1
      <4> QED BY <2>2, <4>1
    <3>3. \A k, m \in 1..P :
            k <= m /\ (\A g \in k..(m - 1) : g \notin calm) => oldest[m] <= oldest[k]
      BY DEF Polls, Chained
    <3> QED BY <1>1, <3>1, <3>2, <3>3
  <2> QED BY <2>1, <2>2
<1>4. /\ Added(s, p)[p.block] = p.part
      /\ \A b \in Blocks : b # p.block => Added(s, p)[b] = s[b]
      /\ Present(Added(s, p)) = Present(s) \cup {p.block}
      /\ Present(NoBlocks) = {}
  BY <1>1, AddedParts
<1>5. \A b \in Present(s2) : (b \in Present(s) /\ s2[b] = s[b]) \/ s2[b].poll = f
  BY <1>4 DEF Processed, Present
<1>6. ASSUME NEW k \in 1..P, f < k, Reached(V, k), f \in calm
      PROVE  s2 = NoBlocks \/ (f \notin clean /\ \A b \in Present(s2) : s2[b].poll = f)
  <2>1. k \in Nat /\ k <= P
    BY <1>1
  <2>2. Renewed(s2, f, clean)
    BY <1>6, <2>1, PollCompletes
  <2> QED BY <2>2 DEF Renewed
<1>7. ASSUME NEW k \in 1..P, f < k, Reached(V, k)
      PROVE  oldest[k] <= oldest[f + 1] /\ f \in 1..(P - 1) /\ f + 1 \in 1..P
  <2>1. k \in Nat /\ k <= P /\ f \in 1..(P - 1) /\ f + 1 \in 1..P
    BY <1>1, <1>7
  <2>2. oldest[k] <= oldest[f + 1]
    BY <1>7, <2>1, OldestKept
  <2> QED BY <2>1, <2>2
<1>8. p.part.poll = f /\ V \subseteq W /\ \A r \in V : r.part.poll \in Nat /\ f <= r.part.poll
  BY <1>1 DEF Reached, Packets, Parts
<1>9. ASSUME NEW b \in Present(s2)
      PROVE  s2[b].poll <= P /\ \A r \in V : s2[b].poll <= r.part.poll
  <2>1. f <= P
    BY <1>1
  <2> QED BY <1>2, <1>5, <1>8, <2>1
<1>10. ASSUME NEW g \in calm, ~Reached(V, g)
       PROVE  Gone(t, V, g) = {}
  <2>1. ~Reached(W, g)
    BY <1>8, <1>10 DEF Reached
  <2> QED BY <1>1, <1>2, <2>1
<1>11. ASSUME NEW b \in Present(s2), NEW k \in 1..P, Reached(V, k)
       PROVE  oldest[k] <= s2[b].poll
  <2>1. CASE k <= f
    <3>1. Reached(W, k) /\ oldest[k] <= k /\ oldest[k] \in Nat
      BY <1>1, <1>3, <2>1
    <3>2. oldest[k] <= f
      BY <1>1, <2>1, <3>1
    <3> QED BY <1>2, <1>5, <3>1, <3>2
  <2>2. CASE f < k /\ f \notin calm
    <3>1. oldest[k] <= oldest[f + 1] /\ f \in 1..(P - 1) /\ f + 1 \in 1..P
      BY <1>7, <1>11, <2>2
    <3>2. oldest[f + 1] <= oldest[f] /\ oldest[f] <= f
      BY <1>1, <1>3, <2>2, <3>1
    <3>3. oldest[k] \in Nat /\ oldest[f] \in Nat /\ oldest[f + 1] \in Nat
      BY <1>1, <1>3, <3>1
    <3>4. oldest[k] <= oldest[f] /\ oldest[k] <= f
      BY <1>1, <3>1, <3>2, <3>3
    <3>5. CASE s2[b].poll = f
      BY <3>4, <3>5
    <3>6. CASE b \in Present(s) /\ s2[b] = s[b]
      <4>1. oldest[f] <= s[b].poll /\ s[b].poll \in Nat
        BY <1>1, <1>2, <3>6
      <4> QED BY <3>3, <3>4, <3>6, <4>1
    <3> QED BY <1>5, <3>5, <3>6
  <2>3. CASE f < k /\ f \in calm
    <3>1. f \notin clean /\ s2[b].poll = f
      BY <1>4, <1>6, <1>11, <2>3
    <3>2. oldest[k] <= oldest[f + 1] /\ f \in 1..(P - 1) /\ f + 1 \in 1..P
      BY <1>7, <1>11, <2>3
    <3>3. oldest[f + 1] <= f
      BY <1>3, <2>3, <3>1, <3>2
    <3>4. oldest[k] \in Nat /\ oldest[f + 1] \in Nat
      BY <1>3, <3>2
    <3> QED BY <1>1, <3>1, <3>2, <3>3, <3>4
  <2>4. k \in Nat
    OBVIOUS
  <2> QED BY <1>1, <2>1, <2>2, <2>3, <2>4
<1>12. ASSUME NEW g \in calm, Reached(V, g), Gone(t, V, g) # 1..Size
       PROVE  Taken(s2, t, V, g, clean)
  <2>1. g \in 1..P /\ g \in Nat
    BY <1>3
  <2>2. CASE g < f
    <3>1. \A y \in 1..Size : ~Waits(V, g, y)
      BY <1>1, <1>8, <2>1, <2>2 DEF Waits
    <3>2. Came(t, g) = 1..Size
      <4>1. g < t.poll
        BY <1>1, <2>1, <2>2
      <4> QED BY <2>1, <4>1, CameAll
    <3> QED BY <1>12, <3>1, <3>2 DEF Gone
  <2>3. CASE g > f
    <3>1. ~Reached(W, g)
      BY <1>1, <2>1, <2>3 DEF Reached
    <3>2. Gone(t, V, g) = {}
      BY <1>1, <1>2, <2>1, <2>3, <3>1
    <3>3. ASSUME g \in clean
          PROVE  s2 = NoBlocks
      <4>1. f \in clean /\ f \in calm
        <5>1. f \in 1..g
          BY <1>1, <2>1, <2>3
        <5> QED BY <1>3, <3>3, <5>1
      <4> QED BY <1>6, <1>12, <2>1, <2>3, <4>1
    <3> QED BY <1>4, <3>2, <3>3 DEF Taken
  <2>4. CASE g = f
    <3>1. PICK x \in 1..Size : /\ p.block = BlockOrder[x] /\ Gone(t, W, f) = 1..(x - 1)
                               /\ Gone(t, V, f) = 1..x
      <4>1. \E x \in 1..Size : Foremost(t, W, p, x)
        BY <2>4, OldestTaken
      <4> QED BY <4>1 DEF Foremost
    <3>2. p.kind = "block" /\ p.part.fit = "good" /\ f \in calm
      BY <2>4 DEF Queued
    <3>3. x \in 1..Size /\ x # Size /\ Size \in Nat /\ x < Size
      <4>1. x \in 1..Size /\ Size \in Nat
        BY <3>1, Places
      <4>2. x # Size
        BY <1>12, <2>4, <3>1
      <4> QED BY <4>1, <4>2
    <3>4. Taken(s, t, W, f, clean)
      <4>1. Size \in 1..Size /\ Size \notin 1..(x - 1)
        BY <3>3
      <4>2. Gone(t, W, f) # 1..Size
        BY <3>1, <4>1
      <4> QED BY <1>1, <1>2, <3>2, <4>2
    <3>5. \A y \in 1..x : y = x \/ y \in 1..(x - 1)
      BY <3>3
    <3>6. CASE s2 = NoBlocks
      <4>1. f \notin clean
        <5>1. SUFFICES ASSUME f \in clean
                       PROVE  FALSE
          OBVIOUS
        <5>2. BlockOrder[Size] \in Blocks /\ BlockOrder[Size] # p.block
          <6>1. Size \in 1..Size /\ x \in 1..Size /\ x # Size
            BY <3>3
          <6> QED BY <3>1, <6>1, Places
        <5>3. BlockOrder[Size] \notin Present(s)
          <6>1. Size \notin Gone(t, W, f) /\ Size \in 1..Size
            BY <3>1, <3>3
          <6> QED BY <3>4, <5>1, <6>1 DEF Taken
        <5>4. Added(s, p)[BlockOrder[Size]].n = 0
          BY <1>4, <5>2, <5>3 DEF Present
        <5>5. ~Whole(Added(s, p))
          BY <5>2, <5>4 DEF Whole
        <5>6. p.part.n # 0 /\ NoBlocks # Added(s, p)
          BY <1>1, <1>4
        <5>7. s2 # s \/ p.part.fit # "bad"
          BY <3>2
        <5> QED BY <3>2, <3>6, <5>5, <5>6, <5>7 DEF Processed
      <4> QED BY <1>4, <2>4, <3>6, <4>1 DEF Taken
    <3>7. CASE s2 = Added(s, p)
      <4>1. \A y \in 1..Size : y # x => BlockOrder[y] # p.block /\ BlockOrder[y] \in Blocks
        BY <3>1, <3>3, Places
      <4>2. \A y \in 1..(x - 1) : y \in 1..Size /\ y # x
        BY <3>3
      <4>3. Intact(p.part, f)
        BY <3>2 DEF Intact
      <4>4. ASSUME \A y \in Gone(t, W, f) : Intact(s[BlockOrder[y]], f)
            PROVE  \A y \in 1..x : Intact(s2[BlockOrder[y]], f)
        BY <1>4, <3>1, <3>5, <3>7, <4>1, <4>2, <4>3, <4>4
      <4>5. ASSUME \A b \in Present(s) : s[b].poll = f
            PROVE  \A b \in Present(s2) : s2[b].poll = f
        BY <1>5, <4>5
      <4>6. ASSUME f \in clean, NEW y \in 1..Size, BlockOrder[y] \in Present(s2)
            PROVE  y \in 1..x
        <5>1. CASE y = x
          BY <3>3, <5>1
        <5>2. CASE y # x
          <6>1. BlockOrder[y] \in Present(s)
            BY <1>4, <3>7, <4>1, <4>6, <5>2
          <6>2. y \in 1..(x - 1)
            BY <3>1, <3>4, <4>6, <6>1 DEF Taken
          <6> QED BY <3>3, <6>2
        <5> QED BY <5>1, <5>2
      <4> HIDE DEF f, V
      <4> QED BY <2>4, <3>1, <3>4, <4>4, <4>5, <4>6 DEF Taken
    <3> QED BY <3>2, <3>6, <3>7 DEF Processed
  <2> QED BY <1>1, <2>1, <2>2, <2>3, <2>4
<1> QED BY <1>9, <1>10, <1>11, <1>12 DEF Gathered

\* The blocks of inverter i that wait for the loop, as long as it takes all of them.
Waiting(i) == {p \in ToSet(loopRx.q) : p.inv = i /\ p.kind # "other"}
Live       == ~exited /\ ~loopRx.lagged /\ Databases # {}

PollsKept(i, calm, clean, oldest) ==
  /\ Polls(turn[i], upsets[i], calm, clean, oldest)
  /\ Live => /\ Queued(turn[i], Waiting(i), calm)
             /\ Gathered(store[i], turn[i], Waiting(i), calm, clean, oldest)

PollsOf(i) ==
  \E calm \in SUBSET Nat, clean \in SUBSET Nat, oldest \in [Nat -> Nat] :
    PollsKept(i, calm, clean, oldest)

PollsInvariant == RowsInvariant /\ (\A i \in Inverters : PollsOf(i)) /\ RowsSpanFewPolls

LEMMA WaitingType ==
  ASSUME RowsInvariant, NEW i \in Inverters
  PROVE  /\ turn[i] \in Turns /\ upsets[i] \in Nat /\ store[i] \in [Blocks -> Parts]
         /\ Waiting(i) \in SUBSET Packets
         /\ \A r \in Waiting(i) : r.part.n \in 1..count
<1>1. turn[i] \in Turns /\ upsets[i] \in Nat /\ store[i] \in [Blocks -> Parts]
  BY DEF RowsInvariant, LoopTypes
<1>2. loopRx.q \in Seq(Packets) /\ DOMAIN loopRx.q = 1..Len(loopRx.q)
  BY DEF RowsInvariant, LoopTypes, Receivers
<1>3. \A k \in 1..Len(loopRx.q) : loopRx.q[k] \in Packets /\ loopRx.q[k].part.n \in 1..count
  BY <1>2 DEF RowsInvariant, QueueInOrder
<1>4. \A r \in ToSet(loopRx.q) : r \in Packets /\ r.part.n \in 1..count
  BY <1>2, <1>3 DEF ToSet
<1> QED BY <1>1, <1>4 DEF Waiting

\* The packet that arrives.
Incoming(kind, i, b, fit) ==
  [kind |-> kind, inv |-> i, block |-> b,
   part |-> [n |-> count + 1, poll |-> turn[i].poll, fit |-> fit]]

LEMMA IncomingType ==
  ASSUME RowsInvariant, NEW kind \in Kinds, NEW i \in Inverters, NEW b \in Blocks, NEW fit \in Fits
  PROVE  /\ Incoming(kind, i, b, fit) \in Packets
         /\ Incoming(kind, i, b, fit).part.poll = turn[i].poll
         /\ Incoming(kind, i, b, fit).kind = kind /\ Incoming(kind, i, b, fit).inv = i
         /\ Incoming(kind, i, b, fit).block = b /\ Incoming(kind, i, b, fit).part.fit = fit
         /\ \A r \in Waiting(i) : r.part.n < Incoming(kind, i, b, fit).part.n
<1>1. turn[i].poll \in Nat /\ count \in Nat
  BY DEF RowsInvariant, LoopTypes, Turns
<1>2. [n |-> count + 1, poll |-> turn[i].poll, fit |-> fit] \in Parts
  BY <1>1 DEF Parts
<1>3. Incoming(kind, i, b, fit) \in Packets /\ Incoming(kind, i, b, fit).part.n = count + 1
  BY <1>2 DEF Incoming, Packets
<1>4. \A r \in Waiting(i) : r.part.n < count + 1
  BY <1>1, WaitingType
<1> QED BY <1>3, <1>4 DEF Incoming

LEMMA ArriveWaits ==
  ASSUME RowsInvariant, NEW kind \in Kinds, NEW i \in Inverters, NEW b \in Blocks,
         NEW fit \in Fits, Arrive(kind, i, b, fit), Live'
  PROVE  /\ Live
         /\ \A j \in Inverters : Waiting(j)' = IF j = i /\ kind # "other"
                                               THEN Waiting(j) \cup {Incoming(kind, i, b, fit)}
                                               ELSE Waiting(j)
<1> DEFINE m == Incoming(kind, i, b, fit)
<1>1. loopRx \in Receivers(Packets) /\ m \in Packets /\ m.kind = kind /\ m.inv = i
  BY IncomingType DEF RowsInvariant, LoopTypes
<1>2. ~exited /\ loopRx' = Push(loopRx, m) /\ ~loopRx'.lagged /\ Databases # {}
  BY DEF Arrive, Live, Incoming
<1> HIDE DEF m
<1>3. Longer(loopRx.q, Push(loopRx, m).q, m) /\ ~loopRx.lagged
  BY <1>1, <1>2, PushElements DEF Receivers
<1>4. loopRx.q \in Seq(Packets) /\ loopRx'.q = Append(loopRx.q, m)
  BY <1>1, <1>2, <1>3 DEF Push, Longer, Receivers
<1>5. ToSet(loopRx'.q) = ToSet(loopRx.q) \cup {m}
  BY <1>1, <1>4, ToSetAppend
<1>6. ASSUME NEW j \in Inverters
      PROVE  Waiting(j)' = IF j = i /\ kind # "other" THEN Waiting(j) \cup {m} ELSE Waiting(j)
  <2>1. Waiting(j)' = {p \in ToSet(loopRx.q) \cup {m} : p.inv = j /\ p.kind # "other"}
    BY <1>5 DEF Waiting
  <2> QED BY <1>1, <2>1 DEF Waiting
<1> QED BY <1>2, <1>3, <1>6 DEF Live, m

\* An inverter's step: its turn, its disturbances and what waits go on together, and
\* the other inverters have nothing of it.
Turning(i, m, W2) ==
  /\ m.part.poll = turn[i].poll /\ \A r \in Waiting(i) : r.part.n < m.part.n
  /\ Turned(turn[i], upsets[i], Waiting(i), m, turn'[i], upsets'[i], W2)
  /\ Live' => Live /\ Waiting(i)' = W2

Unmoved(j) ==
  /\ turn'[j] = turn[j] /\ upsets'[j] = upsets[j]
  /\ Live' => Live /\ Waiting(j)' = Waiting(j)

LEMMA InverterTurns ==
  ASSUME RowsInvariant, NEW i \in Inverters, Inverter(i)
  PROVE  /\ \E m \in Packets : \E W2 \in {Waiting(i), Waiting(i) \cup {m}} : Turning(i, m, W2)
         /\ \A j \in Inverters \ {i} : Unmoved(j)
         /\ store' = store /\ rows' = rows
<1> DEFINE W == Waiting(i)
           t == turn[i]
           u == upsets[i]
<1>1. /\ turn \in [Inverters -> Turns] /\ upsets \in [Inverters -> 0..MaxUpsets] /\ u \in Nat
      /\ BlockOrder[t.next] \in Blocks /\ BlockOrder[1] \in Blocks
      /\ "block" \in Kinds /\ "all" \in Kinds /\ "other" \in Kinds /\ "good" \in Fits
  BY OrderType, RowsAssumption DEF RowsInvariant, LoopTypes, Turns, Kinds, Fits
<1>2. ASSUME NEW fit \in Fits, Block(i, fit)
      PROVE  /\ \E m \in Packets : \E W2 \in {W, W \cup {m}} : Turning(i, m, W2)
             /\ \A j \in Inverters \ {i} : Unmoved(j)
             /\ store' = store /\ rows' = rows
  <2> DEFINE m == Incoming("block", i, BlockOrder[t.next], fit)
  <2>1. Arrive("block", i, BlockOrder[t.next], fit)
    BY <1>2 DEF Block
  <2>2. /\ m \in Packets /\ m.part.poll = t.poll /\ m.kind = "block"
        /\ m.block = BlockOrder[t.next] /\ m.part.fit = fit
        /\ \A r \in W : r.part.n < m.part.n
    BY <1>1, IncomingType
  <2>3. Live' => /\ Live /\ Waiting(i)' = W \cup {m}
                 /\ \A j \in Inverters \ {i} : Waiting(j)' = Waiting(j)
    BY <1>1, <2>1, ArriveWaits
  <2> HIDE DEF m, W
  <2>4. /\ turn' = [turn EXCEPT ![i] = NextTurn(t)]
        /\ \/ fit = "good" /\ upsets' = upsets
           \/ upsets' = [upsets EXCEPT ![i] = u + 1]
    BY <1>2 DEF Block, Upset
  <2>5. /\ turn'[i] = NextTurn(t) /\ upsets'[i] \in {u, u + 1} /\ (upsets'[i] = u => fit = "good")
        /\ \A j \in Inverters \ {i} : turn'[j] = turn[j] /\ upsets'[j] = upsets[j]
    BY <1>1, <2>4
  <2>6. Turned(t, u, W, m, turn'[i], upsets'[i], W \cup {m})
    BY <2>2, <2>5 DEF Turned
  <2>7. Turning(i, m, W \cup {m})
    BY <2>2, <2>3, <2>6 DEF Turning, W
  <2>8. \A j \in Inverters \ {i} : Unmoved(j)
    BY <2>3, <2>5 DEF Unmoved
  <2> QED BY <2>1, <2>2, <2>7, <2>8 DEF Arrive
<1>3. ASSUME LostBlock(i)
      PROVE  /\ \E m \in Packets : \E W2 \in {W, W \cup {m}} : Turning(i, m, W2)
             /\ \A j \in Inverters \ {i} : Unmoved(j)
             /\ store' = store /\ rows' = rows
  <2> DEFINE m == Incoming("block", i, BlockOrder[1], "good")
  <2>1. /\ m \in Packets /\ m.part.poll = t.poll /\ \A r \in W : r.part.n < m.part.n
    BY <1>1, IncomingType
  <2>2. UNCHANGED <<exited, loopRx, store, rows>>
    BY <1>3 DEF LostBlock
  <2>3. /\ Live' = Live /\ \A j \in Inverters : Waiting(j)' = Waiting(j)
    BY <2>2 DEF Live, Waiting
  <2> HIDE DEF m, W
  <2>4. /\ turn' = [turn EXCEPT ![i] = NextTurn(t)] /\ upsets' = [upsets EXCEPT ![i] = u + 1]
    BY <1>3 DEF LostBlock, Upset
  <2>5. /\ turn'[i] = NextTurn(t) /\ upsets'[i] = u + 1
        /\ \A j \in Inverters \ {i} : turn'[j] = turn[j] /\ upsets'[j] = upsets[j]
    BY <1>1, <2>4
  <2>6. Turned(t, u, W, m, turn'[i], upsets'[i], W)
    BY <2>5 DEF Turned
  <2>7. Turning(i, m, W)
    BY <2>1, <2>3, <2>6 DEF Turning, W
  <2>8. \A j \in Inverters \ {i} : Unmoved(j)
    BY <2>3, <2>5 DEF Unmoved
  <2> QED BY <2>1, <2>2, <2>7, <2>8
<1>4. ASSUME NEW kind \in {"block", "all"}, NEW b \in Blocks, Asked(i, kind, b)
      PROVE  /\ \E m \in Packets : \E W2 \in {W, W \cup {m}} : Turning(i, m, W2)
             /\ \A j \in Inverters \ {i} : Unmoved(j)
             /\ store' = store /\ rows' = rows
  <2> DEFINE m == Incoming(kind, i, b, "good")
  <2>1. Arrive(kind, i, b, "good") /\ kind \in Kinds /\ kind # "other"
    BY <1>4 DEF Asked, Kinds
  <2>2. m \in Packets /\ m.part.poll = t.poll /\ \A r \in W : r.part.n < m.part.n
    BY <1>1, <2>1, IncomingType
  <2>3. Live' => /\ Live /\ Waiting(i)' = W \cup {m}
                 /\ \A j \in Inverters \ {i} : Waiting(j)' = Waiting(j)
    BY <1>1, <2>1, ArriveWaits
  <2> HIDE DEF m, W
  <2>4. turn' = turn /\ upsets' = [upsets EXCEPT ![i] = u + 1]
    BY <1>4 DEF Asked, Upset
  <2>5. /\ turn'[i] = t /\ upsets'[i] = u + 1
        /\ \A j \in Inverters \ {i} : turn'[j] = turn[j] /\ upsets'[j] = upsets[j]
    BY <1>1, <2>4
  <2>6. Turned(t, u, W, m, turn'[i], upsets'[i], W \cup {m})
    BY <2>5 DEF Turned
  <2>7. Turning(i, m, W \cup {m})
    BY <2>2, <2>3, <2>6 DEF Turning, W
  <2>8. \A j \in Inverters \ {i} : Unmoved(j)
    BY <2>3, <2>5 DEF Unmoved
  <2> QED BY <2>1, <2>2, <2>7, <2>8 DEF Arrive
<1>5. ASSUME OtherPacket(i)
      PROVE  /\ \E m \in Packets : \E W2 \in {W, W \cup {m}} : Turning(i, m, W2)
             /\ \A j \in Inverters \ {i} : Unmoved(j)
             /\ store' = store /\ rows' = rows
  <2> DEFINE m == Incoming("other", i, BlockOrder[1], "good")
  <2>1. Arrive("other", i, BlockOrder[1], "good") /\ turn' = turn /\ upsets' = upsets
    BY <1>5 DEF OtherPacket
  <2>2. m \in Packets /\ m.part.poll = t.poll /\ \A r \in W : r.part.n < m.part.n
    BY <1>1, IncomingType
  <2>3. Live' => Live /\ \A j \in Inverters : Waiting(j)' = Waiting(j)
    BY <1>1, <2>1, ArriveWaits
  <2> HIDE DEF m, W
  <2>4. Turned(t, u, W, m, turn'[i], upsets'[i], W)
    BY <2>1 DEF Turned
  <2>5. Turning(i, m, W)
    BY <2>2, <2>3, <2>4 DEF Turning, W
  <2>6. \A j \in Inverters \ {i} : Unmoved(j)
    BY <2>1, <2>3 DEF Unmoved
  <2> QED BY <2>1, <2>2, <2>5, <2>6 DEF Arrive
<1> QED BY <1>1, <1>2, <1>3, <1>4, <1>5 DEF Inverter

\* What is said of the polls stays true when an inverter has done a step.
LEMMA PollsInverter ==
  ASSUME PollsInvariant, NEW i \in Inverters, Inverter(i), RowsInvariant'
  PROVE  (\A j \in Inverters : PollsOf(j)') /\ RowsSpanFewPolls'
<1>1. RowsInvariant /\ RowsSpanFewPolls /\ \A j \in Inverters : PollsOf(j)
  BY DEF PollsInvariant
<1>2. /\ \E m \in Packets : \E W2 \in {Waiting(i), Waiting(i) \cup {m}} : Turning(i, m, W2)
      /\ \A j \in Inverters \ {i} : Unmoved(j)
      /\ store' = store /\ rows' = rows
  BY <1>1, InverterTurns
<1>3. PICK m \in Packets : \E W2 \in {Waiting(i), Waiting(i) \cup {m}} : Turning(i, m, W2)
  BY <1>2
<1>4. PICK W2 \in {Waiting(i), Waiting(i) \cup {m}} : Turning(i, m, W2)
  BY <1>3
<1>5. PICK calm \in SUBSET Nat, clean \in SUBSET Nat, oldest \in [Nat -> Nat] :
        PollsKept(i, calm, clean, oldest)
  BY <1>1 DEF PollsOf
<1>6. /\ turn[i] \in Turns /\ upsets[i] \in Nat /\ store[i] \in [Blocks -> Parts]
      /\ Waiting(i) \in SUBSET Packets
  BY <1>1, WaitingType
<1>7. /\ Turned(turn[i], upsets[i], Waiting(i), m, turn'[i], upsets'[i], W2)
      /\ m.part.poll = turn[i].poll /\ \A r \in Waiting(i) : r.part.n < m.part.n
      /\ Live' => Live /\ Waiting(i)' = W2
  BY <1>4 DEF Turning
<1>8. /\ turn'[i] \in Turns /\ (turn'[i].poll = turn[i].poll \/ turn'[i].poll = turn[i].poll + 1)
      /\ upsets'[i] \in Nat /\ (upsets'[i] = upsets[i] \/ upsets'[i] = upsets[i] + 1)
  BY <1>6, <1>7, NextTurnStep DEF Turned
<1>9. PICK calm2 \in SUBSET Nat, clean2 \in SUBSET Nat, oldest2 \in [Nat -> Nat] :
        /\ Polls(turn'[i], upsets'[i], calm2, clean2, oldest2)
        /\ Carried(turn[i], upsets[i], calm, clean, oldest, upsets'[i], calm2, clean2, oldest2)
  <2>1. Polls(turn[i], upsets[i], calm, clean, oldest)
    BY <1>5 DEF PollsKept
  <2> QED BY <1>6, <1>8, <2>1, PollsStep
<1>10. ASSUME Live'
       PROVE  /\ Queued(turn'[i], W2, calm2)
              /\ Gathered(store[i], turn'[i], W2, calm2, clean2, oldest2)
  <2>1. /\ Polls(turn[i], upsets[i], calm, clean, oldest) /\ Queued(turn[i], Waiting(i), calm)
        /\ Gathered(store[i], turn[i], Waiting(i), calm, clean, oldest)
    BY <1>5, <1>7, <1>10 DEF PollsKept
  <2>2. Queued(turn'[i], W2, calm2)
    <3>1. calm2 \in SUBSET (1..turn'[i].poll) /\ turn[i].poll \in 1..turn[i].poll
      BY <1>9, <2>1 DEF Polls, Cleanest, Spread
    <3>2. \A k \in 1..turn[i].poll :
            k \in calm2 => k \in calm /\ (k = turn[i].poll => upsets'[i] = upsets[i])
      BY <1>9 DEF Carried
    <3> QED BY <1>6, <1>7, <2>1, <3>1, <3>2, QueuedStep
  <2>3. Gathered(store[i], turn'[i], W2, calm2, clean2, oldest2)
    BY <1>6, <1>7, <1>9, <2>1, GatheredStep
  <2> QED BY <2>2, <2>3
<1>11. PollsOf(i)'
  <2>1. PollsKept(i, calm2, clean2, oldest2)'
    BY <1>2, <1>7, <1>9, <1>10 DEF PollsKept
  <2> QED BY <2>1 DEF PollsOf
<1>12. ASSUME NEW j \in Inverters \ {i}
       PROVE  PollsOf(j)'
  <2>1. PICK c \in SUBSET Nat, z \in SUBSET Nat, o \in [Nat -> Nat] : PollsKept(j, c, z, o)
    BY <1>1 DEF PollsOf
  <2>2. PollsKept(j, c, z, o)'
    BY <1>2, <2>1 DEF PollsKept, Unmoved
  <2> QED BY <2>2 DEF PollsOf
<1>13. RowsSpanFewPolls'
  <2>1. \A j \in Inverters : upsets[j] \in Nat /\ upsets'[j] \in Nat /\ upsets[j] <= upsets'[j]
    <3>1. ASSUME NEW j \in Inverters
          PROVE  upsets[j] \in Nat /\ upsets'[j] \in Nat /\ upsets[j] <= upsets'[j]
      <4>1. upsets[j] \in Nat /\ (j # i => upsets'[j] = upsets[j])
        BY <1>1, <1>2, WaitingType DEF Unmoved
      <4>2. CASE j = i
        BY <1>8, <4>1, <4>2
      <4> QED BY <4>1, <4>2
    <3> QED BY <3>1
  <2>2. \A n \in DOMAIN rows :
          rows[n].inv \in Inverters /\ \A b \in Blocks : rows[n].parts[b].poll \in Nat
    <3>1. rows \in Seq(Row)
      BY <1>1 DEF RowsInvariant, LoopTypes
    <3>2. \A n \in DOMAIN rows : rows[n] \in Row
      BY <3>1
    <3> QED BY <3>2 DEF Row, Parts
  <2>3. ASSUME NEW n \in DOMAIN rows, NEW b \in Blocks, NEW c \in Blocks
        PROVE  rows[n].parts[b].poll <= rows[n].parts[c].poll + upsets'[rows[n].inv]
    <3>1. rows[n].parts[b].poll <= rows[n].parts[c].poll + upsets[rows[n].inv]
      BY <1>1, <2>3 DEF RowsSpanFewPolls
    <3>2. /\ rows[n].parts[b].poll \in Nat /\ rows[n].parts[c].poll \in Nat
          /\ upsets[rows[n].inv] \in Nat /\ upsets'[rows[n].inv] \in Nat
          /\ upsets[rows[n].inv] <= upsets'[rows[n].inv]
      BY <2>1, <2>2
    <3> QED BY <3>1, <3>2
  <2> QED BY <1>2, <2>3 DEF RowsSpanFewPolls
<1> QED BY <1>11, <1>12, <1>13

\* The packet that the loop takes is the oldest, and what it leaves is the rest.
LEMMA PopWaits ==
  ASSUME RowsInvariant, ProcessPacket, NEW p, p = Head(loopRx.q)
  PROVE  /\ p \in Packets /\ p.part.n \in 1..count
         /\ \A r \in ToSet(loopRx.q) \ {p} : p.part.n < r.part.n
         /\ p \in ToSet(loopRx.q) /\ ToSet(loopRx'.q) = ToSet(loopRx.q) \ {p}
         /\ ~exited /\ ~loopRx.lagged /\ Live' = Live
<1> DEFINE q == loopRx.q
<1>1. /\ ~exited /\ HasMessage(loopRx) /\ loopRx' = Popped(loopRx) /\ exited' = exited
      /\ loopRx \in Receivers(Packets)
  BY DEF ProcessPacket, RowsInvariant, LoopTypes
<1>2. /\ Len(q) \in Nat \ {0} /\ p = q[1] /\ q[1] \in Packets
      /\ Len(loopRx'.q) = Len(q) - 1
      /\ \A k \in 1..(Len(q) - 1) : loopRx'.q[k] = q[k + 1]
      /\ loopRx' \in Receivers(Packets)
  BY <1>1, PopElements, PoppedType
<1>3. /\ DOMAIN q = 1..Len(q) /\ DOMAIN loopRx'.q = 1..(Len(q) - 1)
      /\ loopRx'.lagged = loopRx.lagged /\ ~loopRx.lagged
  BY <1>1, <1>2 DEF Receivers, Popped, HasMessage
<1>4. /\ \A k \in 1..Len(q) : q[k].part.n \in 1..count
      /\ \A j, k \in 1..Len(q) : j < k => q[j].part.n < q[k].part.n
  BY DEF RowsInvariant, QueueInOrder
<1> HIDE DEF q
<1>5. /\ 1 \in 1..Len(q)
      /\ \A k \in 1..Len(q) : k = 1 \/ (1 < k /\ k - 1 \in 1..(Len(q) - 1) /\ k - 1 + 1 = k)
  BY <1>2
<1>6. \A k \in 1..Len(q) : 1 < k => p.part.n < q[k].part.n /\ q[k] # p
  <2>1. ASSUME NEW k \in 1..Len(q), 1 < k
        PROVE  p.part.n < q[k].part.n
    BY <1>2, <1>4, <1>5, <2>1
  <2>2. p.part.n \in Nat
    BY <1>2, <1>4, <1>5
  <2> QED BY <2>1, <2>2
<1>7. \A r \in ToSet(q) \ {p} : p.part.n < r.part.n
  BY <1>2, <1>3, <1>5, <1>6 DEF ToSet
<1>8. ToSet(loopRx'.q) = ToSet(q) \ {p}
  <2>1. ASSUME NEW k \in 1..(Len(q) - 1)
        PROVE  loopRx'.q[k] \in ToSet(q) \ {p}
    <3>1. k + 1 \in 1..Len(q) /\ 1 < k + 1
      BY <1>2
    <3> QED BY <1>2, <1>3, <1>6, <3>1 DEF ToSet
  <2>2. ASSUME NEW k \in 1..Len(q), q[k] # p
        PROVE  q[k] \in ToSet(loopRx'.q)
    <3>1. k - 1 \in 1..(Len(q) - 1) /\ loopRx'.q[k - 1] = q[k]
      BY <1>2, <1>5, <2>2
    <3> QED BY <1>3, <3>1 DEF ToSet
  <2>3. ToSet(loopRx'.q) \subseteq ToSet(q) \ {p}
    BY <1>3, <2>1 DEF ToSet
  <2>4. ToSet(q) \ {p} \subseteq ToSet(loopRx'.q)
    <3>1. \A r \in ToSet(q) : \E k \in 1..Len(q) : r = q[k]
      BY <1>3 DEF ToSet
    <3> QED BY <2>2, <3>1
  <2> QED BY <2>3, <2>4
<1>9. p \in ToSet(q) /\ p.part.n \in 1..count
  BY <1>2, <1>3, <1>4, <1>5 DEF ToSet
<1>10. Live' = Live
  BY <1>1, <1>3 DEF Live
<1> QED BY <1>1, <1>2, <1>3, <1>7, <1>8, <1>9, <1>10 DEF q

\* What it makes of the packet, and of the blocks of its inverter.
LEMMA ProcessMakes ==
  ASSUME RowsInvariant, ProcessPacket, NEW p, p = Head(loopRx.q), Databases # {}
  PROVE  /\ \A j \in Inverters \ {p.inv} : store'[j] = store[j]
         /\ p.kind = "other" => store'[p.inv] = store[p.inv]
         /\ p.kind # "other" => Processed(store[p.inv], p, store'[p.inv])
<1>1. /\ store \in [Inverters -> [Blocks -> Parts]] /\ p \in Packets
      /\ p.inv \in Inverters /\ p.kind \in Kinds /\ p.block \in Blocks
  BY PopWaits DEF RowsInvariant, LoopTypes, Packets
<1>2. \/ ~Stores(p) /\ store' = store
      \/ Stores(p) /\ Complete(p) /\ store' = [store EXCEPT ![p.inv] = NoBlocks]
      \/ Stores(p) /\ ~Complete(p) /\ store' = [store EXCEPT ![p.inv] = Merged(p)]
  BY DEF ProcessPacket, SendRow, Cleared
<1>3. p.kind = "block" => Merged(p) = Added(store[p.inv], p)
  BY DEF Merged, Added
<1>4. /\ Complete(p) <=> (p.kind = "block" => Whole(Added(store[p.inv], p)))
      /\ ~Complete(p) => p.kind = "block"
  BY <1>3 DEF Complete, Whole
<1>5. ~Stores(p) <=> p.kind = "other" \/ p.part.fit = "bad"
  BY DEF Stores
<1>6. CASE ~Stores(p)
  BY <1>2, <1>5, <1>6 DEF Processed
<1>7. CASE Stores(p) /\ Complete(p)
  <2>1. store'[p.inv] = NoBlocks /\ \A j \in Inverters \ {p.inv} : store'[j] = store[j]
    BY <1>1, <1>2, <1>7
  <2> QED BY <1>4, <1>5, <1>7, <2>1 DEF Processed
<1>8. CASE Stores(p) /\ ~Complete(p)
  <2>1. store'[p.inv] = Merged(p) /\ \A j \in Inverters \ {p.inv} : store'[j] = store[j]
    BY <1>1, <1>2, <1>8
  <2> QED BY <1>3, <1>4, <1>5, <1>8, <2>1 DEF Processed
<1> QED BY <1>6, <1>7, <1>8

\* The parts of a row that is made now lie between the oldest poll and the packet's.
LEMMA RowIsNarrow ==
  ASSUME RowsInvariant, NEW p \in Packets, Stores(p), Complete(p), p.part.n # 0,
         p \in Waiting(p.inv), \A r \in Waiting(p.inv) \ {p} : p.part.n < r.part.n,
         Live, PollsOf(p.inv),
         NEW b \in Blocks, NEW c \in Blocks
  PROVE  Merged(p)[b].poll <= Merged(p)[c].poll + upsets[p.inv]
<1> DEFINE i == p.inv
           f == p.part.poll
           t == turn[i]
           s == store[i]
           W == Waiting(i)
<1>1. PICK calm \in SUBSET Nat, clean \in SUBSET Nat, oldest \in [Nat -> Nat] :
        /\ Polls(t, upsets[i], calm, clean, oldest) /\ Queued(t, W, calm)
        /\ Gathered(s, t, W, calm, clean, oldest)
  BY DEF PollsOf, PollsKept
<1>2. /\ i \in Inverters /\ t \in Turns /\ upsets[i] \in Nat
      /\ s \in [Blocks -> Parts] /\ W \in SUBSET Packets
  BY WaitingType DEF Packets
<1>3. f \in 1..t.poll /\ f \in Nat /\ Reached(W, f)
  <2>1. f \in 1..t.poll
    BY <1>1 DEF Queued
  <2>2. Reached(W, f)
    BY <1>1, <1>2, OldestTaken
  <2> QED BY <2>1, <2>2
<1>4. oldest[f] \in Nat /\ oldest[f] <= f /\ f <= oldest[f] + upsets[i]
  BY <1>1, <1>3 DEF Polls, Spread
<1>5. \A d \in Present(s) : s[d].poll \in Nat /\ oldest[f] <= s[d].poll /\ s[d].poll <= f
  <2>1. \A d \in Present(s) : s[d].poll \in Nat
    BY <1>2 DEF Present, Parts
  <2> QED BY <1>1, <1>3, <2>1 DEF Gathered
<1>6. ASSUME NEW d \in Blocks
      PROVE  Merged(p)[d].poll \in Nat /\ oldest[f] <= Merged(p)[d].poll /\ Merged(p)[d].poll <= f
  <2>1. /\ Merged(p)[d] = p.part \/ Merged(p)[d] = s[d]
        /\ Merged(p)[d].n # 0
    BY MergedParts DEF RowsInvariant
  <2>2. CASE Merged(p)[d] = p.part
    BY <1>3, <1>4, <2>2
  <2>3. CASE Merged(p)[d] = s[d]
    BY <1>5, <2>1, <2>3 DEF Present
  <2> QED BY <2>1, <2>2, <2>3
<1>7. /\ Merged(p)[b].poll \in Nat /\ Merged(p)[b].poll <= f
      /\ Merged(p)[c].poll \in Nat /\ oldest[f] <= Merged(p)[c].poll
  BY <1>6
<1> HIDE DEF f, i
<1> QED BY <1>2, <1>3, <1>4, <1>7 DEF i

\* What is said of the polls stays true when the loop has processed a packet, and the
\* row that it made spans few of them.
LEMMA PollsProcess ==
  ASSUME PollsInvariant, ProcessPacket
  PROVE  (\A j \in Inverters : PollsOf(j)') /\ RowsSpanFewPolls'
<1>1. RowsInvariant /\ RowsSpanFewPolls /\ \A j \in Inverters : PollsOf(j)
  BY DEF PollsInvariant
<1>2. PICK p : p = Head(loopRx.q)
  OBVIOUS
<1>3. /\ p \in Packets /\ p.part.n \in 1..count
      /\ \A r \in ToSet(loopRx.q) \ {p} : p.part.n < r.part.n
      /\ p \in ToSet(loopRx.q) /\ ToSet(loopRx'.q) = ToSet(loopRx.q) \ {p}
      /\ ~exited /\ ~loopRx.lagged /\ Live' = Live
  BY <1>1, <1>2, PopWaits
<1>4. p.inv \in Inverters /\ p.part.n # 0
  <2>1. count \in Nat
    BY <1>1 DEF RowsInvariant, LoopTypes
  <2> QED BY <1>3, <2>1 DEF Packets
<1>5. turn' = turn /\ upsets' = upsets
  BY DEF ProcessPacket, inverters
<1>6. \A j \in Inverters :
        Waiting(j)' = IF j = p.inv /\ p.kind # "other" THEN Waiting(j) \ {p} ELSE Waiting(j)
  BY <1>3 DEF Waiting
<1>7. ASSUME NEW j \in Inverters
      PROVE  PollsOf(j)'
  <2>1. PICK calm \in SUBSET Nat, clean \in SUBSET Nat, oldest \in [Nat -> Nat] :
          PollsKept(j, calm, clean, oldest)
    BY <1>1 DEF PollsOf
  <2>2. Polls(turn[j], upsets[j], calm, clean, oldest)
    BY <2>1 DEF PollsKept
  <2>3. ASSUME Live
        PROVE  /\ Queued(turn[j], Waiting(j)', calm)
               /\ Gathered(store'[j], turn[j], Waiting(j)', calm, clean, oldest)
    <3>1. /\ Queued(turn[j], Waiting(j), calm)
          /\ Gathered(store[j], turn[j], Waiting(j), calm, clean, oldest)
      BY <2>1, <2>3 DEF PollsKept
    <3>2. /\ \A k \in Inverters \ {p.inv} : store'[k] = store[k]
          /\ p.kind = "other" => store'[p.inv] = store[p.inv]
          /\ p.kind # "other" => Processed(store[p.inv], p, store'[p.inv])
      BY <1>1, <1>2, <2>3, ProcessMakes DEF Live
    <3>3. CASE j # p.inv \/ p.kind = "other"
      BY <1>6, <3>1, <3>2, <3>3
    <3>4. CASE j = p.inv /\ p.kind # "other"
      <4>1. Waiting(j)' = Waiting(j) \ {p} /\ Processed(store[j], p, store'[j])
        BY <1>6, <3>2, <3>4
      <4>2. p \in Waiting(j) /\ \A r \in Waiting(j) \ {p} : p.part.n < r.part.n
        BY <1>3, <3>4 DEF Waiting
      <4>3. /\ turn[j] \in Turns /\ upsets[j] \in Nat /\ store[j] \in [Blocks -> Parts]
            /\ Waiting(j) \in SUBSET Packets
        BY <1>1, WaitingType
      <4>4. Queued(turn[j], Waiting(j) \ {p}, calm)
        BY <3>1, <4>2, <4>3, OldestTaken
      <4>5. Gathered(store'[j], turn[j], Waiting(j) \ {p}, calm, clean, oldest)
        BY <1>4, <2>2, <3>1, <4>1, <4>2, <4>3, GatheredPop
      <4> QED BY <4>1, <4>4, <4>5
    <3> QED BY <3>3, <3>4
  <2>4. PollsKept(j, calm, clean, oldest)'
    BY <1>3, <1>5, <2>2, <2>3 DEF PollsKept
  <2> QED BY <2>4 DEF PollsOf
<1>8. ASSUME rows' = rows
      PROVE  RowsSpanFewPolls'
  <2>1. RowsSpanFewPolls
    BY <1>1
  <2> QED BY <1>5, <1>8, <2>1 DEF RowsSpanFewPolls
<1>9. ASSUME Stores(p), Complete(p)
      PROVE  RowsSpanFewPolls'
  <2>1. rows' = Append(rows, [inv |-> p.inv, parts |-> Merged(p)]) /\ rows \in Seq(Row)
    BY <1>1, <1>2, <1>9 DEF ProcessPacket, SendRow, RowsInvariant, LoopTypes
  <2>2. Live /\ p \in Waiting(p.inv) /\ \A r \in Waiting(p.inv) \ {p} : p.part.n < r.part.n
    BY <1>3, <1>9 DEF Live, Waiting, Stores
  <2>3. PollsOf(p.inv)
    BY <1>1, <1>4
  <2>4. \A b, c \in Blocks : Merged(p)[b].poll <= Merged(p)[c].poll + upsets[p.inv]
    <3>1. ASSUME NEW b \in Blocks, NEW c \in Blocks
          PROVE  Merged(p)[b].poll <= Merged(p)[c].poll + upsets[p.inv]
      BY <1>1, <1>3, <1>4, <1>9, <2>2, <2>3, RowIsNarrow
    <3> QED BY <3>1
  <2>5. /\ DOMAIN rows' = 1..(Len(rows) + 1) /\ DOMAIN rows = 1..Len(rows) /\ Len(rows) \in Nat
        /\ \A n \in 1..Len(rows) : rows'[n] = rows[n]
        /\ rows'[Len(rows) + 1] = [inv |-> p.inv, parts |-> Merged(p)]
    BY <2>1
  <2>6. \A n \in DOMAIN rows' : n \in DOMAIN rows \/ n = Len(rows) + 1
    BY <2>5
  <2>7. \A n \in DOMAIN rows, b, c \in Blocks :
          rows[n].parts[b].poll <= rows[n].parts[c].poll + upsets[rows[n].inv]
    BY <1>1 DEF RowsSpanFewPolls
  <2>8. ASSUME NEW n \in DOMAIN rows', NEW b \in Blocks, NEW c \in Blocks
        PROVE  rows'[n].parts[b].poll <= rows'[n].parts[c].poll + upsets'[rows'[n].inv]
    <3>1. CASE n \in DOMAIN rows
      <4>1. rows'[n] = rows[n]
        BY <2>5, <3>1
      <4> QED BY <1>5, <2>7, <3>1, <4>1
    <3>2. CASE n = Len(rows) + 1
      <4>1. rows'[n].parts = Merged(p) /\ rows'[n].inv = p.inv
        BY <2>5, <3>2
      <4> QED BY <1>5, <2>4, <4>1
    <3> QED BY <2>6, <3>1, <3>2
  <2> QED BY <2>8 DEF RowsSpanFewPolls
<1>10. rows' = rows \/ (Stores(p) /\ Complete(p))
  BY <1>2 DEF ProcessPacket
<1> QED BY <1>7, <1>8, <1>9, <1>10

LEMMA PollsInit == ASSUME Init PROVE PollsInvariant
<1>1. RowsInvariant
  BY InvariantInit
<1>2. RowsSpanFewPolls
  BY DEF Init, RowsSpanFewPolls
<1>3. ASSUME NEW i \in Inverters
      PROVE  PollsOf(i)
  <2> DEFINE t == turn[i]
             oldest == [n \in Nat |-> 1]
  <2>1. t.poll = 1 /\ t.next = 1 /\ upsets[i] = 0 /\ store[i] = NoBlocks
    BY <1>3 DEF Init
  <2>2. Waiting(i) = {}
    <3>1. ToSet(loopRx.q) = {}
      BY SubscribedType DEF Init
    <3> QED BY <3>1 DEF Waiting
  <2>3. Present(NoBlocks) = {} /\ \A b \in Blocks : NoBlocks[b].n = 0
    BY DEF Present, NoBlocks, NoPart
  <2>4. oldest \in [Nat -> Nat] /\ oldest[1] = 1 /\ {1} \in SUBSET Nat
    OBVIOUS
  <2> HIDE DEF t, oldest
  <2>5. Spread(t, 0, {1}, oldest)
    <3>1. \A k \in 1..1 : k = 1
      OBVIOUS
    <3> QED BY <2>1, <2>4, <3>1 DEF Spread
  <2>6. Chained(t, {1}, {1}, oldest)
    <3>1. (\A k \in 1..1 : k = 1) /\ 1..(1 - 1) = {}
      OBVIOUS
    <3> QED BY <2>1, <2>4, <3>1 DEF Chained
  <2>7. Cleanest(t, 0, {1}, {1})
    <3>1. 1..1 = {1}
      OBVIOUS
    <3> QED BY <2>1, <3>1 DEF Cleanest
  <2>8. Queued(t, {}, {1})
    BY DEF Queued, Waits
  <2>9. Gone(t, {}, 1) = {}
    BY <2>1 DEF Gone, Came
  <2>10. Gathered(NoBlocks, t, {}, {1}, {1}, oldest)
    BY <2>3, <2>9 DEF Gathered, Taken, Reached
  <2>11. PollsKept(i, {1}, {1}, oldest)
    BY <2>1, <2>2, <2>5, <2>6, <2>7, <2>8, <2>10 DEF PollsKept, Polls, t
  <2> QED BY <2>4, <2>11 DEF PollsOf
<1> QED BY <1>1, <1>2, <1>3 DEF PollsInvariant

LEMMA PollsNext == ASSUME PollsInvariant, [Next]_vars PROVE PollsInvariant'
<1>1. RowsInvariant'
  BY InvariantNext DEF PollsInvariant
<1>2. CASE \E i \in Inverters : Inverter(i)
  BY <1>1, <1>2, PollsInverter DEF PollsInvariant
<1>3. CASE ProcessPacket
  BY <1>1, <1>3, PollsProcess DEF PollsInvariant
<1>4. CASE LoopExit \/ UNCHANGED vars \/ \E d \in Databases : Database(d)
  <2>1. /\ exited' \in {exited, TRUE} /\ UNCHANGED <<turn, upsets, loopRx, store, rows>>
    BY <1>4 DEF LoopExit, vars, inverters, Database, Subscribe, Opened, Refused, Take, Insert,
                InsertFails, Lagged
  <2>2. RowsSpanFewPolls'
    BY <2>1 DEF PollsInvariant, RowsSpanFewPolls
  <2>3. ASSUME NEW i \in Inverters
        PROVE  PollsOf(i)'
    <3>1. PICK calm \in SUBSET Nat, clean \in SUBSET Nat, oldest \in [Nat -> Nat] :
            PollsKept(i, calm, clean, oldest)
      BY DEF PollsInvariant, PollsOf
    <3>2. Live' => Live
      BY <2>1 DEF Live
    <3>3. PollsKept(i, calm, clean, oldest)'
      BY <2>1, <3>1, <3>2 DEF PollsKept, Waiting
    <3> QED BY <3>3 DEF PollsOf
  <2> QED BY <1>1, <2>2, <2>3 DEF PollsInvariant
<1> QED BY <1>2, <1>3, <1>4 DEF Next

\* The parts of one row come from polls no further apart than the polls of that
\* inverter have been disturbed: what is stored is never older than the oldest poll,
\* and only a disturbed poll leaves the oldest one behind.
THEOREM RowsAreNarrow == Spec => []RowsSpanFewPolls
<1>1. PollsInvariant => RowsSpanFewPolls
  BY DEF PollsInvariant
<1> QED BY <1>1, PollsInit, PollsNext, PTL DEF Spec
==============================================================================
