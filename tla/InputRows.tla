------------------------------ MODULE InputRows ------------------------------
(***************************************************************************)
(* From the input blocks of the inverters to the rows of the databases:    *)
(* process_packet of the coordinator's loop, which gathers the blocks of   *)
(* each inverter in inputs_store until they make a row, and the task of    *)
(* each database with its connections, its attempts and its end.           *)
(*                                                                         *)
(* An inverter (its data logger) sends its input blocks poll after poll, a *)
(* poll in the order of BlockOrder.  The rows are numbered in the order    *)
(* they are made.  Only the properties read `poll`, `n` and the histories. *)
(***************************************************************************)
EXTENDS Naturals, Sequences, SequencesExt, Broadcast

CONSTANTS
  Inverters,
  BlockOrder,         \* the input blocks, in the order of a poll
  Databases,          \* the enabled databases
  Attempts,           \* attempts to insert a row (3)
  MaxPackets,         \* bound: packets of the inverters
  MaxUpsets,          \* bound: disturbances of each inverter's polls
  MaxFailures         \* bound: connections to a database that are refused

Blocks == ToSet(BlockOrder)

ASSUME RowsAssumption ==
  /\ BlockOrder \in Seq(Blocks) /\ BlockOrder # <<>> /\ IsInjective(BlockOrder)
  /\ Attempts \in Nat \ {0}
  /\ MaxPackets \in Nat /\ MaxUpsets \in Nat /\ MaxFailures \in Nat

\* "block": ReadInput of one block; "all": ReadInput of all registers at once.
Kinds == {"block", "all", "other"}

\* "bad" values cannot be decoded; "odd" ones can, but ReadInputAll::validate fails.
Fits == {"good", "odd", "bad"}

Parts   == [n : Nat, poll : Nat, fit : Fits]
Packets == [kind : Kinds, inv : Inverters, block : Blocks, part : Parts]

VARIABLES
  turn,        \* each inverter's poll under way, and which of its blocks is next
  count,       \* packets that have arrived
  upsets,      \* history: the disturbances of each inverter's polls
  exited,      \* the coordinator's loop has ended
  loopRx,      \* the loop's receiver of from_inverter
  store,       \* inputs_store: what came last of each block (NoPart: nothing yet)
  rows,        \* history: the rows made, each with its inverter and its parts
  dbRx,        \* each database's receiver of to_database
  db,          \* each database's task
  hand,        \* the row it is about to insert, 0 when there is none
  tries,       \* the attempts it has made to
  stored,      \* history: the rows in the database's table
  failures     \* counter of the bound

inverters == <<turn, count, upsets>>
databases == <<dbRx, db, hand, tries, stored>>
vars      == <<inverters, exited, loopRx, store, rows, databases, failures>>

NoPart   == [n |-> 0, poll |-> 0, fit |-> "good"]
NoBlocks == [b \in Blocks |-> NoPart]
------------------------------------------------------------------------------
Init ==
  /\ turn = [i \in Inverters |-> [poll |-> 1, next |-> 1]]
  /\ count = 0 /\ upsets = [i \in Inverters |-> 0]
  /\ exited = FALSE /\ loopRx = Subscribed
  /\ store = [i \in Inverters |-> NoBlocks] /\ rows = <<>>
  /\ dbRx = [d \in Databases |-> Subscribed]
  /\ db = [d \in Databases |-> "connecting"]
  /\ hand = [d \in Databases |-> 0] /\ tries = [d \in Databases |-> 0]
  /\ stored = [d \in Databases |-> <<>>]
  /\ failures = 0

(***************************************************************************)
(* The inverters, through the readers of their connections.                *)
(***************************************************************************)

\* handle_incoming_packet: the packet goes to from_inverter, which the loop receives
\* until it has ended.
Arrive(kind, i, b, fit) ==
  /\ count < MaxPackets /\ count' = count + 1
  /\ loopRx' = IF exited THEN loopRx
               ELSE Push(loopRx, [kind |-> kind, inv |-> i, block |-> b,
                                  part |-> [n |-> count + 1, poll |-> turn[i].poll, fit |-> fit]])
  /\ UNCHANGED <<exited, store, rows, databases, failures>>

NextTurn(t) ==
  IF t.next = Len(BlockOrder) THEN [poll |-> t.poll + 1, next |-> 1]
  ELSE [t EXCEPT !.next = @ + 1]

\* Something that is not in the order of inverter i's polls.
Upset(i) ==
  /\ upsets[i] < MaxUpsets
  /\ upsets' = [upsets EXCEPT ![i] = @ + 1]

\* The next block of a poll, as it should be or with values that are not.
Block(i, fit) ==
  /\ Arrive("block", i, BlockOrder[turn[i].next], fit)
  /\ turn' = [turn EXCEPT ![i] = NextTurn(@)]
  /\ IF fit = "good" THEN UNCHANGED upsets ELSE Upset(i)

\* A block of a poll does not come.
LostBlock(i) ==
  /\ Upset(i)
  /\ turn' = [turn EXCEPT ![i] = NextTurn(@)]
  /\ UNCHANGED <<count, exited, loopRx, store, rows, databases, failures>>

\* A block, or all of them at once, that was asked for apart from the polls.
Asked(i, kind, b) ==
  /\ Arrive(kind, i, b, "good")
  /\ Upset(i)
  /\ UNCHANGED turn

\* A packet of another kind.
OtherPacket(i) ==
  /\ Arrive("other", i, BlockOrder[1], "good")
  /\ UNCHANGED <<turn, upsets>>

(***************************************************************************)
(* The coordinator's loop.                                                 *)
(***************************************************************************)

\* The blocks of p's inverter, with those of p among them.
Merged(p) ==
  IF p.kind = "all" THEN [b \in Blocks |-> p.part]
  ELSE [store[p.inv] EXCEPT ![p.block] = p.part]

\* Mutants: a block that is missing is not noticed; the blocks of a row stay.
CompleteAnyway(p) == \A b \in Blocks : Merged(p)[b].fit = "good"
ClearedNot(p) == Merged(p)

\* to_input_all: every block is there, and what they make together is valid.  A
\* ReadInputAll is taken as it is.
Complete(p) ==
  p.kind = "block" => \A b \in Blocks : Merged(p)[b].n # 0 /\ Merged(p)[b].fit = "good"

\* What is left of an inverter's blocks when they have made a row.
Cleared(p) == NoBlocks

\* Only decoded input blocks matter here, and they only with a database enabled.
Stores(p) == Databases # {} /\ p.kind # "other" /\ p.part.fit # "bad"

\* The databases that receive to_database.
Listening == {d \in Databases : db[d] \in {"opening", "idle", "busy"}}

\* A row leaves the store before it is sent, to whoever listens.
SendRow(p) ==
  /\ store' = [store EXCEPT ![p.inv] = Cleared(p)]
  /\ rows' = Append(rows, [inv |-> p.inv, parts |-> Merged(p)])
  /\ dbRx' = [d \in Databases |-> IF d \in Listening THEN Push(dbRx[d], Len(rows) + 1)
                                  ELSE dbRx[d]]

ProcessPacket ==
  /\ ~exited /\ HasMessage(loopRx)
  /\ loopRx' = Popped(loopRx)
  /\ LET p == Head(loopRx.q)
     IN IF ~Stores(p) THEN UNCHANGED <<store, rows, dbRx>>
        ELSE IF Complete(p) THEN SendRow(p)
        ELSE store' = [store EXCEPT ![p.inv] = Merged(p)] /\ UNCHANGED <<rows, dbRx>>
  /\ UNCHANGED <<inverters, exited, db, hand, tries, stored, failures>>

LoopExit ==
  /\ ~exited /\ HasLagged(loopRx)
  /\ exited' = TRUE
  /\ UNCHANGED <<inverters, loopRx, store, rows, databases, failures>>

(***************************************************************************)
(* The task of a database.                                                 *)
(***************************************************************************)

\* start() has connected and migrated; inserter() subscribes and connects again.
Subscribe(d) ==
  /\ db[d] = "connecting"
  /\ db' = [db EXCEPT ![d] = "opening"]
  /\ UNCHANGED <<inverters, exited, loopRx, store, rows, dbRx, hand, tries, stored, failures>>

Opened(d) ==
  /\ db[d] = "opening"
  /\ db' = [db EXCEPT ![d] = "idle"]
  /\ UNCHANGED <<inverters, exited, loopRx, store, rows, dbRx, hand, tries, stored, failures>>

\* One of the connections is refused: the task ends, and is not started again.
Refused(d) ==
  /\ db[d] \in {"connecting", "opening"} /\ failures < MaxFailures
  /\ failures' = failures + 1
  /\ db' = [db EXCEPT ![d] = "ended"]
  /\ UNCHANGED <<inverters, exited, loopRx, store, rows, dbRx, hand, tries, stored>>

Take(d) ==
  /\ db[d] = "idle" /\ HasMessage(dbRx[d])
  /\ db' = [db EXCEPT ![d] = "busy"]
  /\ hand' = [hand EXCEPT ![d] = Head(dbRx[d].q)]
  /\ tries' = [tries EXCEPT ![d] = 0]
  /\ dbRx' = [dbRx EXCEPT ![d] = Popped(@)]
  /\ UNCHANGED <<inverters, exited, loopRx, store, rows, stored, failures>>

\* The row is stored.  (The statement as it stands has 91 placeholders for 68 columns,
\* which PostgreSQL refuses: then every attempt is an InsertFails.)
Insert(d) ==
  /\ db[d] = "busy"
  /\ db' = [db EXCEPT ![d] = "idle"] /\ hand' = [hand EXCEPT ![d] = 0]
  /\ stored' = [stored EXCEPT ![d] = Append(@, hand[d])]
  /\ UNCHANGED <<inverters, exited, loopRx, store, rows, dbRx, tries, failures>>

\* Mutants: the attempts are not counted; one more than the code's is made.
InsertFailsForEver(d) ==
  /\ db[d] = "busy"
  /\ tries' = [tries EXCEPT ![d] = (@ + 1) % Attempts]
  /\ UNCHANGED <<inverters, exited, loopRx, store, rows, dbRx, db, hand, stored, failures>>
InsertFailsOnceMore(d) ==
  /\ db[d] = "busy"
  /\ stored' \in {stored, [stored EXCEPT ![d] = Append(@, hand[d])]}
  /\ tries' = [tries EXCEPT ![d] = @ + 1]
  /\ IF tries[d] = Attempts
     THEN db' = [db EXCEPT ![d] = "idle"] /\ hand' = [hand EXCEPT ![d] = 0]
     ELSE UNCHANGED <<db, hand>>
  /\ UNCHANGED <<inverters, exited, loopRx, store, rows, dbRx, failures>>

\* An INSERT fails, perhaps after the database has done it; after the last attempt
\* the row is given up.
InsertFails(d) ==
  /\ db[d] = "busy"
  /\ stored' \in {stored, [stored EXCEPT ![d] = Append(@, hand[d])]}
  /\ tries' = [tries EXCEPT ![d] = @ + 1]
  /\ IF tries[d] + 1 = Attempts
     THEN db' = [db EXCEPT ![d] = "idle"] /\ hand' = [hand EXCEPT ![d] = 0]
     ELSE UNCHANGED <<db, hand>>
  /\ UNCHANGED <<inverters, exited, loopRx, store, rows, dbRx, failures>>

\* Rows were lost: `recv().await?` ends the task.
Lagged(d) ==
  /\ db[d] = "idle" /\ HasLagged(dbRx[d])
  /\ db' = [db EXCEPT ![d] = "ended"]
  /\ UNCHANGED <<inverters, exited, loopRx, store, rows, dbRx, hand, tries, stored, failures>>

Inverter(i) ==
  \/ \E fit \in Fits : Block(i, fit)
  \/ LostBlock(i)
  \/ \E b \in Blocks : Asked(i, "block", b)
  \/ Asked(i, "all", BlockOrder[1])
  \/ OtherPacket(i)

Database(d) ==
  \/ Subscribe(d) \/ Opened(d) \/ Refused(d)
  \/ Take(d) \/ Insert(d) \/ InsertFails(d) \/ Lagged(d)

Next ==
  \/ \E i \in Inverters : Inverter(i)
  \/ ProcessPacket \/ LoopExit
  \/ \E d \in Databases : Database(d)

Spec == Init /\ [][Next]_vars

\* The tasks go on while they have something to do.  A connection is made or refused
\* within acquire_timeout; nothing makes an INSERT return.
FairSpec ==
  /\ Spec
  /\ WF_vars(ProcessPacket) /\ WF_vars(LoopExit)
  /\ \A d \in Databases : WF_vars(Opened(d) \/ Refused(d)) /\ WF_vars(Take(d) \/ Lagged(d))
------------------------------------------------------------------------------
(***************************************************************************)
(* Properties.                                                             *)
(***************************************************************************)

\* Every variable has its type; a task is busy exactly while it has a row in hand.
TypeOK ==
  /\ turn \in [Inverters -> [poll : Nat, next : DOMAIN BlockOrder]]
  /\ count \in 0..MaxPackets /\ upsets \in [Inverters -> 0..MaxUpsets]
  /\ exited \in BOOLEAN /\ loopRx \in Receivers(Packets)
  /\ store \in [Inverters -> [Blocks -> Parts]]
  /\ rows \in Seq([inv : Inverters, parts : [Blocks -> Parts]])
  /\ dbRx \in [Databases -> Receivers(Nat)]
  /\ db \in [Databases -> {"connecting", "opening", "idle", "busy", "ended"}]
  /\ hand \in [Databases -> Nat] /\ tries \in [Databases -> 0..Attempts]
  /\ stored \in [Databases -> Seq(Nat)]
  /\ failures \in 0..MaxFailures
  /\ \A d \in Databases : db[d] = "busy" <=> hand[d] # 0

\* The parts of one row come from polls no further apart than the polls of that
\* inverter have been disturbed: with no block lost, broken or asked for apart, a
\* row is one poll.  One disturbance is enough for every later row to mix two
\* polls, for ever: inputs_store does not know where a poll begins.
RowsSpanFewPolls ==
  \A m \in DOMAIN rows : \A b, c \in Blocks :
    rows[m].parts[b].poll <= rows[m].parts[c].poll + upsets[rows[m].inv]

\* No packet is part of two rows, and rows of one inverter do not overlap in time:
\* all that one was made of arrived before all that the next one was made of.
NoBlockTwice ==
  \A m, n \in DOMAIN rows :
    m < n /\ rows[m].inv = rows[n].inv =>
      \A b, c \in Blocks : rows[m].parts[b].n < rows[n].parts[c].n

\* What a database's table may be, given the rows made: see module Delivery.
Table(d) == INSTANCE Delivery WITH
              Copies <- Attempts, MayDrop <- TRUE, sent <- Len(rows), delivered <- stored[d]

\* A database has rows in the order they were made, none more often than it was
\* tried; it may miss some (made before it listened, given up, or after its end).
DatabasesDeliver ==
  /\ \A d \in Databases : Table(d)!Init
  /\ [][\A d \in Databases : Table(d)!Next \/ UNCHANGED <<Len(rows), stored[d]>>]_vars

\* An INSERT that fails does not hold up the rows behind it for ever: as long as the
\* INSERTs return, well or not, what waits for a database is stored, given up, or lost
\* with its task.
InsertsReturn(d) == WF_vars(Insert(d) \/ InsertFails(d))
RowsAreDone ==
  \A d \in Databases :
    InsertsReturn(d) => []<>(db[d] = "ended" \/ (dbRx[d].q = <<>> /\ hand[d] = 0))
==============================================================================
