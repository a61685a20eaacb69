------------------------------- MODULE Identity -------------------------------
(***************************************************************************)
(* How the configuration learns the serials of the inverters and of their  *)
(* data loggers.  Each reader compares what it has passed on with the      *)
(* entry of its host, the coordinator's loop compares what it receives     *)
(* with the entry of the packet's data logger, and both change the         *)
(* configuration they share.  Each look at it and each change locks it     *)
(* anew, and a change names the old value and not the entry.               *)
(*                                                                         *)
(* The entries have different hosts, so an entry stands for its host.      *)
(***************************************************************************)
EXTENDS Naturals, Sequences, Broadcast

CONSTANTS
  Count,     \* entries under inverters:
  Enabled,   \* those that are enabled
  Truth,     \* for each of them, the values the packets from its host carry
  Configs    \* the configurations the bridge may be started with

Entries == 1..Count
Fields  == {"datalog", "serial"}
Serials == UNION {{c[e][f] : f \in Fields} : c \in Configs, e \in Entries}
             \cup {Truth[e][f] : e \in Enabled, f \in Fields}
Hosts   == [Fields -> Serials]

\* A packet, as far as the identities go: whose it is, and whether it has a serial.
Packets == [from : Enabled, translated : BOOLEAN]

ASSUME IdentityAssumption ==
  /\ Count \in Nat /\ Enabled \subseteq Entries
  /\ Truth \in [Enabled -> Hosts]
  /\ Configs \subseteq [Entries -> Hosts]

VARIABLES
  configured,  \* history: the configuration at the start
  strict,      \* strict_data_check
  conf,        \* the entries now
  step,        \* what each reader does next
  checks,      \* which field it is about, and whether the serial follows
  old,         \* the value it is about to replace
  loopRx,      \* the loop's receiver of from_inverter
  pending,     \* the change of a serial process_packet is about to make
  exited       \* the coordinator's loop has ended

settings == <<configured, strict>>
readers  == <<step, checks, old>>
vars     == <<settings, conf, readers, loopRx, pending, exited>>

Nothing == [old |-> "", new |-> ""]

Init ==
  /\ configured \in Configs /\ strict \in BOOLEAN /\ conf = configured
  /\ step = [e \in Enabled |-> "read"]
  /\ checks = [e \in Enabled |-> [field |-> "datalog", translated |-> FALSE]]
  /\ old = [e \in Enabled |-> ""]
  /\ loopRx = Subscribed /\ pending = Nothing /\ exited = FALSE

Having(f, v) == {e \in Entries : conf[e][f] = v}
First(s)     == CHOOSE e \in s : \A other \in s : e <= other

\* Mutant: the first entry is changed, whatever it has.
ReplacesInFirst(f, was, is) == conf' = [conf EXCEPT ![1][f] = is]

\* update_inverter_datalog and update_inverter_serial: the first entry that has the
\* old value gets the new one; when there is none the error is only logged.
Replaces(f, was, is) ==
  conf' = IF Having(f, was) = {} THEN conf
          ELSE [conf EXCEPT ![First(Having(f, was))][f] = is]
------------------------------------------------------------------------------
(***************************************************************************)
(* The reader of entry e.                                                  *)
(***************************************************************************)

\* A packet is decoded and passed on, translated data or not; then it is compared.
Receive(e, translated) ==
  /\ step[e] = "read"
  /\ step' = [step EXCEPT ![e] = "compare"]
  /\ checks' = [checks EXCEPT ![e] = [field |-> "datalog", translated |-> translated]]
  /\ loopRx' = IF exited THEN loopRx ELSE Push(loopRx, [from |-> e, translated |-> translated])
  /\ UNCHANGED <<settings, conf, old, pending, exited>>

\* Mutant: the serial is not compared after the data logger.
ProceedWithNothing(e) == step' = [step EXCEPT ![e] = "read"] /\ UNCHANGED checks

\* The comparison of a field is over: the serial of translated data follows.
Proceed(e) ==
  IF checks[e].field = "datalog" /\ checks[e].translated
  THEN /\ step' = [step EXCEPT ![e] = "compare"]
       /\ checks' = [checks EXCEPT ![e].field = "serial"]
  ELSE step' = [step EXCEPT ![e] = "read"] /\ UNCHANGED checks

Differs(e) == conf[e][checks[e].field] # Truth[e][checks[e].field]

\* Mutant: strict_data_check does not matter.
CompareLoosely(e) ==
  /\ step[e] = "compare"
  /\ IF Differs(e)
     THEN step' = [step EXCEPT ![e] = "lookup"] /\ UNCHANGED checks
     ELSE Proceed(e)
  /\ UNCHANGED <<settings, conf, old, loopRx, pending, exited>>

Compare(e) ==
  /\ step[e] = "compare"
  /\ IF Differs(e) /\ ~strict
     THEN step' = [step EXCEPT ![e] = "lookup"] /\ UNCHANGED checks
     ELSE Proceed(e)
  /\ UNCHANGED <<settings, conf, old, loopRx, pending, exited>>

\* self.config() once more, for the value to replace.
Lookup(e) ==
  /\ step[e] = "lookup"
  /\ step' = [step EXCEPT ![e] = "replace"]
  /\ old' = [old EXCEPT ![e] = conf[e][checks[e].field]]
  /\ UNCHANGED <<settings, conf, checks, loopRx, pending, exited>>

Replace(e) ==
  /\ step[e] = "replace"
  /\ Replaces(checks[e].field, old[e], Truth[e][checks[e].field])
  /\ Proceed(e)
  /\ UNCHANGED <<settings, old, loopRx, pending, exited>>

(***************************************************************************)
(* process_packet of the coordinator's loop.                               *)
(***************************************************************************)

\* The enabled entries with the packet's data logger.
Known(p) == Having("datalog", Truth[p.from]["datalog"]) \cap Enabled

\* A serial that differs is to be replaced, strict_data_check or not.  (For a data
\* logger that no entry has, the code replaces its value by itself.)
ProcessPacket ==
  /\ ~exited /\ pending = Nothing /\ HasMessage(loopRx)
  /\ loopRx' = Popped(loopRx)
  /\ LET p   == Head(loopRx.q)
         has == conf[First(Known(p))]["serial"]
         new == Truth[p.from]["serial"]
     IN pending' = IF p.translated /\ Known(p) # {} /\ has # new
                   THEN [old |-> has, new |-> new] ELSE Nothing
  /\ UNCHANGED <<settings, conf, readers, exited>>

\* Mutant: the change stays to be made.
ProcessReplaceAgain ==
  /\ pending # Nothing
  /\ Replaces("serial", pending.old, pending.new)
  /\ exited' = (exited \/ HasLagged(loopRx))
  /\ UNCHANGED <<settings, readers, loopRx, pending>>

ProcessReplace ==
  /\ pending # Nothing
  /\ Replaces("serial", pending.old, pending.new)
  /\ pending' = Nothing
  /\ UNCHANGED <<settings, readers, loopRx, exited>>

LoopExit ==
  /\ ~exited /\ pending = Nothing /\ HasLagged(loopRx)
  /\ exited' = TRUE
  /\ UNCHANGED <<settings, conf, readers, loopRx, pending>>

Check(e) == Compare(e) \/ Lookup(e) \/ Replace(e)

Next ==
  \/ \E e \in Enabled : (\E translated \in BOOLEAN : Receive(e, translated)) \/ Check(e)
  \/ ProcessPacket \/ ProcessReplace \/ LoopExit

Spec == Init /\ [][Next]_vars

\* The tasks go on, and every inverter sends translated data again and again.
FairSpec ==
  /\ Spec
  /\ \A e \in Enabled : WF_vars(Check(e)) /\ SF_vars(Receive(e, TRUE))
  /\ WF_vars(ProcessPacket) /\ WF_vars(ProcessReplace)
------------------------------------------------------------------------------
(***************************************************************************)
(* Properties.                                                             *)
(***************************************************************************)

\* Every variable has its type, and a loop that has ended left no change half made.
TypeOK ==
  /\ configured \in Configs /\ strict \in BOOLEAN /\ conf \in [Entries -> Hosts]
  /\ step \in [Enabled -> {"read", "compare", "lookup", "replace"}]
  /\ checks \in [Enabled -> [field : Fields, translated : BOOLEAN]]
  /\ old \in [Enabled -> Serials \cup {""}]
  /\ loopRx \in Receivers(Packets)
  /\ pending \in [old : Serials, new : Serials] \cup {Nothing}
  /\ exited \in BOOLEAN
  /\ exited => pending = Nothing

\* The values an entry may have: what it was given, and what its host sends.
Own(e, f) == {configured[e][f]} \cup {Truth[h][f] : h \in {e} \cap Enabled}

\* Every entry has a value of its own, not another host's.
OnlyThatHost == \A e \in Entries, f \in Fields : conf[e][f] \in Own(e, f)

\* No value was given to two entries, or to one while another one's host sends it.
Unmistakable ==
  \A e1, e2 \in Entries, f \in Fields : e1 # e2 => Own(e1, f) \cap Own(e2, f) = {}

\* However the tasks overtake each other with what they have looked up, an entry never
\* gets a value of another one, nor does a disabled entry change, as long as the
\* values tell the entries apart.
OwnValues == Unmistakable => OnlyThatHost

\* With strict_data_check no data logger is replaced.
StrictKeepsDatalogs ==
  strict => \A e \in Entries : conf[e]["datalog"] = configured[e]["datalog"]

\* Without it, every enabled entry has the right values in the end and keeps them, as
\* long as the values tell the entries apart.
Learned == Unmistakable /\ ~strict => <>[](\A e \in Enabled : conf[e] = Truth[e])
==============================================================================
