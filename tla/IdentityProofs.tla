---------------------------- MODULE IdentityProofs ----------------------------
(***************************************************************************)
(* Proofs about Identity, for any number of entries, any configurations    *)
(* and any capacity: an entry only ever gets values of its own, and        *)
(* strict_data_check keeps the data loggers.                               *)
(***************************************************************************)
EXTENDS Identity, BroadcastProofs, NaturalsInduction, WellFoundedInduction

------------------------------------------------------------------------------
(* Types.                                                                  *)

LEMMA ConfigType ==
  ASSUME NEW c \in Configs, NEW e \in Entries, NEW f \in Fields
  PROVE  c \in [Entries -> Hosts] /\ c[e] \in Hosts /\ c[e][f] \in Serials
  BY IdentityAssumption DEF Hosts

LEMMA TruthType ==
  ASSUME NEW e \in Enabled, NEW f \in Fields
  PROVE  Truth[e] \in Hosts /\ Truth[e][f] \in Serials /\ e \in Entries
  BY IdentityAssumption DEF Hosts

\* A set of numbers has a least one: the first entry with a value is an entry.
LEMMA LeastNumber ==
  ASSUME NEW S \in SUBSET Nat, S # {}
  PROVE  \E m \in S : \A n \in S : m <= n
<1> DEFINE R == OpToRel(<, Nat)
<1>1. IsWellFoundedOn(R, Nat)
  BY NatLessThanWellFounded
<1>2. \E x \in S : \A y \in S : ~(<<y, x>> \in R)
  <2> HIDE DEF R
  <2> QED BY <1>1, WFMin
<1>3. \A x, y \in Nat : <<y, x>> \in R <=> y < x
  BY DEF OpToRel
<1> HIDE DEF R
<1>4. PICK m \in S : \A y \in S : <<y, m>> \notin R
  BY <1>2, Zenon
<1>5. \A n \in S : ~(n < m)
  BY <1>3, <1>4, Zenon
<1>6. \A n \in S : m <= n
  BY <1>5
<1> QED BY <1>6

LEMMA FirstType ==
  ASSUME NEW S \in SUBSET Entries, S # {}
  PROVE  First(S) \in S
<1>1. S \in SUBSET Nat
  BY DEF Entries
<1> QED BY <1>1, LeastNumber DEF First

\* Whichever entry has the old value, if any, what a change leaves are entries.
LEMMA ReplacesType ==
  ASSUME conf \in [Entries -> Hosts], NEW f \in Fields, NEW was, NEW is \in Serials,
         Replaces(f, was, is)
  PROVE  conf' \in [Entries -> Hosts]
<1> DEFINE x == First(Having(f, was))
<1>1. conf' = conf \/ conf' = [conf EXCEPT ![x][f] = is]
  BY DEF Replaces
<1>2. CASE conf' = conf
  BY <1>2
<1>3. CASE conf' = [conf EXCEPT ![x][f] = is]
  <2> HIDE DEF x
  <2>1. CASE x \in Entries
    <3>1. conf[x] \in Hosts
      BY <2>1
    <3>2. [conf[x] EXCEPT ![f] = is] \in Hosts
      BY <3>1 DEF Hosts
    <3> QED BY <1>3, <2>1, <3>2
  <2>2. CASE x \notin Entries
    BY <1>3, <2>2
  <2> QED BY <2>1, <2>2
<1> QED BY <1>1, <1>2, <1>3

\* A change touches one field only.
LEMMA ReplacesField ==
  ASSUME conf \in [Entries -> Hosts], NEW f \in Fields, NEW was, NEW is \in Serials,
         Replaces(f, was, is), NEW e \in Entries, NEW g \in Fields, g # f
  PROVE  conf'[e][g] = conf[e][g]
<1> DEFINE x == First(Having(f, was))
<1>1. conf' = conf \/ conf' = [conf EXCEPT ![x][f] = is]
  BY DEF Replaces
<1>2. conf[e] \in [Fields -> Serials]
  BY DEF Hosts
<1> HIDE DEF x
<1>3. conf'[e] = conf[e] \/ conf'[e] = [conf[e] EXCEPT ![f] = is]
  BY <1>1
<1> QED BY <1>2, <1>3

\* A change of field f of an entry: it has the old value and then the new one.
LEMMA ReplacesEntry ==
  ASSUME conf \in [Entries -> Hosts], NEW f \in Fields, NEW was, NEW is \in Serials,
         Replaces(f, was, is), NEW e \in Entries, Having(f, was) \subseteq {e}
  PROVE  \A d \in Entries : conf'[d][f] = conf[d][f] \/ (d = e /\ conf'[d][f] = is)
<1>1. CASE Having(f, was) = {}
  BY <1>1 DEF Replaces
<1>2. CASE Having(f, was) # {}
  <2>1. Having(f, was) = {e}
    BY <1>2
  <2>2. First({e}) = e
    BY IdentityAssumption DEF First, Entries
  <2>3. conf' = [conf EXCEPT ![e][f] = is]
    BY <1>2, <2>1, <2>2 DEF Replaces
  <2>4. conf[e] \in [Fields -> Serials]
    BY DEF Hosts
  <2> QED BY <2>3, <2>4
<1> QED BY <1>1, <1>2

LEMMA InitType == Init => TypeOK
<1> SUFFICES ASSUME Init PROVE TypeOK
  OBVIOUS
<1>1. conf \in [Entries -> Hosts]
  BY IdentityAssumption DEF Init
<1>2. loopRx \in Receivers(Packets)
  BY SubscribedType DEF Init
<1> QED BY <1>1, <1>2 DEF Init, TypeOK, Fields, Nothing

\* Proceed keeps the types of what it changes.
LEMMA ProceedType ==
  ASSUME TypeOK, NEW e \in Enabled, Proceed(e)
  PROVE  /\ step' \in [Enabled -> {"read", "compare", "lookup", "replace"}]
         /\ checks' \in [Enabled -> [field : Fields, translated : BOOLEAN]]
         /\ step'[e] \in {"read", "compare"}
         /\ \A d \in Enabled : d # e => step'[d] = step[d] /\ checks'[d] = checks[d]
<1>1. CASE checks[e].field = "datalog" /\ checks[e].translated
  <2>1. /\ step' = [step EXCEPT ![e] = "compare"]
        /\ checks' = [checks EXCEPT ![e].field = "serial"]
    BY <1>1 DEF Proceed
  <2> QED BY <2>1 DEF TypeOK, Fields
<1>2. CASE ~(checks[e].field = "datalog" /\ checks[e].translated)
  BY <1>2 DEF Proceed, TypeOK
<1> QED BY <1>1, <1>2

LEMMA NextType == TypeOK /\ [Next]_vars => TypeOK'
<1> SUFFICES ASSUME TypeOK, [Next]_vars PROVE TypeOK'
  OBVIOUS
<1>1. ASSUME NEW e \in Enabled, NEW translated \in BOOLEAN, Receive(e, translated)
      PROVE  TypeOK'
  <2>1. [from |-> e, translated |-> translated] \in Packets
    BY DEF Packets
  <2>2. loopRx' \in Receivers(Packets)
    BY <1>1, <2>1, PushType DEF Receive, TypeOK
  <2>3. checks' \in [Enabled -> [field : Fields, translated : BOOLEAN]]
    BY <1>1 DEF Receive, TypeOK, Fields
  <2> QED BY <1>1, <2>2, <2>3 DEF Receive, TypeOK, settings
<1>2. ASSUME NEW e \in Enabled, Compare(e) PROVE TypeOK'
  <2>1. /\ step' \in [Enabled -> {"read", "compare", "lookup", "replace"}]
        /\ checks' \in [Enabled -> [field : Fields, translated : BOOLEAN]]
    BY <1>2, ProceedType DEF Compare, TypeOK
  <2> QED BY <1>2, <2>1 DEF Compare, TypeOK, settings
<1>3. ASSUME NEW e \in Enabled, Lookup(e) PROVE TypeOK'
  <2>1. conf[e][checks[e].field] \in Serials
    <3>1. e \in Entries /\ checks[e].field \in Fields /\ conf \in [Entries -> Hosts]
      BY TruthType DEF TypeOK, Fields
    <3>2. \A f \in Fields : conf[e][f] \in Serials
      BY <3>1 DEF Hosts
    <3> QED BY <3>1, <3>2
  <2> QED BY <1>3, <2>1 DEF Lookup, TypeOK, settings
<1>4. ASSUME NEW e \in Enabled, Replace(e) PROVE TypeOK'
  <2>1. checks[e].field \in Fields
    BY DEF TypeOK
  <2>2. Truth[e][checks[e].field] \in Serials
    BY <2>1, TruthType
  <2>3. conf' \in [Entries -> Hosts]
    BY <1>4, <2>1, <2>2, ReplacesType DEF Replace, TypeOK
  <2> QED BY <1>4, <2>3, ProceedType DEF Replace, TypeOK, settings
<1>5. ASSUME ProcessPacket PROVE TypeOK'
  <2>1. loopRx' \in Receivers(Packets) /\ Head(loopRx.q) \in Packets
    BY <1>5, PoppedType DEF ProcessPacket, TypeOK
  <2> DEFINE p   == Head(loopRx.q)
             has == conf[First(Known(p))]["serial"]
             new == Truth[p.from]["serial"]
  <2>2. pending' = (IF p.translated /\ Known(p) # {} /\ has # new
                    THEN [old |-> has, new |-> new] ELSE Nothing)
    BY <1>5 DEF ProcessPacket
  <2>3. new \in Serials
    BY <2>1, TruthType DEF Packets, Fields
  <2>4. Known(p) # {} => has \in Serials
    <3>1. Known(p) \in SUBSET Entries
      BY IdentityAssumption DEF Known
    <3>2. Known(p) # {} => First(Known(p)) \in Entries
      BY <3>1, FirstType
    <3>3. \A d \in Entries : conf[d]["serial"] \in Serials
      BY DEF TypeOK, Hosts, Fields
    <3> QED BY <3>2, <3>3, Zenon
  <2> HIDE DEF has, new, p
  <2>5. pending' \in [old : Serials, new : Serials] \cup {Nothing}
    BY <2>2, <2>3, <2>4 DEF Nothing
  <2> QED BY <1>5, <2>1, <2>5 DEF ProcessPacket, TypeOK, settings, readers
<1>6. ASSUME ProcessReplace PROVE TypeOK'
  <2>1. pending.new \in Serials
    BY <1>6 DEF ProcessReplace, TypeOK
  <2>2. conf' \in [Entries -> Hosts]
    BY <1>6, <2>1, ReplacesType DEF ProcessReplace, TypeOK, Fields
  <2> QED BY <1>6, <2>2 DEF ProcessReplace, TypeOK, settings, readers, Nothing
<1>7. CASE LoopExit
  BY <1>7 DEF LoopExit, TypeOK, settings, readers
<1>8. CASE UNCHANGED vars
  BY <1>8 DEF vars, TypeOK, settings, readers
<1> QED BY <1>1, <1>2, <1>3, <1>4, <1>5, <1>6, <1>7, <1>8, Zenon DEF Next, Check

\* Every variable of Identity keeps its type, and the coordinator's loop never ends
\* between its look at the configuration and the change.
THEOREM TypeCorrect == Spec => []TypeOK
BY InitType, NextType, PTL DEF Spec

------------------------------------------------------------------------------
(* strict_data_check.                                                      *)

\* With strict_data_check no reader gets as far as a change, and what the loop
\* changes is a serial.
Restrained ==
  strict => /\ \A e \in Enabled : step[e] \in {"read", "compare"}
            /\ \A e \in Entries : conf[e]["datalog"] = configured[e]["datalog"]

LEMMA RestrainedStep == TypeOK /\ Restrained /\ [Next]_vars => Restrained'
<1> SUFFICES ASSUME TypeOK, Restrained, [Next]_vars, strict' PROVE
             /\ \A e \in Enabled : step'[e] \in {"read", "compare"}
             /\ \A e \in Entries : conf'[e]["datalog"] = configured'[e]["datalog"]
  BY DEF Restrained
<1> DEFINE Kept == /\ \A e \in Enabled : step'[e] \in {"read", "compare"}
                   /\ \A e \in Entries : conf'[e]["datalog"] = configured'[e]["datalog"]
<1>1. UNCHANGED settings /\ strict
  <2>1. UNCHANGED settings
    BY Zenon DEF Next, Check, Receive, Compare, Lookup, Replace, ProcessPacket,
                 ProcessReplace, LoopExit, vars
  <2> QED BY <2>1 DEF settings
<1>2. /\ \A e \in Enabled : step[e] \in {"read", "compare"}
      /\ \A e \in Entries : conf[e]["datalog"] = configured'[e]["datalog"]
  BY <1>1 DEF Restrained, settings
<1>3. ASSUME NEW e \in Enabled, NEW translated \in BOOLEAN, Receive(e, translated)
      PROVE  Kept
  BY <1>2, <1>3 DEF Receive, TypeOK
<1>4. ASSUME NEW e \in Enabled, Compare(e) PROVE Kept
  <2>1. Proceed(e) /\ conf' = conf
    BY <1>1, <1>4 DEF Compare
  <2> QED BY <1>2, <2>1, ProceedType
<1>5. ASSUME NEW e \in Enabled, Lookup(e) \/ Replace(e) PROVE FALSE
  BY <1>2, <1>5 DEF Lookup, Replace
<1>6. ASSUME ProcessReplace PROVE Kept
  <2>1. pending.new \in Serials /\ conf \in [Entries -> Hosts]
    BY <1>6 DEF ProcessReplace, TypeOK
  <2>2. \A e \in Entries : conf'[e]["datalog"] = conf[e]["datalog"]
    BY <1>6, <2>1, ReplacesField DEF ProcessReplace, Fields
  <2> QED BY <1>2, <1>6, <2>2 DEF ProcessReplace, readers
<1>7. ASSUME ProcessPacket \/ LoopExit \/ UNCHANGED vars PROVE Kept
  <2>1. conf' = conf /\ step' = step
    BY <1>7, Zenon DEF ProcessPacket, LoopExit, vars, readers
  <2> QED BY <1>2, <2>1
<1> QED BY <1>3, <1>4, <1>5, <1>6, <1>7, Zenon DEF Next, Check

\* With strict_data_check no data logger of any entry is ever replaced, although the
\* coordinator's loop, which does not look at it, goes on replacing serials.
THEOREM DatalogsStay == Spec => []StrictKeepsDatalogs
<1>1. Init => Restrained
  <2>1. ASSUME Init, NEW e \in Enabled PROVE step[e] \in {"read", "compare"}
    BY <2>1 DEF Init
  <2> QED BY <2>1 DEF Init, Restrained
<1>2. Restrained => StrictKeepsDatalogs
  BY DEF Restrained, StrictKeepsDatalogs
<1> QED BY <1>1, <1>2, TypeCorrect, RestrainedStep, PTL DEF Spec

------------------------------------------------------------------------------
(* Values that tell the entries apart.                                     *)

\* What a task is about to replace, looked up however long ago, is a value of the
\* entry it means, and no other entry may have it.
Tracked ==
  Unmistakable =>
    /\ \A e \in Entries, f \in Fields : conf[e][f] \in Own(e, f)
    /\ \A e \in Enabled : step[e] = "replace" => old[e] \in Own(e, checks[e].field)
    /\ pending # Nothing =>
         \E e \in Enabled : pending.old \in Own(e, "serial") /\ pending.new = Truth[e]["serial"]

\* An entry that has a value of e is e.
LEMMA OwnerIs ==
  ASSUME Unmistakable, Tracked, NEW e \in Entries, NEW f \in Fields, NEW v \in Own(e, f)
  PROVE  Having(f, v) \subseteq {e}
<1> SUFFICES ASSUME NEW d \in Entries, conf[d][f] = v PROVE d = e
  BY DEF Having
<1>1. v \in Own(d, f)
  BY DEF Tracked
<1> QED BY <1>1 DEF Unmistakable

\* The start does not change, nor do an entry's own values.
LEMMA OwnKept ==
  ASSUME UNCHANGED settings
  PROVE  /\ \A e, f : Own(e, f)' = Own(e, f)
         /\ Unmistakable' <=> Unmistakable
<1>1. UNCHANGED configured
  BY DEF settings
<1>2. \A e, f : Own(e, f)' = Own(e, f)
  BY <1>1 DEF Own
<1> QED BY <1>2, Zenon DEF Unmistakable

LEMMA TruthIsOwn ==
  ASSUME NEW e \in Enabled, NEW f \in Fields
  PROVE  Truth[e][f] \in Own(e, f)
  BY DEF Own

\* A change that names a value of e and its right value leaves everyone their own.
LEMMA ReplacesOwn ==
  ASSUME TypeOK, Unmistakable, Tracked, NEW e \in Enabled, NEW f \in Fields,
         NEW was \in Own(e, f), Replaces(f, was, Truth[e][f])
  PROVE  \A d \in Entries, g \in Fields : conf'[d][g] \in Own(d, g)
<1>1. e \in Entries /\ Truth[e][f] \in Serials /\ conf \in [Entries -> Hosts]
  BY TruthType DEF TypeOK
<1>2. Having(f, was) \subseteq {e}
  BY <1>1, OwnerIs
<1>3. \A d \in Entries : conf'[d][f] = conf[d][f] \/ (d = e /\ conf'[d][f] = Truth[e][f])
  BY <1>1, <1>2, ReplacesEntry
<1>4. \A d \in Entries, g \in Fields : g # f => conf'[d][g] = conf[d][g]
  BY <1>1, ReplacesField
<1>5. \A d \in Entries, g \in Fields : conf[d][g] \in Own(d, g)
  BY DEF Tracked
<1>6. Truth[e][f] \in Own(e, f)
  BY TruthIsOwn
<1> QED BY <1>3, <1>4, <1>5, <1>6, Zenon

LEMMA TrackedStep == TypeOK /\ Tracked /\ [Next]_vars => Tracked'
<1> DEFINE Kept ==
      /\ \A e \in Entries, f \in Fields : conf'[e][f] \in Own(e, f)
      /\ \A e \in Enabled : step'[e] = "replace" => old'[e] \in Own(e, checks'[e].field)
      /\ pending' # Nothing =>
           \E e \in Enabled : pending'.old \in Own(e, "serial")
                             /\ pending'.new = Truth[e]["serial"]
<1> SUFFICES ASSUME TypeOK, Tracked, [Next]_vars, Unmistakable' PROVE Tracked'
  BY DEF Tracked
<1>1. UNCHANGED settings
  BY Zenon DEF Next, Check, Receive, Compare, Lookup, Replace, ProcessPacket,
               ProcessReplace, LoopExit, vars
<1>2. Unmistakable /\ (Kept => Tracked')
  <2>1. Unmistakable /\ configured' = configured
    BY <1>1, OwnKept DEF settings
  <2>2. Kept => Tracked'
    BY <2>1, Zenon DEF Tracked, Own, Nothing
  <2> QED BY <2>1, <2>2
<1>3. /\ \A e \in Entries, f \in Fields : conf[e][f] \in Own(e, f)
      /\ \A e \in Enabled : step[e] = "replace" => old[e] \in Own(e, checks[e].field)
      /\ pending # Nothing =>
           \E e \in Enabled : pending.old \in Own(e, "serial")
                             /\ pending.new = Truth[e]["serial"]
  BY <1>2 DEF Tracked
<1>4. ASSUME NEW e \in Enabled, NEW translated \in BOOLEAN, Receive(e, translated)
      PROVE  Kept
  <2>1. /\ UNCHANGED <<conf, old, pending>>
        /\ \A d \in Enabled : step'[d] = "replace" => step[d] = "replace" /\ checks'[d] = checks[d]
    BY <1>4 DEF Receive, TypeOK
  <2> QED BY <1>3, <2>1
<1>5. ASSUME NEW e \in Enabled, Compare(e) PROVE Kept
  <2>1. UNCHANGED <<conf, old, pending>>
    BY <1>5 DEF Compare
  <2>2. \A d \in Enabled : step'[d] = "replace" => step[d] = "replace" /\ checks'[d] = checks[d]
    <3>1. CASE step' = [step EXCEPT ![e] = "lookup"] /\ UNCHANGED checks
      BY <3>1 DEF TypeOK
    <3>2. CASE Proceed(e)
      BY <3>2, ProceedType
    <3> QED BY <1>5, <3>1, <3>2, Zenon DEF Compare
  <2> QED BY <1>3, <2>1, <2>2
<1>6. ASSUME NEW e \in Enabled, Lookup(e) PROVE Kept
  <2>1. UNCHANGED <<conf, checks, pending>> /\ checks[e].field \in Fields /\ e \in Entries
    BY <1>6, TruthType DEF Lookup, TypeOK, Fields
  <2>2. /\ old'[e] = conf[e][checks[e].field]
        /\ \A d \in Enabled : d # e => old'[d] = old[d] /\ step'[d] = step[d]
    BY <1>6 DEF Lookup, TypeOK
  <2>3. old'[e] \in Own(e, checks[e].field)
    BY <1>3, <2>1, <2>2
  <2>4. \A d \in Enabled : step'[d] = "replace" => old'[d] \in Own(d, checks'[d].field)
    BY <1>3, <2>1, <2>2, <2>3
  <2> QED BY <1>3, <2>1, <2>4
<1>7. ASSUME NEW e \in Enabled, Replace(e) PROVE Kept
  <2>1. checks[e].field \in Fields /\ old[e] \in Own(e, checks[e].field)
    BY <1>3, <1>7 DEF Replace, TypeOK
  <2>2. \A d \in Entries, g \in Fields : conf'[d][g] \in Own(d, g)
    BY <1>2, <1>7, <2>1, ReplacesOwn DEF Replace
  <2>3. UNCHANGED <<old, pending>> /\ Proceed(e)
    BY <1>7 DEF Replace
  <2>4. \A d \in Enabled : step'[d] = "replace" => step[d] = "replace" /\ checks'[d] = checks[d]
    BY <2>3, ProceedType
  <2> QED BY <1>3, <2>2, <2>3, <2>4
<1>8. ASSUME ProcessPacket PROVE Kept
  <2> DEFINE p   == Head(loopRx.q)
             has == conf[First(Known(p))]["serial"]
             new == Truth[p.from]["serial"]
  <2>1. pending' = (IF p.translated /\ Known(p) # {} /\ has # new
                    THEN [old |-> has, new |-> new] ELSE Nothing)
    BY <1>8 DEF ProcessPacket
  <2>2. p.from \in Enabled /\ p.from \in Entries
    <3>1. p \in Packets
      BY <1>8, PoppedType DEF ProcessPacket, TypeOK
    <3> QED BY <3>1, IdentityAssumption DEF Packets
  <2> HIDE DEF p
  <2>3. Known(p) \subseteq {p.from}
    <3>1. Truth[p.from]["datalog"] \in Own(p.from, "datalog")
      BY <2>2, TruthIsOwn DEF Fields
    <3>2. Having("datalog", Truth[p.from]["datalog"]) \subseteq {p.from}
      BY <1>2, <2>2, <3>1, OwnerIs DEF Fields
    <3> QED BY <3>2 DEF Known
  <2>4. Known(p) # {} => has \in Own(p.from, "serial")
    <3>1. Known(p) # {} => Known(p) = {p.from}
      BY <2>3
    <3>2. First({p.from}) = p.from
      BY <2>2 DEF First, Entries
    <3> QED BY <1>3, <2>2, <3>1, <3>2 DEF Fields
  <2> HIDE DEF has
  <2>5. pending' # Nothing =>
          \E e \in Enabled : pending'.old \in Own(e, "serial")
                            /\ pending'.new = Truth[e]["serial"]
    BY <2>1, <2>2, <2>4
  <2>6. UNCHANGED <<conf, step, checks, old>>
    BY <1>8 DEF ProcessPacket, readers
  <2> QED BY <1>3, <2>5, <2>6
<1>9. ASSUME ProcessReplace PROVE Kept
  <2>1. PICK e \in Enabled : pending.old \in Own(e, "serial")
                            /\ pending.new = Truth[e]["serial"]
    BY <1>3, <1>9 DEF ProcessReplace
  <2>2. Replaces("serial", pending.old, Truth[e]["serial"])
    BY <1>9, <2>1 DEF ProcessReplace
  <2>3. \A d \in Entries, g \in Fields : conf'[d][g] \in Own(d, g)
    BY <1>2, <2>1, <2>2, ReplacesOwn DEF Fields
  <2>4. UNCHANGED <<step, checks, old>> /\ pending' = Nothing
    BY <1>9 DEF ProcessReplace, readers
  <2> QED BY <1>3, <2>3, <2>4
<1>10. ASSUME LoopExit \/ UNCHANGED vars PROVE Kept
  <2>1. UNCHANGED <<conf, step, checks, old, pending>>
    BY <1>10, Zenon DEF LoopExit, vars, readers
  <2> QED BY <1>3, <2>1
<1>11. Kept
  BY <1>4, <1>5, <1>6, <1>7, <1>8, <1>9, <1>10, Zenon DEF Next, Check
<1> QED BY <1>2, <1>11

\* As long as the values tell the entries apart, no interleaving of readers and loop,
\* with what they have looked up before, gives an entry a value of another one.
THEOREM ValuesStayOwn == Spec => []OwnValues
<1>1. Init => Tracked
  <2>1. ASSUME Init, NEW e \in Entries, NEW f \in Fields PROVE conf[e][f] \in Own(e, f)
    BY <2>1 DEF Init, Own
  <2>2. ASSUME Init, NEW e \in Enabled PROVE step[e] # "replace"
    BY <2>2 DEF Init
  <2>3. Init => pending = Nothing
    BY DEF Init
  <2> QED BY <2>1, <2>2, <2>3, Zenon DEF Tracked
<1>2. Tracked => OwnValues
  BY Zenon DEF Tracked, OwnValues, OnlyThatHost
<1> QED BY <1>1, <1>2, TypeCorrect, TrackedStep, PTL DEF Spec
==============================================================================
