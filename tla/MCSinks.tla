------------------------------- MODULE MCSinks -------------------------------
(***************************************************************************)
(* Small instances of Sinks: one packet of every kind, and configurations  *)
(* that enable one optional sink each.                                     *)
(***************************************************************************)
EXTENDS Sinks

\* Register 3 is one the cache has no room for.
OneOfEach ==
  {[kind |-> k, regs |-> <<0>>, topics |-> 1] : k \in Kinds \ {"input", "readParam"}}
    \cup {[kind |-> "input", regs |-> <<0, 1>>, topics |-> 1],
          [kind |-> "readParam", regs |-> <<3>>, topics |-> 0]}

OneSinkEach == {{"influx"}, {"mqtt"}, {"datalog"}}
==============================================================================
