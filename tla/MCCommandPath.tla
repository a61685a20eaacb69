---------------------------- MODULE MCCommandPath ----------------------------
(***************************************************************************)
(* Small instances of CommandPath: the inverters, and the sets of commands *)
(* the MQTT messages ask for.                                              *)
(***************************************************************************)
EXTENDS CommandPath, TLC

CONSTANTS i1, i2, r1, r2, b1, b2

OneInverter  == <<i1>>
TwoInverters == <<i1, i2>>
SecondReadOnly == {i2}
AllReadOnly == Inverters

Cmd(kind, reg, val, enable) ==
  [kind |-> kind, reg |-> reg, val |-> val, enable |-> enable, count |-> 1]

\* AcCharge and ChargePriority: each switches its bit of register 21.  (Off is on
\* with the bit's meaning inverted, so one direction for each bit is enough.)
Switches == {Cmd("UpdateHold", r1, {b}, TRUE) : b \in {b1, b2}}

\* One command of each way a command can go: through the coordinator, straight to
\* the inverters, rejected, and not understood.
EveryWay ==
  {Cmd(k, r1, {b1}, TRUE) : k \in {"SetHold", "ReadTime", "SetTime", "UpdateHold", "Unparsed"}}

OneRead == {Cmd("ReadHold", r1, {}, TRUE)}

\* Writes of both paths, and the one whose frame does not name its inverter.
Writes ==
  {Cmd("SetHold", r1, {b1}, FALSE), Cmd("UpdateHold", r1, {b1}, TRUE),
   Cmd("WriteParam", r1, {}, FALSE)}
==============================================================================
