---------------------------- MODULE MCInverterLink ----------------------------
(***************************************************************************)
(* Two inverters; the periods keep the order and roughly the ratios of the *)
(* code's: 30, 45, 120, 300 and 900 seconds.                               *)
(***************************************************************************)
EXTENDS InverterLink, TLC

CONSTANTS i1, i2

OneInverter  == <<i1>>
TwoInverters == <<i1, i2>>

\* read_timeout below inverter_timeout: 90 s, and everything else as in the code.
Short == i1 :> 6

\* One inverter whose read_timeout is longer than the period of the requests, one
\* whose read_timeout is shorter.
LongAndShort == i1 :> 6 @@ i2 :> 2
==============================================================================
