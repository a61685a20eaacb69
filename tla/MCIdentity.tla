------------------------------ MODULE MCIdentity ------------------------------
(***************************************************************************)
(* Two inverters and a disabled entry; the configurations differ in which  *)
(* values are wrong.                                                       *)
(***************************************************************************)
EXTENDS Identity

Values(d, s) == [datalog |-> d, serial |-> s]

TwoInverters == <<Values("d1", "s1"), Values("d2", "s2")>>

\* Any of the values of the two inverters are wrong, each in its way.
Wrong ==
  {<<Values(a, b), Values(c, d), Values("d3", "s3")>> :
     a \in {"d1", "w1"}, b \in {"s1", "w1"}, c \in {"d2", "w2"}, d \in {"s2", "w2"}}
==============================================================================
