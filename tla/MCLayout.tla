-------------------------------- MODULE MCLayout --------------------------------
(***************************************************************************)
(* A small instance of Layout: a screen that can be divided twice both     *)
(* ways and is so wide that the arithmetic overflows, and a tiny one.      *)
(***************************************************************************)
EXTENDS Layout

SomeSizes == {<<15, 1312>>, <<1, 3>>}
SomeDeltas == {5, -5}
=============================================================================
