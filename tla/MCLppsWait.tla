---------------------------- MODULE MCLppsWait ----------------------------
(***************************************************************************)
(* Instances of LppsWait for TLC.                                          *)
(***************************************************************************)
EXTENDS LppsWait

CONSTANTS w1, w2

OneWriter  == {w1}
TwoWriters == {w1, w2}
===========================================================================
