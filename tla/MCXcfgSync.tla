---------------------------- MODULE MCXcfgSync ----------------------------
(***************************************************************************)
(* Instances of XcfgSync for TLC.                                          *)
(***************************************************************************)
EXTENDS XcfgSync

CONSTANTS h1, h2

OneHandler == {h1}
TwoHandlers == {h1, h2}
===========================================================================
