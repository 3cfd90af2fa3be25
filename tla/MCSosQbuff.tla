---------------------------- MODULE MCSosQbuff ----------------------------
(***************************************************************************)
(* An instance of SosQbuff for TLC.                                        *)
(***************************************************************************)
EXTENDS SosQbuff

CONSTANTS t1, t2, t3

MCThreads == {t1, t2, t3}
MCSizes == {1, 3}
===========================================================================
