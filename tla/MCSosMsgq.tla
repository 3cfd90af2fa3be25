---------------------------- MODULE MCSosMsgq ----------------------------
(***************************************************************************)
(* Instances of SosMsgq for TLC.                                           *)
(***************************************************************************)
EXTENDS SosMsgq

CONSTANTS m1, s1, s2, r1, r2, r3

OneMessage == {m1}
TwoSenders == {s1, s2}
ThreeReceivers == {r1, r2, r3}
AllModes == [r \in ThreeReceivers |->
               IF r = r1 THEN "timed" ELSE IF r = r2 THEN "block" ELSE "try"]
==========================================================================
