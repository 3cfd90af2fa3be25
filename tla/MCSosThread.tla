--------------------------- MODULE MCSosThread ---------------------------
(***************************************************************************)
(* Two callers and two threads; the second one reuses the only id.         *)
(***************************************************************************)
EXTENDS SosThread

CONSTANTS c1, c2, b1, b2

TwoClients == {c1, c2}
TwoBlocks == {b1, b2}
Shared == [c \in TwoClients |-> IF c = c1 THEN {"create", "restart", "flag"}
                                          ELSE {"stop", "send"}]
==========================================================================
