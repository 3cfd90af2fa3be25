--------------------------- MODULE ConfigRegister ---------------------------
(***************************************************************************)
(* What the configuration storage promises: a register that survives       *)
(* crashes.  It is blank until the factory configuration is installed;     *)
(* then it changes only in one atomic step, to the configuration of an     *)
(* update that has been begun, and an update that is acknowledged, or a    *)
(* boot that has loaded the register, rules every other value out.         *)
(***************************************************************************)
CONSTANTS Configs, Factory, Blank

VARIABLES value,    \* what a boot would load
          allowed   \* the value and the updates begun since it was settled

RegInit == value = Blank /\ allowed = {}

Install == /\ value = Blank
           /\ value' = Factory /\ allowed' = {Factory}

Begin(c) == /\ value # Blank
            /\ allowed' = allowed \cup {c}
            /\ UNCHANGED value

Switch == /\ value' \in allowed
          /\ UNCHANGED allowed

Settle == /\ value # Blank
          /\ allowed' = {value}
          /\ UNCHANGED value

RegNext == Install \/ (\E c \in Configs : Begin(c)) \/ Switch \/ Settle

RegSpec == RegInit /\ [][RegNext]_<<value, allowed>>
=============================================================================
