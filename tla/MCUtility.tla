----------------------------- MODULE MCUtility -----------------------------
(***************************************************************************)
(* Small instances of Utility for TLC.                                     *)
(***************************************************************************)
EXTENDS Utility

AllOptions == { "pwm1", "sleep", "eeval", "eer", "eew" }

Clear == { [a \in Addresses |-> 0] }

\* A board that charges, and one that runs on batteries.
Shown(pwm1, led, batRun) ==
  [ PWM1en |-> pwm1, _led |-> led, softJP3 |-> 0, batRun |-> batRun,
    ee_read |-> 0, ee_write |-> 0, ee_ready |-> 0, ee_addr |-> 0, ee_data |-> 0 ]

SomeBoards == { Shown(1, 0, 0), Shown(0, 0, 1) }

Garbage == { [ee_addr |-> 0, ee_data |-> 1], [ee_addr |-> 1, ee_data |-> 1] }

SwitchAndWrite == { "pwm1", "eew" }
=============================================================================
