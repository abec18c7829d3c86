------------------------------ MODULE MCCharge ------------------------------
(***************************************************************************)
(* Small instances of Charge for TLC.                                      *)
(***************************************************************************)
EXTENDS Charge

\* A board whose low time is beyond the period that will be asked for.
WildBoard ==
  { [ PWMen |-> 1, _led |-> 0, pwm_lo |-> 9, pwm_t |-> 9 ] }

\* Too much, too little, and a power failure.
Weather ==
  { [batRun |-> 0, current |-> 70000], [batRun |-> 0, current |-> 0],
    [batRun |-> 1, current |-> -90000] }

Commands ==
  { [command |-> 3, targetI |-> 60, time_on |-> 0, time_off |-> 0],
    [command |-> 4, targetI |-> 66, time_on |-> 2, time_off |-> 1] }
=============================================================================
