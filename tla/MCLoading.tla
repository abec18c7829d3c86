----------------------------- MODULE MCLoading -----------------------------
(***************************************************************************)
(* Small instances of Loading for TLC.  A second of the model stands for   *)
(* an arbitrary share of the real 900 s of STABLE_TIME and 86400 s of a    *)
(* day; what matters is their order, and that several rounds fit in each.  *)
(***************************************************************************)
EXTENDS Loading

Sample(bat_i, pwm_lo, pwm_t, opamp, batRun) ==
  [ bat_i |-> bat_i, pwm_lo |-> pwm_lo, pwm_t |-> pwm_t,
    ee_addr |-> 128, ee_data |-> 0,
    PWM1en |-> opamp, PWM2en |-> opamp, offsetEn |-> OFF, opampEn |-> opamp,
    buckEn |-> OFF, led |-> OFF, jp3 |-> OFF, batRun |-> batRun,
    ee_read |-> OFF, ee_write |-> OFF, ee_ready |-> OFF, softJP3 |-> OFF ]

Ticks(mA) == 29000 + (mA * 1000) \div 60

\* Loading, resting, running on the batteries, and a word at its limit.
TimingSamples ==
  { Sample(Ticks(400), 300, MAX_PWM_T, ON, OFF),
    Sample(Ticks(0), 300, MAX_PWM_T, OFF, OFF),
    Sample(Ticks(0), 300, MAX_PWM_T, OFF, ON),
    Sample(MaxWord, MaxWord, MaxWord, ON, OFF) }

TimingCurrents == { 400 }
TimingHours == { -1, 1 }
=============================================================================
