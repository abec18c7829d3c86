------------------------------ MODULE MCDaemon ------------------------------
(***************************************************************************)
(* Small instances of Daemon for TLC.                                      *)
(***************************************************************************)
EXTENDS Daemon

Ticks(mA) == 29000 + (mA * 1000) \div 60

Board(sw, batRun) ==
  [ PWM1en |-> sw, PWM2en |-> sw, _offsetEn |-> 1, opampEn |-> sw,
    _buckEn |-> 1, _led |-> 1, _jp3 |-> 1, batRun |-> batRun,
    ee_read |-> 0, ee_write |-> 0, ee_ready |-> 0, softJP3 |-> 0,
    pwm_lo |-> 300, pwm_t |-> 512, ee_addr |-> 0, ee_data |-> 7,
    adc7 |-> Ticks(400) ]

IdleBoard == { Board(0, 0) }
AllBoards == { Board(1, 0), Board(0, 1) }
Outage == { [batRun |-> 1, adc7 |-> Ticks(0)] }
Orders == { -1 }
None == {}
Endless == -1
=============================================================================
