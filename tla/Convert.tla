------------------------------ MODULE Convert ------------------------------
(***************************************************************************)
(* The message formats of the TS-BAT3 and their conversion: struct bat3    *)
(* (src/bat3.h), the BAT3request and BAT3reply packets (src/tsbat3.h) and  *)
(* decodemsg, encodemsg and battI (src/convert.c).                         *)
(*                                                                         *)
(* The supply voltages, the battery voltage and the temperature are left   *)
(* out: no decision of the daemon reads them, except bat_u, whose one use  *)
(* (the weighted mean of the loader) is abstracted in Bat3Func.            *)
(***************************************************************************)
EXTENDS Integers

ON  == "ON"
OFF == "OFF"
OnOff == {ON, OFF}

MaxWord == 65535
MaxByte == 255
Word == 0 .. MaxWord
Byte == 0 .. MaxByte
Bit  == 0 .. 1

(***************************************************************************)
(* struct bat3: the daemon's picture of the board.                         *)
(***************************************************************************)
Bat3 ==
  [ bat_i : Word, pwm_lo : Word, pwm_t : Word, ee_addr : Byte, ee_data : Byte,
    PWM1en : OnOff, PWM2en : OnOff, offsetEn : OnOff, opampEn : OnOff,
    buckEn : OnOff, led : OnOff, jp3 : OnOff, batRun : OnOff,
    ee_read : OnOff, ee_write : OnOff, ee_ready : OnOff, softJP3 : OnOff ]

(***************************************************************************)
(* The packets.  A name that starts with an underscore is an active-low    *)
(* bit.  A reply carries the measured battery current (adc7) as well.      *)
(***************************************************************************)
BAT3request ==
  [ PWM1en : Bit, PWM2en : Bit, _offsetEn : Bit, opampEn : Bit, _buckEn : Bit,
    _led : Bit, _jp3 : Bit, batRun : Bit, ee_read : Bit, ee_write : Bit,
    ee_ready : Bit, softJP3 : Bit,
    pwm_lo : Word, pwm_t : Word, ee_addr : Byte, ee_data : Byte ]

BAT3reply ==
  [ PWM1en : Bit, PWM2en : Bit, _offsetEn : Bit, opampEn : Bit, _buckEn : Bit,
    _led : Bit, _jp3 : Bit, batRun : Bit, ee_read : Bit, ee_write : Bit,
    ee_ready : Bit, softJP3 : Bit,
    pwm_lo : Word, pwm_t : Word, ee_addr : Byte, ee_data : Byte, adc7 : Word ]

OnIf(bit)  == IF bit = 1 THEN ON ELSE OFF
OffIf(bit) == IF bit = 1 THEN OFF ELSE ON
BitOn(sw)  == IF sw = ON THEN 1 ELSE 0
BitOff(sw) == IF sw = OFF THEN 1 ELSE 0

(***************************************************************************)
(* decodemsg: every active-low bit is inverted, except _buckEn.            *)
(***************************************************************************)
decodemsg(reply) ==
  [ bat_i    |-> reply.adc7,
    pwm_lo   |-> reply.pwm_lo,
    pwm_t    |-> reply.pwm_t,
    ee_addr  |-> reply.ee_addr,
    ee_data  |-> reply.ee_data,
    PWM1en   |-> OnIf(reply.PWM1en),
    PWM2en   |-> OnIf(reply.PWM2en),
    offsetEn |-> OffIf(reply._offsetEn),
    opampEn  |-> OnIf(reply.opampEn),
    buckEn   |-> OnIf(reply._buckEn),
    led      |-> OffIf(reply._led),
    jp3      |-> OffIf(reply._jp3),
    batRun   |-> OnIf(reply.batRun),
    ee_read  |-> OnIf(reply.ee_read),
    ee_write |-> OnIf(reply.ee_write),
    ee_ready |-> OnIf(reply.ee_ready),
    softJP3  |-> OnIf(reply.softJP3) ]

(***************************************************************************)
(* encodemsg: every active-low bit is inverted, _buckEn included.          *)
(***************************************************************************)
encodemsg(state) ==
  [ pwm_lo    |-> state.pwm_lo,
    pwm_t     |-> state.pwm_t,
    ee_addr   |-> state.ee_addr,
    ee_data   |-> state.ee_data,
    PWM1en    |-> BitOn(state.PWM1en),
    PWM2en    |-> BitOn(state.PWM2en),
    _offsetEn |-> BitOff(state.offsetEn),
    opampEn   |-> BitOn(state.opampEn),
    _buckEn   |-> BitOff(state.buckEn),
    _led      |-> BitOff(state.led),
    _jp3      |-> BitOff(state.jp3),
    batRun    |-> BitOn(state.batRun),
    ee_read   |-> BitOn(state.ee_read),
    ee_write  |-> BitOn(state.ee_write),
    ee_ready  |-> BitOn(state.ee_ready),
    softJP3   |-> BitOn(state.softJP3) ]

(***************************************************************************)
(* battI(ticks) in uA, and the whole milliamperes calc_load takes of it: C *)
(* division truncates toward zero.                                         *)
(***************************************************************************)
battI(ticks) == (ticks - 29000) * 60

TruncDiv(a, b) == IF a >= 0 THEN a \div b ELSE -((-a) \div b)

=============================================================================
