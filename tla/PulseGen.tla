------------------------------- MODULE PulseGen -------------------------------
(***************************************************************************)
(* pulse_gen.v: the capture pulse for the camera.  One step is one rising  *)
(* edge of clk148_5m.                                                      *)
(***************************************************************************)
EXTENDS Integers

CONSTANT PulseMod   \* modulus of the 32-bit cycle counter (2^32 in the code)
ASSUME PulseModAssumption == PulseMod \in Nat \ {0}

VARIABLES
  pulse,            \* pulse_out
  cnt,              \* cycles counted
  pulse_cycle_reg,  \* count at which the pulse ends
  end_out           \* the pulse is in its last cycle

pulseVars == <<pulse, cnt, pulse_cycle_reg, end_out>>

PulseTypeOK ==
  /\ pulse \in BOOLEAN
  /\ cnt \in 0 .. PulseMod - 1
  /\ pulse_cycle_reg \in 0 .. PulseMod - 1
  /\ end_out \in BOOLEAN

PulseInit ==
  /\ pulse = FALSE
  /\ cnt = 0
  /\ pulse_cycle_reg = 0
  /\ end_out = FALSE

PulseStep(start, pulse_cycle) ==
  /\ pulse' = (start \/ (pulse /\ ~end_out))
  /\ pulse_cycle_reg' = IF start THEN (pulse_cycle - 1) % PulseMod ELSE pulse_cycle_reg
  /\ end_out' = (cnt = pulse_cycle_reg /\ cnt # 0)
  /\ cnt' = IF end_out THEN 0 ELSE IF pulse THEN (cnt + 1) % PulseMod ELSE cnt

PulseReset == pulse' = FALSE /\ cnt' = 0 /\ pulse_cycle_reg' = 0 /\ end_out' = FALSE
=============================================================================
