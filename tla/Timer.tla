-------------------------------- MODULE Timer --------------------------------
(***************************************************************************)
(* timer.v: counts the cycles it is enabled for and gives a pulse of one   *)
(* cycle when it has counted MAX.  A timer that is not enabled starts from *)
(* 0 again.  The enable is a register of the user and part of the record.  *)
(***************************************************************************)
EXTENDS Naturals

TimerType(max) == [ena : BOOLEAN, cnt : 0 .. max, out : BOOLEAN]

Stopped == [ena |-> FALSE, cnt |-> 0, out |-> FALSE]

(* One edge of the clock; `enable' is what the user's register becomes.    *)
Tick(timer, max, enable) ==
  [ena |-> enable,
   cnt |-> IF timer.cnt # max /\ timer.ena THEN timer.cnt + 1 ELSE 0,
   out |-> timer.cnt = max]
=============================================================================
