------------------------------- MODULE Clocks -------------------------------
(***************************************************************************)
(* The two clocks that wps_top.v runs its data path with: mem_clk, of      *)
(* 250 MHz, and clk148_5m of the pixels.  Neither waits for the other; the *)
(* faster one ticks between 1 and MaxMemTicks times in a cycle of the      *)
(* slower one.                                                             *)
(***************************************************************************)
EXTENDS Naturals

CONSTANT MaxMemTicks   \* ticks of mem_clk in a cycle of the pixel clock (2)

ASSUME TicksAssumption == MaxMemTicks \in Nat \ {0}

VARIABLE mem_ticks     \* ticks of mem_clk since the last one of the pixel clock

MemClock ==
  /\ mem_ticks < MaxMemTicks
  /\ mem_ticks' = mem_ticks + 1

PixClock ==
  /\ mem_ticks > 0
  /\ mem_ticks' = 0
=============================================================================
