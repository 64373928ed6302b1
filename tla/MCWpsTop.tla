------------------------------ MODULE MCWpsTop ------------------------------
(* The constants are in the .cfg files: commands of a few beats, engines    *)
(* that hold two, a path with a threshold of two and the margin of five     *)
(* that PathAssumption asks for, and a mem_clk of up to twice the pixel     *)
(* clock.                                                                   *)
EXTENDS WpsTop
=============================================================================
