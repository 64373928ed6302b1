--------------------------- MODULE MCDdr3UsrLogic ---------------------------
(* Small instances of Ddr3UsrLogic: words of 2 groups of 2 bytes, sectors  *)
(* of 4 words of which the last is unused, counters of 4 or 8 bits.        *)
EXTENDS Ddr3UsrLogic

(* Head word only, whole words across the sector end, a head of one byte   *)
(* with a tail behind the sector end, and an unaligned head with whole     *)
(* words and a tail across the end of the memory.                          *)
ReachingCommands ==
  {[addr |-> 10, total |-> 2], [addr |-> 8, total |-> 12],
   [addr |-> 11, total |-> 4], [addr |-> 22, total |-> 13]}

(* Commands inside one sector whose first or last byte splits a word       *)
(* between two groups (so the byte order inside a group does not matter).  *)
UnalignedCommands == {[addr |-> 2, total |-> 6], [addr |-> 4, total |-> 6]}

(* The testbench ties ddr3_emif_ready to 1 (wps_top_tb.sv:90).             *)
SteadyReady == {TRUE}
AnyReady == BOOLEAN
=============================================================================
