------------------------- MODULE MCOnchipMemUsrLogic -------------------------
(* A memory of 8 words of 2 groups of 2 bytes, 8-bit byte counters.        *)
EXTENDS OnchipMemUsrLogic

(* Head word only, whole words past the end of the memory, an unaligned    *)
(* head with a tail, and a rest of exactly one word.                       *)
ReachingCommands ==
  {[addr |-> 10, total |-> 2], [addr |-> 28, total |-> 12], [addr |-> 5, total |-> 8],
   [addr |-> 11, total |-> 5], [addr |-> 22, total |-> 13]}
=============================================================================
