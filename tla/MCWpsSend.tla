----------------------------- MODULE MCWpsSend -----------------------------
(* Frames of 2 lines of 2 words, with every porch 1 wide.                  *)
EXTENDS WpsSend

Request(frames, cycles, source) == [frames |-> frames, pulse_cycle |-> cycles, source |-> source]

(* One and two frames, a short and a long pulse, either source.            *)
SomeRequests == {Request(1, 3, "DDR3"), Request(2, 2, "ONCHIP_MEM")}

(* A pulse of one cycle: the end of the range that pulse_gen.v counts to.  *)
OneCycle == {Request(1, 1, "DDR3")}

Delays == [s \in Sources |-> IF s = "DDR3" THEN 2 ELSE 1]
=============================================================================
