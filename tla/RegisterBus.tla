---------------------------- MODULE RegisterBus ----------------------------
(***************************************************************************)
(* What the register functions of mcu.c promise their callers: a call      *)
(* moves its bytes one after the other between the caller's array and      *)
(* consecutive registers of the chip.  It may stop at any byte; it says    *)
(* ER_SUCCESS exactly when it moved them all, and what it did not move is  *)
(* as it was.                                                              *)
(***************************************************************************)
EXTENDS Integers, Sequences

CONSTANTS Bits,      \* the width of a byte
          Requests,  \* the calls: what is done with which registers and bytes
          Untouched, \* an element of the array nothing was read into
          NoCall

\* The values of a byte, which are also the registers.
Bytes == 0..(2^Bits - 1)

VARIABLES regs, call, moved, array, result

vars == <<regs, call, moved, array, result>>

Init ==
  /\ regs = [r \in Bytes |-> 0]
  /\ call = NoCall /\ moved = 0 /\ array = <<>> /\ result = "none"

Blank(c) == [i \in 1..c.len |-> Untouched]

Begin ==
  /\ call = NoCall
  /\ \E c \in Requests : call' = c /\ array' = Blank(c)
  /\ moved' = 0 /\ result' = "none"
  /\ UNCHANGED regs

\* The register of the i-th byte of a call; its number is a byte.
Register(c, i) == (c.reg + i) % 2^Bits

MoveByte ==
  /\ call # NoCall /\ moved < call.len
  /\ moved' = moved + 1
  /\ IF call.kind = "write"
     THEN /\ regs' = [regs EXCEPT ![Register(call, moved)] = call.data[moved + 1]]
          /\ UNCHANGED array
     ELSE /\ array' = [array EXCEPT ![moved + 1] = regs[Register(call, moved)]]
          /\ UNCHANGED regs
  /\ UNCHANGED <<call, result>>

End ==
  /\ call # NoCall
  /\ result' = (IF moved = call.len THEN "ER_SUCCESS" ELSE "ER_FAIL")
  /\ call' = NoCall
  /\ UNCHANGED <<regs, moved, array>>

Next == Begin \/ MoveByte \/ End

\* Every call ends.
Spec == Init /\ [][Next]_vars /\ WF_vars(End)
=============================================================================
