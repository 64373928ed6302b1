------------------------------ MODULE MCI2cBus ------------------------------
(* Bytes of three bits; a call of two bytes may run over the last register.*)
EXTENDS I2cBus

McStarts == {1, 7}
McData == {2, 5}
=============================================================================
