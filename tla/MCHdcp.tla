------------------------------- MODULE MCHdcp -------------------------------
(* A bus is looked at twice before it is given up; a block takes two loads.*)
EXTENDS Hdcp
=============================================================================
