--------------------------- MODULE MCWpsController ---------------------------
(* Two commands that differ in what they say, each with either source.     *)
EXTENDS WpsController

TwoArgs == {"a", "b"}
=============================================================================
