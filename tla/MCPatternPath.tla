---------------------------- MODULE MCPatternPath ----------------------------
(* Beats of two words: a whole one, and ones that start or end at an odd   *)
(* byte or with the other word.                                            *)
EXTENDS PatternPath

Ends(first, last) == [b \in 1 .. 2 * WordsPerBeat |-> b \in first .. last]

MCByteValids == {Ends(1, 4), Ends(2, 4), Ends(1, 2)}
=============================================================================
