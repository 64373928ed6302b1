------------------------------ MODULE WordQueue ------------------------------
(***************************************************************************)
(* What the pattern path promises between the multiplexer and the sender:  *)
(* the whole words of the beats written into it come out once each and in  *)
(* order.  A word asked for that is not there yet is the last one again.   *)
(***************************************************************************)
EXTENDS Naturals, Sequences

CONSTANTS
  WordMod,   \* words are numbered modulo WordMod
  Beats      \* the beats that are written, each as the number of its whole words

VARIABLES
  next,      \* the number of the next word to be written
  queue,     \* the words in the path
  given      \* [valid, word]: what the reader has in its hands

vars == <<next, queue, given>>

WordIds == 0 .. WordMod - 1

Init ==
  /\ next = 0
  /\ queue = << >>
  /\ given = [valid |-> FALSE, word |-> WordMod - 1]

\* The words next, next + 1, ..., as many as the beat has.
Numbers(n) == [i \in 1 .. n |-> (next + i - 1) % WordMod]

Write ==
  /\ \E n \in Beats : /\ queue' = queue \o Numbers(n)
                      /\ next' = (next + n) % WordMod
  /\ UNCHANGED given

Take ==
  /\ queue # << >>
  /\ given' = [valid |-> TRUE, word |-> Head(queue)]
  /\ queue' = Tail(queue)
  /\ UNCHANGED next

Repeat ==
  /\ given' = [given EXCEPT !.valid = TRUE]
  /\ UNCHANGED <<next, queue>>

Rest ==
  /\ given' = [given EXCEPT !.valid = FALSE]
  /\ UNCHANGED <<next, queue>>

\* A reset of the path, which may well lose words.
Clear ==
  /\ queue' = << >>
  /\ UNCHANGED <<next, given>>

Next == Write \/ Take \/ Repeat \/ Rest \/ Clear

\* A reader that asks again and again gets every word.
Spec == Init /\ [][Next]_vars /\ WF_vars(Take)
=============================================================================
