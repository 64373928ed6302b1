------------------------------ MODULE BeatStream ------------------------------
(***************************************************************************)
(* What a fetch engine promises the rest of the pipeline, without clocks,  *)
(* registers or handshakes: the beats of a command reach the reader once   *)
(* each and in the order of their addresses, behind those of the commands  *)
(* before it, and "done" is announced in the step that has the last beat   *)
(* of the command in hand.                                                 *)
(***************************************************************************)
EXTENDS BeatOrder

CONSTANT Commands   \* the commands that may be given

VARIABLES
  pending,   \* beats of the current command that are still in memory
  buffered,  \* beats fetched and not yet handed to the reader
  out,       \* the beat handed to the reader in this step, or NoBeat
  done       \* the announcement that the command has been fetched

NoBeat == [word |-> 0, bytes |-> 0]

streamVars == <<pending, buffered, out, done>>

Init ==
  /\ pending = << >>
  /\ buffered = << >>
  /\ out = NoBeat
  /\ done = FALSE

(* The reader takes the oldest beat of `queue', or nothing.                *)
Deliver(queue) ==
  \/ /\ buffered # << >>
     /\ out' = Head(queue)
     /\ buffered' = Tail(queue)
  \/ /\ out' = NoBeat
     /\ buffered' = queue

Accept(c) ==
  /\ pending = << >>
  /\ pending' = OwedBy(c)
  /\ done' = FALSE
  /\ Deliver(buffered)

Fetch ==
  /\ pending # << >>
  /\ pending' = Tail(pending)
  /\ done' = (Tail(pending) = << >>)
  /\ Deliver(Append(buffered, Head(pending)))

Pass ==
  /\ UNCHANGED pending
  /\ done' = FALSE
  /\ Deliver(buffered)

(* A reset of the engine forgets the command and empties the buffer.       *)
Forget ==
  /\ pending' = << >>
  /\ buffered' = << >>
  /\ out' = NoBeat
  /\ done' = FALSE

Next == (\E c \in Commands : Accept(c)) \/ Fetch \/ Pass \/ Forget

Spec == Init /\ [][Next]_streamVars
=============================================================================
