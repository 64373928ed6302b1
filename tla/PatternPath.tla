----------------------------- MODULE PatternPath -----------------------------
(***************************************************************************)
(* The path of a pattern from the multiplexer of wps_top.v to wps_send.v:  *)
(* interface_256in_24out_gb.v makes words of two bytes out of beats, and   *)
(* single_fifo.v takes them to the pixel clock.                            *)
(*                                                                         *)
(* WriteTick is a rising edge of mem_clk, to which wps_top.v also connects *)
(* clk250m; ReadTick is one of clk148_5m, the slower clock.  What one      *)
(* clock writes into a FIFO the other sees at once, and the counter that   *)
(* single_fifo.v looks at is a cycle old.                                  *)
(*                                                                         *)
(* External: the engines, which write a beat only when there is room for   *)
(* it (PathNoOverflow of WpsTop), and wps_send.v, which asks for words     *)
(* line by line without a look at the FIFO.                                *)
(***************************************************************************)
EXTENDS SequencesExt, Clocks

CONSTANTS
  WordsPerBeat,   \* two-byte words of a beat (16)
  BeatDepth,      \* beats the first FIFO holds (128)
  PingDepth,      \* words the second one holds (512)
  PingStop,       \* used words above which no more are asked for (500)
  ByteValids,     \* byte-valid masks of the beats, in sending order
  WordMod         \* words are numbered modulo WordMod

ASSUME PatternAssumption ==
  /\ WordsPerBeat \in Nat \ {0} /\ BeatDepth \in Nat \ {0}
  /\ PingStop \in Nat /\ PingDepth \in Nat
  /\ ByteValids \subseteq [1 .. 2 * WordsPerBeat -> BOOLEAN]
  /\ WordMod \in Nat \ {0, 1}

VARIABLES
  next_word,             \* number of the next whole word
  l1_fifo,               \* words of the beats, as [hi, lo, word]
  l1_fifo_dout, l1_fifo_rd_valid,
  tx,                    \* [valid, word]: tx_data, tx_data_valid of the gearbox
  wr_used,               \* ping_fifo_wr_used
  rx_ready_out,          \* of single_fifo.v, the gearbox's tx_req_in
  ping_fifo,
  q,                     \* [valid, word]: its q, with ping_fifo_dout_valid
  fed                    \* history: ticks in a row that the first FIFO had a
                         \* whole word in front, counted up to Latency

gearVars == <<next_word, l1_fifo, l1_fifo_dout, l1_fifo_rd_valid, tx, wr_used, rx_ready_out>>
pathVars == <<gearVars, ping_fifo, q, mem_ticks, fed>>

WordIds == 0 .. WordMod - 1
Word == [hi : BOOLEAN, lo : BOOLEAN, word : WordIds]
NoWord == [hi |-> FALSE, lo |-> FALSE, word |-> 0]

\* Both bytes of a word are valid.
Whole(w) == w.hi /\ w.lo

\* Cycles from the front of the first FIFO into the second one.
Latency == 3

PathTypeOK ==
  /\ next_word \in WordIds
  /\ l1_fifo \in Seq(Word) /\ Len(l1_fifo) <= WordsPerBeat * BeatDepth
  /\ l1_fifo_dout \in Word /\ l1_fifo_rd_valid \in BOOLEAN
  /\ tx \in [valid : BOOLEAN, word : WordIds]
  /\ wr_used \in 0 .. PingDepth /\ rx_ready_out \in BOOLEAN
  /\ ping_fifo \in Seq(WordIds) /\ Len(ping_fifo) <= PingDepth
  /\ q \in [valid : BOOLEAN, word : WordIds]
  /\ mem_ticks \in 0 .. MaxMemTicks /\ fed \in 0 .. Latency

PathInit ==
  /\ next_word = 0
  /\ l1_fifo = << >> /\ l1_fifo_dout = NoWord /\ l1_fifo_rd_valid = FALSE
  /\ tx = [valid |-> FALSE, word |-> 0]
  /\ wr_used = 0 /\ rx_ready_out = TRUE
  /\ ping_fifo = << >>
  /\ q = [valid |-> FALSE, word |-> WordMod - 1]
  /\ mem_ticks = 0 /\ fed = 0

-----------------------------------------------------------------------------
(* interface_256in_24out_gb.v                                              *)

\* A beat as the FIFO hands it out: its words from the first byte on, the whole
\* ones numbered.
WordsOf(valid) ==
  LET hi(i) == valid[2 * i - 1]
      lo(i) == valid[2 * i]
      before(i) == Cardinality({j \in 1 .. i - 1 : hi(j) /\ lo(j)})
  IN  [i \in 1 .. WordsPerBeat |->
         [hi |-> hi(i), lo |-> lo(i),
          word |-> IF hi(i) /\ lo(i) THEN (next_word + before(i)) % WordMod ELSE 0]]

WholeOf(valid) ==
  Cardinality({i \in 1 .. WordsPerBeat : valid[2 * i - 1] /\ valid[2 * i]})

\* The engines and the multiplexer write a beat, or none, into `l1'.
WriteBeat(l1) ==
  \/ l1_fifo' = l1 /\ UNCHANGED next_word
  \/ /\ Len(l1_fifo) <= WordsPerBeat * (BeatDepth - 1)
     /\ \E valid \in ByteValids :
          /\ l1_fifo' = l1 \o WordsOf(valid)
          /\ next_word' = (next_word + WholeOf(valid)) % WordMod

l1_fifo_rd_ena == l1_fifo # << >> /\ rx_ready_out

Gearbox ==
  /\ WriteBeat(IF l1_fifo_rd_ena THEN Tail(l1_fifo) ELSE l1_fifo)
  /\ l1_fifo_dout' = IF l1_fifo_rd_ena THEN Head(l1_fifo) ELSE l1_fifo_dout
  /\ l1_fifo_rd_valid' = l1_fifo_rd_ena
  /\ tx' = [valid |-> l1_fifo_rd_valid /\ Whole(l1_fifo_dout), word |-> l1_fifo_dout.word]

-----------------------------------------------------------------------------
(* single_fifo.v                                                           *)

\* Slip: no more words until those that are there have gone.
prefull_until_empty == wr_used > 0

\* Slip: the threshold too close to the depth for what is on its way.
prefull_late == wr_used > PingDepth - 4

ping_fifo_prefull == wr_used > PingStop

\* The FIFO keeps what it has when it is written while it is full.
FifoWrites ==
  /\ rx_ready_out' = ~ping_fifo_prefull
  /\ wr_used' = Len(ping_fifo)
  /\ ping_fifo' = IF tx.valid /\ Len(ping_fifo) < PingDepth
                  THEN Append(ping_fifo, tx.word) ELSE ping_fifo

WriteTick ==
  /\ MemClock
  /\ Gearbox
  /\ FifoWrites
  /\ fed' = IF l1_fifo = << >> \/ ~Whole(Head(l1_fifo)) THEN 0
            ELSE IF fed = Latency THEN fed ELSE fed + 1
  /\ UNCHANGED q

\* tx_read_in: the reader asks, whether a word is there or not.
Read ==
  /\ IF ping_fifo = << >>
     THEN q' = [q EXCEPT !.valid = TRUE] /\ UNCHANGED ping_fifo
     ELSE q' = [valid |-> TRUE, word |-> Head(ping_fifo)] /\ ping_fifo' = Tail(ping_fifo)

NoRead == q' = [q EXCEPT !.valid = FALSE] /\ UNCHANGED ping_fifo

ReadTick ==
  /\ PixClock
  /\ Read \/ NoRead
  /\ UNCHANGED <<gearVars, fed>>

\* Both FIFOs are cleared by one signal, held until the registers have drained.
PathReset ==
  /\ l1_fifo' = << >> /\ l1_fifo_rd_valid' = FALSE /\ tx' = [tx EXCEPT !.valid = FALSE]
  /\ wr_used' = 0 /\ rx_ready_out' = TRUE /\ ping_fifo' = << >>
  /\ fed' = 0
  /\ UNCHANGED <<next_word, l1_fifo_dout, q, mem_ticks>>

PathNext == WriteTick \/ ReadTick \/ PathReset

\* Both clocks run, and there are lines again and again.
PathSpec ==
  /\ PathInit /\ [][PathNext]_pathVars
  /\ WF_pathVars(WriteTick) /\ WF_pathVars(ReadTick) /\ SF_pathVars(ReadTick /\ Read)

-----------------------------------------------------------------------------
(* Properties                                                              *)

\* The numbers of the whole words of a sequence.
WholeWords(s) ==
  LET upto[n \in 0 .. Len(s)] ==
        IF n = 0 THEN << >>
        ELSE IF Whole(s[n]) THEN Append(upto[n - 1], s[n].word) ELSE upto[n - 1]
  IN  upto[Len(s)]

\* The words in the path, the first to come out in front.
InPath ==
  ping_fifo
    \o (IF tx.valid THEN <<tx.word>> ELSE << >>)
    \o WholeWords((IF l1_fifo_rd_valid THEN <<l1_fifo_dout>> ELSE << >>) \o l1_fifo)

Promise == INSTANCE WordQueue WITH
             next <- next_word, Beats <- {WholeOf(valid) : valid \in ByteValids},
             queue <- InPath, given <- q

\* Every word with two valid bytes comes out once and in order, none is lost in
\* a FIFO that is full when the words on their way arrive, and all of them come
\* as long as the reader goes on asking and nothing is reset.
ImplementsWordQueue == Promise!Spec

\* The reader, who does not look, finds a word whenever the first FIFO has had
\* whole words for as long as one takes to get through: the threshold holds
\* back no more than the second FIFO can make up for.
NoGap == mem_ticks > 0 /\ fed = Latency => ping_fifo # << >>
=============================================================================
