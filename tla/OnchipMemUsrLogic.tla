-------------------------- MODULE OnchipMemUsrLogic --------------------------
(***************************************************************************)
(* onchip_mem_usr_logic.v: the engine that fetches a pattern from the      *)
(* on-chip memory, word by word, into a FIFO.                              *)
(*                                                                         *)
(* One step is one rising edge of mem_clk.  The state machine, its FIFO,   *)
(* the read pipeline of wps_top.v and wps_controller.v step together.  The *)
(* memory has no ready: wps_top.v takes every read as accepted and answers *)
(* it two cycles later.  It can do so because the controller, which has    *)
(* the same port and goes first, never uses it during a fetch (PortIsFree  *)
(* in WpsController).                                                      *)
(*                                                                         *)
(* External to the code: scfifo_288inx128, as in Ddr3UsrLogic.             *)
(***************************************************************************)
EXTENDS BeatOrder

CONSTANTS
  FifoDepth,    \* beats the FIFO can hold (128 in the code)
  AlmostFull,   \* used beats at which the FIFO raises almost_full
  Commands      \* the commands wps_controller may issue

ASSUME FifoAssumption ==
  /\ FifoDepth \in Nat
  /\ AlmostFull \in Nat
  /\ AlmostFull < FifoDepth
ASSUME CommandsAssumption == Commands \subseteq [addr : Nat, total : Count]

(* Every word of this memory is in use: addresses run on from the last     *)
(* word (2^13 of them in the code) to word 0.                              *)
ASSUME FlatAssumption == LastWord = Span - 1 /\ Sectors = 1

VARIABLES
  state,             \* state of the machine
  to_read_left,      \* to_read_left_byte_reg
  start_addr_reg,    \* onchip_mem_start_addr_reg
  byte_valid,        \* onchip_mem_data_byte_valid, as a set of bit positions
  mem_read,          \* onchip_mem_read
  mem_addr,          \* onchip_mem_addr
  read_pipe,         \* the two cycles a read takes, as [valid, word]
  fifo_wr_ena,       \* write enable of the FIFO
  fifo_din,          \* beat at the input of the FIFO
  read_done,         \* onchip_mem_read_done_out
  fifo,              \* contents of onchip_mem_fifo
  fifo_dout_valid,   \* read_data_valid_out
  fifo_dout,         \* read_data_out
  cmd,               \* usr_start_addr, to_read_byte of wps_controller
  read_start,        \* onchip_mem_read_start
  busy,              \* wps_controller waits for onchip_mem_read_done_out
  got                \* history: valid bytes fetched for this command, modulo CountMod

engineVars == <<state, to_read_left, start_addr_reg, byte_valid, mem_read, mem_addr,
                fifo_wr_ena, fifo_din, read_done, got>>
fifoVars == <<fifo, fifo_dout_valid, fifo_dout>>
controllerVars == <<cmd, read_start, busy>>
vars == <<engineVars, fifoVars, read_pipe, controllerVars>>

States == {"IDLE", "FIRST_READ", "READ", "WAIT", "LAST_READ"}
NoBeat == [word |-> 0, valid |-> {}]
Answer == [valid : BOOLEAN, word : Words]

TypeOK ==
  /\ state \in States
  /\ to_read_left \in Count
  /\ start_addr_reg \in Words
  /\ byte_valid \in SUBSET Lanes
  /\ mem_read \in BOOLEAN
  /\ mem_addr \in Words
  /\ read_pipe \in [1 .. 2 -> Answer]
  /\ fifo_wr_ena \in BOOLEAN
  /\ fifo_din \in Beat
  /\ read_done \in BOOLEAN
  /\ fifo \in Seq(Beat)
  /\ fifo_dout_valid \in BOOLEAN
  /\ fifo_dout \in Beat
  /\ cmd \in [addr : Nat, total : Count]
  /\ read_start \in BOOLEAN
  /\ busy \in BOOLEAN
  /\ got \in Count

Init ==
  /\ state = "IDLE"
  /\ to_read_left = 0
  /\ start_addr_reg = 0
  /\ byte_valid = {}
  /\ mem_read = FALSE
  /\ mem_addr = 0
  /\ read_pipe = [i \in 1 .. 2 |-> [valid |-> FALSE, word |-> 0]]
  /\ fifo_wr_ena = FALSE
  /\ fifo_din = NoBeat
  /\ read_done = FALSE
  /\ fifo = << >>
  /\ fifo_dout_valid = FALSE
  /\ fifo_dout = NoBeat
  /\ cmd = [addr |-> 0, total |-> 0]
  /\ read_start = FALSE
  /\ busy = FALSE
  /\ got = 0

-----------------------------------------------------------------------------
(* The state machine.                                                      *)

fifo_full == Len(fifo) >= AlmostFull
fifo_empty == fifo = << >>

NoRead == mem_read' = FALSE
NoWrite == fifo_wr_ena' = FALSE /\ read_done' = FALSE /\ UNCHANGED <<fifo_din, got>>

NextAddr(w) == (w + 1) % (Span * Sectors)

Idle ==
  /\ state = "IDLE"
  /\ \/ /\ read_start
        /\ state' = "FIRST_READ"
        /\ to_read_left' = cmd.total
        /\ start_addr_reg' = StartWord(cmd)
        /\ byte_valid' = HeadMask(Offset(cmd))
        /\ got' = 0
     \/ /\ ~read_start
        /\ UNCHANGED <<state, to_read_left, start_addr_reg, byte_valid, got>>
  /\ NoRead
  /\ fifo_wr_ena' = FALSE /\ read_done' = FALSE
  /\ UNCHANGED <<mem_addr, fifo_din>>

(* Slip: the move to WAIT outside the test of almost_full.                 *)
StalledMovesOn ==
  /\ fifo_full
  /\ NoRead
  /\ state' = "WAIT"
  /\ UNCHANGED <<to_read_left, byte_valid, mem_addr>>

(* The states that read wait while the FIFO is almost full, and otherwise  *)
(* read one word and wait for it.                                          *)
Stalled ==
  /\ fifo_full
  /\ NoRead
  /\ UNCHANGED <<state, to_read_left, byte_valid, mem_addr>>

(* Slip: the next read issued without a look at almost_full.               *)
IssueBlindly == mem_read' = TRUE /\ state' = "WAIT"

Issue ==
  /\ ~fifo_full
  /\ mem_read' = TRUE
  /\ state' = "WAIT"

FirstRead ==
  /\ state = "FIRST_READ"
  /\ \/ Stalled
     \/ /\ Issue
        /\ mem_addr' = start_addr_reg
        /\ to_read_left' = Subtract(to_read_left, BeatBytes - Offset(cmd))
        /\ UNCHANGED byte_valid
  /\ NoWrite
  /\ UNCHANGED start_addr_reg

Read ==
  /\ state = "READ"
  /\ \/ Stalled
     \/ /\ Issue
        /\ byte_valid' = FullMask
        /\ to_read_left' = Subtract(to_read_left, BeatBytes)
        /\ UNCHANGED mem_addr
  /\ NoWrite
  /\ UNCHANGED start_addr_reg

LastRead ==
  /\ state = "LAST_READ"
  /\ \/ Stalled
     \/ /\ Issue
        /\ byte_valid' = TailMask(to_read_left % BeatBytes)
        /\ to_read_left' = 0
        /\ UNCHANGED mem_addr
  /\ NoWrite
  /\ UNCHANGED start_addr_reg

(* Slip: a command whose rest is exactly one word sent to LAST_READ.       *)
AfterWordLate(left) ==
  IF left = 0 THEN "IDLE" ELSE IF left <= BeatBytes THEN "LAST_READ" ELSE "READ"

AfterWord(left) ==
  IF left = 0 THEN "IDLE" ELSE IF left < BeatBytes THEN "LAST_READ" ELSE "READ"

Wait ==
  /\ state = "WAIT"
  /\ \/ /\ ~read_pipe[2].valid
        /\ NoWrite
        /\ UNCHANGED <<state, mem_addr>>
     \/ /\ read_pipe[2].valid
        /\ fifo_wr_ena' = TRUE
        /\ fifo_din' = [word |-> read_pipe[2].word, valid |-> Swap(byte_valid)]
        /\ got' = (got + Cardinality(byte_valid)) % CountMod
        /\ mem_addr' = NextAddr(mem_addr)
        /\ read_done' = (to_read_left = 0)
        /\ state' = AfterWord(to_read_left)
  /\ NoRead
  /\ UNCHANGED <<to_read_left, start_addr_reg, byte_valid>>

Engine == Idle \/ FirstRead \/ Read \/ LastRead \/ Wait

-----------------------------------------------------------------------------
(* The FIFO, as in Ddr3UsrLogic: here the empty flag gates the read.       *)
FifoStep(read_req) ==
  LET taken   == read_req /\ ~fifo_empty
      kept    == IF taken THEN Tail(fifo) ELSE fifo
  IN  /\ fifo_dout_valid' = taken
      /\ fifo_dout' = IF taken THEN Head(fifo) ELSE NoBeat
      /\ fifo' = IF fifo_wr_ena THEN Append(kept, fifo_din) ELSE kept

ReadPipe ==
  read_pipe' = [read_pipe EXCEPT ![1] = [valid |-> mem_read, word |-> mem_addr],
                                 ![2] = read_pipe[1]]

(* wps_controller.v as this engine sees it.                                *)
ControllerStep ==
  \/ /\ ~busy /\ ~read_start
     /\ cmd' \in Commands
     /\ read_start' = TRUE
     /\ busy' = TRUE
  \/ /\ read_start' = FALSE
     /\ busy' = (busy /\ ~read_done)
     /\ UNCHANGED cmd

Clock(read_req) ==
  /\ Engine
  /\ ReadPipe
  /\ FifoStep(read_req)
  /\ ControllerStep

(* mem_rst_n, and the reset that comes at any time.  wps_top.v does not    *)
(* reset the read pipeline; the reset is held for longer than it is deep.  *)
Reset ==
  /\ state' = "IDLE"
  /\ start_addr_reg' = 0
  /\ mem_read' = FALSE
  /\ fifo_wr_ena' = FALSE
  /\ read_done' = FALSE
  /\ fifo_dout_valid' = FALSE
  /\ fifo' = << >>
  /\ fifo_dout' = NoBeat
  /\ read_pipe' = [i \in 1 .. 2 |-> [valid |-> FALSE, word |-> 0]]
  /\ read_start' = FALSE
  /\ busy' = FALSE
  /\ UNCHANGED <<to_read_left, byte_valid, mem_addr, fifo_din, cmd, got>>

Next == (\E read_req \in BOOLEAN : Clock(read_req)) \/ Reset

Spec == Init /\ [][Next]_vars

(* The clock runs and the reader keeps asking; the memory answers anyway.  *)
(* Resets may come, and need not.                                          *)
Advance == \E read_req \in BOOLEAN : Clock(read_req)
FairSpec == Spec /\ WF_vars(Advance) /\ WF_vars(Clock(TRUE))

-----------------------------------------------------------------------------
(* Properties, with the meaning they have in Ddr3UsrLogic.                 *)

(* A beat is written to the FIFO only while the FIFO has room for it,      *)
(* although almost_full was looked at four cycles earlier.                 *)
NoFifoOverflow == fifo_wr_ena => Len(fifo) < FifoDepth

(* When the fetch is announced done, as many valid bytes were fetched as   *)
(* the command asked for.                                                  *)
DoneCountsBytes == read_done => got = cmd.total

(* A command that is issued is answered with onchip_mem_read_done_out, for *)
(* which wps_controller.v waits, or cut off by a reset.                    *)
FetchCompletes == busy ~> ~busy

(* The engine implements BeatStream: the words of every command, in the    *)
(* order of their addresses, once each.                                    *)
AsOwed(beat) == [word |-> beat.word, bytes |-> Cardinality(beat.valid)]

PendingBeats ==
  LET head(word, left) ==
        <<[word |-> word, bytes |-> Cardinality(byte_valid)]>>
          \o Owed(NextAddr(word), left)
  IN  CASE state = "IDLE" -> << >>
        [] state = "FIRST_READ" ->
             head(start_addr_reg, Subtract(to_read_left, HeadBytes(cmd)))
        [] state = "WAIT" -> head(mem_addr, to_read_left)
        [] state \in {"READ", "LAST_READ"} -> Owed(mem_addr, to_read_left)

BufferedBeats ==
  LET beats == IF fifo_wr_ena THEN Append(fifo, fifo_din) ELSE fifo
  IN  [i \in DOMAIN beats |-> AsOwed(beats[i])]

BeatOut == IF fifo_dout_valid THEN AsOwed(fifo_dout) ELSE [word |-> 0, bytes |-> 0]

Stream == INSTANCE BeatStream
            WITH pending <- PendingBeats, buffered <- BufferedBeats,
                 out <- BeatOut, done <- read_done

ImplementsBeatStream == Stream!Spec
=============================================================================
