---------------------------- MODULE Ddr3UsrLogic ----------------------------
(***************************************************************************)
(* ddr3_usr_logic.v: the engine that fetches a pattern from DDR3, word by  *)
(* word, into a FIFO.                                                      *)
(*                                                                         *)
(* One step is one rising edge of ddr3_emif_clk.  The state machine, the   *)
(* FIFO, the memory controller and wps_controller.v all step together, on  *)
(* the values the registers had before the edge.  Each state of the        *)
(* machine is one action.                                                  *)
(*                                                                         *)
(* External to the code: scfifo_288inx128 (almost_full when AlmostFull     *)
(* beats are used) and the memory controller, which takes a read in a      *)
(* cycle where ready and ddr3_emif_read are both high and returns the      *)
(* words in order, after any number of cycles.                             *)
(***************************************************************************)
EXTENDS BeatOrder

CONSTANTS
  FifoDepth,    \* beats the FIFO can hold (128 in the code)
  AlmostFull,   \* used beats at which the FIFO raises almost_full
  Commands,     \* the commands wps_controller may issue
  ReadyValues,  \* values the memory controller drives on ready
  MaxInFlight   \* reads the memory controller can hold

ASSUME FifoAssumption ==
  /\ FifoDepth \in Nat
  /\ AlmostFull \in Nat
  /\ AlmostFull < FifoDepth
ASSUME CommandsAssumption == Commands \subseteq [addr : Nat, total : Count]
ASSUME ReadyAssumption == ReadyValues \subseteq BOOLEAN
ASSUME InFlightAssumption == MaxInFlight \in Nat

VARIABLES
  state,                 \* state of the machine
  ddr3_read_start_reg,   \* a start was seen, ready not yet
  to_read_byte_reg,      \* bytes left to read
  start_addr_reg,        \* ddr3_emif_start_addr_reg
  byte_valid,            \* ddr3_data_byte_valid, as a set of bit positions
  emif_read,             \* ddr3_emif_read
  emif_addr,             \* ddr3_emif_addr
  fifo_wr_ena,           \* write enable of the FIFO
  fifo_din,              \* beat at the input of the FIFO
  read_done,             \* ddr3_read_done_out
  fifo,                  \* contents of ddr3_fifo
  fifo_dout_valid,       \* read_data_valid_out
  fifo_dout,             \* read_data_out
  inflight,              \* words the memory controller has yet to return
  cmd,                   \* usr_start_addr, to_read_byte of wps_controller
  read_start,            \* ddr3_read_start
  busy,                  \* wps_controller waits for ddr3_read_done_out
  got,                   \* history: valid bytes fetched for this command, modulo CountMod
  steady                 \* history: ready was up, since the last reset, whenever a read
                         \* was issued or on the bus

engineVars == <<state, ddr3_read_start_reg, to_read_byte_reg, start_addr_reg,
                byte_valid, emif_read, emif_addr, fifo_wr_ena, fifo_din,
                read_done, got>>
fifoVars == <<fifo, fifo_dout_valid, fifo_dout>>
controllerVars == <<cmd, read_start, busy>>
vars == <<engineVars, fifoVars, inflight, controllerVars, steady>>

States == {"IDLE", "FIRST_READ", "READ", "WAIT", "LAST_READ"}

NoBeat == [word |-> 0, valid |-> {}]

TypeOK ==
  /\ state \in States
  /\ ddr3_read_start_reg \in BOOLEAN
  /\ to_read_byte_reg \in Count
  /\ start_addr_reg \in Words
  /\ byte_valid \in SUBSET Lanes
  /\ emif_read \in BOOLEAN
  /\ emif_addr \in Words
  /\ fifo_wr_ena \in BOOLEAN
  /\ fifo_din \in Beat
  /\ read_done \in BOOLEAN
  /\ fifo \in Seq(Beat)
  /\ fifo_dout_valid \in BOOLEAN
  /\ fifo_dout \in Beat
  /\ inflight \in Seq(Words)
  /\ cmd \in [addr : Nat, total : Count]
  /\ read_start \in BOOLEAN
  /\ busy \in BOOLEAN
  /\ got \in Count
  /\ steady \in BOOLEAN

Init ==
  /\ state = "IDLE"
  /\ ddr3_read_start_reg = FALSE
  /\ to_read_byte_reg = 0
  /\ start_addr_reg = 0
  /\ byte_valid = {}
  /\ emif_read = FALSE
  /\ emif_addr = 0
  /\ fifo_wr_ena = FALSE
  /\ fifo_din = NoBeat
  /\ read_done = FALSE
  /\ fifo = << >>
  /\ fifo_dout_valid = FALSE
  /\ fifo_dout = NoBeat
  /\ inflight = << >>
  /\ cmd = [addr |-> 0, total |-> 0]
  /\ read_start = FALSE
  /\ busy = FALSE
  /\ got = 0
  /\ steady = TRUE

-----------------------------------------------------------------------------
(* The state machine.  `ready' and `valid' are the values of               *)
(* ddr3_emif_ready and ddr3_emif_rddata_valid in this cycle.               *)

(* Slip: the full flag of the FIFO in place of almost_full (both are in    *)
(* the instance, one commented out).                                       *)
FullFlag == Len(fifo) >= FifoDepth

fifo_full == Len(fifo) >= AlmostFull
fifo_empty == fifo = << >>

(* The registers every state clears unless it sets them: ddr3_emif_read,   *)
(* fifo_wr_ena and read_done.                                              *)
(* Slip: the default of ddr3_emif_read forgotten.                          *)
KeepsRead == UNCHANGED emif_read

NoRead == emif_read' = FALSE
NoWrite == fifo_wr_ena' = FALSE /\ read_done' = FALSE /\ UNCHANGED <<fifo_din, got>>

(* IDLE latches a start; it leaves one cycle later or when ready rises.    *)
Idle(ready) ==
  /\ state = "IDLE"
  /\ IF read_start
     THEN /\ to_read_byte_reg' = cmd.total
          /\ start_addr_reg' = StartWord(cmd)
          /\ byte_valid' = HeadMask(Offset(cmd))
     ELSE UNCHANGED <<to_read_byte_reg, start_addr_reg, byte_valid>>
  /\ IF ddr3_read_start_reg /\ ready
     THEN state' = "FIRST_READ" /\ ddr3_read_start_reg' = FALSE
     ELSE state' = "IDLE" /\ ddr3_read_start_reg' = (ddr3_read_start_reg \/ read_start)
  /\ got' = IF read_start THEN 0 ELSE got
  /\ NoRead
  /\ fifo_wr_ena' = FALSE /\ read_done' = FALSE
  /\ UNCHANGED <<emif_addr, fifo_din>>

(* The three states that issue a read do nothing while the FIFO is almost  *)
(* full.  Otherwise they raise ddr3_emif_read and take the bytes off the   *)
(* counter in every cycle they are in; ready only decides when they leave. *)
(* Slip: the move to WAIT outside the test of almost_full.                 *)
StalledMovesOn ==
  /\ fifo_full
  /\ NoRead
  /\ state' = "WAIT"
  /\ UNCHANGED <<to_read_byte_reg, byte_valid, emif_addr>>

Stalled ==
  /\ fifo_full
  /\ NoRead
  /\ UNCHANGED <<state, to_read_byte_reg, byte_valid, emif_addr>>

Issue(ready) ==
  /\ ~fifo_full
  /\ emif_read' = TRUE
  /\ state' = IF ready THEN "WAIT" ELSE state

FirstRead(ready) ==
  /\ state = "FIRST_READ"
  /\ \/ Stalled
     \/ /\ Issue(ready)
        /\ emif_addr' = start_addr_reg
        /\ to_read_byte_reg' = Subtract(to_read_byte_reg, BeatBytes - Offset(cmd))
        /\ UNCHANGED byte_valid
  /\ NoWrite
  /\ UNCHANGED <<ddr3_read_start_reg, start_addr_reg>>

Read(ready) ==
  /\ state = "READ"
  /\ \/ Stalled
     \/ /\ Issue(ready)
        /\ byte_valid' = FullMask
        /\ to_read_byte_reg' = Subtract(to_read_byte_reg, BeatBytes)
        /\ UNCHANGED emif_addr
  /\ NoWrite
  /\ UNCHANGED <<ddr3_read_start_reg, start_addr_reg>>

LastRead(ready) ==
  /\ state = "LAST_READ"
  /\ \/ Stalled
     \/ /\ Issue(ready)
        /\ byte_valid' = TailMask(to_read_byte_reg % BeatBytes)
        /\ to_read_byte_reg' = 0
        /\ UNCHANGED emif_addr
  /\ NoWrite
  /\ UNCHANGED <<ddr3_read_start_reg, start_addr_reg>>

(* WAIT takes one word from the memory controller, hands it to the FIFO    *)
(* with the mask, and decides what is left to do.                          *)
Wait(valid) ==
  /\ state = "WAIT"
  /\ \/ /\ ~valid
        /\ NoWrite
        /\ UNCHANGED <<state, emif_addr>>
     \/ /\ valid
        /\ fifo_wr_ena' = TRUE
        /\ fifo_din' = [word |-> Head(inflight), valid |-> Swap(byte_valid)]
        /\ got' = (got + Cardinality(byte_valid)) % CountMod
        /\ emif_addr' = NextWord(emif_addr)
        /\ read_done' = (to_read_byte_reg = 0)
        /\ state' = IF to_read_byte_reg = 0 THEN "IDLE"
                    ELSE IF to_read_byte_reg < BeatBytes THEN "LAST_READ"
                    ELSE "READ"
  /\ NoRead
  /\ UNCHANGED <<ddr3_read_start_reg, to_read_byte_reg, start_addr_reg, byte_valid>>

Engine(ready, valid) ==
  \/ Idle(ready)
  \/ FirstRead(ready)
  \/ Read(ready)
  \/ LastRead(ready)
  \/ Wait(valid)

-----------------------------------------------------------------------------
(* The FIFO: a write adds the beat at the input, a request takes the       *)
(* oldest beat of those there before the write.  What stands on q while    *)
(* fifo_dout_valid is low is nobody's business and is left out.            *)
FifoStep(read_req) ==
  LET taken   == read_req /\ ~fifo_empty
      kept    == IF taken THEN Tail(fifo) ELSE fifo
  IN  /\ fifo_dout_valid' = taken
      /\ fifo_dout' = IF taken THEN Head(fifo) ELSE NoBeat
      /\ fifo' = IF fifo_wr_ena THEN Append(kept, fifo_din) ELSE kept

(* The memory controller: it can be ready only while it has room.          *)
MemoryStep(ready, valid) ==
  /\ ready => Len(inflight) < MaxInFlight
  /\ valid => inflight # << >>
  /\ LET left == IF valid THEN Tail(inflight) ELSE inflight
     IN  inflight' = IF emif_read /\ ready THEN Append(left, emif_addr) ELSE left

(* wps_controller.v as this engine sees it: it pulses ddr3_read_start with *)
(* a new command, keeps the command, and waits for the done pulse.         *)
ControllerStep ==
  \/ /\ ~busy /\ ~read_start
     /\ cmd' \in Commands
     /\ read_start' = TRUE
     /\ busy' = TRUE
  \/ /\ read_start' = FALSE
     /\ busy' = (busy /\ ~read_done)
     /\ UNCHANGED cmd

(* A read is on the bus in this cycle, or will be in the next.             *)
Asking == emif_read \/ (state \in {"FIRST_READ", "READ", "LAST_READ"} /\ ~fifo_full)

Clock(ready, valid, read_req) ==
  /\ steady' = (steady /\ (Asking => ready))
  /\ MemoryStep(ready, valid)
  /\ Engine(ready, valid)
  /\ FifoStep(read_req)
  /\ ControllerStep

(* ddr3_emif_rst_n: what the reset branch clears and what it leaves.  The  *)
(* board holds it (a push button) long after the last word in flight.      *)
Reset ==
  /\ state' = "IDLE"
  /\ ddr3_read_start_reg' = FALSE
  /\ start_addr_reg' = 0
  /\ emif_read' = FALSE
  /\ emif_addr' = 0
  /\ fifo_wr_ena' = FALSE
  /\ read_done' = FALSE
  /\ fifo_dout_valid' = FALSE
  /\ fifo' = << >>
  /\ inflight' = << >>
  /\ read_start' = FALSE
  /\ busy' = FALSE
  /\ fifo_dout' = NoBeat
  /\ steady' = TRUE
  /\ UNCHANGED <<to_read_byte_reg, byte_valid, fifo_din, cmd, got>>

Next ==
  \/ \E ready \in ReadyValues, valid, read_req \in BOOLEAN :
       Clock(ready, valid, read_req)
  \/ Reset

Spec == Init /\ [][Next]_vars

(* The clock runs, the memory controller returns what it has taken and     *)
(* does not stay busy for ever, and the reader keeps asking.  Resets may   *)
(* come, and need not.                                                     *)
Return == \E ready \in ReadyValues, read_req \in BOOLEAN :
            Clock(ready, TRUE, read_req)
Request == \E ready \in ReadyValues, valid \in BOOLEAN :
             Clock(ready, valid, TRUE)
Accept == \E valid, read_req \in BOOLEAN : Clock(TRUE, valid, read_req)
Advance == \E ready \in ReadyValues, valid, read_req \in BOOLEAN :
             Clock(ready, valid, read_req)
FairSpec ==
  /\ Spec
  /\ WF_vars(Advance) /\ WF_vars(Accept) /\ WF_vars(Return) /\ WF_vars(Request)

-----------------------------------------------------------------------------
(* Properties *)

(* A beat is written to the FIFO only while the FIFO has room for it: the  *)
(* engine looks at almost_full one cycle before it issues a read and does  *)
(* not look again when the word comes back, so what was in the write       *)
(* register at that time has to fit too.  Holds however ready behaves.     *)
NoFifoOverflow == fifo_wr_ena => Len(fifo) < FifoDepth

(* What follows of single words holds while ready is up whenever a read is *)
(* issued or on the bus; it may fall at any other time.  The engine takes  *)
(* the bytes off its counter in every cycle it issues a read, and lets the *)
(* read go after one cycle, so a ready that falls then makes it lose words *)
(* until the next reset.                                                   *)

(* A read is with the memory controller exactly while the machine waits    *)
(* for it, so no word comes back in a state that ignores                   *)
(* ddr3_emif_rddata_valid and no other word is taken for it.               *)
OneReadPerWait ==
  steady =>
    \/ state # "WAIT" /\ ~emif_read /\ inflight = << >>
    \/ state = "WAIT" /\ emif_read /\ inflight = << >>
    \/ state = "WAIT" /\ ~emif_read /\ Len(inflight) = 1

(* When read_done is announced, the beats fetched for the command carry as *)
(* many valid bytes as the command asked for.                              *)
DoneCountsBytes == steady /\ read_done => got = cmd.total

(* Every beat in the FIFO carries only bytes that the command names: the   *)
(* head and tail masks pick the bytes at and after the start address and   *)
(* before the end ("Byte address: 0 -> 31", ddr3_usr_logic.v:116).         *)
OnlyBytesNamed == \A i \in DOMAIN fifo : BytesOf(fifo[i]) \subseteq BytesNamed(cmd)

(* A command that is issued is answered with read_done, for which          *)
(* wps_controller.v waits, or cut off by a reset.                          *)
FetchCompletes == busy ~> (~busy \/ ~steady)

(* The engine implements BeatStream.  What is pending follows from the     *)
(* registers: the words not yet read, counted from the address register.   *)
AsOwed(beat) == [word |-> beat.word, bytes |-> Cardinality(beat.valid)]

PendingBeats ==
  LET head(word, left) ==
        <<[word |-> word, bytes |-> Cardinality(byte_valid)]>>
          \o Owed(NextWord(word), left)
  IN  CASE state = "IDLE" /\ ~ddr3_read_start_reg -> << >>
        [] state = "FIRST_READ" \/ (state = "IDLE" /\ ddr3_read_start_reg) ->
             head(start_addr_reg, Subtract(to_read_byte_reg, HeadBytes(cmd)))
        [] state = "WAIT" -> head(emif_addr, to_read_byte_reg)
        [] state \in {"READ", "LAST_READ"} -> Owed(emif_addr, to_read_byte_reg)

BufferedBeats ==
  LET beats == IF fifo_wr_ena THEN Append(fifo, fifo_din) ELSE fifo
  IN  [i \in DOMAIN beats |-> AsOwed(beats[i])]

BeatOut == IF fifo_dout_valid THEN AsOwed(fifo_dout) ELSE [word |-> 0, bytes |-> 0]

Stream == INSTANCE BeatStream
            WITH pending <- PendingBeats, buffered <- BufferedBeats,
                 out <- BeatOut, done <- read_done

(* From the start, and again from the next reset on after ready fell.      *)
ImplementsBeatStream ==
  Stream!Init /\ [][steady' => [Stream!Next]_(Stream!streamVars)]_vars
=============================================================================
