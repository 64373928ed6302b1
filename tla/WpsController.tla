---------------------------- MODULE WpsController ----------------------------
(***************************************************************************)
(* wps_controller.v: polls the command word in the on-chip memory, starts  *)
(* a fetch engine and the sender, and reports back in the same word.       *)
(*                                                                         *)
(* One step is one rising edge of mem_clk.  With the controller step its   *)
(* poll timer (timer.v), the read pipeline and the port of the on-chip     *)
(* memory (wps_top.v), and, external to this component, the two fetch      *)
(* engines as the controller sees them and the host on the other port of   *)
(* the memory.                                                             *)
(*                                                                         *)
(* The command word is 256 bits wide: start, source and done are bits 31,  *)
(* 30 and 23, everything else the host writes is `args'.  The controller   *)
(* writes with byte enables: byte 3 holds start and source, byte 2 done.   *)
(* mem_sel repeats mem_rd and mem_wr, the address is always 0: neither is  *)
(* a variable.                                                             *)
(***************************************************************************)
EXTENDS Naturals, Timer

CONSTANTS
  Args,              \* what a command may say besides its source
  NoArgs,            \* the registers of a command after a reset
  PollPeriod,        \* MAX of the poll timer (256 in the code)
  HostClearsDone,    \* whether the host writes 0 to done when it writes start
  ResetDuringStart,  \* whether a reset may come while onchip_read_start is high
  MaxResets          \* bound on the resets of a behaviour

ASSUME ArgsAssumption == NoArgs \notin Args
ASSUME PollAssumption == PollPeriod \in Nat \ {0}
ASSUME HostAssumption == HostClearsDone \in BOOLEAN /\ ResetDuringStart \in BOOLEAN
ASSUME ResetsAssumption == MaxResets \in Nat

VARIABLES
  state,             \* state of the machine
  start_play_reg,    \* a command was read and is not finished
  source_reg,        \* pattern_source_reg
  args_reg,          \* the other registers read from the command word
  args_out,          \* the same, as driven to the engines and the sender
  read_start,        \* ddr3_read_start_out, onchip_mem_read_start_out
  mem_rd,            \* the controller reads the command word
  mem_wr,            \* the controller writes the command word,
  byte_enable,       \*   these bytes of it: {2, 3} stands for 32'h0000000f
  poll_timer,        \* [ena, cnt, out] of the poll timer
  read_pipe,         \* words on their way from the memory, two cycles deep
  mem,               \* the command word
  engine,            \* the fetch engines: running or not
  read_done,         \* their done pulses
  host,              \* what the host is doing
  wanted,            \* the command the host wrote last
  fetched,           \* history: the command wanted has been fetched
  resets             \* resets so far

machineVars == <<state, start_play_reg, source_reg, args_reg, args_out, read_start,
                 mem_rd, mem_wr, byte_enable, poll_timer>>
memoryVars == <<read_pipe, mem>>
engineVars == <<engine, read_done>>
hostVars == <<host, wanted>>
vars == <<machineVars, memoryVars, engineVars, hostVars, fetched, resets>>

Sources == {"DDR3", "ONCHIP_MEM"}
States == {"POLL_REG", "ISSUE_CMD", "FETCH_DDR3", "FETCH_ONCHIP_MEM", "UPDATE_REG"}

(* The state that waits for an engine.                                     *)
FetchState(source) == IF source = "DDR3" THEN "FETCH_DDR3" ELSE "FETCH_ONCHIP_MEM"

AnyArgs == Args \cup {NoArgs}
Word == [start : BOOLEAN, source : Sources, done : BOOLEAN, args : AnyArgs]
Command == [source : Sources, args : AnyArgs]
NoWord == [start |-> FALSE, source |-> "DDR3", done |-> FALSE, args |-> NoArgs]

TypeOK ==
  /\ state \in States
  /\ start_play_reg \in BOOLEAN
  /\ source_reg \in Sources
  /\ args_reg \in AnyArgs /\ args_out \in AnyArgs
  /\ read_start \in [Sources -> BOOLEAN]
  /\ mem_rd \in BOOLEAN /\ mem_wr \in BOOLEAN
  /\ byte_enable \in SUBSET {2, 3}
  /\ poll_timer \in TimerType(PollPeriod)
  /\ read_pipe \in [1 .. 2 -> [valid : BOOLEAN, word : Word]]
  /\ mem \in Word
  /\ engine \in [Sources -> {"idle", "running"}]
  /\ read_done \in [Sources -> BOOLEAN]
  /\ host \in {"idle", "armed", "waiting"}
  /\ wanted \in Command
  /\ fetched \in BOOLEAN
  /\ resets \in 0 .. MaxResets

Init ==
  /\ state = "POLL_REG"
  /\ start_play_reg = FALSE
  /\ source_reg = "DDR3"
  /\ args_reg = NoArgs /\ args_out = NoArgs
  /\ read_start = [s \in Sources |-> FALSE]
  /\ mem_rd = FALSE /\ mem_wr = FALSE
  /\ byte_enable = {}
  /\ poll_timer = Stopped
  /\ read_pipe = [i \in 1 .. 2 |-> [valid |-> FALSE, word |-> NoWord]]
  /\ mem = NoWord
  /\ engine = [s \in Sources |-> "idle"]
  /\ read_done = [s \in Sources |-> FALSE]
  /\ host = "idle"
  /\ wanted = [source |-> "DDR3", args |-> NoArgs]
  /\ fetched = FALSE
  /\ resets = 0

-----------------------------------------------------------------------------
(* The state machine.  Starts, reads and writes are pulses: every state    *)
(* that does not raise one clears it.                                      *)

(* Slip: the start outputs left as they are.                               *)
StartStays == UNCHANGED read_start

NoStart == read_start' = [s \in Sources |-> FALSE]
(* Slip: the write outputs left as they are.                               *)
WriteStays == UNCHANGED <<mem_wr, byte_enable>>

NoWrite == mem_wr' = FALSE /\ byte_enable' = {}

(* POLL_REG reads when the timer says so, keeps a word whose start bit is  *)
(* set, and moves on one cycle later, taking the start bit out of memory.  *)
Capture ==
  LET polled == read_pipe[2]
  IN  IF polled.valid /\ polled.word.start
      THEN /\ start_play_reg' = TRUE
           /\ source_reg' = polled.word.source
           /\ args_reg' = polled.word.args
      ELSE UNCHANGED <<start_play_reg, source_reg, args_reg>>

PollReg ==
  /\ state = "POLL_REG"
  /\ Capture
  /\ \/ /\ start_play_reg
        /\ state' = "ISSUE_CMD"
        /\ mem_rd' = FALSE
        /\ mem_wr' = TRUE
        /\ byte_enable' = {3}
     \/ /\ ~start_play_reg
        /\ state' = "POLL_REG"
        /\ mem_rd' = poll_timer.out
        /\ NoWrite
  /\ NoStart
  /\ UNCHANGED args_out

IssueCmd ==
  /\ state = "ISSUE_CMD"
  /\ args_out' = args_reg
  /\ read_start' = [s \in Sources |-> s = source_reg]
  /\ state' = FetchState(source_reg)
  /\ mem_rd' = FALSE
  /\ NoWrite
  /\ UNCHANGED <<start_play_reg, source_reg, args_reg>>

Fetch(source) ==
  /\ state = FetchState(source)
  /\ state' = IF read_done[source] THEN "UPDATE_REG" ELSE state
  /\ mem_rd' = FALSE
  /\ NoStart
  /\ NoWrite
  /\ UNCHANGED <<start_play_reg, source_reg, args_reg, args_out>>

UpdateReg ==
  /\ state = "UPDATE_REG"
  /\ state' = "POLL_REG"
  /\ start_play_reg' = FALSE
  /\ source_reg' = "DDR3"
  /\ args_reg' = NoArgs
  /\ mem_rd' = FALSE
  /\ mem_wr' = TRUE
  /\ byte_enable' = {2, 3}
  /\ NoStart
  /\ UNCHANGED args_out

Machine ==
  \/ PollReg
  \/ IssueCmd
  \/ \E source \in Sources : Fetch(source)
  \/ UpdateReg

(* The poll timer is enabled in the cycles after an idle POLL_REG.         *)
PollTimer ==
  poll_timer' = Tick(poll_timer, PollPeriod, state = "POLL_REG" /\ ~start_play_reg)

(* A word is read in the cycle mem_rd is high and seen two cycles later,   *)
(* whatever is written to the memory in between.                           *)
ReadPipe ==
  read_pipe' = [read_pipe EXCEPT ![1] = [valid |-> mem_rd, word |-> mem],
                                 ![2] = read_pipe[1]]

(* Slip: the byte with start and source not enabled.                       *)
WrittenKeepsStart(word) ==
  [word EXCEPT !.done = IF mem_wr /\ 2 \in byte_enable THEN TRUE ELSE @]

(* Slip: the done bit in the data of both writes, with all bytes enabled.  *)
WrittenDoneEarly(word) ==
  IF ~mem_wr THEN word ELSE [word EXCEPT !.start = FALSE, !.source = "DDR3", !.done = TRUE]

(* Slip: the byte with the done bit not enabled.                           *)
WrittenLosesDone(word) ==
  IF mem_wr /\ 3 \in byte_enable THEN [word EXCEPT !.start = FALSE, !.source = "DDR3"]
  ELSE word

(* The write data is 0 but for the done bit in UPDATE_REG.                 *)
Written(word) ==
  IF ~mem_wr THEN word
  ELSE [word EXCEPT !.start  = IF 3 \in byte_enable THEN FALSE ELSE @,
                    !.source = IF 3 \in byte_enable THEN "DDR3" ELSE @,
                    !.done   = IF 2 \in byte_enable THEN TRUE ELSE @]

-----------------------------------------------------------------------------
(* The engines: an idle one starts on its pulse, a running one is done     *)
(* after any number of cycles.  A start that meets a running engine is not *)
(* seen.                                                                   *)
Engines(finish) ==
  /\ engine' = [s \in Sources |->
       IF engine[s] = "idle" THEN IF read_start[s] THEN "running" ELSE "idle"
       ELSE IF s \in finish THEN "idle" ELSE "running"]
  /\ read_done' = [s \in Sources |-> engine[s] = "running" /\ s \in finish]

(* The host writes the arguments, then the low 32 bits with the start bit, *)
(* and waits for the done bit before it writes again.                      *)
WriteArgs(args) ==
  /\ host = "idle"
  /\ host' = "armed"
  /\ wanted' = [wanted EXCEPT !.args = args]
  /\ mem' = [Written(mem) EXCEPT !.args = args]
  /\ UNCHANGED fetched

WriteStart(source) ==
  /\ host = "armed"
  /\ host' = "waiting"
  /\ wanted' = [wanted EXCEPT !.source = source]
  /\ mem' = [Written(mem) EXCEPT !.start = TRUE, !.source = source,
                                 !.done = IF HostClearsDone THEN FALSE ELSE @]
  /\ fetched' = FALSE

SeeDone ==
  /\ host = "waiting" /\ mem.done
  /\ host' = "idle"
  /\ mem' = Written(mem)
  /\ UNCHANGED <<wanted, fetched>>

HostRests ==
  /\ mem' = Written(mem)
  /\ fetched' = (fetched \/ \E s \in Sources :
                   /\ read_done[s] /\ state = FetchState(s)
                   /\ wanted = [source |-> s, args |-> args_out])
  /\ UNCHANGED hostVars

Surroundings ==
  /\ PollTimer
  /\ ReadPipe
  /\ \E finish \in SUBSET Sources : Engines(finish)

Clock ==
  /\ Machine
  /\ Surroundings
  /\ \/ \E args \in Args : WriteArgs(args)
     \/ \E source \in Sources : WriteStart(source)
     \/ SeeDone
     \/ HostRests
  /\ UNCHANGED resets

(* A reset of the logic and the engines.  A write that the controller      *)
(* presents in that cycle still reaches the memory, which is not reset;    *)
(* start_play_reg, the registers read with it, the read pipeline and       *)
(* onchip_mem_read_start_out have no reset.                                *)
Reset ==
  /\ resets < MaxResets
  /\ read_start["ONCHIP_MEM"] => ResetDuringStart
  /\ resets' = resets + 1
  /\ state' = "POLL_REG"
  /\ mem_rd' = FALSE
  /\ NoWrite
  /\ poll_timer' = Stopped
  /\ read_start' = [read_start EXCEPT !["DDR3"] = FALSE]
  /\ args_out' = NoArgs
  /\ ReadPipe
  /\ mem' = Written(mem)
  /\ engine' = [s \in Sources |-> "idle"]
  /\ read_done' = [s \in Sources |-> FALSE]
  /\ UNCHANGED <<start_play_reg, source_reg, args_reg, hostVars, fetched>>

Next == Clock \/ Reset

Spec == Init /\ [][Next]_vars

(* The clock runs, an engine that runs comes to its end, and the host      *)
(* looks at the done bit again and again.  Nothing obliges it to write.    *)
Finishes(source) == Clock /\ read_done'[source]
Looks == Clock /\ host = "waiting" /\ host' = "idle"
FairSpec ==
  /\ Spec
  /\ WF_vars(Clock)
  /\ \A source \in Sources : WF_vars(Finishes(source))
  /\ WF_vars(Looks)

-----------------------------------------------------------------------------
(* Properties *)

(* A command is issued only while the host waits for it and with what the  *)
(* host wrote: no command is issued twice after it was reported, none is   *)
(* made up from stale registers, and a command whose word changed between  *)
(* the read and the capture is not mixed.                                  *)
IssuesWhatIsWanted ==
  state \in {"ISSUE_CMD", "FETCH_DDR3", "FETCH_ONCHIP_MEM"} =>
    /\ host = "waiting"
    /\ wanted = [source |-> source_reg, args |-> args_reg]

(* The host sees the done bit only once its command has been fetched, also *)
(* when a reset interrupts the fetch.                                      *)
DoneIsEarned == host = "waiting" /\ mem.done => fetched

(* An engine runs only while the controller waits for it: the controller   *)
(* schedules them ("Schedule the wps control", wps_controller.v:2).        *)
EnginesAreScheduled ==
  \A source \in Sources : engine[source] = "running" => state = FetchState(source)

(* The controller never drives the port of the on-chip memory in a cycle   *)
(* in which the on-chip engine may be reading: wps_top.v would give the    *)
(* engine's address away and still count its read as answered.             *)
PortIsFree == engine["ONCHIP_MEM"] = "running" => ~mem_rd /\ ~mem_wr

(* A command that the host starts is reported done, even when the logic is *)
(* reset on the way: start_play_reg survives the reset and the command is  *)
(* played again.                                                           *)
CommandIsReported == host = "waiting" ~> host = "idle"
=============================================================================
