------------------------------- MODULE WpsTop -------------------------------
(***************************************************************************)
(* wps_top.v: what happens to a command between the controller, the two    *)
(* fetch engines, the data multiplexer and the sender, on two clocks.      *)
(*                                                                         *)
(* MemTick is a rising edge of mem_clk (the controller, the engines, the   *)
(* multiplexer and the write side of the data path), PixTick one of        *)
(* clk148_5m (the sender).                                                 *)
(*                                                                         *)
(* The multiplexer and the wires of wps_top.v are modelled register by     *)
(* register.  What they connect is reduced to the interface that           *)
(* Ddr3UsrLogic, OnchipMemUsrLogic, WpsController and WpsSend model in     *)
(* detail: a fetch is a number of beats, and the path to the sender is one *)
(* FIFO, as deep as the first of it, whose stages behind pass on beats in  *)
(* order and at any speed.                                                 *)
(***************************************************************************)
EXTENDS Sequences, Clocks

CONSTANTS
  Beats,          \* beats of a command
  EngineDepth,    \* beats an engine's FIFO holds before the engine waits
  PathStop,       \* used beats from which the path asks for no more (120)
  PathDepth,      \* beats the path can hold (128)
  HostWaitsFor    \* what the host waits for before it starts a command:
                  \*   "play_done" bit, or that the command has been "sent"

Sources == {"DDR3", "ONCHIP_MEM"}

ASSUME BeatsAssumption == Beats \in Nat \ {0}
ASSUME EngineAssumption == EngineDepth \in Nat \ {0}
ASSUME PathAssumption ==
  PathStop \in Nat \ {0} /\ PathDepth \in Nat /\ PathDepth >= PathStop + 5
ASSUME HostAssumption == HostWaitsFor \in {"play_done", "sent"}

VARIABLES
  host,          \* "rest", or the host has written a "start", or it "waits"
  cmd,           \* [source, id] the host wrote; the id alternates
  ctrl,          \* state of wps_controller, without its polling
  issued,        \* the command at the controller's outputs
  read_start,    \* ddr3_read_start, onchip_mem_read_start
  read_done,     \* ddr3_read_done, onchip_mem_read_done
  send_start,    \* wps_send_start_r1, wps_send_start_r2, wps_send_start_out
  left,          \* beats an engine has to fetch yet
  engine_fifo,   \* FIFO of each engine, as the ids of the beats' commands
  dout,          \* [valid, id]: read_data_out of each engine
  read_req,      \* ddr3_usr_logic_read_req, onchip_mem_usr_logic_read_req
  data_mux,      \* the engine whose data goes on
  wps_send_done_r,
  rx,            \* [valid, id]: interface_rx_data
  path,          \* beats between the multiplexer and the sender
  start_r,       \* start_r1, start_r2 of wps_send
  sender,        \* [state, id, taken] of wps_send
  wps_send_done,
  sent           \* whether the command the host wrote last has been sent

engineVars == <<read_done, left, engine_fifo, dout>>
muxVars == <<read_req, data_mux, wps_send_done_r, rx>>
memVars == <<host, cmd, ctrl, issued, read_start, send_start, engineVars, muxVars>>
pixVars == <<start_r, sender, wps_send_done>>
vars == <<memVars, path, pixVars, sent, mem_ticks>>

Ids == 0 .. 1
Command == [source : Sources, id : Ids]
Slot == [valid : BOOLEAN, id : Ids]
Empty == [valid |-> FALSE, id |-> 0]
NoPulse == [s \in Sources |-> FALSE]

TypeOK ==
  /\ host \in {"rest", "start", "waits"}
  /\ cmd \in Command /\ issued \in Command
  /\ ctrl \in {"POLL_REG", "ISSUE_CMD", "FETCH", "UPDATE_REG"}
  /\ read_start \in [Sources -> BOOLEAN] /\ read_done \in [Sources -> BOOLEAN]
  /\ send_start \in [1 .. 3 -> BOOLEAN]
  /\ left \in [Sources -> 0 .. Beats]
  /\ \A s \in Sources : engine_fifo[s] \in Seq(Ids) /\ Len(engine_fifo[s]) <= EngineDepth
  /\ dout \in [Sources -> Slot]
  /\ read_req \in [Sources -> BOOLEAN]
  /\ data_mux \in Sources
  /\ rx \in Slot
  /\ path \in Seq(Ids)
  /\ start_r \in [1 .. 2 -> BOOLEAN]
  /\ sender \in [state : {"IDLE", "WAIT_DATA", "SEND", "GEN_PULSE"}, id : Ids,
                 taken : 0 .. Beats]
  /\ wps_send_done \in BOOLEAN /\ wps_send_done_r \in BOOLEAN
  /\ sent \in BOOLEAN
  /\ mem_ticks \in 0 .. MaxMemTicks

Init ==
  /\ host = "rest"
  /\ cmd \in [source : Sources, id : {0}] /\ issued = cmd
  /\ ctrl = "POLL_REG"
  /\ read_start = NoPulse /\ read_done = NoPulse
  /\ send_start = [i \in 1 .. 3 |-> FALSE]
  /\ left = [s \in Sources |-> 0]
  /\ engine_fifo = [s \in Sources |-> << >>]
  /\ dout = [s \in Sources |-> Empty]
  /\ read_req = NoPulse
  /\ data_mux = "DDR3"
  /\ wps_send_done = FALSE /\ wps_send_done_r = FALSE
  /\ rx = Empty
  /\ path = << >>
  /\ start_r = [i \in 1 .. 2 |-> FALSE]
  /\ sender = [state |-> "IDLE", id |-> 0, taken |-> 0]
  /\ sent = TRUE
  /\ mem_ticks = 0

-----------------------------------------------------------------------------
(* The controller waits for a start, issues the command, waits for the     *)
(* engine and reports play_done.  The host writes a start while the        *)
(* controller polls.                                                       *)

HostStarts ==
  /\ host = "rest"
  /\ HostWaitsFor = "sent" => sent
  /\ host' = "start"
  /\ cmd' \in [source : Sources, id : {1 - cmd.id}]
  /\ sent' = FALSE

HostRests == UNCHANGED <<host, cmd, sent>>

Polling ==
  /\ ctrl = "POLL_REG"
  /\ HostStarts \/ HostRests
  /\ read_start' = NoPulse
  /\ UNCHANGED <<ctrl, issued>>

PollReg ==
  /\ ctrl = "POLL_REG" /\ host = "start"
  /\ ctrl' = "ISSUE_CMD"
  /\ host' = "waits"
  /\ read_start' = NoPulse
  /\ UNCHANGED <<issued, cmd, sent>>

IssueCmd ==
  /\ ctrl = "ISSUE_CMD"
  /\ ctrl' = "FETCH"
  /\ issued' = cmd
  /\ read_start' = [s \in Sources |-> s = cmd.source]
  /\ HostRests

Fetch ==
  /\ ctrl = "FETCH"
  /\ ctrl' = IF read_done[issued.source] THEN "UPDATE_REG" ELSE "FETCH"
  /\ read_start' = NoPulse
  /\ UNCHANGED issued
  /\ HostRests

UpdateReg ==
  /\ ctrl = "UPDATE_REG"
  /\ ctrl' = "POLL_REG"
  /\ host' = "rest"
  /\ read_start' = NoPulse
  /\ UNCHANGED <<issued, cmd, sent>>

Controller == Polling \/ PollReg \/ IssueCmd \/ Fetch \/ UpdateReg

(* Slip: the start passed on as it is.                                     *)
PassStart == send_start' = <<ctrl = "ISSUE_CMD", send_start[1], send_start[1]>>

(* The start of the sender, extended to two cycles of mem_clk: the pixel   *)
(* clock sees it once or twice.                                            *)
ExtendStart ==
  send_start' = <<ctrl = "ISSUE_CMD", send_start[1], send_start[1] \/ send_start[2]>>

-----------------------------------------------------------------------------
(* The engines: those in `fetching' add a beat to their FIFO in this cycle.*)

CanFetch == {s \in Sources : left[s] > 0 /\ Len(engine_fifo[s]) < EngineDepth}

Engines(fetching) ==
  LET taken(s) == read_req[s] /\ engine_fifo[s] # << >>
      kept(s)  == IF taken(s) THEN Tail(engine_fifo[s]) ELSE engine_fifo[s]
  IN  /\ left' = [s \in Sources |-> IF read_start[s] THEN Beats
                                    ELSE IF s \in fetching THEN left[s] - 1 ELSE left[s]]
      /\ read_done' = [s \in Sources |-> s \in fetching /\ left[s] = 1]
      /\ engine_fifo' = [s \in Sources |-> IF s \in fetching THEN Append(kept(s), issued.id)
                                           ELSE kept(s)]
      /\ dout' = [s \in Sources |-> IF taken(s) THEN [valid |-> TRUE, id |-> Head(engine_fifo[s])]
                                    ELSE Empty]

-----------------------------------------------------------------------------
(* wps_top.v: the path asks for a beat while it has room and the engine    *)
(* that data_mux selects has one.  The request and the data of the engine  *)
(* that is not selected keep the values they had.                          *)

(* Slip: the flag of the FIFO in place of the threshold (the code tests    *)
(* both).                                                                  *)
RxReadyWhileNotFull == Len(path) < PathDepth /\ engine_fifo[data_mux] # << >>

interface_rx_ready == Len(path) < PathStop /\ engine_fifo[data_mux] # << >>

(* Slip: the multiplexer given back when the fetch is done.                *)
NextMuxAtReadDone ==
  IF read_start["ONCHIP_MEM"] THEN "ONCHIP_MEM"
  ELSE IF read_done["ONCHIP_MEM"] THEN "DDR3" ELSE data_mux

NextMux ==
  IF read_start["ONCHIP_MEM"] THEN "ONCHIP_MEM"
  ELSE IF wps_send_done_r THEN "DDR3" ELSE data_mux

Mux ==
  /\ data_mux' = NextMux
  /\ wps_send_done_r' = wps_send_done
  /\ read_req' = [read_req EXCEPT ![data_mux] = interface_rx_ready]
  /\ rx' = dout[data_mux]

MemTick ==
  /\ MemClock
  /\ Controller
  /\ ExtendStart
  /\ \E fetching \in SUBSET CanFetch : Engines(fetching)
  /\ Mux
  /\ path' = IF rx.valid THEN Append(path, rx.id) ELSE path
  /\ UNCHANGED pixVars

-----------------------------------------------------------------------------
(* wps_send.v: a start is seen through two registers, and only in IDLE;    *)
(* the words of the command are taken from the path at the sender's pace.  *)

Idle ==
  /\ sender.state = "IDLE"
  /\ sender' = IF start_r[2] THEN [state |-> "WAIT_DATA", id |-> issued.id, taken |-> 0]
               ELSE sender
  /\ wps_send_done' = FALSE
  /\ UNCHANGED <<path, sent>>

WaitData ==
  /\ sender.state = "WAIT_DATA" /\ path # << >>
  /\ sender' = [sender EXCEPT !.state = "SEND"]
  /\ wps_send_done' = FALSE
  /\ UNCHANGED <<path, sent>>

(* Slip: the last word of a command left in the path.                      *)
IsLastEarly(taken) == taken >= Beats - 1

IsLast(taken) == taken = Beats

Send ==
  /\ sender.state = "SEND" /\ path # << >>
  /\ sender' = [sender EXCEPT !.taken = @ + 1,
                              !.state = IF IsLast(sender.taken + 1) THEN "GEN_PULSE" ELSE "SEND"]
  /\ path' = Tail(path)
  /\ wps_send_done' = FALSE
  /\ UNCHANGED sent

GenPulse ==
  /\ sender.state = "GEN_PULSE"
  /\ sender' = [sender EXCEPT !.state = "IDLE", !.taken = 0]
  /\ wps_send_done' = TRUE
  /\ sent' = (sent \/ sender.id = cmd.id)
  /\ UNCHANGED path

(* The sender is busy with a line, a blank or a delay.                     *)
Busy ==
  /\ sender.state # "IDLE"
  /\ wps_send_done' = FALSE
  /\ UNCHANGED <<path, sender, sent>>

SenderWorks == Idle \/ WaitData \/ Send \/ GenPulse

PixTick ==
  /\ PixClock
  /\ start_r' = <<send_start[3], start_r[1]>>
  /\ SenderWorks \/ Busy
  /\ UNCHANGED memVars

Next == MemTick \/ PixTick

Spec == Init /\ [][Next]_vars

(* Both clocks run.  The controller polls, an engine with room fetches and *)
(* the sender goes on, each again and again: a clock's tick is not enabled *)
(* while the other one is due, so these are strong.                        *)
Polls == MemTick /\ PollReg
Fetches(s) == MemTick /\ left'[s] < left[s]
Works == PixTick /\ SenderWorks
FairSpec ==
  /\ Spec
  /\ WF_vars(MemTick) /\ WF_vars(PixTick)
  /\ SF_vars(Polls) /\ SF_vars(Works)
  /\ \A s \in Sources : SF_vars(Fetches(s))

-----------------------------------------------------------------------------
(* Properties *)

(* A beat that an engine hands over is taken by the multiplexer: the beats *)
(* of the engine that is not selected are lost, and nothing in the code    *)
(* keeps that engine from being read (wps_top.v:255-268).                  *)
NoBeatDropped == \A s \in Sources : dout[s].valid => s = data_mux

(* The sender finds the words of its own command in front, and none that   *)
(* another command left behind.                                            *)
SendsOwnWords ==
  sender.state \in {"WAIT_DATA", "SEND"} /\ path # << >> => Head(path) = sender.id

(* A beat is written to the path only while there is room for it, whatever *)
(* the host does: three beats are on their way behind the threshold, and   *)
(* two more when the multiplexer changes over to an engine whose request   *)
(* was left standing.                                                      *)
PathNoOverflow == rx.valid => Len(path) < PathDepth

(* A command that the host starts is sent.                                 *)
CommandIsSent == host = "start" ~> sent
=============================================================================
