------------------------------- MODULE WpsSend -------------------------------
(***************************************************************************)
(* wps_send.v with the display timing generator, the pulse generator and   *)
(* the read side of the single_fifo.v it takes its data from: one command  *)
(* becomes a number of frames, each followed by a capture pulse.           *)
(*                                                                         *)
(* One step is one rising edge of clk148_5m; everything in the module      *)
(* steps together.  The words of the pattern are numbered in the order in  *)
(* which a frame takes them from the FIFO; that the FIFO has them in time  *)
(* is outside this component.                                              *)
(*                                                                         *)
(* External: the start level that wps_controller.v holds for two cycles of *)
(* its own, faster clock, here up to StartCycles of this one, and the      *)
(* FIFO's empty flag.                                                      *)
(***************************************************************************)
EXTENDS Integers, Timer, DisplayTiming, PulseGen

CONSTANTS
  Requests,       \* what a command may ask: [frames, pulse_cycle, source]
  FrameMod,       \* modulus of the 32-bit frame counter (2^32 in the code)
  DelayOf,        \* MAX of the delay timer of each source (8000 and 4000)
  StartCycles,    \* most cycles the start level is seen for (2)
  AnyTimeStarts   \* whether a start may come before the last one is done

Sources == {"DDR3", "ONCHIP_MEM"}
ASSUME FrameModAssumption == FrameMod \in Nat \ {0}
ASSUME RequestsAssumption ==
  Requests \subseteq [frames : 0 .. FrameMod - 1, pulse_cycle : 0 .. PulseMod - 1,
                      source : Sources]
ASSUME DelayAssumption == DelayOf \in [Sources -> Nat \ {0}]
(* Three cycles pass between a read and its word on the output: de is      *)
(* longer than the data of a line by two of them, a read is left to stop,  *)
(* and a line is over before the next begins (122, 120 and 8 in the code). *)
ASSUME PipelineAssumption == HPhase > 1 /\ HActive > HPhase + 1 /\ HFront > 2
ASSUME StartAssumption == StartCycles \in Nat \ {0} /\ AnyTimeStarts \in BOOLEAN

VARIABLES
  state,            \* state of the machine
  request,          \* frame_num, pulse_cycle and data source at the inputs
  start,            \* cycles the start level stays high
  start_r,          \* start_r1, start_r2
  fame_num_reg,     \* frames to send
  cycle_reg,        \* pulse_cycle_reg of wps_send
  frame_cnt,        \* frames sent
  delay_timer,      \* the delay timers of the two sources
  frame_trig,       \* trigger to the display timing
  start_pulse,      \* trigger to the pulse generator
  send_done,        \* wps_send_done_out
  frame_done,       \* one_frame_send_done_out
  de_r,             \* de_in_r1, r2, r3 and de_out
  first_r,          \* de_first_offset_line_in_r1, r2, r3 and ..._out
  de_rising,
  de_falling,
  v_sync_r1,
  v_sync_rising,
  pulse_cnt_per_de, \* cycles of de in this line
  line_cnt,         \* lines of de in this frame
  read_pingpong,    \* read_pingpong_out
  data_ready,       \* the FIFO is not empty
  fifo_q,           \* [valid, word]: q of the FIFO, ping_fifo_dout_valid
  tx,               \* [valid, word]: tx_data, tx_valid of single_fifo.v
  pix_data_out,     \* pixel at the output: a word, CONTROL or BLANK
  taken,            \* history: words taken from the FIFO for this frame
  shown             \* history: words shown on the output for this frame

machineVars == <<state, fame_num_reg, cycle_reg, frame_cnt, frame_trig, start_pulse,
                 send_done, frame_done, read_pingpong, pix_data_out>>
inputVars == <<request, start, start_r, data_ready>>
syncVars == <<de_r, first_r, de_rising, de_falling, v_sync_r1, v_sync_rising,
              pulse_cnt_per_de, line_cnt>>
fifoVars == <<fifo_q, tx, taken, shown>>
vars == <<machineVars, inputVars, syncVars, fifoVars, delay_timer, displayVars, pulseVars>>

States == {"IDLE", "WAIT_DATA", "SEND_HDMI_TRIG", "SEND_HDMI_DATA", "GEN_PULSE", "UPDATE_REG"}

FrameWords == VPhase * HPhase
BLANK == -1
CONTROL == -2
Slot == [valid : BOOLEAN, word : Nat]
EmptySlot == [valid |-> FALSE, word |-> 0]

TypeOK ==
  /\ DisplayTypeOK /\ PulseTypeOK
  /\ state \in States
  /\ request \in [frames : 0 .. FrameMod - 1, pulse_cycle : 0 .. PulseMod - 1, source : Sources]
  /\ start \in 0 .. StartCycles
  /\ start_r \in [1 .. 2 -> BOOLEAN]
  /\ fame_num_reg \in 0 .. FrameMod - 1
  /\ frame_cnt \in 0 .. FrameMod - 1
  /\ cycle_reg \in 0 .. PulseMod - 1
  /\ \A s \in Sources : delay_timer[s] \in TimerType(DelayOf[s])
  /\ frame_trig \in BOOLEAN /\ start_pulse \in BOOLEAN
  /\ send_done \in BOOLEAN /\ frame_done \in BOOLEAN
  /\ read_pingpong \in BOOLEAN /\ data_ready \in BOOLEAN
  /\ de_rising \in BOOLEAN /\ de_falling \in BOOLEAN
  /\ v_sync_r1 \in BOOLEAN /\ v_sync_rising \in BOOLEAN
  /\ de_r \in [1 .. 4 -> BOOLEAN] /\ first_r \in [1 .. 4 -> BOOLEAN]
  /\ pulse_cnt_per_de \in 0 .. HActive - 1
  /\ line_cnt \in Nat
  /\ fifo_q \in Slot /\ tx \in Slot
  /\ pix_data_out \in Nat \cup {BLANK, CONTROL}
  /\ taken \in Nat /\ shown \in Nat

Init ==
  /\ DisplayInit /\ PulseInit
  /\ state = "IDLE"
  /\ request \in Requests
  /\ start = 0
  /\ start_r = [i \in 1 .. 2 |-> FALSE]
  /\ fame_num_reg = 0 /\ frame_cnt = 0 /\ cycle_reg = 0
  /\ delay_timer = [s \in Sources |-> Stopped]
  /\ frame_trig = FALSE /\ start_pulse = FALSE
  /\ send_done = FALSE /\ frame_done = FALSE
  /\ de_r = [i \in 1 .. 4 |-> FALSE] /\ first_r = [i \in 1 .. 4 |-> FALSE]
  /\ de_rising = FALSE /\ de_falling = FALSE
  /\ v_sync_r1 = FALSE /\ v_sync_rising = FALSE
  /\ pulse_cnt_per_de = 0 /\ line_cnt = 0
  /\ read_pingpong = FALSE /\ data_ready = FALSE
  /\ fifo_q = EmptySlot /\ tx = EmptySlot
  /\ pix_data_out = BLANK
  /\ taken = 0 /\ shown = 0

-----------------------------------------------------------------------------
(* The inputs, delayed by registers: the start level, de, v_sync.          *)

Delayed(pipe, input) == [i \in DOMAIN pipe |-> IF i = 1 THEN input ELSE pipe[i - 1]]

SyncStep ==
  /\ de_r' = Delayed(de_r, s_de)
  /\ first_r' = Delayed(first_r, s_de_first_line)
  /\ de_rising' = (s_de /\ ~de_r[1])
  /\ de_falling' = (~s_de /\ de_r[1])
  /\ v_sync_r1' = s_vsync_hdmi
  /\ v_sync_rising' = (s_vsync_hdmi /\ ~v_sync_r1)

(* Slip: the line counter not cleared at the start of a frame.             *)
LineCountersRunOn ==
  /\ pulse_cnt_per_de' = IF de_r[1] /\ pulse_cnt_per_de # HActive - 1
                         THEN pulse_cnt_per_de + 1 ELSE 0
  /\ line_cnt' = IF de_rising THEN line_cnt + 1 ELSE line_cnt

LineCounters ==
  /\ pulse_cnt_per_de' = IF de_r[1] /\ pulse_cnt_per_de # HActive - 1
                         THEN pulse_cnt_per_de + 1 ELSE 0
  /\ line_cnt' = IF v_sync_rising THEN 0 ELSE IF de_rising THEN line_cnt + 1 ELSE line_cnt

(* The controller raises start with a new request; the request stays at    *)
(* the inputs until the next one.                                          *)
NewStart ==
  /\ start = 0
  /\ AnyTimeStarts \/ (state = "IDLE" /\ start_r = [i \in 1 .. 2 |-> FALSE])
  /\ start' \in 1 .. StartCycles
  /\ request' \in Requests

HeldStart ==
  /\ start' = IF start = 0 THEN 0 ELSE start - 1
  /\ UNCHANGED request

InputStep ==
  /\ NewStart \/ HeldStart
  /\ start_r' = Delayed(start_r, start > 0)

(* The FIFO is read by read_pingpong alone, so it stays ready until then.  *)
(* A read is answered on q in the next cycle and on tx_data in the one     *)
(* after it.                                                               *)
FifoStep ==
  /\ data_ready' \in {r \in BOOLEAN : data_ready /\ ~read_pingpong => r}
  /\ fifo_q' = [valid |-> read_pingpong, word |-> IF read_pingpong THEN taken ELSE fifo_q.word]
  /\ tx' = [valid |-> fifo_q.valid, word |-> IF fifo_q.valid THEN fifo_q.word ELSE tx.word]

(* The words of a frame are counted from the trigger on.                   *)
HistoryStep ==
  /\ taken' = IF frame_trig THEN 0 ELSE IF read_pingpong THEN taken + 1 ELSE taken
  /\ shown' = IF frame_trig THEN 0 ELSE IF pix_data_out >= 0 THEN shown + 1 ELSE shown

-----------------------------------------------------------------------------
(* The state machine.  Every state clears the pulses it does not raise.    *)

(* The outputs of a state that neither reads nor shows anything.           *)
Dark == read_pingpong' = FALSE /\ pix_data_out' = BLANK
NoFrame == frame_trig' = FALSE /\ start_pulse' = FALSE /\ frame_done' = FALSE

DelayStep(enabled) ==
  delay_timer' = [s \in Sources |-> Tick(delay_timer[s], DelayOf[s], s \in enabled)]

Idle ==
  /\ state = "IDLE"
  /\ \/ /\ start_r[2]
        /\ state' = "WAIT_DATA"
        /\ fame_num_reg' = request.frames
        /\ cycle_reg' = request.pulse_cycle
     \/ ~start_r[2] /\ UNCHANGED <<state, fame_num_reg, cycle_reg>>
  /\ DelayStep({})
  /\ Dark /\ NoFrame
  /\ send_done' = FALSE
  /\ UNCHANGED frame_cnt

(* Give the FIFOs in front of this one time to fill.                       *)
WaitData ==
  /\ state = "WAIT_DATA"
  /\ DelayStep(IF data_ready THEN {request.source} ELSE {})
  /\ state' = IF data_ready /\ delay_timer[request.source].out THEN "SEND_HDMI_TRIG" ELSE state
  /\ Dark /\ NoFrame
  /\ send_done' = FALSE
  /\ UNCHANGED <<fame_num_reg, cycle_reg, frame_cnt>>

SendHdmiTrig ==
  /\ state = "SEND_HDMI_TRIG"
  /\ frame_trig' = ~display_busy
  /\ state' = IF display_busy THEN state ELSE "SEND_HDMI_DATA"
  /\ DelayStep({})
  /\ Dark
  /\ start_pulse' = FALSE /\ frame_done' = FALSE /\ send_done' = FALSE
  /\ UNCHANGED <<fame_num_reg, cycle_reg, frame_cnt>>

(* Slip: reads stopped one cycle late ("Brake ahead", wps_send.v:181).     *)
ReadsLate == s_de /\ ~s_de_first_line /\ pulse_cnt_per_de < HPhase

(* When to read, what to show, and when a frame has been sent.  Reads stop *)
(* ahead of the end of de, which is longer than the data of a line by the  *)
(* cycles a word needs from the read to the output.                        *)
Reads == s_de /\ ~s_de_first_line /\ pulse_cnt_per_de < HPhase - 1

Pixel ==
  IF de_r[3] /\ first_r[3] THEN CONTROL
  ELSE IF de_r[1] /\ tx.valid /\ ~first_r[1] THEN tx.word
  ELSE BLANK

(* Slip: the end of the frame taken at the first edge of its last line.    *)
FrameSentEarly == line_cnt = VActive /\ ~de_falling

(* Slip: the control line not counted.                                     *)
FrameSentLineEarly == line_cnt = VPhase /\ de_falling

FrameSent == line_cnt = VActive /\ de_falling

SendHdmiData ==
  /\ state = "SEND_HDMI_DATA"
  /\ read_pingpong' = Reads
  /\ pix_data_out' = Pixel
  /\ state' = IF FrameSent THEN "GEN_PULSE" ELSE state
  /\ start_pulse' = FrameSent
  /\ frame_done' = FrameSent
  /\ frame_cnt' = IF FrameSent THEN (frame_cnt + 1) % FrameMod ELSE frame_cnt
  /\ DelayStep({})
  /\ frame_trig' = FALSE /\ send_done' = FALSE
  /\ UNCHANGED <<fame_num_reg, cycle_reg>>

(* The next frame waits for the end of the capture pulse of this one.      *)
GenPulse ==
  /\ state = "GEN_PULSE"
  /\ state' = IF ~end_out THEN state
              ELSE IF frame_cnt = fame_num_reg THEN "UPDATE_REG" ELSE "SEND_HDMI_TRIG"
  /\ DelayStep({})
  /\ Dark /\ NoFrame
  /\ send_done' = FALSE
  /\ UNCHANGED <<fame_num_reg, cycle_reg, frame_cnt>>

(* Slip: the frame counter not cleared behind a command.                   *)
UpdateRegKeepsCount ==
  /\ state = "UPDATE_REG"
  /\ state' = "IDLE"
  /\ fame_num_reg' = 0
  /\ send_done' = TRUE
  /\ DelayStep({})
  /\ Dark /\ NoFrame
  /\ UNCHANGED <<cycle_reg, frame_cnt>>

UpdateReg ==
  /\ state = "UPDATE_REG"
  /\ state' = "IDLE"
  /\ fame_num_reg' = 0
  /\ frame_cnt' = 0
  /\ send_done' = TRUE
  /\ DelayStep({})
  /\ Dark /\ NoFrame
  /\ UNCHANGED cycle_reg

Machine == Idle \/ WaitData \/ SendHdmiTrig \/ SendHdmiData \/ GenPulse \/ UpdateReg

Clock ==
  /\ Machine
  /\ InputStep
  /\ SyncStep
  /\ LineCounters
  /\ FifoStep
  /\ HistoryStep
  /\ DisplayStep(frame_trig)
  /\ PulseStep(start_pulse, cycle_reg)

(* The reset of clk148_5m.  The input and de registers, read_pingpong_out, *)
(* and the output registers of single_fifo.v are not reset.                *)
Reset ==
  /\ state' = "IDLE"
  /\ fame_num_reg' = 0 /\ cycle_reg' = 0 /\ frame_cnt' = 0
  /\ NoFrame
  /\ send_done' = FALSE
  /\ pix_data_out' = BLANK
  /\ pulse_cnt_per_de' = 0 /\ line_cnt' = 0
  /\ delay_timer' = [s \in Sources |-> Stopped]
  /\ DisplayReset /\ PulseReset
  /\ SyncStep
  /\ InputStep
  /\ FifoStep
  /\ taken' = 0 /\ shown' = 0
  /\ UNCHANGED read_pingpong

Next == Clock \/ Reset

Spec == Init /\ [][Next]_vars

(* The pixel clock runs.  Nothing obliges the controller to start, or data *)
(* to arrive; resets may come, and need not.                               *)
FairSpec == Spec /\ WF_vars(Clock)

-----------------------------------------------------------------------------
(* Properties *)

(* The word on the output is the next one of the frame, inside de and off  *)
(* the control line: the reads, the three registers of the data path and   *)
(* the three of de keep step, and no word is skipped or shown twice.       *)
WordsInStep ==
  pix_data_out >= 0 => /\ pix_data_out = shown
                       /\ de_r[4] /\ ~first_r[4]

(* A frame that is reported sent has taken all its words and shown all of  *)
(* them: nothing is left in the data path for the next frame to begin with.*)
FrameIsWhole == frame_done => taken = FrameWords /\ shown = FrameWords

(* The capture pulse does not overlap the data of a frame: the camera is   *)
(* triggered on a pattern that is complete.                                *)
PulseAfterFrame == pulse => ~s_de /\ ~read_pingpong /\ pix_data_out = BLANK

(* A command is reported done when as many frames have been sent as it     *)
(* asked for, and the counter starts at 0 for the next one.                *)
CountsFrames ==
  /\ state \in {"IDLE", "WAIT_DATA"} => frame_cnt = 0
  /\ state = "UPDATE_REG" => frame_cnt = fame_num_reg
  /\ state \in {"SEND_HDMI_TRIG", "SEND_HDMI_DATA"} /\ fame_num_reg > 0 =>
       frame_cnt < fame_num_reg

(* A command whose first frame has been triggered comes to its end, in     *)
(* UPDATE_REG or in a reset, also when another start comes during it: no   *)
(* counter, edge or pulse that a state waits for is missed.                *)
CommandEnds == state = "SEND_HDMI_TRIG" ~> state = "IDLE"
=============================================================================
