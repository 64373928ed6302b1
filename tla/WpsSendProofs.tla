---------------------------- MODULE WpsSendProofs ----------------------------
(***************************************************************************)
(* Theorems about wps_send.v, for every frame format, delay, pulse length  *)
(* and number of frames that the assumptions of WpsSend allow, whatever    *)
(* the controller asks, and with resets at any time.                       *)
(***************************************************************************)
EXTENDS WpsSend, TLAPS

(***************************************************************************)
(* Type correctness, a part of the clock edge at a time.                   *)
(***************************************************************************)

(* A remainder is smaller than the modulus.                                *)
LEMMA ModInRange ==
  ASSUME NEW a \in Int, NEW b \in Nat \ {0}
  PROVE  a % b \in 0 .. b - 1
  OBVIOUS

(* A tick keeps a timer within its MAX.                                    *)
LEMMA TickType ==
  ASSUME NEW max \in Nat \ {0}, NEW timer \in TimerType(max), NEW enable \in BOOLEAN
  PROVE  Tick(timer, max, enable) \in TimerType(max)
<1>1. timer.ena \in BOOLEAN /\ timer.cnt \in 0 .. max
  BY DEF TimerType
<1>2. (IF timer.cnt # max /\ timer.ena THEN timer.cnt + 1 ELSE 0) \in 0 .. max
  BY <1>1
<1>3. (timer.cnt = max) \in BOOLEAN
  OBVIOUS
<1> QED
  BY <1>2, <1>3 DEF Tick, TimerType

(* The value that a reset gives the counters is in all of their ranges.    *)
LEMMA Zeros ==
  /\ 0 \in 0 .. HWhole /\ 0 \in 0 .. VWhole /\ 0 \in 0 .. HActive - 1
  /\ 0 \in 0 .. PulseMod - 1 /\ 0 \in 0 .. FrameMod - 1
<1>1. HWhole \in Nat /\ VWhole \in Nat /\ HActive - 1 \in Nat
  BY HorizontalAssumption, VerticalAssumption DEF HWhole, VWhole, VActive
<1>2. PulseMod - 1 \in Nat /\ FrameMod - 1 \in Nat
  BY PulseModAssumption, FrameModAssumption
<1> QED
  BY <1>1, <1>2

(* Both delay timers, whichever of them is enabled.                        *)
LEMMA DelayType ==
  ASSUME TypeOK, NEW enabled, DelayStep(enabled)
  PROVE  \A s \in Sources : delay_timer'[s] \in TimerType(DelayOf[s])
<1> SUFFICES ASSUME NEW s \in Sources
             PROVE  delay_timer'[s] \in TimerType(DelayOf[s])
  OBVIOUS
<1>1. DelayOf[s] \in Nat \ {0} /\ delay_timer[s] \in TimerType(DelayOf[s])
  BY DelayAssumption DEF TypeOK
<1>2. (s \in enabled) \in BOOLEAN
  OBVIOUS
<1>3. delay_timer'[s] = Tick(delay_timer[s], DelayOf[s], s \in enabled)
  BY DEF DelayStep
<1> QED
  BY <1>1, <1>2, <1>3, TickType

(* The counters of a frame stay within the line and the frame.             *)
LEMMA DisplayType ==
  ASSUME DisplayTypeOK, NEW trig \in BOOLEAN, DisplayStep(trig) \/ DisplayReset
  PROVE  DisplayTypeOK'
<1> USE DEF DisplayTypeOK
<1>0. HWhole \in Nat /\ VWhole \in Nat
  BY HorizontalAssumption, VerticalAssumption DEF HWhole, VWhole, VActive
<1>1. CASE DisplayStep(trig)
  <2>1. r_pixel_cnt' \in 0 .. HWhole
    BY <1>0, <1>1 DEF DisplayStep, Counters, LineEnds
  <2>2. r_line_cnt' \in 0 .. VWhole
    BY <1>0, <1>1 DEF DisplayStep, Counters, LineEnds, FrameEnds
  <2>3. display_busy' \in BOOLEAN
    BY <1>0, <1>1 DEF DisplayStep, Counters, LineEnds, FrameEnds
  <2>4. s_vsync_hdmi' \in BOOLEAN /\ s_de' \in BOOLEAN /\ s_de_first_line' \in BOOLEAN
    BY <1>1 DEF DisplayStep, Signals
  <2> QED
    BY <2>1, <2>2, <2>3, <2>4
<1>2. CASE DisplayReset
  BY <1>2, Zeros DEF DisplayReset
<1> QED
  BY <1>1, <1>2

(* The registers of the pulse generator.                                   *)
LEMMA PulseType ==
  ASSUME PulseTypeOK, NEW trigger \in BOOLEAN, NEW cycle \in 0 .. PulseMod - 1,
         PulseStep(trigger, cycle) \/ PulseReset
  PROVE  PulseTypeOK'
<1> USE PulseModAssumption
<1> USE DEF PulseTypeOK
<1>1. CASE PulseStep(trigger, cycle)
  <2>1. (cycle - 1) % PulseMod \in 0 .. PulseMod - 1
    BY ModInRange
  <2>2. (cnt + 1) % PulseMod \in 0 .. PulseMod - 1
    BY ModInRange
  <2> QED
    BY <1>1, <2>1, <2>2 DEF PulseStep
<1>2. CASE PulseReset
  BY <1>2, Zeros DEF PulseReset
<1> QED
  BY <1>1, <1>2

(* A row of registers holds flags when a flag goes in.                     *)
LEMMA DelayedType ==
  ASSUME NEW n \in Nat, NEW pipe \in [1 .. n -> BOOLEAN], NEW input \in BOOLEAN
  PROVE  Delayed(pipe, input) \in [1 .. n -> BOOLEAN]
  BY DEF Delayed

(* The inputs and the registers behind them.                               *)
LEMMA InputType ==
  ASSUME TypeOK, InputStep
  PROVE  /\ request' \in [frames : 0 .. FrameMod - 1, pulse_cycle : 0 .. PulseMod - 1,
                         source : Sources]
         /\ start' \in 0 .. StartCycles
         /\ start_r' \in [1 .. 2 -> BOOLEAN]
<1> USE StartAssumption, RequestsAssumption
<1> USE DEF TypeOK
<1>1. start_r' \in [1 .. 2 -> BOOLEAN]
  <2>1. start_r' = Delayed(start_r, start > 0) /\ (start > 0) \in BOOLEAN
    BY DEF InputStep
  <2> QED
    BY <2>1, DelayedType
<1>2. CASE NewStart
  BY <1>1, <1>2 DEF NewStart
<1>3. CASE HeldStart
  BY <1>1, <1>3 DEF HeldStart
<1> QED
  BY <1>2, <1>3 DEF InputStep

(* The delayed timing signals and their edges.                             *)
LEMMA SyncType ==
  ASSUME TypeOK, SyncStep
  PROVE  /\ de_r' \in [1 .. 4 -> BOOLEAN] /\ first_r' \in [1 .. 4 -> BOOLEAN]
         /\ de_rising' \in BOOLEAN /\ de_falling' \in BOOLEAN
         /\ v_sync_r1' \in BOOLEAN /\ v_sync_rising' \in BOOLEAN
<1>1. s_de \in BOOLEAN /\ s_de_first_line \in BOOLEAN /\ s_vsync_hdmi \in BOOLEAN
  BY DEF TypeOK, DisplayTypeOK
<1>2. de_r' \in [1 .. 4 -> BOOLEAN] /\ first_r' \in [1 .. 4 -> BOOLEAN]
  BY <1>1, DelayedType DEF TypeOK, SyncStep
<1> QED
  BY <1>1, <1>2 DEF SyncStep

(* The line counters, the FIFO and the history.                            *)
LEMMA DataType ==
  ASSUME TypeOK, FifoStep
  PROVE  /\ data_ready' \in BOOLEAN
         /\ fifo_q' \in Slot /\ tx' \in Slot
  BY DEF TypeOK, FifoStep, Slot

LEMMA CounterType ==
  ASSUME TypeOK, LineCounters, HistoryStep
  PROVE  /\ pulse_cnt_per_de' \in 0 .. HActive - 1 /\ line_cnt' \in Nat
         /\ taken' \in Nat /\ shown' \in Nat
<1>1. pulse_cnt_per_de' \in 0 .. HActive - 1 /\ line_cnt' \in Nat
  BY HorizontalAssumption DEF TypeOK, LineCounters
<1>2. taken' \in Nat /\ shown' \in Nat
  BY DEF TypeOK, HistoryStep
<1> QED
  BY <1>1, <1>2

(* The registers of the state machine, state by state.                     *)
MachineTyped ==
  /\ state' \in States
  /\ fame_num_reg' \in 0 .. FrameMod - 1
  /\ frame_cnt' \in 0 .. FrameMod - 1
  /\ cycle_reg' \in 0 .. PulseMod - 1
  /\ frame_trig' \in BOOLEAN /\ start_pulse' \in BOOLEAN
  /\ send_done' \in BOOLEAN /\ frame_done' \in BOOLEAN
  /\ read_pingpong' \in BOOLEAN
  /\ pix_data_out' \in Nat \cup {BLANK, CONTROL}

LEMMA MachineType ==
  ASSUME TypeOK, Machine
  PROVE  MachineTyped
<1> USE FrameModAssumption
<1> USE DEF TypeOK, States, MachineTyped, Dark, NoFrame
<1>1. CASE Idle
  BY <1>1 DEF Idle
<1>2. CASE WaitData
  BY <1>2 DEF WaitData
<1>3. CASE SendHdmiTrig
  BY <1>3 DEF SendHdmiTrig, DisplayTypeOK
<1>4. CASE SendHdmiData
  <2>1. Reads \in BOOLEAN /\ FrameSent \in BOOLEAN
    BY DEF Reads, FrameSent, DisplayTypeOK
  <2>2. Pixel \in Nat \cup {BLANK, CONTROL}
    BY DEF Pixel, Slot
  <2>3. (frame_cnt + 1) % FrameMod \in 0 .. FrameMod - 1
    <3>1. frame_cnt + 1 \in Int
      OBVIOUS
    <3> QED
      BY <3>1, ModInRange
  <2> QED
    BY <1>4, <2>1, <2>2, <2>3 DEF SendHdmiData
<1>5. CASE GenPulse
  BY <1>5 DEF GenPulse
<1>6. CASE UpdateReg
  BY <1>6, Zeros DEF UpdateReg
<1> QED
  BY <1>1, <1>2, <1>3, <1>4, <1>5, <1>6 DEF Machine

(* Every state sets the delay timers, one of them enabled or none.         *)
LEMMA MachineDelays ==
  ASSUME TypeOK, Machine
  PROVE  \A s \in Sources : delay_timer'[s] \in TimerType(DelayOf[s])
<1>1. \A enabled : DelayStep(enabled) =>
        \A s \in Sources : delay_timer'[s] \in TimerType(DelayOf[s])
  BY DelayType
<1>2. \E enabled : DelayStep(enabled)
  BY DEF Machine, Idle, WaitData, SendHdmiTrig, SendHdmiData, GenPulse, UpdateReg
<1> QED
  BY <1>1, <1>2

(* The registers start within their widths.                                *)
LEMMA TypeInit == Init => TypeOK
<1> SUFFICES ASSUME Init PROVE TypeOK
  OBVIOUS
<1>1. DisplayTypeOK
  BY Zeros DEF Init, DisplayInit, DisplayTypeOK
<1>2. PulseTypeOK
  BY Zeros DEF Init, PulseInit, PulseTypeOK
<1>3. \A s \in Sources : delay_timer[s] \in TimerType(DelayOf[s])
  BY DelayAssumption DEF Init, Stopped, TimerType
<1>4. pulse_cnt_per_de \in 0 .. HActive - 1
  BY HorizontalAssumption DEF Init
<1>5. request \in [frames : 0 .. FrameMod - 1, pulse_cycle : 0 .. PulseMod - 1,
                   source : Sources]
  BY RequestsAssumption DEF Init
<1>6. fifo_q \in Slot /\ tx \in Slot /\ state \in States /\ start \in 0 .. StartCycles
  BY StartAssumption DEF Init, EmptySlot, Slot, States
<1>7. /\ fame_num_reg \in 0 .. FrameMod - 1 /\ frame_cnt \in 0 .. FrameMod - 1
      /\ cycle_reg \in 0 .. PulseMod - 1
  BY FrameModAssumption, PulseModAssumption DEF Init
<1>8. /\ start_r \in [1 .. 2 -> BOOLEAN]
      /\ de_r \in [1 .. 4 -> BOOLEAN] /\ first_r \in [1 .. 4 -> BOOLEAN]
  BY DEF Init
<1> QED
  BY <1>1, <1>2, <1>3, <1>4, <1>5, <1>6, <1>7, <1>8 DEF Init, TypeOK

(* A clock edge and a reset keep every register to its width.              *)
LEMMA TypeClock == TypeOK /\ Clock => TypeOK'
<1> SUFFICES ASSUME TypeOK, Clock PROVE TypeOK'
  OBVIOUS
<1>1. DisplayTypeOK'
  BY DisplayType DEF TypeOK, Clock
<1>2. PulseTypeOK'
  BY PulseType DEF TypeOK, Clock
<1>3. \A s \in Sources : delay_timer'[s] \in TimerType(DelayOf[s])
  BY MachineDelays DEF Clock
<1>4. MachineTyped
  BY MachineType DEF Clock
<1> QED
  BY <1>1, <1>2, <1>3, <1>4, InputType, SyncType, DataType, CounterType
  DEF Clock, TypeOK, MachineTyped

LEMMA TypeReset == TypeOK /\ Reset => TypeOK'
<1> SUFFICES ASSUME TypeOK, Reset PROVE TypeOK'
  OBVIOUS
<1>1. DisplayTypeOK'
  BY DisplayType DEF TypeOK, Reset
<1>2. PulseTypeOK'
  <2>1. PulseReset /\ PulseTypeOK
    BY DEF TypeOK, Reset
  <2> QED
    BY <2>1, Zeros DEF PulseReset, PulseTypeOK
<1>3. \A s \in Sources : delay_timer'[s] \in TimerType(DelayOf[s])
  BY DelayAssumption DEF Reset, Stopped, TimerType
<1>4. MachineTyped
  BY Zeros DEF Reset, NoFrame, TypeOK, MachineTyped, States
<1>5. pulse_cnt_per_de' \in 0 .. HActive - 1 /\ line_cnt' \in Nat
  BY HorizontalAssumption DEF Reset
<1>6. taken' \in Nat /\ shown' \in Nat
  BY DEF Reset
<1> QED
  BY <1>1, <1>2, <1>3, <1>4, <1>5, <1>6, InputType, SyncType, DataType
  DEF Reset, TypeOK, MachineTyped

(* TypeOK holds in every reachable state: the counters of wps_send.v, of   *)
(* the display timing and of the pulse generator keep to their widths.     *)
THEOREM TypeCorrect == Spec => []TypeOK
<1>1. TypeOK /\ UNCHANGED vars => TypeOK'
  BY DEF TypeOK, DisplayTypeOK, PulseTypeOK, vars, machineVars, inputVars, syncVars,
         fifoVars, displayVars, pulseVars
<1>2. TypeOK /\ [Next]_vars => TypeOK'
  BY <1>1, TypeClock, TypeReset DEF Next
<1> QED
  BY <1>2, TypeInit, PTL DEF Spec

(***************************************************************************)
(* A command sends the frames it asks for.                                 *)
(***************************************************************************)

(* CountsFrames says nothing of GEN_PULSE, where the frame that was just   *)
(* sent is counted already: there the count may have reached the request.  *)
FrameInv ==
  /\ CountsFrames
  /\ state = "GEN_PULSE" /\ fame_num_reg > 0 => frame_cnt <= fame_num_reg

(* Every state of the machine keeps the count of the frames.               *)
LEMMA FrameStep == TypeOK /\ FrameInv /\ Machine => FrameInv'
<1> SUFFICES ASSUME TypeOK, FrameInv, Machine PROVE FrameInv'
  OBVIOUS
<1> USE DEF FrameInv, CountsFrames
<1>0. /\ FrameMod \in Nat \ {0}
      /\ frame_cnt \in 0 .. FrameMod - 1 /\ fame_num_reg \in 0 .. FrameMod - 1
  BY FrameModAssumption DEF TypeOK
<1>1. CASE Idle
  BY <1>0, <1>1 DEF Idle
<1>2. CASE WaitData
  BY <1>0, <1>2 DEF WaitData
<1>3. CASE SendHdmiTrig
  BY <1>0, <1>3 DEF SendHdmiTrig
<1>4. CASE SendHdmiData
  <2>1. CASE FrameSent
    <3>1. state' = "GEN_PULSE" /\ fame_num_reg' = fame_num_reg
          /\ frame_cnt' = (frame_cnt + 1) % FrameMod
      BY <1>4, <2>1 DEF SendHdmiData
    <3>2. CASE fame_num_reg > 0
      <4>1. frame_cnt + 1 <= fame_num_reg
        BY <1>0, <1>4, <3>2 DEF SendHdmiData
      <4>2. (frame_cnt + 1) % FrameMod = frame_cnt + 1
        BY <1>0, <4>1
      <4> QED
        BY <3>1, <4>1, <4>2
    <3>3. CASE ~(fame_num_reg > 0)
      BY <3>1, <3>3
    <3> QED
      BY <3>2, <3>3
  <2>2. CASE ~FrameSent
    BY <1>4, <2>2 DEF SendHdmiData
  <2> QED
    BY <2>1, <2>2
<1>5. CASE GenPulse
  BY <1>0, <1>5 DEF GenPulse
<1>6. CASE UpdateReg
  BY <1>0, <1>6 DEF UpdateReg
<1> QED
  BY <1>1, <1>2, <1>3, <1>4, <1>5, <1>6 DEF Machine

(* A command ends when as many frames have been sent as it asked for, for  *)
(* every number of frames up to the width of the counter, and the counter  *)
(* is back at 0 for the next command; starts that come during a command    *)
(* and resets change nothing about it.                                     *)
THEOREM EndsOnFrameCount == Spec => []CountsFrames
<1>1. Init => FrameInv
  BY DEF Init, FrameInv, CountsFrames
<1>2. TypeOK /\ FrameInv /\ [Next]_vars => FrameInv'
  <2>1. TypeOK /\ FrameInv /\ Clock => FrameInv'
    BY FrameStep DEF Clock
  <2>2. FrameInv /\ Reset => FrameInv'
    BY DEF Reset, FrameInv, CountsFrames
  <2>3. FrameInv /\ UNCHANGED vars => FrameInv'
    BY DEF FrameInv, CountsFrames, vars, machineVars
  <2> QED
    BY <2>1, <2>2, <2>3 DEF Next
<1>3. FrameInv => CountsFrames
  BY DEF FrameInv
<1> QED
  BY <1>1, <1>2, <1>3, TypeCorrect, PTL DEF Spec
(***************************************************************************)
(* The pixels of a frame.  Where the display timing is in the frame, a     *)
(* line and a column counted from the first cycle of de, fixes every       *)
(* register of the data path: what is read, what is on its way, and what   *)
(* is shown.                                                               *)
(***************************************************************************)
FirstLine == VSync + VBack
LastLine == FirstLine + VPhase
Col == r_pixel_cnt - HBlank
Cols(a, b) == Col >= a /\ Col <= b
DeLine == r_line_cnt >= FirstLine /\ r_line_cnt <= LastLine
DataLine == r_line_cnt > FirstLine /\ r_line_cnt <= LastLine
Control(a) == r_line_cnt = FirstLine /\ Cols(a, HPhase + a - 1)

(* The last pixel of the frame has been shown, or none is on its way.      *)
Past == \/ ~display_busy
        \/ r_line_cnt > LastLine
        \/ r_line_cnt = LastLine /\ Col > HActive + 2

(* The timing signals follow the position, and a frame is triggered only   *)
(* when the last one is over.                                              *)
SignalInv ==
  /\ ~display_busy => r_pixel_cnt = 0 /\ r_line_cnt = 0
  /\ s_de <=> DeLine /\ Cols(1, HActive)
  /\ s_de_first_line <=> Control(1)
  /\ s_vsync_hdmi <=> display_busy /\ IF r_pixel_cnt = 0 THEN r_line_cnt \in 1 .. VSync
                                      ELSE r_line_cnt < VSync
PastInv ==
  /\ frame_trig => state = "SEND_HDMI_DATA" /\ ~display_busy
  /\ state # "SEND_HDMI_DATA" => Past

(* What a reset leaves in the registers it does not clear is gone, one     *)
(* register after the other, before a frame is triggered.                  *)
Clear1 == ~read_pingpong /\ ~de_r[1] /\ ~first_r[1] /\ ~v_sync_r1
Clear2 == /\ Clear1 /\ ~de_r[2] /\ ~first_r[2] /\ ~de_falling /\ ~v_sync_rising
          /\ pulse_cnt_per_de = 0 /\ ~fifo_q.valid
Clear3 == /\ Clear2 /\ ~de_r[3] /\ ~first_r[3] /\ ~tx.valid /\ ~de_rising
          /\ pix_data_out = BLANK
ClearInv ==
  /\ state = "WAIT_DATA" => Clear1
  /\ state \in {"GEN_PULSE", "SEND_HDMI_TRIG"} => Clear2
  /\ frame_trig => Clear3
  /\ state # "SEND_HDMI_DATA" => pix_data_out = BLANK

(* While the frame is sent, the delayed timing signals and the counters.   *)
Sending == state = "SEND_HDMI_DATA" /\ ~frame_trig
PlaceInv ==
  Sending =>
    /\ display_busy
    /\ r_line_cnt < LastLine \/ (r_line_cnt = LastLine /\ Col <= HActive + 2)
DelayInv ==
  Sending =>
    /\ de_r[1] <=> DeLine /\ Cols(2, HActive + 1)
    /\ de_r[2] <=> DeLine /\ Cols(3, HActive + 2)
    /\ de_r[3] <=> DeLine /\ Cols(4, HActive + 3)
    /\ DataLine /\ Cols(5, HPhase + 4) => de_r[4] /\ ~first_r[4]
    /\ first_r[1] <=> Control(2)
    /\ first_r[2] <=> Control(3)
    /\ first_r[3] <=> Control(4)
EdgeInv ==
  Sending =>
    /\ de_rising <=> DeLine /\ Col = 2
    /\ de_falling <=> DeLine /\ Col = HActive + 2
    /\ v_sync_r1 <=> IF r_pixel_cnt > 1 THEN r_line_cnt < VSync ELSE r_line_cnt \in 1 .. VSync
    /\ v_sync_rising <=> r_line_cnt = 0 /\ r_pixel_cnt = 2
CountInv ==
  Sending =>
    /\ pulse_cnt_per_de = IF DeLine /\ Cols(2, HActive + 1) THEN Col - 2 ELSE 0
    /\ r_line_cnt > 0 \/ r_pixel_cnt > 2 =>
         line_cnt = IF r_line_cnt < FirstLine THEN 0
                    ELSE r_line_cnt - FirstLine + IF Col > 2 THEN 1 ELSE 0

(* And the words: how many the lines before have taken, and how many of a  *)
(* line there are after n cycles of it.                                    *)
Words == IF DataLine THEN (r_line_cnt - FirstLine - 1) * HPhase ELSE 0
OfLine(n) == IF ~DataLine \/ n <= 0 THEN 0 ELSE IF n <= HPhase THEN n ELSE HPhase
WordInv ==
  Sending =>
    /\ read_pingpong <=> DataLine /\ Cols(2, HPhase + 1)
    /\ fifo_q.valid <=> DataLine /\ Cols(3, HPhase + 2)
    /\ fifo_q.valid => fifo_q.word = Words + Col - 3
    /\ tx.valid <=> DataLine /\ Cols(4, HPhase + 3)
    /\ tx.valid => tx.word = Words + Col - 4
    /\ pix_data_out >= 0 <=> DataLine /\ Cols(5, HPhase + 4)
    /\ pix_data_out >= 0 => pix_data_out = Words + Col - 5
    /\ taken = Words + OfLine(Col - 2)
    /\ shown = Words + OfLine(Col - 5)

PixelInv == /\ SignalInv /\ PastInv /\ ClearInv /\ PlaceInv /\ DelayInv /\ EdgeInv
            /\ CountInv /\ WordInv

(* The format of a frame.                                                  *)
LEMMA Format ==
  /\ HBlank \in Nat /\ HActive \in Nat /\ HFront \in Nat /\ HPhase \in Nat
  /\ HPhase > 1 /\ HActive > HPhase + 1 /\ HFront > 2
  /\ HWhole \in Nat /\ HWhole = HBlank + HActive + HFront
  /\ VSync \in Nat /\ VSync > 0 /\ VPhase \in Nat /\ VPhase > 0
  /\ FirstLine \in Nat /\ FirstLine >= VSync
  /\ LastLine \in Nat /\ LastLine = FirstLine + VPhase
  /\ VWhole \in Nat /\ VWhole > LastLine /\ VActive = VPhase + 1
  BY HorizontalAssumption, VerticalAssumption, PipelineAssumption
  DEF HWhole, VWhole, VActive, FirstLine, LastLine

(* A cycle goes on in the line, or from the end of a line, where nothing   *)
(* is on its way, to the start of the next.                                *)
SameLine == r_pixel_cnt' = r_pixel_cnt + 1 /\ r_line_cnt' = r_line_cnt
NextLine == r_pixel_cnt = HWhole /\ r_pixel_cnt' = 0 /\ r_line_cnt' = r_line_cnt + 1
LEMMA Position ==
  ASSUME DisplayTypeOK, NEW trig \in BOOLEAN, DisplayStep(trig), display_busy,
         r_line_cnt <= LastLine
  PROVE  display_busy' /\ (SameLine \/ NextLine)
<1> USE Format DEF DisplayTypeOK
<1>1. ~FrameEnds
  BY DEF FrameEnds
<1>2. CASE LineEnds
  BY <1>1, <1>2 DEF DisplayStep, Counters, LineEnds, NextLine
<1>3. CASE ~LineEnds
  BY <1>1, <1>3 DEF DisplayStep, Counters, LineEnds, FrameEnds, SameLine
<1> QED
  BY <1>2, <1>3

(* The timing signals: their registers hold what the position of the last  *)
(* cycle says.                                                             *)
LEMMA SignalStep ==
  ASSUME DisplayTypeOK, SignalInv, NEW trig \in BOOLEAN, DisplayStep(trig)
  PROVE  SignalInv'
<1> USE Format
<1>0. /\ r_pixel_cnt \in 0 .. HWhole /\ r_line_cnt \in 0 .. VWhole
      /\ display_busy \in BOOLEAN
  BY DEF DisplayTypeOK
<1>1. /\ s_vsync_hdmi' <=> r_line_cnt < VSync /\ display_busy
      /\ s_de' <=> DeLine /\ Cols(0, HActive - 1)
      /\ s_de_first_line' <=> r_line_cnt = FirstLine /\ Cols(0, HPhase - 1)
  <2>1. /\ s_vsync_hdmi' = (r_line_cnt < VSync /\ display_busy)
        /\ s_de' = (/\ Within(r_line_cnt, VSync + VBack, VActive)
                    /\ Within(r_pixel_cnt, HBlank, HActive))
        /\ s_de_first_line' = (/\ r_line_cnt = VSync + VBack
                               /\ Within(r_pixel_cnt, HBlank, HPhase))
    BY DEF DisplayStep, Signals
  <2>2. /\ Within(r_pixel_cnt, HBlank, HActive) <=> Cols(0, HActive - 1)
        /\ Within(r_pixel_cnt, HBlank, HPhase) <=> Cols(0, HPhase - 1)
    BY <1>0 DEF Within, Cols, Col
  <2>3. Within(r_line_cnt, VSync + VBack, VActive) <=> DeLine
    BY <1>0 DEF Within, DeLine, LastLine, FirstLine
  <2> QED
    BY <2>1, <2>2, <2>3, Zenon DEF FirstLine
<1>2. CASE ~display_busy
  <2>1. /\ r_pixel_cnt = 0 /\ r_line_cnt = 0
        /\ r_pixel_cnt' = 0 /\ r_line_cnt' = 0
    BY <1>0, <1>2 DEF SignalInv, DisplayStep, Counters, LineEnds
  <2> QED
    BY <1>1, <1>2, <2>1 DEF SignalInv, DeLine, Control, Cols, Col
<1>3. CASE display_busy /\ FrameEnds
  <2>1. /\ r_pixel_cnt = HWhole /\ r_line_cnt = VWhole
        /\ r_pixel_cnt' = 0 /\ r_line_cnt' = 0 /\ ~display_busy'
    BY <1>0, <1>3 DEF DisplayStep, Counters, LineEnds, FrameEnds
  <2> QED
    BY <1>1, <2>1 DEF SignalInv, DeLine, Control, Cols, Col
<1>4. CASE display_busy /\ ~FrameEnds
  <2>1. display_busy' /\ (SameLine \/ NextLine)
    BY <1>0, <1>4 DEF DisplayStep, Counters, LineEnds, FrameEnds, SameLine, NextLine
  <2>2. CASE SameLine
    BY <1>0, <1>1, <1>4, <2>1, <2>2 DEF SignalInv, SameLine, DeLine, Control, Cols, Col
  <2>3. CASE NextLine
    BY <1>0, <1>1, <1>4, <2>1, <2>3 DEF SignalInv, NextLine, DeLine, Control, Cols, Col
  <2> QED
    BY <2>1, <2>2, <2>3
<1> QED
  BY <1>0, <1>2, <1>3, <1>4

(* A state that shows nothing: where it goes, and what triggers a frame.   *)
LEMMA Still ==
  ASSUME TypeOK, Machine, state # "SEND_HDMI_DATA"
  PROVE  /\ ~read_pingpong' /\ pix_data_out' = BLANK
         /\ state' = "WAIT_DATA" => state \in {"IDLE", "WAIT_DATA"}
         /\ state' \in {"GEN_PULSE", "SEND_HDMI_TRIG"} =>
              state \in {"WAIT_DATA", "GEN_PULSE", "SEND_HDMI_TRIG"}
         /\ frame_trig' => /\ state = "SEND_HDMI_TRIG" /\ state' = "SEND_HDMI_DATA"
                           /\ ~display_busy
         /\ state' = "SEND_HDMI_DATA" => frame_trig'
<1> USE DEF Dark, NoFrame
<1>0. display_busy \in BOOLEAN
  BY DEF TypeOK, DisplayTypeOK
<1>1. CASE Idle
  BY <1>1 DEF Idle
<1>2. CASE WaitData
  BY <1>2 DEF WaitData
<1>3. CASE SendHdmiTrig
  BY <1>0, <1>3 DEF SendHdmiTrig
<1>4. CASE GenPulse
  BY <1>4 DEF GenPulse
<1>5. CASE UpdateReg
  BY <1>5 DEF UpdateReg
<1> QED
  BY <1>1, <1>2, <1>3, <1>4, <1>5 DEF Machine, SendHdmiData

(* Past the data of a frame the timing signals are low, and the display    *)
(* timing gets to its end.                                                 *)
LEMMA PastSignals ==
  ASSUME DisplayTypeOK, SignalInv, Past
  PROVE  ~s_de /\ ~s_de_first_line /\ ~s_vsync_hdmi
<1> USE Format
<1>0. r_pixel_cnt \in 0 .. HWhole /\ r_line_cnt \in 0 .. VWhole /\ display_busy \in BOOLEAN
  BY DEF DisplayTypeOK
<1>1. CASE ~display_busy
  <2>1. r_pixel_cnt = 0 /\ r_line_cnt = 0
    BY <1>1 DEF SignalInv
  <2>2. ~DeLine /\ ~Control(1)
    BY <2>1 DEF DeLine, Control
  <2> QED
    BY <1>1, <2>2 DEF SignalInv
<1>2. CASE display_busy
  <2>1. r_line_cnt > LastLine \/ (r_line_cnt = LastLine /\ Col > HActive + 2)
    BY <1>2 DEF Past
  <2>2. ~(DeLine /\ Cols(1, HActive)) /\ ~Control(1)
    BY <1>0, <2>1 DEF DeLine, Control, Cols, Col
  <2>3. ~IF r_pixel_cnt = 0 THEN r_line_cnt \in 1 .. VSync ELSE r_line_cnt < VSync
    BY <1>0, <2>1
  <2> QED
    BY <2>2, <2>3 DEF SignalInv
<1> QED
  BY <1>0, <1>1, <1>2

LEMMA PastStep ==
  ASSUME DisplayTypeOK, Past, NEW trig \in BOOLEAN, ~trig, DisplayStep(trig)
  PROVE  Past'
<1> USE Format
<1>0. r_pixel_cnt \in 0 .. HWhole /\ r_line_cnt \in 0 .. VWhole /\ display_busy \in BOOLEAN
  BY DEF DisplayTypeOK
<1>1. CASE ~display_busy \/ FrameEnds
  BY <1>0, <1>1 DEF DisplayStep, Counters, Past
<1>2. CASE display_busy /\ ~FrameEnds
  <2>1. display_busy' /\ (SameLine \/ NextLine)
    BY <1>0, <1>2 DEF DisplayStep, Counters, LineEnds, FrameEnds, SameLine, NextLine
  <2>2. r_line_cnt > LastLine \/ (r_line_cnt = LastLine /\ Col > HActive + 2)
    BY <1>2 DEF Past
  <2>3. r_line_cnt' > LastLine \/ (r_line_cnt' = LastLine /\ Col' > HActive + 2)
    BY <1>0, <2>1, <2>2 DEF SameLine, NextLine, Col
  <2> QED
    BY <2>3 DEF Past
<1> QED
  BY <1>1, <1>2, <1>0

(* What is left of the last frame leaves the registers one by one.         *)
LEMMA QuietStep ==
  ASSUME TypeOK, SignalInv, PastInv, ClearInv, Clock, state # "SEND_HDMI_DATA"
  PROVE  PastInv' /\ ClearInv' /\ ~Sending'
<1>0. ~frame_trig /\ frame_trig \in BOOLEAN /\ DisplayTypeOK /\ Machine /\ SyncStep
      /\ FifoStep /\ LineCounters /\ DisplayStep(frame_trig) /\ Past
  BY DEF PastInv, TypeOK, Clock
<1>1. Past'
  BY <1>0, PastStep
<1>2. ~s_de /\ ~s_de_first_line /\ ~s_vsync_hdmi
  BY <1>0, PastSignals
<1>3. /\ ~read_pingpong' /\ pix_data_out' = BLANK
      /\ state' = "WAIT_DATA" => state \in {"IDLE", "WAIT_DATA"}
      /\ state' \in {"GEN_PULSE", "SEND_HDMI_TRIG"} =>
           state \in {"WAIT_DATA", "GEN_PULSE", "SEND_HDMI_TRIG"}
      /\ frame_trig' => /\ state = "SEND_HDMI_TRIG" /\ state' = "SEND_HDMI_DATA"
                        /\ ~display_busy
      /\ state' = "SEND_HDMI_DATA" => frame_trig'
  BY <1>0, Still
<1>4. frame_trig' => ~display_busy'
  BY <1>0, <1>3 DEF DisplayStep, Counters
<1>5. /\ de_r \in [1 .. 4 -> BOOLEAN] /\ first_r \in [1 .. 4 -> BOOLEAN]
      /\ fifo_q \in Slot /\ tx \in Slot
  BY DEF TypeOK
<1>6. Clear1'
  BY <1>0, <1>2, <1>3, <1>5 DEF Clear1, SyncStep, Delayed
<1>7. Clear1 => Clear2'
  <2>1. HAVE Clear1
  <2>2. /\ ~de_r'[2] /\ ~first_r'[2] /\ ~de_falling' /\ ~v_sync_rising'
    BY <1>0, <1>2, <1>5, <2>1 DEF Clear1, SyncStep, Delayed
  <2>3. pulse_cnt_per_de' = 0
    BY <1>0, <2>1 DEF Clear1, LineCounters
  <2>4. ~fifo_q'.valid
    BY <1>0, <2>1 DEF Clear1, FifoStep
  <2> QED
    BY <1>6, <2>2, <2>3, <2>4 DEF Clear2
<1>8. Clear2 => Clear3'
  <2>1. HAVE Clear2
  <2>2. ~de_r'[3] /\ ~first_r'[3] /\ ~de_rising'
    BY <1>0, <1>2, <1>5, <2>1 DEF Clear2, SyncStep, Delayed
  <2>3. ~tx'.valid
    BY <1>0, <2>1 DEF Clear2, FifoStep
  <2>4. Clear2'
    BY <1>7, <2>1 DEF Clear2
  <2> QED
    BY <1>3, <2>2, <2>3, <2>4 DEF Clear3
<1>9. state \in {"WAIT_DATA", "GEN_PULSE", "SEND_HDMI_TRIG"} => Clear1
  BY DEF ClearInv, Clear2
<1>10. PastInv'
  BY <1>1, <1>3, <1>4 DEF PastInv
<1>11. ClearInv'
  <2>1. state' \in {"GEN_PULSE", "SEND_HDMI_TRIG"} => Clear2'
    BY <1>3, <1>7, <1>9
  <2>2. frame_trig' => Clear3'
    BY <1>3, <1>8 DEF ClearInv
  <2> QED
    BY <1>3, <1>6, <2>1, <2>2 DEF ClearInv
<1> QED
  BY <1>3, <1>10, <1>11 DEF Sending

(* A trigger starts the display timing on empty registers.                 *)
LEMMA BeginStep ==
  ASSUME TypeOK, SignalInv, PastInv, ClearInv, Clock, frame_trig
  PROVE  PixelInv'
<1> USE Format
<1>0. /\ DisplayTypeOK /\ Machine /\ SyncStep /\ frame_trig \in BOOLEAN
      /\ FifoStep /\ LineCounters /\ HistoryStep /\ DisplayStep(frame_trig)
      /\ Clear3 /\ state = "SEND_HDMI_DATA" /\ ~display_busy
  BY DEF PastInv, TypeOK, Clock, ClearInv
<1>1. SignalInv'
  BY <1>0, SignalStep
<1>2. r_pixel_cnt = 0 /\ r_line_cnt = 0 /\ ~s_de /\ ~s_de_first_line /\ ~s_vsync_hdmi
  BY <1>0, PastSignals DEF SignalInv, Past
<1>3. r_pixel_cnt' = 0 /\ r_line_cnt' = 0 /\ display_busy'
  BY <1>0, <1>2 DEF DisplayStep, Counters, LineEnds
<1>4. ~DeLine' /\ ~DataLine' /\ \A a \in Nat : ~Control(a)'
  BY <1>3 DEF DeLine, DataLine, Control
<1>5. /\ de_r \in [1 .. 4 -> BOOLEAN] /\ first_r \in [1 .. 4 -> BOOLEAN]
      /\ fifo_q \in Slot /\ tx \in Slot
  BY DEF TypeOK
<1>6. ~FrameSent /\ ~Reads /\ Pixel = BLANK
  BY <1>0, <1>2 DEF FrameSent, Reads, Pixel, Clear1, Clear2, Clear3
<1>7. SendHdmiData
  BY <1>0 DEF Machine, Idle, WaitData, SendHdmiTrig, GenPulse, UpdateReg
<1>8. /\ state' = "SEND_HDMI_DATA" /\ ~frame_trig' /\ ~read_pingpong'
      /\ pix_data_out' = BLANK
  BY <1>0, <1>6, <1>7 DEF SendHdmiData
<1>9. DelayInv'
  <2>1. ~de_r'[1] /\ ~de_r'[2] /\ ~de_r'[3] /\ ~first_r'[1] /\ ~first_r'[2] /\ ~first_r'[3]
    BY <1>0, <1>2, <1>5 DEF Clear1, Clear2, Clear3, SyncStep, Delayed
  <2> QED
    BY <1>4, <2>1 DEF DelayInv
<1>10. EdgeInv'
  <2>1. ~de_rising' /\ ~de_falling' /\ ~v_sync_r1' /\ ~v_sync_rising'
    BY <1>0, <1>2 DEF Clear1, Clear2, Clear3, SyncStep
  <2>2. ~IF r_pixel_cnt' > 1 THEN r_line_cnt' < VSync ELSE r_line_cnt' \in 1 .. VSync
    BY <1>3
  <2> QED
    BY <1>3, <1>4, <2>1, <2>2 DEF EdgeInv
<1>11. CountInv'
  <2>1. pulse_cnt_per_de' = 0
    BY <1>0 DEF Clear1, Clear2, Clear3, LineCounters
  <2> QED
    BY <1>3, <1>4, <2>1 DEF CountInv
<1>12. WordInv'
  <2>1. ~fifo_q'.valid /\ ~tx'.valid
    BY <1>0 DEF FifoStep, Clear1, Clear2, Clear3
  <2>2. taken' = 0 /\ shown' = 0
    BY <1>0 DEF HistoryStep
  <2>3. Words' = 0 /\ OfLine(Col - 2)' = 0 /\ OfLine(Col - 5)' = 0
    BY <1>4 DEF Words, OfLine
  <2>4. ~(pix_data_out' >= 0)
    BY <1>8 DEF BLANK
  <2> QED
    BY <1>4, <1>8, <2>1, <2>2, <2>3, <2>4 DEF WordInv
<1>13. PlaceInv' /\ PastInv' /\ ClearInv'
  BY <1>3, <1>8 DEF PlaceInv, PastInv, ClearInv
<1> QED
  BY <1>1, <1>9, <1>10, <1>11, <1>12, <1>13 DEF PixelInv

(* The frame is reported sent in one cycle: the last that the data path    *)
(* needs for it.                                                           *)
LEMMA SentAtLast ==
  ASSUME TypeOK, PlaceInv, EdgeInv, CountInv, Sending
  PROVE  FrameSent <=> r_line_cnt = LastLine /\ Col = HActive + 2
<1> USE Format
<1>0. /\ r_pixel_cnt \in 0 .. HWhole /\ r_line_cnt \in 0 .. VWhole
      /\ de_falling \in BOOLEAN /\ line_cnt \in Nat
  BY DEF TypeOK, DisplayTypeOK
<1>1. de_falling <=> DeLine /\ Col = HActive + 2
  BY DEF EdgeInv
<1>2. DeLine /\ Col = HActive + 2 => line_cnt = r_line_cnt - FirstLine + 1
  BY <1>0 DEF CountInv, DeLine, Col
<1>3. (DeLine /\ Col = HActive + 2 /\ line_cnt = VActive)
         <=> r_line_cnt = LastLine /\ Col = HActive + 2
  BY <1>0, <1>2 DEF DeLine
<1> QED
  BY <1>1, <1>3, Zenon DEF FrameSent

(* The end of a frame leaves the data path empty.                          *)
LEMMA EndStep ==
  ASSUME TypeOK, PixelInv, Clock, Sending, FrameSent
  PROVE  PastInv' /\ ClearInv' /\ ~Sending'
<1> USE Format
<1>0. /\ DisplayTypeOK /\ SyncStep /\ FifoStep /\ LineCounters /\ DisplayStep(FALSE)
      /\ SignalInv /\ PlaceInv /\ DelayInv /\ EdgeInv /\ CountInv /\ WordInv
      /\ r_pixel_cnt \in 0 .. HWhole /\ r_line_cnt \in 0 .. VWhole
  <2>1. frame_trig = FALSE
    BY DEF Sending, TypeOK
  <2> QED
    BY <2>1 DEF TypeOK, DisplayTypeOK, Clock, PixelInv
<1>1. r_line_cnt = LastLine /\ Col = HActive + 2
  BY <1>0, SentAtLast
<1>2. /\ de_r \in [1 .. 4 -> BOOLEAN] /\ first_r \in [1 .. 4 -> BOOLEAN]
      /\ fifo_q \in Slot /\ tx \in Slot
  BY DEF TypeOK
<1>3. SendHdmiData
  BY DEF Sending, Clock, Machine, Idle, WaitData, SendHdmiTrig, GenPulse, UpdateReg
<1>4. ~s_de /\ ~s_de_first_line /\ ~s_vsync_hdmi
  <2>1. ~Cols(1, HActive) /\ ~Control(1)
    BY <1>0, <1>1 DEF Cols, Control, Col
  <2>2. ~IF r_pixel_cnt = 0 THEN r_line_cnt \in 1 .. VSync ELSE r_line_cnt < VSync
    BY <1>0, <1>1
  <2> QED
    BY <1>0, <2>1, <2>2 DEF SignalInv
<1>5. /\ ~de_r[1] /\ ~first_r[1] /\ ~first_r[3] /\ ~read_pingpong
  <2>1. ~Cols(2, HActive + 1) /\ ~Control(2) /\ ~Control(4) /\ ~Cols(2, HPhase + 1)
    BY <1>0, <1>1 DEF Cols, Control, Col
  <2> QED
    BY <1>0, <2>1 DEF DelayInv, WordInv
<1>6. ~Reads /\ Pixel = BLANK
  BY <1>4, <1>5 DEF Reads, Pixel
<1>7. /\ state' = "GEN_PULSE" /\ ~frame_trig' /\ ~read_pingpong' /\ pix_data_out' = BLANK
  BY <1>3, <1>6 DEF SendHdmiData
<1>8. display_busy' /\ SameLine
  <2>1. display_busy
    BY <1>0 DEF PlaceInv
  <2>2. r_line_cnt <= LastLine
    BY <1>0, <1>1
  <2>3. display_busy' /\ (SameLine \/ NextLine)
    BY <1>0, <2>1, <2>2, Position
  <2> QED
    BY <1>0, <1>1, <2>3 DEF NextLine, Col
<1>9. Past'
  BY <1>0, <1>1, <1>8 DEF SameLine, Past, Col
<1>10. Clear2'
  <2>1. /\ ~de_r'[1] /\ ~first_r'[1] /\ ~de_r'[2] /\ ~first_r'[2]
        /\ ~de_falling' /\ ~v_sync_r1' /\ ~v_sync_rising'
    BY <1>0, <1>2, <1>4, <1>5 DEF SyncStep, Delayed
  <2>2. pulse_cnt_per_de' = 0 /\ ~fifo_q'.valid
    BY <1>0, <1>5 DEF LineCounters, FifoStep
  <2> QED
    BY <1>7, <2>1, <2>2 DEF Clear1, Clear2
<1> QED
  BY <1>7, <1>9, <1>10 DEF PastInv, ClearInv, Clear2, Sending

(***************************************************************************)
(* A cycle inside the frame, part by part of the invariant.                *)
(***************************************************************************)

(* Where a cycle inside the frame leads.                                   *)
Moves == SameLine \/ NextLine
LEMMA InFrame ==
  ASSUME TypeOK, PixelInv, Clock, Sending, ~FrameSent
  PROVE  /\ display_busy /\ display_busy' /\ Moves
         /\ r_line_cnt <= LastLine
         /\ r_line_cnt = LastLine => Col <= HActive + 1
         /\ r_pixel_cnt \in 0 .. HWhole /\ r_line_cnt \in 0 .. VWhole
         /\ SendHdmiData /\ Sending'
<1> USE Format
<1>0. /\ DisplayTypeOK /\ DisplayStep(FALSE) /\ PlaceInv /\ EdgeInv /\ CountInv
      /\ r_pixel_cnt \in 0 .. HWhole /\ r_line_cnt \in 0 .. VWhole
  <2>1. frame_trig = FALSE
    BY DEF Sending, TypeOK
  <2> QED
    BY <2>1 DEF TypeOK, DisplayTypeOK, Clock, PixelInv
<1>1. display_busy /\ r_line_cnt <= LastLine /\ (r_line_cnt = LastLine => Col <= HActive + 2)
  BY <1>0 DEF PlaceInv, Col
<1>2. r_line_cnt = LastLine => Col <= HActive + 1
  BY <1>0, <1>1, SentAtLast DEF Col
<1>3. display_busy' /\ Moves
  BY <1>0, <1>1, Position DEF Moves
<1>4. SendHdmiData
  BY DEF Sending, Clock, Machine, Idle, WaitData, SendHdmiTrig, GenPulse, UpdateReg
<1>5. Sending'
  BY <1>4 DEF SendHdmiData, Sending
<1> QED
  BY <1>0, <1>1, <1>2, <1>3, <1>4, <1>5

LEMMA PlaceStep ==
  ASSUME TypeOK, PixelInv, Clock, Sending, ~FrameSent
  PROVE  PlaceInv'
<1> USE Format
<1>1. /\ display_busy' /\ Moves
      /\ r_line_cnt <= LastLine
      /\ r_line_cnt = LastLine => Col <= HActive + 1
      /\ r_pixel_cnt \in 0 .. HWhole /\ r_line_cnt \in 0 .. VWhole
  BY InFrame
<1>2. CASE SameLine
  BY <1>1, <1>2 DEF SameLine, PlaceInv, Col
<1>3. CASE NextLine
  BY <1>1, <1>3 DEF NextLine, PlaceInv, Col
<1> QED
  BY <1>1, <1>2, <1>3 DEF Moves

(* One cycle on, the position says of a signal what it said of the signal  *)
(* before its register.                                                    *)
LEMMA Shift ==
  ASSUME Moves, r_pixel_cnt \in 0 .. HWhole, r_line_cnt \in 0 .. VWhole,
         NEW a \in 0 .. 4, NEW b \in Int, b <= HActive + 2,
         NEW c, c = a + 1, NEW d, d = b + 1
  PROVE  /\ DeLine' /\ Cols(c, d)' <=> DeLine /\ Cols(a, b)
         /\ DataLine' /\ Cols(c, d)' <=> DataLine /\ Cols(a, b)
         /\ r_line_cnt' = FirstLine /\ Cols(c, d)' <=> r_line_cnt = FirstLine /\ Cols(a, b)
<1> USE Format
<1>1. CASE SameLine
  BY <1>1 DEF SameLine, DeLine, DataLine, Cols, Col
<1>2. CASE NextLine
  <2>1. ~Cols(a, b) /\ ~Cols(c, d)'
    BY <1>2 DEF NextLine, Cols, Col
  <2> QED
    BY <2>1
<1> QED
  BY <1>1, <1>2 DEF Moves

(* The delayed signals.                                                    *)
LEMMA DelayInvStep ==
  ASSUME TypeOK, PixelInv, Clock, Sending, ~FrameSent
  PROVE  DelayInv'
<1> USE Format
<1>0. /\ SyncStep /\ SignalInv /\ DelayInv
      /\ de_r \in [1 .. 4 -> BOOLEAN] /\ first_r \in [1 .. 4 -> BOOLEAN]
      /\ Moves /\ r_pixel_cnt \in 0 .. HWhole /\ r_line_cnt \in 0 .. VWhole
  BY InFrame DEF Clock, PixelInv, TypeOK
<1>1. /\ de_r'[1] = s_de /\ de_r'[2] = de_r[1] /\ de_r'[3] = de_r[2] /\ de_r'[4] = de_r[3]
      /\ first_r'[1] = s_de_first_line /\ first_r'[2] = first_r[1]
      /\ first_r'[3] = first_r[2] /\ first_r'[4] = first_r[3]
  BY <1>0 DEF SyncStep, Delayed
<1>2. DeLine' /\ Cols(2, HActive + 1)' <=> DeLine /\ Cols(1, HActive)
  BY <1>0, Shift
<1>3. DeLine' /\ Cols(3, HActive + 2)' <=> DeLine /\ Cols(2, HActive + 1)
  BY <1>0, Shift
<1>4. DeLine' /\ Cols(4, HActive + 3)' <=> DeLine /\ Cols(3, HActive + 2)
  BY <1>0, Shift
<1>5. /\ Control(2)' <=> Control(1)
      /\ Control(3)' <=> Control(2)
      /\ Control(4)' <=> Control(3)
  <2>1. r_line_cnt' = FirstLine /\ Cols(2, HPhase + 2 - 1)'
          <=> r_line_cnt = FirstLine /\ Cols(1, HPhase + 1 - 1)
    BY <1>0, Shift
  <2>2. r_line_cnt' = FirstLine /\ Cols(3, HPhase + 3 - 1)'
          <=> r_line_cnt = FirstLine /\ Cols(2, HPhase + 2 - 1)
    BY <1>0, Shift
  <2>3. r_line_cnt' = FirstLine /\ Cols(4, HPhase + 4 - 1)'
          <=> r_line_cnt = FirstLine /\ Cols(3, HPhase + 3 - 1)
    BY <1>0, Shift
  <2> QED
    BY <2>1, <2>2, <2>3 DEF Control
<1>6. DataLine' /\ Cols(5, HPhase + 4)' => de_r'[4] /\ ~first_r'[4]
  <2>1. DataLine' /\ Cols(5, HPhase + 4)' <=> DataLine /\ Cols(4, HPhase + 3)
    BY <1>0, Shift
  <2>2. DataLine /\ Cols(4, HPhase + 3) => DeLine /\ Cols(4, HActive + 3) /\ ~Control(4)
    BY <1>0 DEF DataLine, DeLine, Control, Cols, Col
  <2> QED
    BY <1>0, <1>1, <2>1, <2>2, Zenon DEF DelayInv
<1>7. /\ s_de <=> DeLine /\ Cols(1, HActive)
      /\ s_de_first_line <=> Control(1)
      /\ de_r[1] <=> DeLine /\ Cols(2, HActive + 1)
      /\ de_r[2] <=> DeLine /\ Cols(3, HActive + 2)
      /\ first_r[1] <=> Control(2)
      /\ first_r[2] <=> Control(3)
  BY <1>0 DEF SignalInv, DelayInv
<1> QED
  BY <1>1, <1>2, <1>3, <1>4, <1>5, <1>6, <1>7, Zenon DEF DelayInv

(* The edges of de and of v_sync.                                          *)
LEMMA EdgeStep ==
  ASSUME TypeOK, PixelInv, Clock, Sending, ~FrameSent
  PROVE  EdgeInv'
<1> USE Format
<1>0. /\ SyncStep /\ SignalInv /\ DelayInv /\ EdgeInv
      /\ de_r[1] \in BOOLEAN /\ s_de \in BOOLEAN /\ s_vsync_hdmi \in BOOLEAN
      /\ v_sync_r1 \in BOOLEAN /\ display_busy
      /\ Moves /\ r_pixel_cnt \in 0 .. HWhole /\ r_line_cnt \in 0 .. VWhole
      /\ r_line_cnt <= LastLine
  BY InFrame DEF Clock, PixelInv, TypeOK, DisplayTypeOK
<1>1. /\ s_de <=> DeLine /\ Cols(1, HActive)
      /\ de_r[1] <=> DeLine /\ Cols(2, HActive + 1)
  BY <1>0 DEF SignalInv, DelayInv
<1>2. /\ de_rising' <=> DeLine /\ Col = 1
      /\ de_falling' <=> DeLine /\ Col = HActive + 1
  <2>1. /\ DeLine /\ Cols(1, HActive) /\ ~(DeLine /\ Cols(2, HActive + 1))
             <=> DeLine /\ Col = 1
        /\ DeLine /\ Cols(2, HActive + 1) /\ ~(DeLine /\ Cols(1, HActive))
             <=> DeLine /\ Col = HActive + 1
    BY <1>0 DEF Cols, Col
  <2>2. de_rising' = (s_de /\ ~de_r[1]) /\ de_falling' = (~s_de /\ de_r[1])
    BY <1>0 DEF SyncStep
  <2> QED
    BY <1>1, <2>1, <2>2, Zenon
<1>3. /\ DeLine' /\ Col' = 2 <=> DeLine /\ Col = 1
      /\ DeLine' /\ Col' = HActive + 2 <=> DeLine /\ Col = HActive + 1
  <2>1. CASE SameLine
    BY <1>0, <2>1 DEF SameLine, DeLine, Col
  <2>2. CASE NextLine
    BY <1>0, <2>2 DEF NextLine, Col
  <2> QED
    BY <1>0, <2>1, <2>2 DEF Moves
<1>4. s_vsync_hdmi <=> IF r_pixel_cnt = 0 THEN r_line_cnt \in 1 .. VSync
                       ELSE r_line_cnt < VSync
  BY <1>0 DEF SignalInv
<1>5. v_sync_r1' <=> IF r_pixel_cnt' > 1 THEN r_line_cnt' < VSync
                     ELSE r_line_cnt' \in 1 .. VSync
  <2>1. v_sync_r1' = s_vsync_hdmi
    BY <1>0 DEF SyncStep
  <2>2. CASE SameLine
    BY <1>0, <1>4, <2>1, <2>2 DEF SameLine
  <2>3. CASE NextLine
    BY <1>0, <1>4, <2>1, <2>3 DEF NextLine
  <2> QED
    BY <1>0, <2>2, <2>3 DEF Moves
<1>6. v_sync_rising' <=> r_line_cnt' = 0 /\ r_pixel_cnt' = 2
  <2>1. v_sync_rising' = (s_vsync_hdmi /\ ~v_sync_r1)
    BY <1>0 DEF SyncStep
  <2>2. v_sync_r1 <=> IF r_pixel_cnt > 1 THEN r_line_cnt < VSync
                      ELSE r_line_cnt \in 1 .. VSync
    BY <1>0 DEF EdgeInv
  <2>3. v_sync_rising' <=> r_line_cnt = 0 /\ r_pixel_cnt = 1
    <3>1. /\ IF r_pixel_cnt = 0 THEN r_line_cnt \in 1 .. VSync ELSE r_line_cnt < VSync
          /\ ~IF r_pixel_cnt > 1 THEN r_line_cnt < VSync ELSE r_line_cnt \in 1 .. VSync
          <=> r_line_cnt = 0 /\ r_pixel_cnt = 1
      BY <1>0
    <3> QED
      BY <1>4, <2>1, <2>2, <3>1, Zenon
  <2>4. CASE SameLine
    BY <1>0, <2>3, <2>4 DEF SameLine
  <2>5. CASE NextLine
    BY <1>0, <2>3, <2>5 DEF NextLine
  <2> QED
    BY <1>0, <2>4, <2>5 DEF Moves
<1> QED
  BY <1>2, <1>3, <1>5, <1>6, Zenon DEF EdgeInv

(* The cycles of de in the line, and the lines of de in the frame.         *)
LEMMA CountStep ==
  ASSUME TypeOK, PixelInv, Clock, Sending, ~FrameSent
  PROVE  CountInv'
<1> USE Format
<1>0. /\ LineCounters /\ DelayInv /\ EdgeInv /\ CountInv /\ line_cnt \in Nat
      /\ pulse_cnt_per_de \in 0 .. HActive - 1
      /\ Moves /\ r_pixel_cnt \in 0 .. HWhole /\ r_line_cnt \in 0 .. VWhole
      /\ r_line_cnt <= LastLine
  BY InFrame DEF Clock, PixelInv, TypeOK
<1>1. /\ de_r[1] <=> DeLine /\ Cols(2, HActive + 1)
      /\ de_rising <=> DeLine /\ Col = 2
      /\ v_sync_rising <=> r_line_cnt = 0 /\ r_pixel_cnt = 2
  BY <1>0 DEF DelayInv, EdgeInv
<1>2. pulse_cnt_per_de' = IF DeLine' /\ Cols(2, HActive + 1)' THEN Col' - 2 ELSE 0
  <2>1. pulse_cnt_per_de = IF DeLine /\ Cols(2, HActive + 1) THEN Col - 2 ELSE 0
    BY <1>0 DEF CountInv
  <2>2. pulse_cnt_per_de' = IF de_r[1] /\ pulse_cnt_per_de # HActive - 1
                            THEN pulse_cnt_per_de + 1 ELSE 0
    BY <1>0 DEF LineCounters
  <2>3. pulse_cnt_per_de' = IF DeLine /\ Cols(2, HActive) THEN Col - 1 ELSE 0
    BY <1>0, <1>1, <2>1, <2>2 DEF Cols, Col
  <2>4. CASE SameLine
    BY <1>0, <2>3, <2>4 DEF SameLine, DeLine, Cols, Col
  <2>5. CASE NextLine
    BY <1>0, <2>3, <2>5 DEF NextLine, DeLine, Cols, Col
  <2> QED
    BY <1>0, <2>4, <2>5 DEF Moves
<1>3. r_line_cnt' > 0 \/ r_pixel_cnt' > 2 =>
        line_cnt' = IF r_line_cnt' < FirstLine THEN 0
                    ELSE r_line_cnt' - FirstLine + IF Col' > 2 THEN 1 ELSE 0
  <2>1. line_cnt' = IF v_sync_rising THEN 0 ELSE IF de_rising THEN line_cnt + 1 ELSE line_cnt
    BY <1>0 DEF LineCounters
  <2>2. r_line_cnt > 0 \/ r_pixel_cnt > 2 =>
          line_cnt = IF r_line_cnt < FirstLine THEN 0
                     ELSE r_line_cnt - FirstLine + IF Col > 2 THEN 1 ELSE 0
    BY <1>0 DEF CountInv
  <2>3. CASE v_sync_rising
    <3>1. line_cnt' = 0 /\ r_line_cnt = 0 /\ r_pixel_cnt = 2
      BY <1>1, <2>1, <2>3
    <3>2. CASE SameLine
      BY <1>0, <3>1, <3>2 DEF SameLine
    <3>3. CASE NextLine
      BY <1>0, <3>1, <3>3 DEF NextLine
    <3> QED
      BY <1>0, <3>2, <3>3 DEF Moves
  <2>4. CASE ~v_sync_rising /\ de_rising
    <3>1. line_cnt' = line_cnt + 1 /\ DeLine /\ Col = 2
      BY <1>1, <2>1, <2>4
    <3>2. CASE SameLine
      BY <1>0, <2>2, <3>1, <3>2 DEF SameLine, DeLine, Col
    <3>3. CASE NextLine
      BY <1>0, <3>1, <3>3 DEF NextLine, Col
    <3> QED
      BY <1>0, <3>2, <3>3 DEF Moves
  <2>5. CASE ~v_sync_rising /\ ~de_rising
    <3>1. /\ line_cnt' = line_cnt /\ ~(DeLine /\ Col = 2)
          /\ ~(r_line_cnt = 0 /\ r_pixel_cnt = 2)
      BY <1>1, <2>1, <2>5
    <3>2. CASE SameLine
      BY <1>0, <2>2, <3>1, <3>2 DEF SameLine, DeLine, Col
    <3>3. CASE NextLine
      BY <1>0, <2>2, <3>1, <3>3 DEF NextLine, DeLine, Col
    <3> QED
      BY <1>0, <3>2, <3>3 DEF Moves
  <2> QED
    BY <2>3, <2>4, <2>5
<1> QED
  BY <1>2, <1>3 DEF CountInv

(* The words of a line more.                                               *)
LEMMA WordsStep ==
  ASSUME Moves, r_pixel_cnt \in 0 .. HWhole, r_line_cnt \in 0 .. VWhole,
         r_line_cnt <= LastLine, r_line_cnt = LastLine => Col <= HActive + 1
  PROVE  /\ SameLine => Words' = Words
         /\ NextLine => Words' = Words + IF DataLine THEN HPhase ELSE 0
         /\ Words \in Nat /\ Words' \in Nat
<1> USE Format
<1>1. Words \in Nat
  <2>1. DataLine => r_line_cnt - FirstLine - 1 \in Nat
    BY DEF DataLine
  <2>2. \A x, y \in Nat : x * y \in Nat
    OBVIOUS
  <2> QED
    BY <2>1, <2>2 DEF Words
<1>2. CASE SameLine
  <2>1. Words' = Words
    BY <1>2 DEF SameLine, Words, DataLine
  <2>2. ~NextLine
    BY <1>2 DEF SameLine, NextLine
  <2> QED
    BY <1>1, <2>1, <2>2
<1>3. CASE NextLine
  <2>1. ~SameLine
    BY <1>3 DEF SameLine, NextLine
  <2>2. r_line_cnt < LastLine /\ r_line_cnt' = r_line_cnt + 1
    BY <1>3 DEF NextLine, Col
  <2>3. CASE DataLine
    <3>1. Words = (r_line_cnt - FirstLine - 1) * HPhase /\ r_line_cnt - FirstLine - 1 \in Nat
      BY <2>3 DEF Words, DataLine
    <3>2. DataLine'
      BY <2>2, <2>3 DEF DataLine
    <3>3. Words' = (r_line_cnt - FirstLine - 1 + 1) * HPhase
      BY <2>2, <3>2 DEF Words
    <3>4. \A x, y \in Nat : (x + 1) * y = x * y + y
      OBVIOUS
    <3>5. Words' = Words + HPhase
      BY <3>1, <3>3, <3>4
    <3> QED
      BY <1>1, <2>1, <2>3, <3>5
  <2>4. CASE ~DataLine
    <3>1. Words = 0
      BY <2>4 DEF Words
    <3>2. r_line_cnt <= FirstLine
      BY <2>2, <2>4 DEF DataLine
    <3>3. DataLine' => r_line_cnt' - FirstLine - 1 = 0
      BY <2>2, <3>2 DEF DataLine
    <3>4. Words' = 0
      BY <3>3 DEF Words
    <3> QED
      BY <2>1, <2>4, <3>1, <3>4
  <2> QED
    BY <2>3, <2>4
<1> QED
  BY <1>2, <1>3 DEF Moves

(* When a word is read and when it is at a register of the data path.      *)
LEMMA ReadStep ==
  ASSUME TypeOK, PixelInv, Clock, Sending, ~FrameSent
  PROVE  /\ read_pingpong' <=> DataLine' /\ Cols(2, HPhase + 1)'
         /\ fifo_q'.valid <=> DataLine' /\ Cols(3, HPhase + 2)'
         /\ tx'.valid <=> DataLine' /\ Cols(4, HPhase + 3)'
         /\ Reads <=> DataLine /\ Cols(1, HPhase)
<1> USE Format
<1>0. /\ SignalInv /\ DelayInv /\ CountInv /\ WordInv /\ SendHdmiData /\ FifoStep
      /\ Moves /\ r_pixel_cnt \in 0 .. HWhole /\ r_line_cnt \in 0 .. VWhole
  BY InFrame DEF Clock, PixelInv
<1>1. Reads <=> DataLine /\ Cols(1, HPhase)
  <2>1. /\ s_de <=> DeLine /\ Cols(1, HActive)
        /\ s_de_first_line <=> Control(1)
    BY <1>0 DEF SignalInv
  <2>2. pulse_cnt_per_de = IF DeLine /\ Cols(2, HActive + 1) THEN Col - 2 ELSE 0
    BY <1>0 DEF CountInv
  <2>3. /\ DeLine /\ Cols(1, HActive) /\ ~Control(1) /\ pulse_cnt_per_de < HPhase - 1
        <=> DataLine /\ Cols(1, HPhase)
    BY <1>0, <2>2 DEF DeLine, DataLine, Control, Cols, Col
  <2> QED
    BY <2>1, <2>3, Zenon DEF Reads
<1>2. DataLine' /\ Cols(2, HPhase + 1)' <=> DataLine /\ Cols(1, HPhase)
  BY <1>0, Shift
<1>3. DataLine' /\ Cols(3, HPhase + 2)' <=> DataLine /\ Cols(2, HPhase + 1)
  BY <1>0, Shift
<1>4. DataLine' /\ Cols(4, HPhase + 3)' <=> DataLine /\ Cols(3, HPhase + 2)
  BY <1>0, Shift
<1>5. read_pingpong' = Reads
  BY <1>0 DEF SendHdmiData
<1>6. fifo_q'.valid = read_pingpong /\ tx'.valid = fifo_q.valid
  BY <1>0 DEF FifoStep
<1>7. /\ read_pingpong <=> DataLine /\ Cols(2, HPhase + 1)
      /\ fifo_q.valid <=> DataLine /\ Cols(3, HPhase + 2)
  BY <1>0 DEF WordInv
<1> QED
  BY <1>1, <1>2, <1>3, <1>4, <1>5, <1>6, <1>7, Zenon

(* When the pixel is a word, and which.                                    *)
LEMMA PixelStep ==
  ASSUME TypeOK, PixelInv, Clock, Sending, ~FrameSent
  PROVE  /\ pix_data_out' >= 0 <=> DataLine /\ Cols(4, HPhase + 3)
         /\ pix_data_out' >= 0 => pix_data_out' = tx.word
<1> USE Format
<1>0. /\ DelayInv /\ WordInv /\ SendHdmiData /\ tx \in Slot
      /\ r_pixel_cnt \in 0 .. HWhole /\ r_line_cnt \in 0 .. VWhole
  BY InFrame DEF TypeOK, PixelInv
<1>1. tx.word \in Nat
  BY <1>0 DEF Slot
<1>2. pix_data_out' = Pixel
  BY <1>0 DEF SendHdmiData
<1>3. CASE DataLine /\ Cols(4, HPhase + 3)
  <2>1. DeLine /\ Cols(2, HActive + 1) /\ ~Control(2) /\ ~Control(4)
    BY <1>0, <1>3 DEF DataLine, DeLine, Control, Cols, Col
  <2>2. de_r[1] /\ tx.valid /\ ~first_r[1] /\ ~first_r[3]
    BY <1>0, <1>3, <2>1 DEF DelayInv, WordInv
  <2>3. Pixel = tx.word
    BY <2>2 DEF Pixel
  <2> QED
    BY <1>1, <1>2, <1>3, <2>3
<1>4. CASE ~(DataLine /\ Cols(4, HPhase + 3))
  <2>1. ~tx.valid
    BY <1>0, <1>4 DEF WordInv
  <2>2. Pixel \in {CONTROL, BLANK}
    BY <2>1 DEF Pixel
  <2> QED
    BY <1>2, <1>4, <2>2 DEF CONTROL, BLANK
<1> QED
  BY <1>3, <1>4

(* The words in the data path and the words counted.                       *)
LEMMA WordStep ==
  ASSUME TypeOK, PixelInv, Clock, Sending, ~FrameSent
  PROVE  WordInv'
<1> USE Format
<1>0. /\ WordInv /\ FifoStep /\ HistoryStep /\ ~frame_trig
      /\ Moves /\ r_pixel_cnt \in 0 .. HWhole /\ r_line_cnt \in 0 .. VWhole
      /\ taken \in Nat /\ shown \in Nat /\ fifo_q \in Slot /\ tx \in Slot
      /\ r_line_cnt <= LastLine /\ (r_line_cnt = LastLine => Col <= HActive + 1)
  BY InFrame DEF Clock, PixelInv, TypeOK, Sending
<1>1. /\ SameLine => Words' = Words
      /\ NextLine => Words' = Words + IF DataLine THEN HPhase ELSE 0
      /\ Words \in Nat /\ Words' \in Nat
  BY <1>0, WordsStep
<1>2. /\ read_pingpong' <=> DataLine' /\ Cols(2, HPhase + 1)'
      /\ fifo_q'.valid <=> DataLine' /\ Cols(3, HPhase + 2)'
      /\ tx'.valid <=> DataLine' /\ Cols(4, HPhase + 3)'
  BY ReadStep
<1>3. /\ pix_data_out' >= 0 <=> DataLine' /\ Cols(5, HPhase + 4)'
      /\ pix_data_out' >= 0 => pix_data_out' = tx.word
  <2>1. DataLine' /\ Cols(5, HPhase + 4)' <=> DataLine /\ Cols(4, HPhase + 3)
    BY <1>0, Shift
  <2> QED
    BY <2>1, PixelStep
<1>4. /\ read_pingpong <=> DataLine /\ Cols(2, HPhase + 1)
      /\ fifo_q.valid <=> DataLine /\ Cols(3, HPhase + 2)
      /\ tx.valid <=> DataLine /\ Cols(4, HPhase + 3)
      /\ pix_data_out >= 0 <=> DataLine /\ Cols(5, HPhase + 4)
      /\ taken = Words + OfLine(Col - 2)
      /\ shown = Words + OfLine(Col - 5)
      /\ fifo_q.valid => fifo_q.word = Words + Col - 3
      /\ tx.valid => tx.word = Words + Col - 4
  BY <1>0 DEF WordInv
(* A word is on its way only inside a line.                                *)
<1>5. ASSUME NEW a \in 2 .. 5, NEW b \in Int, Cols(a, b)'
      PROVE  SameLine /\ Words' = Words /\ Col' = Col + 1
  <2>1. ~NextLine
    BY <1>0, <1>5 DEF NextLine, Cols, Col
  <2>2. SameLine
    BY <1>0, <2>1 DEF Moves
  <2> QED
    BY <1>0, <1>1, <2>2 DEF SameLine, Col
<1>6. fifo_q'.valid => fifo_q'.word = Words' + Col' - 3
  <2>1. HAVE fifo_q'.valid
  <2>2. DataLine' /\ Cols(3, HPhase + 2)'
    BY <1>2, <2>1
  <2>3. SameLine /\ Words' = Words /\ Col' = Col + 1
    BY <1>5, <2>2
  <2>4. DataLine /\ Cols(2, HPhase + 1)
    BY <1>0, <2>2, <2>3 DEF SameLine, DataLine, Cols, Col
  <2>5. fifo_q'.word = taken
    BY <1>0, <1>4, <2>4 DEF FifoStep
  <2>6. OfLine(Col - 2) = Col - 2
    BY <1>0, <2>4 DEF OfLine, Cols, Col
  <2> QED
    BY <1>0, <1>1, <1>4, <2>3, <2>5, <2>6 DEF Col
<1>7. tx'.valid => tx'.word = Words' + Col' - 4
  <2>1. HAVE tx'.valid
  <2>2. DataLine' /\ Cols(4, HPhase + 3)'
    BY <1>2, <2>1
  <2>3. SameLine /\ Words' = Words /\ Col' = Col + 1
    BY <1>5, <2>2
  <2>4. fifo_q.valid /\ tx'.word = fifo_q.word
    BY <1>0, <2>1 DEF FifoStep
  <2> QED
    BY <1>0, <1>1, <1>4, <2>3, <2>4 DEF Col
<1>8. pix_data_out' >= 0 => pix_data_out' = Words' + Col' - 5
  <2>1. HAVE pix_data_out' >= 0
  <2>2. DataLine' /\ Cols(5, HPhase + 4)'
    BY <1>3, <2>1
  <2>3. SameLine /\ Words' = Words /\ Col' = Col + 1
    BY <1>5, <2>2
  <2>4. tx.valid
    BY <1>0, <1>4, <2>2, <2>3 DEF SameLine, DataLine, Cols, Col
  <2> QED
    BY <1>0, <1>1, <1>3, <1>4, <2>1, <2>3, <2>4 DEF Col
<1>9. /\ taken' = Words' + OfLine(Col - 2)'
      /\ shown' = Words' + OfLine(Col - 5)'
  <2>1. /\ taken' = taken + IF DataLine /\ Cols(2, HPhase + 1) THEN 1 ELSE 0
        /\ shown' = shown + IF DataLine /\ Cols(5, HPhase + 4) THEN 1 ELSE 0
    BY <1>0, <1>4 DEF HistoryStep
  <2>2. CASE SameLine
    <3>1. /\ OfLine(Col - 2)' = OfLine(Col - 2)
               + IF DataLine /\ Cols(2, HPhase + 1) THEN 1 ELSE 0
          /\ OfLine(Col - 5)' = OfLine(Col - 5)
               + IF DataLine /\ Cols(5, HPhase + 4) THEN 1 ELSE 0
          /\ OfLine(Col - 2) \in Int /\ OfLine(Col - 5) \in Int
      BY <1>0, <2>2 DEF SameLine, OfLine, DataLine, Cols, Col
    <3> QED
      BY <1>1, <1>4, <2>1, <2>2, <3>1
  <2>3. CASE NextLine
    <3>1. /\ OfLine(Col - 2) = IF DataLine THEN HPhase ELSE 0
          /\ OfLine(Col - 5) = IF DataLine THEN HPhase ELSE 0
          /\ ~Cols(2, HPhase + 1) /\ ~Cols(5, HPhase + 4)
          /\ OfLine(Col - 2)' = 0 /\ OfLine(Col - 5)' = 0
      BY <1>0, <2>3 DEF NextLine, OfLine, Cols, Col
    <3> QED
      BY <1>1, <1>4, <2>1, <2>3, <3>1
  <2> QED
    BY <1>0, <2>2, <2>3 DEF Moves
<1> QED
  BY <1>2, <1>3, <1>6, <1>7, <1>8, <1>9 DEF WordInv

(***************************************************************************)
(* The invariant of the pixels, and what it is for.                        *)
(***************************************************************************)

LEMMA PixelInit == Init => PixelInv
<1> SUFFICES ASSUME Init PROVE PixelInv
  OBVIOUS
<1> USE Format
<1>1. ~DeLine /\ ~Control(1)
  BY DEF Init, DisplayInit, DeLine, Control
<1>2. SignalInv
  BY <1>1 DEF Init, DisplayInit, SignalInv
<1>3. PastInv /\ ClearInv
  BY DEF Init, DisplayInit, PastInv, Past, ClearInv
<1>4. ~Sending
  BY DEF Init, Sending
<1> QED
  BY <1>2, <1>3, <1>4 DEF PixelInv, PlaceInv, DelayInv, EdgeInv, CountInv, WordInv

LEMMA PixelReset == Reset => PixelInv'
<1> SUFFICES ASSUME Reset PROVE PixelInv'
  OBVIOUS
<1> USE Format
<1>1. ~DeLine' /\ ~Control(1)'
  BY DEF Reset, DisplayReset, DeLine, Control
<1>2. SignalInv'
  BY <1>1 DEF Reset, DisplayReset, SignalInv
<1>3. PastInv' /\ ClearInv'
  BY DEF Reset, DisplayReset, NoFrame, PastInv, Past, ClearInv
<1>4. ~Sending'
  BY DEF Reset, Sending
<1> QED
  BY <1>2, <1>3, <1>4 DEF PixelInv, PlaceInv, DelayInv, EdgeInv, CountInv, WordInv

LEMMA PixelClock == TypeOK /\ PixelInv /\ Clock => PixelInv'
<1> SUFFICES ASSUME TypeOK, PixelInv, Clock PROVE PixelInv'
  OBVIOUS
<1>1. SignalInv'
  BY SignalStep DEF TypeOK, PixelInv, Clock
<1>2. CASE state # "SEND_HDMI_DATA"
  <2>1. PastInv' /\ ClearInv' /\ ~Sending'
    BY <1>2, QuietStep DEF PixelInv
  <2> QED
    BY <1>1, <2>1 DEF PixelInv, PlaceInv, DelayInv, EdgeInv, CountInv, WordInv
<1>3. CASE frame_trig
  BY <1>3, BeginStep DEF PixelInv
<1>4. CASE Sending /\ FrameSent
  <2>1. PastInv' /\ ClearInv' /\ ~Sending'
    BY <1>4, EndStep
  <2> QED
    BY <1>1, <2>1 DEF PixelInv, PlaceInv, DelayInv, EdgeInv, CountInv, WordInv
<1>5. CASE Sending /\ ~FrameSent
  <2>1. PlaceInv' /\ DelayInv' /\ EdgeInv' /\ CountInv' /\ WordInv'
    BY <1>5, PlaceStep, DelayInvStep, EdgeStep, CountStep, WordStep
  <2>2. Sending'
    BY <1>5, InFrame
  <2>3. PastInv' /\ ClearInv'
    BY <2>2 DEF Sending, PastInv, ClearInv
  <2> QED
    BY <1>1, <2>1, <2>3 DEF PixelInv
<1> QED
  BY <1>2, <1>3, <1>4, <1>5 DEF Sending

THEOREM PixelCorrect == Spec => []PixelInv
<1>1. PixelInv /\ UNCHANGED vars => PixelInv'
  BY DEF PixelInv, SignalInv, PastInv, Past, ClearInv, Clear1, Clear2, Clear3, Sending,
         PlaceInv, DelayInv, EdgeInv, CountInv, WordInv, Words, OfLine, DeLine, DataLine,
         Control, Cols, Col, vars, machineVars, syncVars, fifoVars, displayVars
<1>2. TypeOK /\ PixelInv /\ [Next]_vars => PixelInv'
  BY <1>1, PixelClock, PixelReset DEF Next
<1> QED
  BY <1>2, PixelInit, TypeCorrect, PTL DEF Spec

(* The word at the output is the next one of the frame, inside the de of   *)
(* the output and off the control line, for every frame format: no word is *)
(* skipped, shown twice or shown out of place.                             *)
THEOREM ShowsWordsInOrder == Spec => []WordsInStep
<1>1. TypeOK /\ PixelInv => WordsInStep
  <2> SUFFICES ASSUME TypeOK, PixelInv, pix_data_out >= 0
               PROVE  pix_data_out = shown /\ de_r[4] /\ ~first_r[4]
    BY DEF WordsInStep
  <2> USE Format
  <2>1. r_pixel_cnt \in 0 .. HWhole /\ r_line_cnt \in 0 .. VWhole
    BY DEF TypeOK, DisplayTypeOK
  <2>2. Sending
    BY DEF PixelInv, ClearInv, Clear3, Sending, BLANK
  <2>3. DataLine /\ Cols(5, HPhase + 4) /\ pix_data_out = Words + Col - 5
        /\ shown = Words + OfLine(Col - 5)
    BY <2>2 DEF PixelInv, WordInv
  <2>4. de_r[4] /\ ~first_r[4]
    BY <2>2, <2>3 DEF PixelInv, DelayInv
  <2>5. OfLine(Col - 5) = Col - 5
    BY <2>1, <2>3 DEF OfLine, Cols, Col
  <2>6. Words \in Int
    <3>1. \A x, y \in Nat : x * y \in Nat
      OBVIOUS
    <3> QED
      BY <2>1, <2>3, <3>1 DEF Words, DataLine
  <2> QED
    BY <2>1, <2>3, <2>4, <2>5, <2>6 DEF Col
<1> QED
  BY <1>1, TypeCorrect, PixelCorrect, PTL

(* A frame reported sent is whole: it took as many words from the FIFO as  *)
(* a frame has, and showed them all.                                       *)
LEMMA WholeClock == TypeOK /\ PixelInv /\ Clock => FrameIsWhole'
<1> SUFFICES ASSUME TypeOK, PixelInv, Clock, frame_done'
             PROVE  taken' = FrameWords /\ shown' = FrameWords
  BY DEF FrameIsWhole, FrameWords
<1> USE Format
<1>0. /\ PlaceInv /\ EdgeInv /\ CountInv /\ WordInv /\ HistoryStep
      /\ r_pixel_cnt \in 0 .. HWhole /\ r_line_cnt \in 0 .. VWhole
  BY DEF TypeOK, DisplayTypeOK, PixelInv, Clock
<1>1. state = "SEND_HDMI_DATA" /\ FrameSent
  BY DEF Clock, Machine, Idle, WaitData, SendHdmiTrig, SendHdmiData, GenPulse, UpdateReg,
         NoFrame
<1>2. Sending
  BY <1>1 DEF Sending, FrameSent, PixelInv, ClearInv, Clear2, Clear3
<1>3. r_line_cnt = LastLine /\ Col = HActive + 2
  BY <1>0, <1>1, <1>2, SentAtLast
<1>4. DataLine /\ Words = (VPhase - 1) * HPhase
  BY <1>3 DEF DataLine, Words
<1>5. /\ ~read_pingpong /\ taken = Words + HPhase
      /\ IF pix_data_out >= 0 THEN shown = Words + HPhase - 1 ELSE shown = Words + HPhase
  <2>1. /\ read_pingpong <=> DataLine /\ Cols(2, HPhase + 1)
        /\ pix_data_out >= 0 <=> DataLine /\ Cols(5, HPhase + 4)
        /\ taken = Words + OfLine(Col - 2)
        /\ shown = Words + OfLine(Col - 5)
    BY <1>0, <1>2 DEF WordInv
  <2>2. /\ ~Cols(2, HPhase + 1) /\ OfLine(Col - 2) = HPhase
        /\ OfLine(Col - 5) = IF Cols(5, HPhase + 4) THEN HPhase - 1 ELSE HPhase
    BY <1>3, <1>4 DEF Cols, OfLine
  <2>3. Words \in Int
    <3>1. \A x, y \in Nat : x * y \in Nat
      OBVIOUS
    <3> QED
      BY <1>4, <3>1
  <2> QED
    BY <1>4, <2>1, <2>2, <2>3
<1>6. Words + HPhase = FrameWords /\ FrameWords \in Nat
  <2>1. \A x, y \in Nat : x > 0 => (x - 1) * y + y = x * y /\ x * y \in Nat
    OBVIOUS
  <2> QED
    BY <1>4, <2>1 DEF FrameWords
<1>7. ~frame_trig /\ Words \in Int
  <2>1. \A x, y \in Nat : x * y \in Nat
    OBVIOUS
  <2> QED
    BY <1>2, <1>4, <2>1 DEF Sending
<1> QED
  BY <1>0, <1>5, <1>6, <1>7 DEF HistoryStep

THEOREM SendsWholeFrames == Spec => []FrameIsWhole
<1>1. Init => FrameIsWhole
  BY DEF Init, FrameIsWhole
<1>2. FrameIsWhole /\ UNCHANGED vars => FrameIsWhole'
  BY DEF FrameIsWhole, FrameWords, vars, machineVars, fifoVars
<1>3. Reset => FrameIsWhole'
  BY DEF Reset, NoFrame, FrameIsWhole
<1>4. TypeOK /\ PixelInv /\ FrameIsWhole /\ [Next]_vars => FrameIsWhole'
  BY <1>2, <1>3, WholeClock DEF Next
<1> QED
  BY <1>1, <1>4, TypeCorrect, PixelCorrect, PTL DEF Spec

(***************************************************************************)
(* The capture pulse.                                                      *)
(***************************************************************************)

(* The pulse is triggered and lasts in GEN_PULSE alone, whose way out is   *)
(* the end of the pulse: no end is left over from the pulse before.        *)
PulseInv ==
  /\ start_pulse \/ pulse => state = "GEN_PULSE"
  /\ start_pulse => ~pulse
  /\ ~pulse => cnt = 0 /\ ~end_out
  /\ end_out => cnt # pulse_cycle_reg

LEMMA PulseClock == TypeOK /\ PulseInv /\ Clock => PulseInv'
<1> SUFFICES ASSUME TypeOK, PulseInv, Clock PROVE PulseInv'
  OBVIOUS
<1>0. /\ PulseStep(start_pulse, cycle_reg) /\ Machine
      /\ pulse \in BOOLEAN /\ end_out \in BOOLEAN /\ start_pulse \in BOOLEAN
      /\ cnt \in 0 .. PulseMod - 1 /\ PulseMod \in Nat \ {0}
  BY PulseModAssumption DEF TypeOK, PulseTypeOK, Clock
<1>1. pulse' <=> start_pulse \/ (pulse /\ ~end_out)
  BY <1>0 DEF PulseStep
<1>2. /\ start_pulse' => state = "SEND_HDMI_DATA" /\ state' = "GEN_PULSE"
      /\ state = "GEN_PULSE" => state' = "GEN_PULSE" \/ end_out
  BY <1>0 DEF Machine, Idle, WaitData, SendHdmiTrig, SendHdmiData, GenPulse, UpdateReg,
              NoFrame
<1>3. pulse' => state' = "GEN_PULSE"
  BY <1>0, <1>1, <1>2 DEF PulseInv
<1>4. start_pulse' => ~pulse'
  <2>1. start_pulse' => ~start_pulse /\ ~pulse
    BY <1>2 DEF PulseInv
  <2> QED
    BY <1>1, <2>1
<1>5. end_out' <=> cnt = pulse_cycle_reg /\ cnt # 0
  BY <1>0 DEF PulseStep
<1>6. ~pulse' => cnt' = 0 /\ ~end_out'
  <2>1. CASE ~pulse /\ ~start_pulse
    BY <1>0, <1>5, <2>1 DEF PulseStep, PulseInv
  <2>2. CASE end_out
    BY <1>0, <1>5, <2>2 DEF PulseStep, PulseInv
  <2> QED
    BY <1>0, <1>1, <2>1, <2>2
<1>7. end_out' => cnt' # pulse_cycle_reg'
  <2>1. HAVE end_out'
  <2>2. cnt = pulse_cycle_reg /\ cnt # 0
    BY <1>5, <2>1
  <2>3. pulse /\ ~end_out /\ ~start_pulse
    BY <2>2 DEF PulseInv
  <2>4. cnt' = (cnt + 1) % PulseMod /\ pulse_cycle_reg' = pulse_cycle_reg
    BY <1>0, <2>3 DEF PulseStep
  <2>5. (cnt + 1) % PulseMod # cnt
    <3>1. CASE cnt + 1 < PulseMod
      BY <1>0, <3>1
    <3>2. CASE cnt + 1 = PulseMod
      <4>1. PulseMod % PulseMod = 0
        BY <1>0
      <4> QED
        BY <2>2, <3>2, <4>1
    <3> QED
      BY <1>0, <3>1, <3>2
  <2> QED
    BY <2>2, <2>4, <2>5
<1> QED
  BY <1>2, <1>3, <1>4, <1>6, <1>7 DEF PulseInv

(* The capture pulse does not overlap the data of a frame, for every       *)
(* length of the pulse: while it is high de is low, no word is asked for   *)
(* and none is at the output.                                              *)
THEOREM PulseFollowsFrame == Spec => []PulseAfterFrame
<1>1. Init => PulseInv
  BY DEF Init, PulseInit, PulseInv
<1>2. PulseInv /\ UNCHANGED vars => PulseInv'
  BY DEF PulseInv, vars, machineVars, pulseVars
<1>3. Reset => PulseInv'
  BY DEF Reset, NoFrame, PulseReset, PulseInv
<1>4. TypeOK /\ PulseInv /\ [Next]_vars => PulseInv'
  BY <1>2, <1>3, PulseClock DEF Next
<1>5. TypeOK /\ PixelInv /\ PulseInv => PulseAfterFrame
  <2> SUFFICES ASSUME TypeOK, PixelInv, pulse, state = "GEN_PULSE"
               PROVE  ~s_de /\ ~read_pingpong /\ pix_data_out = BLANK
    BY DEF PulseAfterFrame, PulseInv
  <2>1. ~s_de
    BY PastSignals DEF TypeOK, PixelInv, PastInv
  <2>2. ~read_pingpong /\ pix_data_out = BLANK
    BY DEF PixelInv, ClearInv, Clear1, Clear2
  <2> QED
    BY <2>1, <2>2
<1> QED
  BY <1>1, <1>4, <1>5, TypeCorrect, PixelCorrect, PTL DEF Spec
=============================================================================
