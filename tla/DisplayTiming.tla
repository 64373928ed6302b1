---------------------------- MODULE DisplayTiming ----------------------------
(***************************************************************************)
(* display_vedio_generate_DMD_specific_faster.v: the frame timing for the  *)
(* DMD.  A trigger starts one frame; the generator is busy until the frame *)
(* is over.  One step is one rising edge of clk148_5m.                     *)
(*                                                                         *)
(* Only the outputs that wps_top.v connects to wps_send.v are modelled,    *)
(* without h_sync: v_sync, de and the de of the control line.              *)
(***************************************************************************)
EXTENDS Naturals

CONSTANTS
  HBlank,   \* cycles of a line before de (SYNC_PLUSE + BACK_PORCH, 16)
  HPhase,   \* words of pattern data in a line (120)
  HActive,  \* cycles of de in a line (122)
  HFront,   \* cycles of a line after de (8)
  VSync,    \* lines of v_sync (2)
  VBack,    \* lines between v_sync and de (3)
  VPhase,   \* lines of pattern data in a frame (1080)
  VFront    \* lines of a frame after de (16)

ASSUME HorizontalAssumption ==
  /\ HBlank \in Nat /\ HPhase \in Nat \ {0} /\ HFront \in Nat
  /\ HActive \in Nat /\ HActive > HPhase
ASSUME VerticalAssumption ==
  /\ VSync \in Nat \ {0} /\ VBack \in Nat /\ VPhase \in Nat \ {0} /\ VFront \in Nat

HWhole == HBlank + HActive + HFront
VActive == VPhase + 1                    \* one control line before the data
VWhole == VSync + VBack + VActive + VFront

VARIABLES
  r_pixel_cnt,     \* position in the line
  r_line_cnt,      \* line of the frame
  display_busy,    \* frame_busy
  s_vsync_hdmi,    \* v_sync to wps_send
  s_de,            \* de to wps_send
  s_de_first_line  \* de of the control line

displayVars == <<r_pixel_cnt, r_line_cnt, display_busy, s_vsync_hdmi, s_de, s_de_first_line>>

DisplayTypeOK ==
  /\ r_pixel_cnt \in 0 .. HWhole
  /\ r_line_cnt \in 0 .. VWhole
  /\ display_busy \in BOOLEAN
  /\ s_vsync_hdmi \in BOOLEAN /\ s_de \in BOOLEAN /\ s_de_first_line \in BOOLEAN

DisplayInit ==
  /\ r_pixel_cnt = 0 /\ r_line_cnt = 0
  /\ display_busy = FALSE
  /\ s_vsync_hdmi = FALSE /\ s_de = FALSE /\ s_de_first_line = FALSE

Within(x, first, count) == x >= first /\ x < first + count

(* The counters: a line has HWhole + 1 cycles, a frame VWhole + 1 lines.   *)
LineEnds == r_pixel_cnt = HWhole
FrameEnds == LineEnds /\ r_line_cnt = VWhole

Counters(trig) ==
  /\ r_pixel_cnt' = IF LineEnds THEN 0
                    ELSE IF display_busy THEN r_pixel_cnt + 1 ELSE r_pixel_cnt
  /\ \/ /\ display_busy
        /\ r_line_cnt' = IF FrameEnds THEN 0 ELSE IF LineEnds THEN r_line_cnt + 1
                         ELSE r_line_cnt
        /\ display_busy' = ~FrameEnds
     \/ /\ ~display_busy
        /\ r_line_cnt' = IF trig THEN 0 ELSE r_line_cnt
        /\ display_busy' = trig

(* The control line, and the lines of data behind it.                      *)
Signals ==
  LET first == VSync + VBack
  IN  /\ s_vsync_hdmi' = (r_line_cnt < VSync /\ display_busy)
      /\ s_de' = (Within(r_line_cnt, first, VActive) /\ Within(r_pixel_cnt, HBlank, HActive))
      /\ s_de_first_line' = (r_line_cnt = first /\ Within(r_pixel_cnt, HBlank, HPhase))

DisplayStep(trig) == Counters(trig) /\ Signals

DisplayReset ==
  /\ r_pixel_cnt' = 0 /\ r_line_cnt' = 0
  /\ display_busy' = FALSE
  /\ s_vsync_hdmi' = FALSE /\ s_de' = FALSE /\ s_de_first_line' = FALSE
=============================================================================
