----------------------------- MODULE It6613Video -----------------------------
(***************************************************************************)
(* What the IT6613 driver writes for the picture: the timing a video code  *)
(* stands for, the input mode, the colour space converter, the analogue    *)
(* front end, muting and colour depth.  Clocks are in kHz.                 *)
(***************************************************************************)
EXTENDS It6613Tables

-----------------------------------------------------------------------------
(* Colour modes and video timings                                          *)

F_MODE_RGB444 == 0
F_MODE_YUV422 == 1
F_MODE_YUV444 == 2
Colours == {F_MODE_RGB444, F_MODE_YUV422, F_MODE_YUV444}
F_MODE_CLRMOD_MASK == 3
F_MODE_ITU709 == \h10
F_MODE_16_235 == \h20
F_MODE_EN_UDFILT == \h40
F_MODE_EN_DITHER == \h80

\* The timings of HDMITX_ChangeDisplayOption: pixel clock, pixel repetition,
\* 16:9 or not, ITU-R BT.709 or not.
SD(clk, rep) == <<clk, rep, FALSE, FALSE>>
Wide(clk, rep) == <<clk, rep, TRUE, FALSE>>
HD(clk) == <<clk, 0, TRUE, TRUE>>

TimingTable ==
  [vic \in 1..7 \cup 16..22 \cup 31..34 \cup {46} |->
     CASE vic = 1 -> SD(25000, 0)
       [] vic \in {2, 17} -> SD(27000, 0) [] vic \in {3, 18} -> Wide(27000, 0)
       [] vic \in {6, 21} -> SD(13500, 1) [] vic \in {7, 22} -> Wide(13500, 1)
       [] vic \in {4, 5, 19, 20, 32, 33, 34} -> HD(74250)
       [] vic \in {16, 31} -> HD(148500)
       [] vic = 46 -> Wide(148500, 0)]

\* Slip: the flags of the timing before stay.
DisplayOptionKeepsFlags(s, vic, out) ==
  IF vic \notin DOMAIN TimingTable THEN [s EXCEPT !.VIC = 0, !.bChangeMode = FALSE]
  ELSE LET t == TimingTable[vic]
       IN [s EXCEPT !.VIC = vic, !.VideoPixelClock = t[1], !.pixelrep = t[2],
                    !.wide = t[3], !.itu709 = t[4], !.bOutputColorMode = out,
                    !.bInputColorMode =
                       @ | (IF t[4] THEN F_MODE_ITU709 ELSE F_MODE_16_235),
                    !.bChangeMode = TRUE]

\* An unknown timing clears the VIC and leaves the rest as it was.  The limited
\* range flag is set when the colorimetry is not HDMI_640x480p60, which is 1 and
\* so the same number as HDMI_ITU709.
HDMITX_ChangeDisplayOption(s, vic, out) ==
  IF vic \notin DOMAIN TimingTable THEN [s EXCEPT !.VIC = 0, !.bChangeMode = FALSE]
  ELSE LET t == TimingTable[vic]
           flags == IF t[4] THEN F_MODE_ITU709 ELSE F_MODE_16_235
       IN [s EXCEPT !.VIC = vic, !.VideoPixelClock = t[1], !.pixelrep = t[2],
                    !.wide = t[3], !.itu709 = t[4], !.bOutputColorMode = out,
                    !.bInputColorMode =
                       Without(@, F_MODE_ITU709 | F_MODE_16_235) | flags,
                    !.bChangeMode = TRUE]

\* Output colours outside the three modes fall back to RGB.
KnownColour(c) == IF c \in {F_MODE_YUV422, F_MODE_YUV444} THEN c ELSE F_MODE_RGB444

-----------------------------------------------------------------------------
(* Video path of the chip                                                  *)

\* Slip: the register written as if muting were all it holds.
SetAVMuteAlone(c, mute) ==
  Writes(Bank(c, 0), <<<<Hdmi.GCP, IF mute THEN Hdmi.SETAVMUTE ELSE 0>>,
                       <<Hdmi.PKT_GENERAL_CTRL, Hdmi.ENABLE_REPEAT>> >>)

SetAVMute(c, mute) ==
  LET c0 == Bank(c, 0)
  IN Writes(c0, <<<<Hdmi.GCP, Without(ReadReg(c0, Hdmi.GCP), Hdmi.SETAVMUTE)
                              | (IF mute THEN Hdmi.SETAVMUTE ELSE 0)>>,
                  <<Hdmi.PKT_GENERAL_CTRL, Hdmi.ENABLE_REPEAT>> >>)

DepthBits(d) == CASE d = 30 -> Hdmi.CD_30 [] d = 36 -> Hdmi.CD_36
                  [] d = 24 -> Hdmi.CD_24 [] OTHER -> 0

SetOutputColorDepthPhase(c, d) ==
  LET c0 == Bank(c, 0)
  IN WriteReg(c0, Hdmi.GCP, Without(ReadReg(c0, Hdmi.GCP), Hdmi.DEPTH_MASK)
                            | DepthBits(d))

SetInputMode(c, mode, sig) ==
  LET colour == mode & F_MODE_CLRMOD_MASK
      bit(t, b) == IF sig & t # 0 THEN b ELSE 0
  IN SetReg(c, Video.INPUT_MODE,
        Without(255, Video.INCOLMOD | Video.X656CLK | Video.SYNCEMB
                     | Video.INDDR | Video.PCLKDIV2),
        (CASE colour = F_MODE_YUV422 -> Video.IN_YUV422
           [] colour = F_MODE_YUV444 -> Video.IN_YUV444
           [] OTHER -> Video.IN_RGB)
        | bit(T_MODE_PCLKDIV2, Video.PCLKDIV2) | bit(T_MODE_CCIR656, Video.X656CLK)
        | bit(T_MODE_SYNCEMB, Video.SYNCEMB) | bit(T_MODE_INDDR, Video.INDDR))

Offset_16_235 == <<\h00, \h80, \h00>>
Offset_0_255 == <<\h10, \h80, \h10>>

\* Conversion matrices: low and high byte of nine 14-bit coefficients, by
\* colorimetry and range.
RGB2YUV(itu709, limited) ==
  CASE ~itu709 /\ limited ->
         <<\hB2, \h04, \h64, \h02, \hE9, \h00, \h93, \h3C, \h16, \h04,
           \h56, \h3F, \h49, \h3D, \h9F, \h3E, \h16, \h04>>
    [] ~itu709 /\ ~limited ->
         <<\h09, \h04, \h0E, \h02, \hC8, \h00, \h0E, \h3D, \h83, \h03,
           \h6E, \h3F, \hAC, \h3D, \hD0, \h3E, \h83, \h03>>
    [] itu709 /\ limited ->
         <<\hB8, \h05, \hB4, \h01, \h93, \h00, \h49, \h3C, \h16, \h04,
           \h9F, \h3F, \hD9, \h3C, \h10, \h3F, \h16, \h04>>
    [] itu709 /\ ~limited ->
         <<\hE5, \h04, \h78, \h01, \h81, \h00, \hCE, \h3C, \h83, \h03,
           \hAE, \h3F, \h49, \h3D, \h33, \h3F, \h83, \h03>>

YUV2RGB(itu709, limited) ==
  CASE ~itu709 /\ limited ->
         <<\h00, \h08, \h6A, \h3A, \h4F, \h3D, \h00, \h08, \hF7, \h0A,
           \h00, \h00, \h00, \h08, \h00, \h00, \hDB, \h0D>>
    [] ~itu709 /\ ~limited ->
         <<\h4F, \h09, \h81, \h39, \hDF, \h3C, \h4F, \h09, \hC2, \h0C,
           \h00, \h00, \h4F, \h09, \h00, \h00, \h1E, \h10>>
    [] itu709 /\ limited ->
         <<\h00, \h08, \h53, \h3C, \h89, \h3E, \h00, \h08, \h51, \h0C,
           \h00, \h00, \h00, \h08, \h00, \h00, \h87, \h0E>>
    [] itu709 /\ ~limited ->
         <<\h4F, \h09, \hBA, \h3B, \h4B, \h3E, \h4F, \h09, \h56, \h0E,
           \h00, \h00, \h4F, \h09, \h00, \h00, \hE7, \h10>>

\* Slip: the input alone decides.
CscOfInput(in, out) ==
  IF in # F_MODE_RGB444 THEN Video.CSC_YUV2RGB
  ELSE IF out # F_MODE_RGB444 THEN Video.CSC_RGB2YUV ELSE Video.CSC_BYPASS

\* Which converter an input and an output colour need.
CscOf(in, out) ==
  IF in # F_MODE_RGB444 /\ out = F_MODE_RGB444 THEN Video.CSC_YUV2RGB
  ELSE IF in = F_MODE_RGB444 /\ out # F_MODE_RGB444 THEN Video.CSC_RGB2YUV
  ELSE Video.CSC_BYPASS

\* The filters: a change to or from 4:2:2 needs the up/down filter, a change
\* of format other than 4:4:4 to 4:2:2 dithers; each only where the mode asks.
FilterOf(in, out, mode) ==
  LET updown == in # out /\ F_MODE_YUV422 \in {in, out}
      dither == in # out /\ <<in, out>> # <<F_MODE_YUV444, F_MODE_YUV422>>
  IN (IF updown /\ mode & F_MODE_EN_UDFILT # 0 THEN Video.EN_UDFILTER ELSE 0)
     | (IF dither /\ mode & F_MODE_EN_DITHER # 0
        THEN Video.EN_DITHER | Video.DNFREE_GO ELSE 0)

SetCSCScale(c, inMode, outMode) ==
  LET in == inMode & F_MODE_CLRMOD_MASK
      out == outMode & F_MODE_CLRMOD_MASK
      csc == CscOf(in, out)
      itu709 == inMode & F_MODE_ITU709 # 0
      limited == inMode & F_MODE_16_235 # 0
      matrix == IF csc = Video.CSC_RGB2YUV THEN RGB2YUV(itu709, limited)
                ELSE YUV2RGB(itu709, limited)
      scaled == IF csc = Video.CSC_BYPASS THEN c
                ELSE Writes(Writes(c, Burst(Video.CSC_YOFF,
                                            IF limited THEN Offset_16_235 ELSE Offset_0_255)),
                            Burst(Video.CSC_MTX11_L, matrix))
  IN SetReg(scaled, Video.CSC_CTRL,
            Without(255, Video.CSC_SEL | Video.DNFREE_GO | Video.EN_DITHER
                         | Video.EN_UDFILTER),
            FilterOf(in, out, inMode) | csc)

SetupAFE(c, high) ==
  LET set1 == Writes(c, <<<<Afe.DRV_CTRL, Afe.DRV_RST>>,
                          <<Afe.XP_CTRL, IF high THEN \h88 ELSE \h18>>,
                          <<Afe.ISW_CTRL, \h10>>,
                          <<Afe.IP_CTRL, IF high THEN \h84 ELSE \h0C>> >>)
      hold == Sys.AREF_RST | Sys.AUD_RST | Sys.HDCP_RST
  IN AndReg(AndReg(set1, Sys.SW_RST, hold | Sys.VID_RST), Sys.SW_RST, hold)

FireAFE(c) == WriteReg(Bank(c, 0), Afe.DRV_CTRL, 0)

\* Whether the input video became stable in time changes nothing here.
EnableVideoOutput(c, high, inMode, outMode, hdmi, sig) ==
  LET rst == Sys.AUD_RST | Sys.AREF_RST | Sys.HDCP_RST
      c1 == WriteReg(c, Sys.SW_RST, rst | Sys.VID_RST)
      c2 == IF hdmi THEN SetAVMute(c1, TRUE) ELSE c1
      c3 == SetCSCScale(SetInputMode(c2, inMode, sig), inMode, outMode)
      c4 == Writes(c3, <<<<Hdmi.MODE, IF hdmi THEN Hdmi.HDMI_MODE ELSE Hdmi.DVI_MODE>>,
                         <<Sys.SW_RST, rst>> >>)
  IN FireAFE(Writes(SetupAFE(c4, high),
                    <<<<Irq.CLR0, 0>>, <<Irq.CLR1, Irq.CLR_VIDSTABLE>>,
                      <<Irq.SYS_STATUS, Irq.INTACTDONE>>, <<Irq.SYS_STATUS, 0>> >>))

DisableVideoOutput(c) ==
  WriteReg(OrReg(c, Sys.SW_RST, Sys.VID_RST), Afe.DRV_CTRL, Afe.DRV_RST | Afe.DRV_PWD)

DisableAudioOutput(c) == OrReg(c, Sys.SW_RST, Sys.AUD_RST)

DisableIT6613(c) ==
  Writes(c, <<<<Sys.SW_RST, Sys.AREF_RST | Sys.VID_RST | Sys.AUD_RST | Sys.HDCP_RST>>,
              <<Afe.DRV_CTRL, Afe.DRV_RST | Afe.DRV_PWD>> >>)
=============================================================================
