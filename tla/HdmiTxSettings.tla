--------------------------- MODULE HdmiTxSettings ---------------------------
(***************************************************************************)
(* The settings half of the HDMI transmitter's software (it6613_drv.c,     *)
(* it6613_sys.c, HDMI_TX.c): one action per call of the interface that     *)
(* it6613_drv.h and HDMI_TX.h declare.  A call runs to its end before the  *)
(* next, as the firmware has one thread; the calls come in any order.      *)
(* Authentication (Hdcp) and the hot plug loop (HotPlug) are modules of    *)
(* their own: here authentication leaves its reset bit set or clear.       *)
(*                                                                         *)
(* A history is about one concern: the picture, the sound, or the signal   *)
(* at the input.  Calls about the picture are bounded by MaxCalls; the     *)
(* other histories are as long as they may be.                             *)
(***************************************************************************)
EXTENDS It6613Audio

CONSTANTS Timings,    \* video codes asked for
          Depths,     \* colour depths asked for
          DeModes,    \* modes of the DE generator asked for
          Rates,      \* rates of the audio source, in 100 Hz
          Asked,      \* the ones audio is opened at
          Formats,    \* channels and word length of the audio asked for
          MaxCalls    \* bound on the calls about the picture

ASSUME SettingsAssumption ==
  /\ Rates \subseteq DOMAIN AUDFS /\ Asked \subseteq Rates
  /\ Formats \subseteq (1..8) \X Nat
  /\ MaxCalls \in Nat

Concerns == {"picture", "sound", "input"}

VARIABLES chip,       \* the transmitter's registers
          inst,       \* Instance[0] and SetupAudioChannel's static variable
          set,        \* the globals of it6613_sys.c
          source,     \* the rate of the audio source; 0: its clock is not found
          told,       \* history: what the caller last asked for
          concern,    \* which calls a history makes
          calls       \* the number of calls about the picture so far

txVars == <<chip, inst, set, source, told, concern, calls>>

-----------------------------------------------------------------------------
(* Start-up                                                                *)

\* The chip after power-up.
Blank == [bank |-> 0, reg |-> [b \in {0, 1} |-> [a \in Bytes |-> 0]]]

InitInstanceData == [bOutputAudioMode |-> 0, bAudioChannelEnable |-> 1,
                     bAudFs |-> AUDFS_48KHz, TMDSClock |-> 0,
                     bInputVideoSignalType |-> 0, opened |-> FALSE]

\* The HDCP keys are in the chip or in a ROM on the board.
InitIT6613_HDCPROM(c, internal) ==
  Writes(Bank(c, 0),
         <<<<\hF8, \hC3>>, <<\hF8, \hA5>>, <<Keys.LISTCTRL, \h60>>,
           <<Keys.ROM_HEADER, IF internal THEN \hE0 ELSE \hA0>>,
           <<Keys.LISTCTRL, IF internal THEN \h48 ELSE 0>>, <<\hF8, \hFF>> >>)

InitIT6613(c, internal) ==
  LET rst == Sys.VID_RST | Sys.AUD_RST | Sys.AREF_RST | Sys.HDCP_RST
      off(r) == <<r, 0>>
      c1 == Writes(c, <<<<Sys.INT_CTRL, 0>>, <<Sys.SW_RST, Sys.REF_RST | rst>>,
                        <<Sys.SW_RST, rst>>, <<Afe.DRV_CTRL, Afe.DRV_RST | Afe.DRV_PWD>>,
                        <<Irq.MASK1, \hB2>>, <<Irq.MASK2, \hF8>>,
                        <<Irq.MASK3, \h37>> >>)
  IN InitIT6613_HDCPROM(
       Writes(Bank(c1, 0),
              <<off(Hdmi.NULL_CTRL), off(Hdmi.ACP_CTRL), off(Hdmi.ISRC1_CTRL),
                off(Hdmi.ISRC2_CTRL), off(Hdmi.AVI_CTRL), off(Hdmi.AUD_CTRL),
                off(Hdmi.SPD_CTRL), off(Hdmi.MPG_CTRL),
                <<Audio.CTRL1, InitInstanceData.bOutputAudioMode>> >>), internal)

TxInit ==
  /\ concern \in Concerns
  /\ \E internal \in BOOLEAN :
       /\ chip = InitIT6613(Blank, internal)
       /\ concern # "picture" => internal
  /\ inst = InitInstanceData
  /\ set = [VIC |-> 0, VideoPixelClock |-> 0, pixelrep |-> 0, wide |-> FALSE,
            itu709 |-> FALSE, bInputColorMode |-> F_MODE_RGB444,
            bOutputColorMode |-> F_MODE_RGB444, bChangeMode |-> FALSE,
            bHDMIMode |-> FALSE, bAudioEnable |-> FALSE]
  /\ source = 0
  /\ told = [depth |-> 0, rate |-> 480, mode |-> <<>>, inOrder |-> FALSE,
             frame |-> "none"]
  /\ calls = 0

-----------------------------------------------------------------------------
(* The picture                                                             *)

\* The colours stay what they are, up to the ones that are not known.
HDMITX_ChangeVideoTiming ==
  \E vic \in Timings :
    /\ set' = HDMITX_ChangeDisplayOption(set, vic, KnownColour(set.bOutputColorMode))
    /\ told' = [told EXCEPT !.inOrder = @ \/ vic \in DOMAIN TimingTable]
    /\ UNCHANGED <<chip, inst, source, concern>>

HDMITX_ChangeVideoTimingAndColor ==
  \E vic \in Timings, colour \in Colours :
    /\ set' = HDMITX_ChangeDisplayOption(set, vic, colour)
    /\ told' = [told EXCEPT !.inOrder = @ \/ vic \in DOMAIN TimingTable]
    /\ UNCHANGED <<chip, inst, source, concern>>

\* The flags beside the colour in the input mode are lost.
HDMITX_SetColorSpace ==
  \E in, out \in Colours :
    /\ set' = [set EXCEPT !.bInputColorMode = in, !.bOutputColorMode = out]
    /\ told' = [told EXCEPT !.inOrder = FALSE]
    /\ UNCHANGED <<chip, inst, source, concern>>

HDMITX_SetOutputColorDepth ==
  \E d \in Depths :
    /\ chip' = SetOutputColorDepthPhase(chip, d)
    /\ told' = [told EXCEPT !.depth = DepthBits(d)]
    /\ UNCHANGED <<inst, set, source, concern>>

HDMITX_DisableVideoOutput ==
  /\ chip' = DisableVideoOutput(chip)
  /\ UNCHANGED <<inst, set, source, told, concern>>

CloseAll ==
  /\ chip' = DisableIT6613(chip)
  /\ UNCHANGED <<inst, set, source, told, concern>>

\* What the hot plug loop finds out about a sink.
SinkFound ==
  \E hdmi, audio \in BOOLEAN :
    /\ audio => hdmi
    /\ set' = [set EXCEPT !.bHDMIMode = hdmi, !.bAudioEnable = audio]
    /\ UNCHANGED <<chip, inst, source, told, concern>>

ConfigAVIInfoFrame(c) ==
  EnableAVIInfoFrame(c, TRUE, AVI(set.VIC, set.bOutputColorMode, set.wide,
                                  set.itu709, set.pixelrep))

\* Authentication, as far as the registers modelled here go.
EnableHDCP(c, ok) ==
  IF ok THEN AndReg(c, Sys.SW_RST, Without(255, Sys.HDCP_RST))
  ELSE OrReg(c, Sys.SW_RST, Sys.HDCP_RST)

\* What SetOutput makes of the chip: the picture, then for an HDMI sink the
\* infoframe and authentication, then the sound.
TMDSClock == set.VideoPixelClock * (set.pixelrep + 1)
VideoOut == EnableVideoOutput(chip, TMDSClock > 80000, set.bInputColorMode,
                              set.bOutputColorMode, set.bHDMIMode,
                              inst.bInputVideoSignalType)
HDMIOut(ok) == EnableHDCP(ConfigAVIInfoFrame(VideoOut), ok)
SoundOut(ok) == EnableAudioOutput([chip |-> HDMIOut(ok), inst |-> inst], TMDSClock,
                                  AUDFS_48KHz, 2, 16, FALSE)

\* Everything that was asked for takes effect; the output is shown at the end.
HDMITX_SetOutput ==
  /\ \/ /\ ~set.bHDMIMode
        /\ chip' = SetAVMute(VideoOut, FALSE) /\ UNCHANGED inst
     \/ /\ set.bHDMIMode /\ ~set.bAudioEnable
        /\ \E ok \in BOOLEAN : chip' = SetAVMute(HDMIOut(ok), FALSE)
        /\ UNCHANGED inst
     \/ /\ set.bHDMIMode /\ set.bAudioEnable
        /\ \E ok \in BOOLEAN :
             /\ chip' = SetAVMute(ConfigAudioInfoFrm(SoundOut(ok).chip), FALSE)
             /\ inst' = SoundOut(ok).inst
  /\ set' = [set EXCEPT !.bChangeMode = FALSE]
  /\ told' = [told EXCEPT !.frame = IF ~set.bHDMIMode THEN "none"
                                    ELSE IF told.inOrder THEN "driver" ELSE "mixed",
                          !.rate = IF set.bHDMIMode /\ set.bAudioEnable
                                   THEN 480 ELSE @]
  /\ UNCHANGED <<source, concern>>

\* A caller may also describe the picture itself.
HDMITX_SetAVIInfoFrame ==
  \E out \in Colours, hd \in BOOLEAN :
    /\ chip' = EnableAVIInfoFrame(chip, TRUE, AVI(set.VIC, out, hd, hd, 0))
    /\ told' = [told EXCEPT !.frame = "caller"]
    /\ UNCHANGED <<inst, set, source, concern>>

Picture == /\ concern = "picture"
           /\ calls < MaxCalls /\ calls' = calls + 1
           /\ \/ HDMITX_ChangeVideoTiming
              \/ HDMITX_ChangeVideoTimingAndColor
              \/ HDMITX_SetColorSpace
              \/ HDMITX_SetOutputColorDepth
              \/ HDMITX_DisableVideoOutput
              \/ CloseAll
              \/ SinkFound
              \/ HDMITX_SetOutput
              \/ HDMITX_SetAVIInfoFrame

-----------------------------------------------------------------------------
(* The sound                                                               *)

\* The clock is that of a picture.
OpenAudio ==
  \E rate \in Asked, f \in Formats, spdif \in BOOLEAN,
     vic \in Timings \cap DOMAIN TimingTable :
    LET s == EnableAudioOutput([chip |-> chip, inst |-> inst], TimingTable[vic][1],
                               AUDFS[rate], f[1], f[2], spdif)
    IN /\ chip' = s.chip /\ inst' = s.inst
       /\ told' = [told EXCEPT !.rate = IF f[2] \in DOMAIN WordLengths THEN rate ELSE 0]
       /\ UNCHANGED <<set, source, concern>>

CloseAudio ==
  /\ chip' = DisableAudioOutput(chip)
  /\ UNCHANGED <<inst, set, source, told, concern>>

\* The clock of the source is found or lost; a new rate comes with a new clock.
SourceChanges ==
  /\ source' \in IF source = 0 THEN Rates ELSE {0}
  /\ UNCHANGED <<chip, inst, set, told, concern>>

\* The audio part of a pass of the driver's loop.
AudioPass ==
  LET s == SetupAudioChannel([chip |-> chip, inst |-> inst], source # 0, source)
  IN /\ chip' = s.chip /\ inst' = s.inst
     /\ told' = [told EXCEPT !.rate = IF Adjusts(chip, source # 0) THEN source ELSE @]
     /\ UNCHANGED <<set, source, concern>>

Sound == /\ concern = "sound" /\ UNCHANGED calls
         /\ \/ OpenAudio
            \/ CloseAudio
            \/ SourceChanges
            \/ AudioPass

-----------------------------------------------------------------------------
(* The signal at the input                                                 *)

SetupVideoInputSignal ==
  \E sig \in {0, T_MODE_DEGEN | T_MODE_INDDR | T_MODE_PCLKDIV2,
              T_MODE_SYNCEMB | T_MODE_CCIR656} :
    /\ inst' = [inst EXCEPT !.bInputVideoSignalType = sig]
    /\ UNCHANGED <<chip, set, source, told, concern>>

\* A mode the table does not have, or a signal that brings its own sync, changes
\* nothing.
GenerateDE ==
  \E id \in DeModes :
    LET done == FirstRow(DeGen_Table, id) # 0
                /\ inst.bInputVideoSignalType & (T_MODE_DEGEN | T_MODE_SYNCEMB)
                   = T_MODE_DEGEN
    IN /\ chip' = ProgramDEGenModeByID(chip, id, inst.bInputVideoSignalType)
       /\ told' = [told EXCEPT !.mode = IF done THEN id ELSE @]
       /\ UNCHANGED <<inst, set, source, concern>>

DecodeSync ==
  \E vic \in Timings :
    LET done == FirstRow(SyncEmbTable, vic) # 0
                /\ inst.bInputVideoSignalType & T_MODE_SYNCEMB # 0
    IN /\ chip' = ProgramSyncEmbeddedVideoMode(chip, vic, inst.bInputVideoSignalType)
       /\ told' = [told EXCEPT !.mode = IF done THEN <<>> ELSE @]
       /\ UNCHANGED <<inst, set, source, concern>>

Input == /\ concern = "input" /\ UNCHANGED calls
         /\ \/ SetupVideoInputSignal
            \/ GenerateDE
            \/ DecodeSync
            \/ HDMITX_SetOutput

TxNext == Picture \/ Sound \/ Input

TxSpec == TxInit /\ [][TxNext]_txVars

-----------------------------------------------------------------------------
(* Properties                                                              *)

\* Every call leaves bank 0 selected: most functions do not select it for themselves,
\* so a call that did not would send the next one's writes to the wrong bank.
TxTypeOK ==
  /\ chip.bank = 0
  /\ chip.reg \in [{0, 1} -> [Bytes -> Bytes]]
  /\ inst.bAudFs \in {AUDFS[r] : r \in DOMAIN AUDFS} \cup {AUDFS_OTHER}
  /\ inst.bAudioChannelEnable \in Bytes /\ inst.opened \in BOOLEAN
  /\ set.VIC \in Timings \cup {0} /\ set.bOutputColorMode \in Colours
  /\ source \in Rates \cup {0}

Reg(b, a) == chip.reg[b][a]

SumOf(addresses) == Sum([k \in DOMAIN addresses |-> Reg(1, addresses[k])])

\* An infoframe that is sent adds up to 0 with its header.
FrameChecksums ==
  /\ Reg(0, Hdmi.AVI_CTRL) # 0 =>
       (\h82 + 2 + 13 + Reg(1, Bank1.AVI_SUM)
        + SumOf(Bank1.AVI_DB)) % 256 = 0
  /\ Reg(0, Hdmi.AUD_CTRL) # 0 =>
       (\h84 + 1 + 10 + Reg(1, Bank1.AUD_SUM)
        + SumOf(<<Bank1.AUD_CC, Bank1.AUD_SF, Bank1.AUD_CA, Bank1.AUD_DM_LSV>>)) % 256 = 0

InputIsRGB == Reg(0, Video.INPUT_MODE) & Video.INCOLMOD = Video.IN_RGB
Converter == Reg(0, Video.CSC_CTRL) & Video.CSC_SEL
Told(b) == Reg(1, Bank1.AVI_DB[b])

\* The infoframes being sent are sound in every byte the chip sends, whatever was
\* written into bank 1 since, and the colours they tell the sink are the ones that
\* leave the converter, also while a later choice waits for the next SetOutput.
FrameTellsOutput ==
  /\ FrameChecksums
  /\ told.frame \in {"driver", "mixed"} =>
       ((Told(1) & \h60) = 0 <=> (Converter = Video.CSC_YUV2RGB
                                 \/ (InputIsRGB /\ Converter = Video.CSC_BYPASS)))

\* When a picture is converted its matrix is one of the colorimetry the
\* infoframe announces, provided the timing was chosen after the colours:
\* HDMITX_SetColorSpace takes the colorimetry out of the input mode.
MatrixAsAnnounced ==
  told.frame = "driver" /\ Converter # Video.CSC_BYPASS =>
    LET itu709 == Told(2) & \hC0 = \h80
        table(limited) == IF Converter = Video.CSC_RGB2YUV THEN RGB2YUV(itu709, limited)
                          ELSE YUV2RGB(itu709, limited)
    IN \E limited \in BOOLEAN :
         \A k \in 1..18 : Reg(0, Video.CSC_MTX11_L + k - 1) = table(limited)[k]

\* The colour depth in the general control packet is the one last asked for:
\* muting shares its register.
DepthSurvives == Reg(0, Hdmi.GCP) & Hdmi.DEPTH_MASK = told.depth

\* While sound is sent, the rate in the channel status, its complement and N
\* are those of the rate last asked for or found.  A call with a word length the
\* driver does not know stops between the two; from there on nothing is said.
AudioRateTold ==
  Reg(0, Audio.CTRL0) & 15 # 0 /\ told.rate # 0 =>
    /\ Reg(1, Bank1.CHST_CA_FS) = AUDFS[told.rate]
    /\ Reg(1, Bank1.CHST_OFS_WL) \div 16 = 15 - AUDFS[told.rate]
    /\ NInUse(chip) = NOf(inst.TMDSClock, AUDFS[told.rate])

\* The window of the DE generator is the picture of the mode it was given.
DeWindow ==
  LET w == Reg(0, \h93) + 256 * (Reg(0, \h94) \div 16)
           - (Reg(0, \h92) + 256 * (Reg(0, \h94) % 16))
      h == Reg(0, \h9B) + 256 * (Reg(0, \h9C) \div 16)
           - (Reg(0, \h9A) + 256 * (Reg(0, \h9C) % 16))
  IN told.mode # <<>> =>
       /\ w = told.mode[2]
       /\ h = told.mode[3] \div (IF told.mode[4] = "i" THEN 2 ELSE 1)
=============================================================================
