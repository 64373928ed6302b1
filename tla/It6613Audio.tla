----------------------------- MODULE It6613Audio -----------------------------
(***************************************************************************)
(* What the IT6613 driver writes for the sound and for the infoframes: the *)
(* clock regeneration values, the audio input, the channel status, and the *)
(* packets with their checksums.  Clocks are in kHz, sample rates in units *)
(* of 100 Hz.                                                              *)
(***************************************************************************)
EXTENDS It6613Video

\* Codes of the sample rates in the channel status.
AUDFS_OTHER == 1
AUDFS == [rate \in {320, 441, 480, 882, 960, 1764, 1920} |->
           CASE rate = 320 -> 3 [] rate = 441 -> 0 [] rate = 480 -> 2 [] rate = 882 -> 8
             [] rate = 960 -> 10 [] rate = 1764 -> 12 [] rate = 1920 -> 14]
AUDFS_48KHz == 2

\* N by rate: at most clocks, at 74.175 MHz and at 14.835 MHz.
NTable == [fs \in {3, 0, 2, 8, 10, 12, 14} |->
            CASE fs = 3 -> <<4096, 11648, 11648>>   [] fs = 0 -> <<6272, 17836, 8918>>
              [] fs = 2 -> <<6144, 11648, 5824>>    [] fs = 8 -> <<12544, 35672, 17836>>
              [] fs = 10 -> <<12288, 23296, 11648>> [] fs = 12 -> <<25088, 71344, 35672>>
              [] fs = 14 -> <<24576, 46592, 23296>>]

\* MCLK / 2000 for any other code: the code, not a rate, times 256.
NOf(clk, fs) ==
  IF fs \notin DOMAIN NTable THEN IF clk = 0 THEN 6144 ELSE (256 * fs) \div 2000
  ELSE NTable[fs][IF clk = 74175 THEN 2 ELSE IF clk = 14835 THEN 3 ELSE 1]

Low(v) == v % 256
Mid(v) == (v \div 256) % 256
High(v) == (v \div 65536) % 16

WriteN(c, n) == Writes(c, Burst(Bank1.AudN, <<Low(n), Mid(n), High(n)>>))

\* Slip: the bank not given back.
SetNCTSInBank1(c, clk, fs) ==
  LET n == NOf(clk, fs)
  IN SetReg(WriteReg(WriteN(Bank(c, 1), n), Hdmi.PKT_SINGLE_CTRL, 0),
            Afe.CLK_CTRL0, Without(255, Afe.EXT_MCLK_SEL), Afe.EXT_256FS)

\* CTS is counted by the hardware from here on.
SetNCTS(c, clk, fs) ==
  LET n == NOf(clk, fs)
  IN SetReg(WriteReg(Bank(WriteN(Bank(c, 1), n), 0), Hdmi.PKT_SINGLE_CTRL, 0),
            Afe.CLK_CTRL0, Without(255, Afe.EXT_MCLK_SEL), Afe.EXT_256FS)

\* The second byte of the channel status rate holds the complement.
OFS(fs) == 16 * (15 - fs)

\* Word lengths: the code in the audio control and the one in the channel status.
WordLengths == [swl \in {16, 18, 20, 24} |->
                 CASE swl = 16 -> <<\h00, \h02>> [] swl = 18 -> <<\h40, \h04>>
                   [] swl = 20 -> <<\h80, \h0A>> [] swl = 24 -> <<\hC0, \h0B>>]

\* Valid sources by number of channels, and how many stereo pairs they are.
Sources(ch) == IF ch > 6 THEN <<\h0F, 4>> ELSE IF ch > 4 THEN <<\h0B, 3>>
               ELSE IF ch > 2 THEN <<\h09, 2>> ELSE <<\h08, 1>>

\* A word length that is not in the list changes nothing but the output mode.
\* Audio over I2S is opened at once, S/PDIF when its clock is found.
SetAudioFormat(s, ch, enable, fs, swl, cat) ==
  LET i == [s.inst EXCEPT !.bOutputAudioMode = IF ch > 2 THEN @ ELSE Without(@, \h40)]
      en == Without(enable, Audio.SWL | Audio.SPDIFTC) | WordLengths[swl][1]
      c1 == AndReg(WriteReg(Bank(s.chip, 0), Audio.CTRL0, en & \hF0),
                   Sys.SW_RST, Without(255, Sys.AUD_RST | Sys.AREF_RST))
      c2 == Writes(c1, <<<<Audio.CTRL1, i.bOutputAudioMode>>,
                         <<Audio.FIFOMAP, \hE4>>,
                         <<Audio.CTRL3, en & Audio.SPDIF>>,
                         <<Audio.SRCVALID_FLAT, Sources(ch)[1]>> >>)
      c3 == Writes(Bank(c2, 1),
                   <<<<Bank1.CHST_MODE, IF ch = 1 THEN 1 ELSE 0>>,
                     <<Bank1.CHST_CAT, cat>>, <<Bank1.CHST_SRCNUM, Sources(ch)[2]>>,
                     <<Bank1.CHST_CHTNUM, 0>>, <<Bank1.CHST_CA_FS, fs>>,
                     <<Bank1.CHST_OFS_WL, OFS(fs) | WordLengths[swl][2]>> >>)
      c4 == Bank(c3, 0)
  IN IF swl \notin DOMAIN WordLengths THEN [s EXCEPT !.inst = i]
     ELSE [s EXCEPT !.inst = [i EXCEPT !.bAudioChannelEnable = en],
                    !.chip = IF en & Audio.SPDIF # 0 THEN c4
                             ELSE WriteReg(c4, Audio.CTRL0, en)]

\* Which serial inputs a number of channels needs.
Inputs(ch) == IF ch \in {7, 8} THEN \h0F ELSE IF ch \in {5, 6} THEN \h07
              ELSE IF ch \in {3, 4} THEN \h03 ELSE \h01

EnableAudioOutput(s, clk, fs, ch, swl, spdif) ==
  LET i == [s.inst EXCEPT !.TMDSClock = clk, !.bAudFs = fs]
      c == IF spdif
           THEN WriteReg(Bank(WriteN(Writes(Bank(s.chip, 1),
                                            Burst(Bank1.AudCTS, <<\h50, \h73, 0>>)),
                                     \h1800), 0),
                         Hdmi.PKT_SINGLE_CTRL, 2)
           ELSE SetNCTS(s.chip, clk, fs)
  IN SetAudioFormat([s EXCEPT !.inst = i, !.chip = c], ch,
                    Inputs(ch) | (IF spdif THEN Audio.SPDIF ELSE 0), fs, swl,
                    IF spdif THEN 1 ELSE 0)

-----------------------------------------------------------------------------
(* Following the rate of the source                                        *)

\* The N the chip uses, and the CTS it counts for a source of some rate (in
\* 100 Hz): TMDS clock * N / (128 * rate).
NInUse(c) == LET r(k) == c.reg[1][Bank1.AudN + k]
             IN (r(2) & 15) * 65536 + r(1) * 256 + r(0)
CountCTS(clk, n, rate) == ((clk * 10 * (n \div 128)) \div rate) % 1048576

\* The nearest standard rate, by the thresholds of the driver.
Nearest(hz) ==
  IF hz > 31000 /\ hz <= 38050 THEN AUDFS[320]
  ELSE IF hz < 46050 THEN AUDFS[441]
  ELSE IF hz < 68100 THEN AUDFS[480]
  ELSE IF hz < 92100 THEN AUDFS[882]
  ELSE IF hz < 136200 THEN AUDFS[960]
  ELSE IF hz < 184200 THEN AUDFS[1764]
  ELSE IF hz < 240200 THEN AUDFS[1920]
  ELSE AUDFS_OTHER

\* Slip: the new rate goes into the channel status, N stays.
AutoAdjustChannelStatus(s, rate) ==
  LET n == NInUse(s.chip)
      cts == CountCTS(s.inst.TMDSClock, n, rate)
      fs == Nearest((((s.inst.TMDSClock * 1000) \div cts) * n) \div 128)
      c == WriteReg(Bank(s.chip, 1), Bank1.CHST_CA_FS, fs)
  IN [s EXCEPT !.inst.bAudFs = fs,
               !.chip = Bank(SetReg(c, Bank1.CHST_OFS_WL, 15, OFS(fs)), 0)]

\* The rate is worked out from N and the counted CTS; no count, no change.
AutoAdjustAudio(s, rate) ==
  LET n == NInUse(s.chip)
      cts == CountCTS(s.inst.TMDSClock, n, rate)
      fs == Nearest((((s.inst.TMDSClock * 1000) \div cts) * n) \div 128)
      c == Bank(SetNCTS(s.chip, s.inst.TMDSClock, fs), 1)
      c1 == WriteReg(c, Bank1.CHST_CA_FS, fs)
  IN IF cts = 0 THEN [s EXCEPT !.chip = Bank(@, 0)]
     ELSE [s EXCEPT !.inst.bAudFs = fs,
                    !.chip = Bank(SetReg(c1, Bank1.CHST_OFS_WL, 15, OFS(fs)), 0)]

AudioIsOn(c) == ReadReg(c, Sys.SW_RST) & (Sys.AUD_RST | Sys.AREF_RST) = 0
Silent(c) == ReadReg(c, Audio.CTRL0) & 15 = 0
Adjusts(c, lock) == AudioIsOn(c) /\ Silent(c) /\ lock

\* In every pass of the driver's loop: with audio enabled, a silent input whose
\* clock is found is adjusted and opened, an open one that lost it is silenced,
\* but only if it was opened here.
SetupAudioChannel(s, lock, rate) ==
  LET c == Bank(s.chip, 0)
      adjusted == AutoAdjustAudio([s EXCEPT !.chip =
                      SetNCTS(c, s.inst.TMDSClock, s.inst.bAudFs)], rate)
      mute == WriteReg(c, Audio.CTRL0, s.inst.bAudioChannelEnable & \hF0)
  IN IF Adjusts(s.chip, lock)
     THEN [adjusted EXCEPT !.chip = WriteReg(Bank(@, 0), Audio.CTRL0,
                                             s.inst.bAudioChannelEnable),
                           !.inst.opened = TRUE]
     ELSE IF AudioIsOn(s.chip) /\ ~Silent(s.chip) /\ ~lock
     THEN [s EXCEPT !.inst.opened = FALSE, !.chip = IF s.inst.opened THEN mute ELSE c]
     ELSE s

-----------------------------------------------------------------------------
(* Infoframes                                                              *)

\* What makes the bytes of a packet and its header add up to 0.
Checksum(type, ver, len, bytes) ==
  (-(128 + ver + type + len + Sum(bytes))) % 256

\* Thirteen bytes at the registers the AVI infoframe has.
SetAVIInfoFrame(c, db) ==
  LET c1 == Writes(Bank(c, 1), [k \in 1..13 |-> <<Bank1.AVI_DB[k], db[k]>>])
      c2 == WriteReg(c1, Bank1.AVI_SUM, Checksum(2, 2, 13, db))
  IN WriteReg(Bank(c2, 0), Hdmi.AVI_CTRL, Hdmi.ENABLE_REPEAT)

\* The third byte is in the sum and has no register.
SetAudioInfoFrame(c, db) ==
  LET c1 == Writes(Bank(c, 1),
                   <<<<Bank1.AUD_CC, db[1]>>, <<Bank1.AUD_SF, db[2]>>,
                     <<Bank1.AUD_CA, db[4]>>, <<Bank1.AUD_DM_LSV, db[5]>>,
                     <<Bank1.AUD_SUM, Checksum(4, 1, 10, [k \in 1..5 |-> db[k]])>> >>)
  IN WriteReg(Bank(c1, 0), Hdmi.AUD_CTRL, Hdmi.ENABLE_REPEAT)

EnableAVIInfoFrame(c, enable, db) ==
  IF enable THEN SetAVIInfoFrame(c, db) ELSE WriteReg(c, Hdmi.AVI_CTRL, 0)

EnableAudioInfoFrame(c, enable, db) ==
  IF enable THEN SetAudioInfoFrame(c, db) ELSE WriteReg(c, Hdmi.AUD_CTRL, 0)

\* The AVI infoframe of a picture: colour, aspect, colorimetry, code, repetition.
AVI(vic, out, wide, itu709, rep) ==
  <<(CASE out = F_MODE_YUV444 -> \h50 [] out = F_MODE_YUV422 -> \h30
       [] OTHER -> \h10),
    8 | (IF wide THEN \h20 ELSE \h10) | (IF itu709 THEN \h80 ELSE \h40),
    0, vic, rep & 3, 0, 0, 0, 0, 0, 0, 0, 0>>

\* Two channels, all else as the stream header says.
ConfigAudioInfoFrm(c) ==
  EnableAudioInfoFrame(c, TRUE, <<1, 0, 0, 0, 0, 0, 0, 0, 0, 0>>)
=============================================================================
