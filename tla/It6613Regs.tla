----------------------------- MODULE It6613Regs -----------------------------
(***************************************************************************)
(* The register map of the IT6613 HDMI transmitter as it6613_drv.h names   *)
(* it: one record of addresses and bits per group of registers, and the    *)
(* two ways the driver reaches a register through the bank register.       *)
(* A chip is a record: the selected bank and the value of every register,  *)
(* by bank and address.  Registers below 0x30 are common to both banks and *)
(* are kept in the first.                                                  *)
(***************************************************************************)
EXTENDS Integers, Sequences

\* The reset register, and the one that sets the interrupt pin up.
Sys == [SW_RST |-> \h04, REF_RST |-> \h20, AREF_RST |-> \h10, VID_RST |-> \h08,
        AUD_RST |-> \h04, HDCP_RST |-> \h01, INT_CTRL |-> \h05]

\* Interrupt masks and clears, the status and the bank.
Irq == [MASK1 |-> \h09, MASK2 |-> \h0A, MASK3 |-> \h0B, CLR0 |-> \h0C,
        CLR1 |-> \h0D, CLR_VIDSTABLE |-> \h40, SYS_STATUS |-> \h0E,
        INTACTDONE |-> 1, BANK |-> \h0F]

\* Where the HDCP keys are.
Keys == [ROM_HEADER |-> \h1A, LISTCTRL |-> \h22]

\* The clocks and the analogue front end.
Afe == [CLK_CTRL0 |-> \h58, EXT_MCLK_SEL |-> \h0C, EXT_256FS |-> \h04,
        DRV_CTRL |-> \h61, DRV_PWD |-> \h20, DRV_RST |-> \h10,
        XP_CTRL |-> \h62, ISW_CTRL |-> \h63, IP_CTRL |-> \h64]

\* The video input and the colour space converter.
Video == [INPUT_MODE |-> \h70, INDDR |-> \h04, SYNCEMB |-> \h08,
          X656CLK |-> \h10, PCLKDIV2 |-> \h20, INCOLMOD |-> \hC0,
          IN_RGB |-> 0, IN_YUV422 |-> \h40, IN_YUV444 |-> \h80,
          CSC_CTRL |-> \h72, CSC_BYPASS |-> 0, CSC_RGB2YUV |-> 2,
          CSC_YUV2RGB |-> 3, CSC_SEL |-> 3, EN_DITHER |-> \h80,
          EN_UDFILTER |-> \h40, DNFREE_GO |-> \h20,
          CSC_YOFF |-> \h73, CSC_MTX11_L |-> \h76]

\* The general control packet and the packet enables.
Hdmi == [MODE |-> \hC0, HDMI_MODE |-> 1, DVI_MODE |-> 0, GCP |-> \hC1,
         SETAVMUTE |-> 1, DEPTH_MASK |-> \h70, CD_24 |-> \h40, CD_30 |-> \h50,
         CD_36 |-> \h60, PKT_SINGLE_CTRL |-> \hC5, PKT_GENERAL_CTRL |-> \hC6,
         NULL_CTRL |-> \hC9, ACP_CTRL |-> \hCA, ISRC1_CTRL |-> \hCB,
         ISRC2_CTRL |-> \hCC, AVI_CTRL |-> \hCD, AUD_CTRL |-> \hCE,
         SPD_CTRL |-> \hCF, MPG_CTRL |-> \hD0, ENABLE_REPEAT |-> 3]

\* The audio input.
Audio == [CTRL0 |-> \hE0, SWL |-> \hC0, SPDIFTC |-> \h20, SPDIF |-> \h10,
          CTRL1 |-> \hE1, FIFOMAP |-> \hE2, CTRL3 |-> \hE3,
          SRCVALID_FLAT |-> \hE4]

\* Bank 1: the clock regeneration packet, the infoframes, the channel status.
Bank1 == [AudN |-> \h33, AudCTS |-> \h30,
          AVI_DB |-> <<\h58, \h59, \h5A, \h5B, \h5C, \h5E, \h5F,
                       \h60, \h61, \h62, \h63, \h64, \h65>>, AVI_SUM |-> \h5D,
          AUD_CC |-> \h68, AUD_SF |-> \h69, AUD_CA |-> \h6B,
          AUD_DM_LSV |-> \h6C, AUD_SUM |-> \h6D,
          CHST_MODE |-> \h91,
          CHST_CAT |-> \h92, CHST_SRCNUM |-> \h93, CHST_CHTNUM |-> \h94,
          CHST_CA_FS |-> \h98, CHST_OFS_WL |-> \h99]

-----------------------------------------------------------------------------
\* Bytes, bit by bit: a bit is named by its weight.
Bytes == 0..255
HasBit(v, w) == (v \div w) % 2 = 1
Weigh(set, w) == IF set THEN w ELSE 0

v & u ==
  LET both(w) == Weigh(HasBit(v, w) /\ HasBit(u, w), w)
  IN both(1) + both(2) + both(4) + both(8) + both(16) + both(32) + both(64) + both(128)

v | u ==
  LET any(w) == Weigh(HasBit(v, w) \/ HasBit(u, w), w)
  IN any(1) + any(2) + any(4) + any(8) + any(16) + any(32) + any(64) + any(128)

\* Bits of a byte that a mask does not cover.
Without(v, mask) == v - (v & mask)

\* The bank an address means while the chip's bank register is as it is.
BankOf(chip, a) == IF a < \h30 THEN 0 ELSE chip.bank

ReadReg(chip, a) == chip.reg[BankOf(chip, a)][a]

WriteReg(chip, a, v) ==
  IF a = Irq.BANK THEN [chip EXCEPT !.bank = v % 2]
  ELSE [chip EXCEPT !.reg[BankOf(chip, a)][a] = v]

Bank(chip, b) == WriteReg(chip, Irq.BANK, b)

\* A run of register writes, in order.
Writes(chip, list) ==
  LET after[i \in 0..Len(list)] ==
        IF i = 0 THEN chip ELSE WriteReg(after[i - 1], list[i][1], list[i][2])
  IN after[Len(list)]

\* The sum of a run of numbers.
Sum(s) ==
  LET upto[i \in 0..Len(s)] == IF i = 0 THEN 0 ELSE upto[i - 1] + s[i]
  IN upto[Len(s)]

\* Consecutive registers from an address on, one byte each.
Burst(a, bytes) == [i \in 1..Len(bytes) |-> <<a + i - 1, bytes[i]>>]

\* The driver's read-modify-write: keep the bits of a mask, set others.
SetReg(chip, a, keep, set) ==
  WriteReg(chip, a, (ReadReg(chip, a) & keep) | set)

AndReg(chip, a, keep) == SetReg(chip, a, keep, 0)
OrReg(chip, a, set) == SetReg(chip, a, \hFF, set)
=============================================================================
