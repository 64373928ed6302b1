---------------------------- MODULE It6613Tables ----------------------------
(***************************************************************************)
(* The timing tables of the IT6613 driver and the two functions that look  *)
(* a mode up and program it: the DE generator (ProgramDEGenModeByID) and   *)
(* the embedded sync decoder (ProgramSyncEmbeddedVideoMode).               *)
(***************************************************************************)
EXTENDS It6613Regs

\* DeGen_Table: the mode as its MODE_ID spells it (standard, width, lines, "p"
\* progressive, "i" interlaced or "R" reduced blanking, rate), then registers
\* 90, 92, 93, 94 and 9A to 9F.
DeGenCEA == <<
  <<<<"CEA", 640, 480, "p", 60>>, \h01, \h8E, \h0E, \h30, \h22, \h02, \h20, \hFF, \hFF, \hFF>>,
  <<<<"CEA", 720, 480, "p", 60>>, \h01, \h78, \h48, \h30, \h23, \h03, \h20, \hFF, \hFF, \hFF>>,
  <<<<"CEA", 1280, 720, "p", 60>>, \h07, \h02, \h02, \h61, \h18, \hE8, \h20, \hFF, \hFF, \hFF>>,
  <<<<"CEA", 1920, 1080, "i", 60>>, \h07, \hBE, \h3E, \h80, \h13, \h2F, \h20, \h46, \h62, \h42>>,
  <<<<"CEA", 720, 480, "i", 60>>, \h01, \h75, \h45, \h30, \h11, \h01, \h10, \h17, \h07, \h21>>,
  <<<<"CEA", 720, 240, "p", 60>>, \h01, \h75, \h45, \h30, \h11, \h01, \h10, \hFF, \hFF, \hFF>>,
  <<<<"CEA", 1440, 480, "i", 60>>, \h01, \hEC, \h8C, \h60, \h11, \h01, \h10, \h17, \h07, \h21>>,
  <<<<"CEA", 1440, 240, "p", 60>>, \h01, \hEC, \h8C, \h60, \h11, \h01, \h10, \hFF, \hFF, \hFF>>,
  <<<<"CEA", 2880, 480, "i", 60>>, \h01, \h16, \h56, \hD2, \h11, \h01, \h10, \h17, \h07, \h21>>,
  <<<<"CEA", 2880, 240, "p", 60>>, \h01, \h16, \h56, \hD2, \h11, \h01, \h10, \hFF, \hFF, \hFF>>,
  <<<<"CEA", 1440, 480, "p", 60>>, \h01, \hF2, \h92, \h60, \h23, \h03, \h20, \hFF, \hFF, \hFF>>,
  <<<<"CEA", 1920, 1080, "p", 60>>, \h07, \hBE, \h3E, \h80, \h28, \h60, \h40, \hFF, \hFF, \hFF>>,
  <<<<"CEA", 720, 576, "p", 50>>, \h01, \h82, \h52, \h30, \h2B, \h6B, \h20, \hFF, \hFF, \hFF>>,
  <<<<"CEA", 1280, 720, "p", 50>>, \h07, \h02, \h02, \h61, \h18, \hE8, \h20, \hFF, \hFF, \hFF>>,
  <<<<"CEA", 1920, 1080, "i", 50>>, \h07, \hBE, \h3E, \h80, \h13, \h2F, \h20, \h46, \h62, \h42>>,
  <<<<"CEA", 720, 576, "i", 50>>, \h01, \h82, \h52, \h30, \h15, \h35, \h10, \h4D, \h6D, \h21>>,
  <<<<"CEA", 1440, 576, "i", 50>>, \h01, \h06, \hA6, \h61, \h15, \h35, \h10, \h4D, \h6D, \h21>>,
  <<<<"CEA", 720, 288, "p", 50>>, \h01, \h82, \h52, \h30, \h15, \h35, \h10, \hFF, \hFF, \hFF>>,
  <<<<"CEA", 1440, 288, "p", 50>>, \h01, \h06, \hA6, \h61, \h15, \h35, \h10, \hFF, \hFF, \hFF>>,
  <<<<"CEA", 2880, 576, "i", 50>>, \h01, \h0E, \h4E, \hD2, \h15, \h35, \h10, \h4D, \h6D, \h21>>,
  <<<<"CEA", 2880, 288, "p", 50>>, \h01, \h0E, \h4E, \hD2, \h15, \h35, \h10, \hFF, \hFF, \hFF>>,
  <<<<"CEA", 1440, 576, "p", 50>>, \h05, \h06, \hA6, \h61, \h2B, \h6B, \h20, \hFF, \hFF, \hFF>>,
  <<<<"CEA", 1920, 1080, "p", 50>>, \h07, \hBE, \h3E, \h80, \h28, \h60, \h40, \hFF, \hFF, \hFF>>,
  <<<<"CEA", 1920, 1080, "p", 24>>, \h07, \hBE, \h3E, \h80, \h28, \h60, \h40, \hFF, \hFF, \hFF>>,
  <<<<"CEA", 1920, 1080, "p", 25>>, \h07, \hBE, \h3E, \h80, \h28, \h60, \h40, \hFF, \hFF, \hFF>>,
  <<<<"CEA", 1920, 1080, "p", 30>>, \h07, \hBE, \h3E, \h80, \h28, \h60, \h40, \hFF, \hFF, \hFF>>>>

DeGenVESA == <<
  <<<<"VESA", 640, 350, "p", 85>>, \h03, \h9E, \h1E, \h30, \h3E, \h9C, \h10, \hFF, \hFF, \hFF>>,
  <<<<"VESA", 640, 400, "p", 85>>, \h05, \h9E, \h1E, \h30, \h2B, \hBB, \h10, \hFF, \hFF, \hFF>>,
  <<<<"VESA", 720, 400, "p", 85>>, \h05, \hB2, \h82, \h30, \h2C, \hBC, \h10, \hFF, \hFF, \hFF>>,
  <<<<"VESA", 640, 480, "p", 60>>, \h01, \h8E, \h0E, \h30, \h22, \h02, \h20, \hFF, \hFF, \hFF>>,
  <<<<"VESA", 640, 480, "p", 72>>, \h01, \hA6, \h26, \h30, \h1E, \hFE, \h10, \hFF, \hFF, \hFF>>,
  <<<<"VESA", 640, 480, "p", 75>>, \h01, \hB6, \h36, \h30, \h12, \hF2, \h10, \hFF, \hFF, \hFF>>,
  <<<<"VESA", 640, 480, "p", 85>>, \h01, \h86, \h06, \h30, \h1B, \hFB, \h10, \hFF, \hFF, \hFF>>,
  <<<<"VESA", 800, 600, "p", 56>>, \h07, \hC6, \hE6, \h30, \h17, \h6F, \h20, \hFF, \hFF, \hFF>>,
  <<<<"VESA", 800, 600, "p", 60>>, \h07, \hD6, \hF6, \h30, \h1A, \h72, \h20, \hFF, \hFF, \hFF>>,
  <<<<"VESA", 800, 600, "p", 72>>, \h07, \hB6, \hD6, \h30, \h1C, \h74, \h20, \hFF, \hFF, \hFF>>,
  <<<<"VESA", 800, 600, "p", 75>>, \h07, \hEE, \h0E, \h40, \h17, \h6F, \h20, \hFF, \hFF, \hFF>>,
  <<<<"VESA", 800, 600, "p", 85>>, \h07, \hD6, \hF6, \h30, \h1D, \h75, \h20, \hFF, \hFF, \hFF>>,
  <<<<"VESA", 840, 480, "p", 60>>, \h07, \hDE, \h2E, \h40, \h1E, \hFE, \h10, \hFF, \hFF, \hFF>>,
  <<<<"VESA", 1024, 768, "p", 60>>, \h01, \h26, \h26, \h51, \h22, \h22, \h30, \hFF, \hFF, \hFF>>,
  <<<<"VESA", 1024, 768, "p", 70>>, \h01, \h16, \h16, \h51, \h22, \h22, \h30, \hFF, \hFF, \hFF>>,
  <<<<"VESA", 1024, 768, "p", 75>>, \h07, \h0E, \h0E, \h51, \h1E, \h1E, \h30, \hFF, \hFF, \hFF>>,
  <<<<"VESA", 1024, 768, "p", 85>>, \h07, \h2E, \h2E, \h51, \h26, \h26, \h30, \hFF, \hFF, \hFF>>,
  <<<<"VESA", 1152, 864, "p", 75>>, \h07, \h7E, \hFE, \h51, \h22, \h82, \h30, \hFF, \hFF, \hFF>>,
  <<<<"VESA", 1280, 768, "R", 60>>, \h03, \h6E, \h6E, \h50, \h12, \h12, \h30, \hFF, \hFF, \hFF>>,
  <<<<"VESA", 1280, 768, "p", 60>>, \h05, \h3E, \h3E, \h61, \h1A, \h1A, \h30, \hFF, \hFF, \hFF>>,
  <<<<"VESA", 1280, 768, "p", 75>>, \h05, \h4E, \h4E, \h61, \h21, \h21, \h30, \hFF, \hFF, \hFF>>,
  <<<<"VESA", 1280, 768, "p", 85>>, \h05, \h5E, \h5E, \h61, \h25, \h25, \h30, \hFF, \hFF, \hFF>>,
  <<<<"VESA", 1280, 960, "p", 60>>, \h07, \hA6, \hA6, \h61, \h26, \hE6, \h30, \hFF, \hFF, \hFF>>,
  <<<<"VESA", 1280, 960, "p", 85>>, \h07, \h7E, \h7E, \h61, \h31, \hF1, \h30, \hFF, \hFF, \hFF>>,
  <<<<"VESA", 1280, 1024, "p", 60>>, \h07, \h66, \h66, \h61, \h28, \h28, \h40, \hFF, \hFF, \hFF>>,
  <<<<"VESA", 1280, 1024, "p", 75>>, \h07, \h86, \h86, \h61, \h28, \h28, \h40, \hFF, \hFF, \hFF>>,
  <<<<"VESA", 1280, 1024, "p", 85>>, \h07, \h7E, \h7E, \h61, \h2E, \h2E, \h40, \hFF, \hFF, \hFF>>,
  <<<<"VESA", 1360, 768, "p", 60>>, \h07, \h6E, \hBE, \h61, \h17, \h17, \h30, \hFF, \hFF, \hFF>>,
  <<<<"VESA", 1400, 768, "R", 60>>, \h03, \h6E, \hE6, \h50, \h1A, \h34, \h40, \hFF, \hFF, \hFF>>,
  <<<<"VESA", 1400, 768, "p", 60>>, \h05, \h76, \hEE, \h61, \h23, \h3D, \h40, \hFF, \hFF, \hFF>>,
  <<<<"VESA", 1400, 1050, "p", 75>>, \h05, \h86, \hFE, \h61, \h2D, \h47, \h40, \hFF, \hFF, \hFF>>,
  <<<<"VESA", 1400, 1050, "p", 85>>, \h05, \h96, \h0E, \h71, \h33, \h4D, \h40, \hFF, \hFF, \hFF>>,
  <<<<"VESA", 1440, 900, "R", 60>>, \h03, \h6E, \h0E, \h60, \h16, \h9A, \h30, \hFF, \hFF, \hFF>>,
  <<<<"VESA", 1440, 900, "p", 60>>, \h05, \h7E, \h1E, \h71, \h1E, \hA2, \h30, \hFF, \hFF, \hFF>>,
  <<<<"VESA", 1440, 900, "p", 75>>, \h05, \h8E, \h2E, \h71, \h26, \hAA, \h30, \hFF, \hFF, \hFF>>,
  <<<<"VESA", 1440, 900, "p", 85>>, \h05, \h96, \h36, \h71, \h2C, \hB0, \h30, \hFF, \hFF, \hFF>>,
  <<<<"VESA", 1600, 1200, "p", 60>>, \h07, \hEE, \h2E, \h81, \h30, \hE0, \h40, \hFF, \hFF, \hFF>>,
  <<<<"VESA", 1600, 1200, "p", 65>>, \h07, \hEE, \h2E, \h81, \h30, \hE0, \h40, \hFF, \hFF, \hFF>>,
  <<<<"VESA", 1600, 1200, "p", 70>>, \h07, \hEE, \h2E, \h81, \h30, \hE0, \h40, \hFF, \hFF, \hFF>>,
  <<<<"VESA", 1600, 1200, "p", 75>>, \h07, \hEE, \h2E, \h81, \h30, \hE0, \h40, \hFF, \hFF, \hFF>>,
  <<<<"VESA", 1600, 1200, "p", 85>>, \h07, \hEE, \h2E, \h81, \h30, \hE0, \h40, \hFF, \hFF, \hFF>>,
  <<<<"VESA", 1680, 1050, "R", 60>>, \h03, \h6E, \hFE, \h60, \h1A, \h34, \h40, \hFF, \hFF, \hFF>>,
  <<<<"VESA", 1680, 1050, "p", 60>>, \h05, \hC6, \h56, \h81, \h23, \h3D, \h40, \hFF, \hFF, \hFF>>,
  <<<<"VESA", 1680, 1050, "p", 75>>, \h05, \hD6, \h66, \h81, \h2D, \h47, \h40, \hFF, \hFF, \hFF>>,
  <<<<"VESA", 1680, 1050, "p", 85>>, \h05, \hDE, \h6E, \h81, \h33, \h4D, \h40, \hFF, \hFF, \hFF>>,
  <<<<"VESA", 1792, 1344, "p", 60>>, \h05, \h0E, \h0E, \h92, \h30, \h70, \h50, \hFF, \hFF, \hFF>>,
  <<<<"VESA", 1792, 1344, "p", 75>>, \h05, \h36, \h36, \h92, \h47, \h87, \h50, \hFF, \hFF, \hFF>>,
  <<<<"VESA", 1856, 1392, "p", 60>>, \h05, \h3E, \h7E, \h92, \h2D, \h9D, \h50, \hFF, \hFF, \hFF>>,
  <<<<"VESA", 1856, 1392, "p", 75>>, \h05, \h3E, \h7E, \h92, \h6A, \hDA, \h50, \hFF, \hFF, \hFF>>,
  <<<<"VESA", 1920, 1200, "R", 60>>, \h03, \h6E, \hEE, \h70, \h1F, \hCF, \h40, \hFF, \hFF, \hFF>>,
  <<<<"VESA", 1920, 1200, "p", 60>>, \h05, \h16, \h96, \h92, \h29, \hD9, \h40, \hFF, \hFF, \hFF>>,
  <<<<"VESA", 1920, 1200, "p", 75>>, \h05, \h26, \hA6, \h92, \h33, \hE3, \h40, \hFF, \hFF, \hFF>>,
  <<<<"VESA", 1920, 1200, "p", 85>>, \h05, \h2E, \hAE, \h92, \h3A, \hEA, \h40, \hFF, \hFF, \hFF>>,
  <<<<"VESA", 1920, 1440, "p", 60>>, \h05, \h26, \hA6, \h92, \h3A, \hDA, \h50, \hFF, \hFF, \hFF>>,
  <<<<"VESA", 1920, 1440, "p", 75>>, \h05, \h3E, \hBE, \h92, \h3A, \hDA, \h50, \hFF, \hFF, \hFF>>>>

DeGen_Table == DeGenCEA \o DeGenVESA

\* SyncEmbTable: VIC, registers 90, 91, 95 to 97 and A0 to A3, the pixel
\* clock in kHz, the field rate.
SyncEmbTable == <<
  <<1, \hF0, \h31, \h0E, \h6E, \h00, \h0A, \hC0, \hFF, \hFF, 25175, 60>>,
  <<2, \hF0, \h31, \h0E, \h4C, \h00, \h09, \hF0, \hFF, \hFF, 27000, 60>>,
  <<3, \hF0, \h31, \h0E, \h4C, \h00, \h09, \hF0, \hFF, \hFF, 27000, 60>>,
  <<4, \h76, \h33, \h6C, \h94, \h00, \h05, \hA0, \hFF, \hFF, 74175, 60>>,
  <<5, \h26, \h4A, \h56, \h82, \h00, \h02, \h70, \h34, \h92, 74175, 60>>,
  <<6, \hE0, \h1B, \h11, \h4F, \h00, \h04, \h70, \h0A, \hD1, 27000, 60>>,
  <<7, \hE0, \h1B, \h11, \h4F, \h00, \h04, \h70, \h0A, \hD1, 27000, 60>>,
  <<8, \h00, \hFF, \h11, \h4F, \h00, \h04, \h70, \hFF, \hFF, 27000, 60>>,
  <<9, \h00, \hFF, \h11, \h4F, \h00, \h04, \h70, \hFF, \hFF, 27000, 60>>,
  <<10, \hE0, \h1B, \h11, \h4F, \h00, \h04, \h70, \h0A, \hD1, 54000, 60>>,
  <<11, \hE0, \h1B, \h11, \h4F, \h00, \h04, \h70, \h0A, \hD1, 54000, 60>>,
  <<12, \h00, \hFF, \h11, \h4F, \h00, \h04, \h70, \hFF, \hFF, 54000, 60>>,
  <<13, \h00, \hFF, \h11, \h4F, \h00, \h04, \h70, \hFF, \hFF, 54000, 60>>,
  <<14, \h00, \hFF, \h1E, \h9A, \h00, \h09, \hF0, \hFF, \hFF, 54000, 60>>,
  <<15, \h00, \hFF, \h1E, \h9A, \h00, \h09, \hF0, \hFF, \hFF, 54000, 60>>,
  <<16, \h06, \hFF, \h56, \h82, \h00, \h04, \h90, \hFF, \hFF, 148350, 60>>,
  <<17, \h00, \hFF, \h0A, \h4A, \h00, \h05, \hA0, \hFF, \hFF, 27000, 50>>,
  <<18, \h00, \hFF, \h0A, \h4A, \h00, \h05, \hA0, \hFF, \hFF, 27000, 50>>,
  <<19, \h06, \hFF, \hB6, \hDE, \h11, \h05, \hA0, \hFF, \hFF, 74250, 50>>,
  <<20, \h66, \h73, \h0E, \h3A, \h22, \h02, \h70, \h34, \h92, 74250, 50>>,
  <<21, \hA0, \h1B, \h0A, \h49, \h00, \h02, \h50, \h3A, \hD1, 27000, 50>>,
  <<22, \hA0, \h1B, \h0A, \h49, \h00, \h02, \h50, \h3A, \hD1, 27000, 50>>,
  <<23, \h00, \hFF, \h0A, \h49, \h00, \h02, \h50, \hFF, \hFF, 27000, 50>>,
  <<24, \h00, \hFF, \h0A, \h49, \h00, \h02, \h50, \hFF, \hFF, 27000, 50>>,
  <<25, \hA0, \h1B, \h0A, \h49, \h00, \h02, \h50, \h3A, \hD1, 54000, 50>>,
  <<26, \hA0, \h1B, \h0A, \h49, \h00, \h02, \h50, \h3A, \hD1, 54000, 50>>,
  <<27, \h00, \hFF, \h0A, \h49, \h00, \h02, \h50, \hFF, \hFF, 54000, 50>>,
  <<28, \h00, \hFF, \h0A, \h49, \h00, \h02, \h50, \hFF, \hFF, 54000, 50>>,
  <<29, \h04, \hFF, \h16, \h96, \h00, \h05, \hA0, \hFF, \hFF, 54000, 50>>,
  <<30, \h04, \hFF, \h16, \h96, \h00, \h05, \hA0, \hFF, \hFF, 54000, 50>>,
  <<31, \h06, \hFF, \h0E, \h3A, \h22, \h04, \h90, \hFF, \hFF, 148500, 50>>>>

\* The columns the registers get are arrays of bytes in the driver.
ASSUME TablesAreBytes ==
  /\ DOMAIN DeGen_Table \subseteq Nat
  /\ \A i \in DOMAIN DeGen_Table, k \in 2..11 : DeGen_Table[i][k] \in Bytes
  /\ DOMAIN SyncEmbTable \subseteq Nat
  /\ \A i \in DOMAIN SyncEmbTable, k \in 2..10 : SyncEmbTable[i][k] \in Bytes

-----------------------------------------------------------------------------
\* Bits of the input signal type.
T_MODE_CCIR656 == 1
T_MODE_SYNCEMB == 2
T_MODE_INDDR == 4
T_MODE_PCLKDIV2 == 8
T_MODE_DEGEN == 16
T_MODE_SYNCGEN == 32

\* The row a linear search stops at: the first of its key; 0 at the end mark.
FirstRow(table, key) ==
  LET hits == {i \in DOMAIN table : table[i][1] = key}
  IN IF hits = {} THEN 0 ELSE CHOOSE i \in hits : \A j \in hits : i <= j

\* Slip: an input that brings its own sync is not left out.
ProgramDEAnySignal(chip, id, sig) ==
  LET i == FirstRow(DeGen_Table, id)
      r == DeGen_Table[i]
  IN IF sig & T_MODE_SYNCEMB = 0 \/ i = 0 THEN chip
     ELSE Writes(Bank(chip, 0),
                 <<<<\h90, r[2]>>, <<\h92, r[3]>>, <<\h93, r[4]>>, <<\h94, r[5]>>,
                   <<\h9A, r[6]>>, <<\h9B, r[7]>>, <<\h9C, r[8]>>, <<\h9D, r[9]>>,
                   <<\h9E, r[10]>>, <<\h9F, r[11]>> >>)

\* Only an input without its own sync signals of either kind has DE generated.
ProgramDEGenModeByID(chip, id, sig) ==
  LET i == FirstRow(DeGen_Table, id)
      r == DeGen_Table[i]
  IN IF sig & (T_MODE_DEGEN | T_MODE_SYNCGEN | T_MODE_SYNCEMB) # T_MODE_DEGEN
        \/ i = 0
     THEN chip
     ELSE Writes(Bank(chip, 0),
                 <<<<\h90, r[2]>>, <<\h92, r[3]>>, <<\h93, r[4]>>, <<\h94, r[5]>>,
                   <<\h9A, r[6]>>, <<\h9B, r[7]>>, <<\h9C, r[8]>>, <<\h9D, r[9]>>,
                   <<\h9E, r[10]>>, <<\h9F, r[11]>> >>)

\* The registers are written in whatever bank is selected.
ProgramSyncEmbeddedVideoMode(chip, vic, sig) ==
  LET i == FirstRow(SyncEmbTable, vic)
      r == SyncEmbTable[i]
  IN IF sig & T_MODE_SYNCEMB = 0 \/ i = 0 THEN chip
     ELSE Writes(chip, <<<<\h90, r[2]>>, <<\h91, r[3]>>, <<\h95, r[4]>>,
                         <<\h96, r[5]>>, <<\h97, r[6]>>, <<\hA0, r[7]>>,
                         <<\hA1, r[8]>>, <<\hA2, r[9]>>, <<\hA3, r[10]>> >>)
=============================================================================
