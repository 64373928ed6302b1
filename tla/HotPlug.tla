------------------------------ MODULE HotPlug -------------------------------
(***************************************************************************)
(* The hot plug loop of the Nios program: main (main.c), HDMITX_DevLoopProc *)
(* (HDMI_TX.c), CheckHDMITX (it6613_drv.c) and ParseEDID (it6613_sys.c),   *)
(* against a display that is plugged, switched on and off and unplugged    *)
(* between any two register accesses of the loop that matter.              *)
(*                                                                         *)
(* The chip latches a change of the plug and of the receiver sense in two  *)
(* status bits.  InitIT6613 leaves the first and the video interrupt       *)
(* enabled and masks the second, which sets its status bit but not         *)
(* INT_ACTIVE.  The other enabled interrupts (bus hang, authentication)    *)
(* make INT_ACTIVE as the video does and have their effect in Hdcp.        *)
(***************************************************************************)
EXTENDS Integers, Sequences

CONSTANTS Displays,    \* the displays there are
          Extensions,  \* their EDID extension blocks, in order
          NoDisplay    \* nothing is plugged in

ColorDepths == {24, 30, 36}
Block == [cea : BOOLEAN,     \* a CEA block
          vendor : {"none", "hdmi", "other"},  \* whose is the last vendor block in it
          audio : BOOLEAN,   \* that says basic audio
          deep : ColorDepths]  \* and, in that vendor block, the most bits

ASSUME HotPlugAssumption ==
  /\ NoDisplay \notin Displays
  /\ Extensions \in [Displays -> Seq(Block)]
  /\ \A d \in Displays : Len(Extensions[d]) <= 4

VARIABLES
  sink, sense,                  \* the display plugged in; it is switched on
  hpdInt, rxInt, vidInt, otherInt,  \* the latched status bits
  vidReset, afe,                \* video in reset; the output driver is on
  bHPD,                         \* Instance[0].bHPD
  PreHPD, TX_HDP,               \* of HDMITX_DevLoopProc
  bChangeMode, bHDMIMode, bAudioEnable, depth,
  cap,                          \* RxCapability
  pc, HPD, HPDChange,           \* where the loop is, and its locals
  blk, count, err, bValidCEA,   \* locals of ParseEDID
  known,                        \* history: the display was there all along
                                \* since the loop began to read its EDID
  failed,                       \* history: a read of that EDID failed
  served,                       \* history: and since its output was enabled
  crossed                       \* history: another interrupt came up while the
                                \* loop did not know of a change of the plug

chipVars == <<hpdInt, rxInt, vidInt, otherInt, vidReset, afe>>
modeVars == <<bChangeMode, bHDMIMode, bAudioEnable, depth>>
edidVars == <<cap, blk, count, err, bValidCEA>>
localVars == <<HPD, HPDChange>>
vars == <<sink, sense, chipVars, bHPD, PreHPD, TX_HDP, modeVars, edidVars, pc,
          localVars, known, failed, served, crossed>>

\* What CheckHDMITX samples: the plug and the receiver.
Present == sink # NoDisplay /\ sense

Capability == [Valid : BOOLEAN, ValidHDMI : BOOLEAN, ValidCEA : BOOLEAN,
               hdmiOUI : BOOLEAN, audio : BOOLEAN, deep : ColorDepths]
NoCap == [Valid |-> FALSE, ValidHDMI |-> FALSE, ValidCEA |-> FALSE,
          hdmiOUI |-> FALSE, audio |-> FALSE, deep |-> 24]

Init ==
  /\ sink \in Displays \cup {NoDisplay}
  /\ sense \in (IF sink = NoDisplay THEN {FALSE} ELSE BOOLEAN)
  /\ hpdInt = FALSE /\ rxInt = FALSE /\ vidInt = FALSE /\ otherInt = FALSE
  /\ vidReset = TRUE /\ afe = FALSE
  /\ bHPD = FALSE /\ PreHPD = FALSE /\ TX_HDP = FALSE
  /\ bChangeMode = FALSE /\ bHDMIMode = FALSE /\ bAudioEnable = FALSE /\ depth = 24
  /\ cap = NoCap
  /\ pc = "status" /\ HPD = FALSE /\ HPDChange = FALSE
  /\ blk = 0 /\ count = 0 /\ err = FALSE /\ bValidCEA = FALSE
  /\ known = FALSE /\ failed = FALSE /\ served = FALSE /\ crossed = FALSE

-----------------------------------------------------------------------------
(* The display                                                             *)

Plug ==
  /\ sink = NoDisplay
  /\ sink' \in Displays
  /\ hpdInt' = TRUE
  /\ known' = FALSE /\ served' = FALSE
  /\ UNCHANGED <<sense, rxInt, vidInt, otherInt, vidReset, afe, bHPD, PreHPD, TX_HDP,
                 modeVars, edidVars, pc, localVars, failed, crossed>>

\* The loop sees no more of a display that is off than of one that is gone.
SwitchOnOrOff ==
  /\ sink # NoDisplay
  /\ sense' = ~sense
  /\ rxInt' = TRUE
  /\ served' = FALSE
  /\ UNCHANGED <<sink, hpdInt, vidInt, otherInt, vidReset, afe, bHPD, PreHPD, TX_HDP,
                 modeVars, edidVars, pc, localVars, known, failed, crossed>>

Unplug ==
  /\ sink # NoDisplay
  /\ sink' = NoDisplay /\ sense' = FALSE
  /\ hpdInt' = TRUE /\ rxInt' = (rxInt \/ sense)
  /\ known' = FALSE /\ served' = FALSE
  /\ UNCHANGED <<vidInt, otherInt, vidReset, afe, bHPD, PreHPD, TX_HDP, modeVars, edidVars,
                 pc, localVars, failed, crossed>>

Crosses == crossed' = (crossed \/ pc # "status" \/ bHPD # Present)

\* The video at the input becomes stable, or stops being it.
VideoChanges ==
  /\ ~vidReset
  /\ vidInt' = TRUE /\ Crosses
  /\ UNCHANGED <<sink, sense, hpdInt, rxInt, otherInt, vidReset, afe, bHPD, PreHPD,
                 TX_HDP, modeVars, edidVars, pc, localVars, known, failed, served>>

\* The DDC bus hangs, or authentication fails.
OtherInterrupt ==
  /\ otherInt' = TRUE /\ Crosses
  /\ UNCHANGED <<sink, sense, hpdInt, rxInt, vidInt, vidReset, afe, bHPD, PreHPD,
                 TX_HDP, modeVars, edidVars, pc, localVars, known, failed, served>>

-----------------------------------------------------------------------------
(* CheckHDMITX                                                             *)

\* The status register tells plug and receiver, and whether an interrupt waits.
\* Without one, a level that differs from the last pass is a change.
ReadStatus ==
  /\ pc = "status"
  /\ HPD' = Present
  /\ IF hpdInt \/ vidInt \/ otherInt
     THEN /\ HPDChange' = FALSE /\ pc' = "stat1"
          /\ UNCHANGED <<afe, bHPD>>
     ELSE /\ HPDChange' = (Present # bHPD) /\ pc' = "loop"
          /\ afe' = (afe /\ (Present \/ ~bHPD))
          /\ bHPD' = Present
  /\ UNCHANGED <<sink, sense, hpdInt, rxInt, vidInt, otherInt, vidReset, PreHPD, TX_HDP,
                 modeVars, edidVars, known, failed, served, crossed>>

\* A latched change counts whatever the level; without a display the chip is reset.
ReadStat1 ==
  /\ pc = "stat1"
  /\ HPDChange' = (hpdInt \/ rxInt)
  /\ IF (hpdInt \/ rxInt) /\ ~HPD
     THEN vidReset' = TRUE /\ afe' = FALSE
     ELSE UNCHANGED <<vidReset, afe>>
  /\ pc' = "stat3"
  /\ UNCHANGED <<sink, sense, hpdInt, rxInt, vidInt, otherInt, bHPD, PreHPD, TX_HDP, modeVars,
                 edidVars, HPD, known, failed, served, crossed>>

\* Stable video fires the output driver.
ReadStat3 ==
  /\ pc = "stat3"
  /\ \/ /\ vidInt /\ ~vidReset
        /\ afe' = TRUE
     \/ UNCHANGED afe
  /\ pc' = "clear"
  /\ UNCHANGED <<sink, sense, hpdInt, rxInt, vidInt, otherInt, vidReset, bHPD, PreHPD, TX_HDP,
                 modeVars, edidVars, localVars, known, failed, served, crossed>>

\* Slip: the level is sampled again for the next pass to compare with.
ClearAndSampleAgain ==
  /\ pc = "clear"
  /\ hpdInt' = FALSE /\ rxInt' = FALSE /\ vidInt' = FALSE /\ otherInt' = FALSE
  /\ bHPD' = Present
  /\ pc' = "loop"
  /\ UNCHANGED <<sink, sense, vidReset, afe, PreHPD, TX_HDP, modeVars, edidVars,
                 localVars, known, failed, served, crossed>>

\* Every latched bit is cleared, also one that came up after it was read.
ClearInterrupts ==
  /\ pc = "clear"
  /\ hpdInt' = FALSE /\ rxInt' = FALSE /\ vidInt' = FALSE /\ otherInt' = FALSE
  /\ bHPD' = HPD
  /\ pc' = "loop"
  /\ UNCHANGED <<sink, sense, vidReset, afe, PreHPD, TX_HDP, modeVars, edidVars,
                 localVars, known, failed, served, crossed>>

-----------------------------------------------------------------------------
(* HDMITX_DevLoopProc                                                      *)

SetOutput ==
  /\ vidReset' = FALSE /\ afe' = TRUE /\ vidInt' = FALSE
  /\ bChangeMode' = FALSE

\* Slip: every latched change is news.
EveryChangeIsNews == HPDChange

\* A change that is back at the level of the last pass is none.
News == HPDChange /\ HPD # PreHPD

NoChange ==
  /\ pc = "loop" /\ HPDChange /\ ~News
  /\ pc' = "status"
  /\ UNCHANGED <<sink, sense, chipVars, bHPD, PreHPD, TX_HDP, modeVars, edidVars,
                 localVars, known, failed, served, crossed>>

SinkComes ==
  /\ pc = "loop" /\ News /\ HPD
  /\ TX_HDP' = HPD /\ PreHPD' = HPD
  /\ pc' = "edid"
  /\ blk' = 0 /\ known' = (sink # NoDisplay) /\ failed' = FALSE
  /\ UNCHANGED <<sink, sense, chipVars, bHPD, modeVars, cap, count, err, bValidCEA,
                 localVars, served, crossed>>

SinkGoes ==
  /\ pc = "loop" /\ News /\ ~HPD
  /\ TX_HDP' = HPD /\ PreHPD' = HPD
  /\ cap' = [cap EXCEPT !.Valid = FALSE, !.ValidHDMI = FALSE, !.ValidCEA = FALSE]
  /\ crossed' = (vidInt \/ otherInt)
  /\ pc' = "main"
  /\ UNCHANGED <<sink, sense, chipVars, bHPD, modeVars, blk, count, err, bValidCEA,
                 localVars, known, failed, served>>

\* Without a change the level is taken over all the same.
Steady ==
  /\ pc = "loop" /\ ~HPDChange
  /\ TX_HDP' = HPD /\ PreHPD' = HPD
  /\ IF bChangeMode /\ HPD
     THEN SetOutput /\ UNCHANGED <<hpdInt, rxInt, otherInt, bHDMIMode, bAudioEnable, depth>>
     ELSE UNCHANGED <<chipVars, modeVars>>
  /\ pc' = "status"
  /\ UNCHANGED <<sink, sense, bHPD, edidVars, localVars, known, failed, served, crossed>>

-----------------------------------------------------------------------------
(* ParseEDID                                                               *)

\* The modes that follow from what was found; a display that could not be read
\* is taken for an HDMI display with sound.
Decide(c, valid) ==
  /\ cap' = [c EXCEPT !.Valid = valid]
  /\ bHDMIMode' = (~valid \/ c.ValidHDMI)
  /\ bAudioEnable' = IF ~valid \/ (c.ValidHDMI /\ c.audio) THEN TRUE
                     ELSE c.ValidHDMI /\ bAudioEnable
  /\ pc' = "main"

ReadBlock0 ==
  /\ pc = "edid" /\ blk = 0
  /\ bValidCEA' = FALSE
  /\ LET c == [cap EXCEPT !.ValidCEA = FALSE]
     IN \/ /\ Decide(c, FALSE)                    \* no answer, or a bad block
           /\ failed' = TRUE
           /\ UNCHANGED <<blk, count>>
        \/ /\ sink # NoDisplay
           /\ count' = Len(Extensions[sink])
           /\ failed' = failed
           /\ IF count' = 0
              THEN Decide(c, TRUE) /\ UNCHANGED blk
              ELSE /\ blk' = 1 /\ cap' = c
                   /\ UNCHANGED <<bHDMIMode, bAudioEnable, pc>>
  /\ UNCHANGED <<sink, sense, chipVars, bHPD, PreHPD, TX_HDP, bChangeMode, depth, err,
                 localVars, known, served, crossed>>

\* What is known of HDMI after a CEA block: the last vendor block decides, also
\* when it is not the one of HDMI.
HDMIAfter(before, b) == IF b.vendor = "none" THEN before ELSE b.vendor = "hdmi"

DepthAfter(before, b) ==
  IF b.vendor = "none" THEN before ELSE IF b.vendor = "hdmi" THEN b.deep ELSE 24

\* What ParseCEAEDID takes from a good CEA block.
Found(c, b) ==
  [c EXCEPT !.ValidCEA = TRUE, !.audio = b.audio,
            !.hdmiOUI = HDMIAfter(@, b), !.ValidHDMI = HDMIAfter(@, b),
            !.deep = DepthAfter(@, b)]

\* After a bad checksum the vendor of the last block that had one is believed.
Spoilt(c) == [c EXCEPT !.ValidCEA = FALSE, !.ValidHDMI = c.hdmiOUI]

\* Slip: the answer of the parser is taken for one of the reader, where TRUE is good.
LastWasGoodAlways(e) == e

\* The last block decides: its read is good when TRUE, its parse when FALSE.
LastWasGood(e) == ~e

MoreBlocks == blk < count

\* A good read says TRUE, as does a parse that failed; the last one is returned,
\* turned round.
NextBlock(c, e) ==
  /\ err' = e
  /\ IF MoreBlocks
     THEN /\ blk' = blk + 1 /\ cap' = c
          /\ UNCHANGED <<bHDMIMode, bAudioEnable, pc>>
     ELSE Decide(c, LastWasGood(e)) /\ UNCHANGED blk

ReadBlock ==
  /\ pc = "edid" /\ blk > 0
  /\ \/ /\ NextBlock(cap, FALSE)                  \* no answer
        /\ failed' = TRUE
        /\ UNCHANGED bValidCEA
     \/ /\ sink # NoDisplay /\ blk <= Len(Extensions[sink])
        /\ LET b == Extensions[sink][blk]
           IN IF bValidCEA \/ ~b.cea
              THEN NextBlock(cap, TRUE) /\ UNCHANGED <<failed, bValidCEA>>
              ELSE \/ /\ NextBlock(Found(cap, b), FALSE)
                      /\ UNCHANGED <<failed, bValidCEA>>
                   \/ /\ NextBlock(Spoilt(cap), TRUE)
                      /\ failed' = TRUE
                      /\ bValidCEA' = cap.hdmiOUI
  /\ UNCHANGED <<sink, sense, chipVars, bHPD, PreHPD, TX_HDP, bChangeMode, depth, count,
                 localVars, known, served, crossed>>

-----------------------------------------------------------------------------
(* main                                                                    *)

DisableOutput == vidReset' = TRUE /\ afe' = FALSE

MainDisables ==
  /\ pc = "main"
  /\ DisableOutput
  /\ pc' = IF TX_HDP THEN "enable" ELSE "status"
  /\ UNCHANGED <<sink, sense, hpdInt, rxInt, vidInt, otherInt, bHPD, PreHPD, TX_HDP, modeVars,
                 edidVars, localVars, known, failed, served, crossed>>

\* SetupTxVIC sets bChangeMode, SetOutput takes it back.
MainEnables ==
  /\ pc = "enable"
  /\ depth' = IF cap.Valid /\ cap.ValidHDMI /\ cap.ValidCEA THEN cap.deep ELSE 24
  /\ SetOutput
  /\ served' = Present
  /\ pc' = "status"
  /\ UNCHANGED <<sink, sense, hpdInt, rxInt, otherInt, bHPD, PreHPD, TX_HDP, bHDMIMode,
                 bAudioEnable, edidVars, localVars, known, failed, crossed>>

Check == ReadStatus \/ ReadStat1 \/ ReadStat3 \/ ClearInterrupts
DevLoop == NoChange \/ SinkComes \/ SinkGoes \/ Steady \/ ReadBlock0 \/ ReadBlock
Loop == Check \/ DevLoop \/ MainDisables \/ MainEnables

Environment == Plug \/ SwitchOnOrOff \/ Unplug \/ VideoChanges \/ OtherInterrupt

Next == Loop \/ Environment

\* The loop never waits for more than a register access.
Spec == Init /\ [][Next]_vars /\ WF_vars(Loop)

-----------------------------------------------------------------------------
(* Properties                                                              *)

TypeOK ==
  /\ sink \in Displays \cup {NoDisplay} /\ sense \in BOOLEAN
  /\ hpdInt \in BOOLEAN /\ rxInt \in BOOLEAN /\ vidInt \in BOOLEAN /\ otherInt \in BOOLEAN
  /\ vidReset \in BOOLEAN /\ afe \in BOOLEAN
  /\ bHPD \in BOOLEAN /\ PreHPD \in BOOLEAN /\ TX_HDP \in BOOLEAN
  /\ bChangeMode \in BOOLEAN /\ bHDMIMode \in BOOLEAN /\ bAudioEnable \in BOOLEAN
  /\ depth \in ColorDepths
  /\ cap \in Capability
  /\ pc \in {"status", "stat1", "stat3", "clear", "loop", "edid", "main", "enable"}
  /\ HPD \in BOOLEAN /\ HPDChange \in BOOLEAN
  /\ blk \in 0..4 /\ count \in 0..4 /\ err \in BOOLEAN /\ bValidCEA \in BOOLEAN
  /\ pc = "edid" /\ blk > 0 => blk <= count
  /\ known \in BOOLEAN /\ failed \in BOOLEAN /\ served \in BOOLEAN /\ crossed \in BOOLEAN
  /\ sense => sink # NoDisplay

Output == afe /\ ~vidReset

\* A display that stays gets its picture, whatever was plugged before, and
\* whether or not its EDID could be read; when no display is there any more the
\* output is off for good.  Both as long as no other interrupt has crossed a
\* change of the plug, which the loop then takes over without a word.
OutputFollowsSink ==
  /\ <>[](Present /\ ~crossed) => <>[]Output
  /\ <>[](~Present /\ ~crossed) => <>[]~Output

\* What the first n extension blocks of a display say: whether the last vendor
\* block in them is the one of HDMI, and how many bits that one takes.
Vendor(d, i) == Extensions[d][i].cea /\ Extensions[d][i].vendor # "none"
LastOfHDMI(d, n, i) ==
  /\ Vendor(d, i) /\ Extensions[d][i].vendor = "hdmi"
  /\ \A j \in i+1..n : ~Vendor(d, j)
SaysHDMI(d, n) == \E i \in 1..n : LastOfHDMI(d, n, i)
SaysDepth(d, n, bits) == \E i \in 1..n : LastOfHDMI(d, n, i) /\ Extensions[d][i].deep = bits

Blocks(d) == Len(Extensions[d])
IsHDMI(d) == SaysHDMI(d, Blocks(d))
TakesDepth(d, bits) == SaysDepth(d, Blocks(d), bits)
CEALast(d) == Blocks(d) > 0 => Extensions[d][Blocks(d)].cea

\* A display whose EDID was read without an error, and that has not been
\* replaced since, gets the kind of signal that its last vendor block asks for:
\* nothing of the display before it, or of an earlier block, is left in the modes.
\* (An HDMI display that adds the block of another vendor behind the one of HDMI
\* is so driven as DVI, and a DVI display whose last extension block is not a CEA
\* block is taken for one that could not be read.)
ModeIsSinks ==
  known /\ served /\ ~failed /\ ~crossed /\ CEALast(sink) =>
    /\ bHDMIMode = IsHDMI(sink)
    /\ \A bits \in {30, 36} : depth = bits <=> TakesDepth(sink, bits)
    /\ bAudioEnable => bHDMIMode

\* The picture of a display that stays plugged and switched on is not taken away.
PictureStays == [][served /\ served' /\ Output => Output']_vars
=============================================================================
