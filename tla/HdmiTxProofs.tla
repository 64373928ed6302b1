----------------------------- MODULE HdmiTxProofs -----------------------------
(***************************************************************************)
(* Theorems about the software of the HDMI transmitter.                    *)
(*                                                                         *)
(* HotPlug: the hot plug loop, for every set of displays with up to four   *)
(* extension blocks, whatever is plugged, switched and unplugged between   *)
(* two register accesses of the loop.                                      *)
(*                                                                         *)
(* HdmiTxSettings: the calls about picture, sound and input signal, for    *)
(* every set of timings, depths, rates and formats asked for and any       *)
(* number of calls in any order.  Its registers are bytes of which bits    *)
(* are masked and set, so the argument starts with bits; a call is then    *)
(* told by the few registers the properties are about that it changes.     *)
(***************************************************************************)
EXTENDS HotPlug, HdmiTxSettings, TLAPS, WellFoundedInduction, SequenceTheorems

(***************************************************************************)
(* The hot plug loop: the inductive invariant.                             *)
(***************************************************************************)

(* A display that has its output was there when the loop last looked, and  *)
(* the loop knows it: nothing it still holds from an earlier look makes it *)
(* take the display for a new one, or for one that went.                   *)
ServedInv ==
  /\ TX_HDP = PreHPD
  /\ pc = "enable" => PreHPD
  /\ served => /\ Present /\ PreHPD
               /\ pc # "status" => HPD
               /\ pc \notin {"edid", "main", "enable"}

(* TypeOK in parts: the display, the place in the loop with the blocks of  *)
(* the EDID, what was read from it, and the flags.                         *)
Plugged == sink \in Displays \cup {NoDisplay} /\ sense \in BOOLEAN /\ (sense => sink # NoDisplay)
Places ==
  /\ pc \in {"status", "stat1", "stat3", "clear", "loop", "edid", "main", "enable"}
  /\ blk \in 0 .. 4 /\ count \in 0 .. 4
  /\ pc = "edid" /\ blk > 0 => blk <= count
Capabilities == cap \in Capability /\ depth \in ColorDepths
ChipBits ==
  /\ hpdInt \in BOOLEAN /\ rxInt \in BOOLEAN /\ vidInt \in BOOLEAN /\ otherInt \in BOOLEAN
  /\ vidReset \in BOOLEAN /\ afe \in BOOLEAN
LoopBits ==
  /\ bHPD \in BOOLEAN /\ PreHPD \in BOOLEAN /\ TX_HDP \in BOOLEAN
  /\ bChangeMode \in BOOLEAN /\ bHDMIMode \in BOOLEAN /\ bAudioEnable \in BOOLEAN
  /\ HPD \in BOOLEAN /\ HPDChange \in BOOLEAN
  /\ err \in BOOLEAN /\ bValidCEA \in BOOLEAN
HistoryBits ==
  known \in BOOLEAN /\ failed \in BOOLEAN /\ served \in BOOLEAN /\ crossed \in BOOLEAN

IInv == /\ Plugged /\ Places /\ Capabilities /\ ChipBits /\ LoopBits /\ HistoryBits
        /\ ServedInv

LEMMA InvImpliesType == IInv => TypeOK
  BY DEF IInv, Plugged, Places, Capabilities, ChipBits, LoopBits, HistoryBits, TypeOK

(***************************************************************************)
(* Every step keeps it.                                                    *)
(***************************************************************************)

(* The invariant holds of the loop as it starts.                           *)
LEMMA InvInit == Init => IInv
<1> SUFFICES ASSUME Init PROVE IInv
  OBVIOUS
<1> USE HotPlugAssumption DEF Init
<1>1. Plugged
  BY DEF Plugged
<1>4. Places
  BY DEF Places
<1>2. Capabilities
  BY DEF Capabilities, Capability, NoCap, ColorDepths
<1>3. ChipBits /\ LoopBits /\ HistoryBits /\ ServedInv
  BY DEF ChipBits, LoopBits, HistoryBits, ServedInv
<1> QED
  BY <1>1, <1>2, <1>3, <1>4 DEF IInv

(* The display, and the other interrupts.                                  *)
LEMMA EnvironmentStep == IInv /\ Environment => IInv'
<1> SUFFICES ASSUME IInv, Environment PROVE IInv'
  OBVIOUS
<1> USE HotPlugAssumption
<1> USE DEF Plugged, Places, Capabilities, ChipBits, LoopBits, HistoryBits, ServedInv,
            Present, chipVars, modeVars, edidVars, localVars
<1>0. /\ Plugged /\ Places /\ Capabilities /\ ChipBits /\ LoopBits /\ HistoryBits
      /\ ServedInv
  BY DEF IInv
<1>1. CASE Plug
  <2> USE <1>0, <1>1 DEF Plug
  <2>1. Plugged' /\ Places'
    OBVIOUS
  <2>2. Capabilities'
    OBVIOUS
  <2>3. ChipBits'
    OBVIOUS
  <2>4. LoopBits' /\ HistoryBits'
    OBVIOUS
  <2>5. ServedInv'
    OBVIOUS
  <2> QED
    BY <2>1, <2>2, <2>3, <2>4, <2>5 DEF IInv
<1>2. CASE SwitchOnOrOff
  <2> USE <1>0, <1>2 DEF SwitchOnOrOff
  <2>1. Plugged' /\ Places'
    OBVIOUS
  <2>2. Capabilities'
    OBVIOUS
  <2>3. ChipBits'
    OBVIOUS
  <2>4. LoopBits' /\ HistoryBits'
    OBVIOUS
  <2>5. ServedInv'
    OBVIOUS
  <2> QED
    BY <2>1, <2>2, <2>3, <2>4, <2>5 DEF IInv
<1>3. CASE Unplug
  <2> USE <1>0, <1>3 DEF Unplug
  <2>1. Plugged' /\ Places'
    OBVIOUS
  <2>2. Capabilities'
    OBVIOUS
  <2>3. ChipBits'
    OBVIOUS
  <2>4. LoopBits' /\ HistoryBits'
    OBVIOUS
  <2>5. ServedInv'
    OBVIOUS
  <2> QED
    BY <2>1, <2>2, <2>3, <2>4, <2>5 DEF IInv
<1>4. CASE VideoChanges
  <2> USE <1>0, <1>4 DEF VideoChanges, Crosses
  <2>1. Plugged' /\ Places'
    OBVIOUS
  <2>2. Capabilities'
    OBVIOUS
  <2>3. ChipBits'
    OBVIOUS
  <2>4. LoopBits' /\ HistoryBits'
    OBVIOUS
  <2>5. ServedInv'
    OBVIOUS
  <2> QED
    BY <2>1, <2>2, <2>3, <2>4, <2>5 DEF IInv
<1>5. CASE OtherInterrupt
  <2> USE <1>0, <1>5 DEF OtherInterrupt, Crosses
  <2>1. Plugged' /\ Places'
    OBVIOUS
  <2>2. Capabilities'
    OBVIOUS
  <2>3. ChipBits'
    OBVIOUS
  <2>4. LoopBits' /\ HistoryBits'
    OBVIOUS
  <2>5. ServedInv'
    OBVIOUS
  <2> QED
    BY <2>1, <2>2, <2>3, <2>4, <2>5 DEF IInv
<1> QED
  BY <1>1, <1>2, <1>3, <1>4, <1>5 DEF Environment

(* CheckHDMITX.                                                            *)
LEMMA CheckStep == IInv /\ Check => IInv'
<1> SUFFICES ASSUME IInv, Check PROVE IInv'
  OBVIOUS
<1> USE HotPlugAssumption
<1> USE DEF Plugged, Places, Capabilities, ChipBits, LoopBits, HistoryBits, ServedInv,
            Present, chipVars, modeVars, edidVars, localVars
<1>0. /\ Plugged /\ Places /\ Capabilities /\ ChipBits /\ LoopBits /\ HistoryBits
      /\ ServedInv
  BY DEF IInv
<1>1. CASE ReadStatus
  <2> USE <1>0, <1>1 DEF ReadStatus
  <2>1. Plugged' /\ Places'
    OBVIOUS
  <2>2. Capabilities'
    OBVIOUS
  <2>3. ChipBits'
    OBVIOUS
  <2>4. LoopBits' /\ HistoryBits'
    OBVIOUS
  <2>5. ServedInv'
    OBVIOUS
  <2> QED
    BY <2>1, <2>2, <2>3, <2>4, <2>5 DEF IInv
<1>2. CASE ReadStat1
  <2> USE <1>0, <1>2 DEF ReadStat1
  <2>1. Plugged' /\ Places'
    OBVIOUS
  <2>2. Capabilities'
    OBVIOUS
  <2>3. ChipBits'
    OBVIOUS
  <2>4. LoopBits' /\ HistoryBits'
    OBVIOUS
  <2>5. ServedInv'
    OBVIOUS
  <2> QED
    BY <2>1, <2>2, <2>3, <2>4, <2>5 DEF IInv
<1>3. CASE ReadStat3
  <2> USE <1>0, <1>3 DEF ReadStat3
  <2>1. Plugged' /\ Places'
    OBVIOUS
  <2>2. Capabilities'
    OBVIOUS
  <2>3. ChipBits'
    OBVIOUS
  <2>4. LoopBits' /\ HistoryBits'
    OBVIOUS
  <2>5. ServedInv'
    OBVIOUS
  <2> QED
    BY <2>1, <2>2, <2>3, <2>4, <2>5 DEF IInv
<1>4. CASE ClearInterrupts
  <2> USE <1>0, <1>4 DEF ClearInterrupts
  <2>1. Plugged' /\ Places'
    OBVIOUS
  <2>2. Capabilities'
    OBVIOUS
  <2>3. ChipBits'
    OBVIOUS
  <2>4. LoopBits' /\ HistoryBits'
    OBVIOUS
  <2>5. ServedInv'
    OBVIOUS
  <2> QED
    BY <2>1, <2>2, <2>3, <2>4, <2>5 DEF IInv
<1> QED
  BY <1>1, <1>2, <1>3, <1>4 DEF Check

(* What a block of an EDID tells fits the record of the capabilities.      *)
LEMMA FoundType ==
  ASSUME NEW c \in Capability, NEW b \in Block
  PROVE  Found(c, b) \in Capability /\ Spoilt(c) \in Capability
<1>1. /\ b.audio \in BOOLEAN /\ b.deep \in ColorDepths
      /\ c.hdmiOUI \in BOOLEAN /\ c.ValidHDMI \in BOOLEAN /\ c.deep \in ColorDepths
  BY DEF Block, Capability
<1>2. HDMIAfter(c.hdmiOUI, b) \in BOOLEAN /\ HDMIAfter(c.ValidHDMI, b) \in BOOLEAN
  BY <1>1 DEF HDMIAfter
<1>3. DepthAfter(c.deep, b) \in ColorDepths
  BY <1>1 DEF DepthAfter, ColorDepths
<1> QED
  BY <1>1, <1>2, <1>3 DEF Found, Spoilt, Capability

(* The modes are decided, at the end of the parse.                         *)
LEMMA DecideType ==
  ASSUME LoopBits, NEW c \in Capability, NEW valid \in BOOLEAN, Decide(c, valid)
  PROVE  /\ cap' \in Capability /\ bHDMIMode' \in BOOLEAN /\ bAudioEnable' \in BOOLEAN
         /\ pc' = "main"
  BY DEF LoopBits, Decide, Capability

(* After a block comes the next one the display announced, or the end.     *)
LEMMA NextBlockType ==
  ASSUME Places, LoopBits, pc = "edid", UNCHANGED count,
         NEW c \in Capability, NEW e \in BOOLEAN, NextBlock(c, e)
  PROVE  /\ cap' \in Capability /\ err' \in BOOLEAN
         /\ bHDMIMode' \in BOOLEAN /\ bAudioEnable' \in BOOLEAN
         /\ pc' \in {"edid", "main"} /\ blk' \in 0 .. 4
         /\ pc' = "edid" => blk' <= count'
<1>1. CASE MoreBlocks
  BY <1>1 DEF NextBlock, MoreBlocks, Places, LoopBits
<1>2. CASE ~MoreBlocks
  <2>1. Decide(c, LastWasGood(e)) /\ UNCHANGED blk /\ err' = e
    BY <1>2 DEF NextBlock
  <2>2. LastWasGood(e) \in BOOLEAN
    BY DEF LastWasGood
  <2> QED
    BY <2>1, <2>2, DecideType DEF Places
<1> QED
  BY <1>1, <1>2

(* A display that is there announces up to four blocks.                    *)
LEMMA SinkBlocks ==
  ASSUME Plugged, sink # NoDisplay
  PROVE  Extensions[sink] \in Seq(Block) /\ Len(Extensions[sink]) \in 0 .. 4
<1>1. sink \in Displays
  BY DEF Plugged
<1>2. Extensions[sink] \in Seq(Block) /\ Len(Extensions[sink]) <= 4
  BY <1>1, HotPlugAssumption
<1>3. \A s \in Seq(Block) : Len(s) \in Nat
  OBVIOUS
<1>4. Len(Extensions[sink]) \in Nat
  BY <1>2, <1>3, Zenon
<1>5. \A n \in Nat : n <= 4 => n \in 0 .. 4
  OBVIOUS
<1> QED
  BY <1>2, <1>4, <1>5, Zenon

(* The first block of an EDID.                                             *)
LEMMA ReadBlock0Type ==
  ASSUME IInv, ReadBlock0
  PROVE  /\ Places' /\ pc' \in {"edid", "main"} /\ cap' \in Capability /\ failed' \in BOOLEAN
         /\ bHDMIMode' \in BOOLEAN /\ bAudioEnable' \in BOOLEAN
<1>0. Plugged /\ Places /\ Capabilities /\ LoopBits /\ HistoryBits
  BY DEF IInv
<1> DEFINE c == [cap EXCEPT !.ValidCEA = FALSE]
<1>1. c \in Capability
  BY <1>0 DEF Capabilities, Capability
<1> HIDE DEF c
<1>2. CASE Decide(c, FALSE) /\ failed' = TRUE /\ UNCHANGED <<blk, count>>
  BY <1>0, <1>1, <1>2, DecideType DEF Places
<1>3. CASE /\ sink # NoDisplay /\ count' = Len(Extensions[sink]) /\ failed' = failed
           /\ IF count' = 0
              THEN Decide(c, TRUE) /\ UNCHANGED blk
              ELSE /\ blk' = 1 /\ cap' = c
                   /\ UNCHANGED <<bHDMIMode, bAudioEnable, pc>>
  <2>1. count' \in 0 .. 4
    BY <1>0, <1>3, SinkBlocks
  <2>2. CASE count' = 0
    BY <1>0, <1>1, <1>3, <2>1, <2>2, DecideType DEF Places, HistoryBits
  <2>3. CASE count' # 0
    <3>1. /\ blk' = 1 /\ cap' = c /\ failed' = failed
          /\ UNCHANGED <<bHDMIMode, bAudioEnable, pc>> /\ pc = "edid"
      BY <1>3, <2>3, Zenon DEF ReadBlock0
    <3>2. blk' \in 0 .. 4 /\ blk' <= count'
      BY <2>1, <2>3, <3>1
    <3>3. Places' /\ pc' \in {"edid", "main"}
      BY <2>1, <3>1, <3>2 DEF Places
    <3>4. failed' \in BOOLEAN /\ bHDMIMode' \in BOOLEAN /\ bAudioEnable' \in BOOLEAN
      BY <1>0, <3>1 DEF LoopBits, HistoryBits
    <3> QED
      BY <1>1, <3>1, <3>3, <3>4
  <2> QED
    BY <2>2, <2>3
<1> QED
  BY <1>2, <1>3 DEF ReadBlock0, c

(* Every further block.                                                    *)
LEMMA ReadBlockType ==
  ASSUME IInv, ReadBlock
  PROVE  /\ Places' /\ pc' \in {"edid", "main"} /\ cap' \in Capability /\ err' \in BOOLEAN
         /\ failed' \in BOOLEAN /\ bValidCEA' \in BOOLEAN
         /\ bHDMIMode' \in BOOLEAN /\ bAudioEnable' \in BOOLEAN
<1>0. Plugged /\ Places /\ Capabilities /\ LoopBits /\ HistoryBits
  BY DEF IInv
<1>1. /\ \E c \in Capability, e \in BOOLEAN : NextBlock(c, e)
      /\ failed' \in BOOLEAN /\ bValidCEA' \in BOOLEAN
  <2>0. /\ cap \in Capability /\ cap.hdmiOUI \in BOOLEAN
        /\ failed \in BOOLEAN /\ bValidCEA \in BOOLEAN
    BY <1>0 DEF Capabilities, Capability, HistoryBits, LoopBits
  <2>1. CASE NextBlock(cap, FALSE) /\ failed' = TRUE /\ UNCHANGED bValidCEA
    BY <2>0, <2>1
  <2>2. CASE NextBlock(cap, TRUE) /\ UNCHANGED <<failed, bValidCEA>>
    BY <2>0, <2>2
  <2>3. ASSUME NEW b \in Block, NextBlock(Found(cap, b), FALSE), UNCHANGED <<failed, bValidCEA>>
        PROVE  /\ \E c \in Capability, e \in BOOLEAN : NextBlock(c, e)
               /\ failed' \in BOOLEAN /\ bValidCEA' \in BOOLEAN
    BY <2>0, <2>3, FoundType
  <2>4. CASE NextBlock(Spoilt(cap), TRUE) /\ failed' = TRUE /\ bValidCEA' = cap.hdmiOUI
    <3>1. Spoilt(cap) \in Capability
      BY <2>0 DEF Spoilt, Capability
    <3> QED
      BY <2>0, <2>4, <3>1
  <2>5. CASE /\ sink # NoDisplay /\ blk <= Len(Extensions[sink])
             /\ ~(NextBlock(cap, FALSE) /\ failed' = TRUE /\ UNCHANGED bValidCEA)
    <3>1. Extensions[sink][blk] \in Block
      <4>1. blk \in 1 .. Len(Extensions[sink]) /\ Extensions[sink] \in Seq(Block)
        BY <1>0, <2>5, SinkBlocks DEF ReadBlock, Places
      <4> QED
        BY <4>1
    <3>2. \/ NextBlock(cap, TRUE) /\ UNCHANGED <<failed, bValidCEA>>
          \/ NextBlock(Found(cap, Extensions[sink][blk]), FALSE)
               /\ UNCHANGED <<failed, bValidCEA>>
          \/ NextBlock(Spoilt(cap), TRUE) /\ failed' = TRUE /\ bValidCEA' = cap.hdmiOUI
      BY <2>5, Zenon DEF ReadBlock
    <3> QED
      BY <2>2, <2>3, <2>4, <3>1, <3>2
  <2> QED
    BY <2>1, <2>5, Zenon DEF ReadBlock
<1>2. pc = "edid" /\ UNCHANGED count
  BY DEF ReadBlock
<1>3. count' \in 0 .. 4
  BY <1>0, <1>2 DEF Places
<1> QED
  BY <1>0, <1>1, <1>2, <1>3, NextBlockType DEF Places

(* HDMITX_DevLoopProc with ParseEDID.                                      *)
LEMMA DevLoopStep == IInv /\ DevLoop => IInv'
<1> SUFFICES ASSUME IInv, DevLoop PROVE IInv'
  OBVIOUS
<1> USE HotPlugAssumption
<1> USE DEF Plugged, Places, Capabilities, ChipBits, LoopBits, HistoryBits, ServedInv,
            Present, chipVars, modeVars, edidVars, localVars
<1>0. /\ Plugged /\ Places /\ Capabilities /\ ChipBits /\ LoopBits /\ HistoryBits
      /\ ServedInv
  BY DEF IInv
<1>1. CASE NoChange
  <2> USE <1>0, <1>1 DEF NoChange, News
  <2>1. Plugged' /\ Places'
    OBVIOUS
  <2>2. Capabilities'
    OBVIOUS
  <2>3. ChipBits'
    OBVIOUS
  <2>4. LoopBits' /\ HistoryBits'
    OBVIOUS
  <2>5. ServedInv'
    OBVIOUS
  <2> QED
    BY <2>1, <2>2, <2>3, <2>4, <2>5 DEF IInv
<1>2. CASE SinkComes
  <2> USE <1>0, <1>2 DEF SinkComes, News
  <2>1. Plugged' /\ Places'
    OBVIOUS
  <2>2. Capabilities'
    OBVIOUS
  <2>3. ChipBits'
    OBVIOUS
  <2>4. LoopBits' /\ HistoryBits'
    OBVIOUS
  <2>5. ServedInv'
    OBVIOUS
  <2> QED
    BY <2>1, <2>2, <2>3, <2>4, <2>5 DEF IInv
<1>3. CASE SinkGoes
  <2> USE <1>0, <1>3 DEF SinkGoes, News, Capability
  <2>1. Plugged' /\ Places'
    OBVIOUS
  <2>2. Capabilities'
    OBVIOUS
  <2>3. ChipBits'
    OBVIOUS
  <2>4. LoopBits' /\ HistoryBits'
    OBVIOUS
  <2>5. ServedInv'
    OBVIOUS
  <2> QED
    BY <2>1, <2>2, <2>3, <2>4, <2>5 DEF IInv
<1>4. CASE Steady
  <2> USE <1>0, <1>4 DEF Steady, SetOutput
  <2>1. Plugged' /\ Places'
    OBVIOUS
  <2>2. Capabilities'
    OBVIOUS
  <2>3. ChipBits'
    OBVIOUS
  <2>4. LoopBits' /\ HistoryBits'
    OBVIOUS
  <2>5. ServedInv'
    OBVIOUS
  <2> QED
    BY <2>1, <2>2, <2>3, <2>4, <2>5 DEF IInv
<1>5. CASE ReadBlock0
  <2> USE <1>0, <1>5, ReadBlock0Type DEF ReadBlock0
  <2>1. Plugged' /\ Places'
    OBVIOUS
  <2>2. Capabilities'
    OBVIOUS
  <2>3. ChipBits'
    OBVIOUS
  <2>4. LoopBits' /\ HistoryBits'
    OBVIOUS
  <2>5. ServedInv'
    OBVIOUS
  <2> QED
    BY <2>1, <2>2, <2>3, <2>4, <2>5 DEF IInv
<1>6. CASE ReadBlock
  <2> USE <1>0, <1>6, ReadBlockType DEF ReadBlock
  <2>1. Plugged' /\ Places'
    OBVIOUS
  <2>2. Capabilities'
    OBVIOUS
  <2>3. ChipBits'
    OBVIOUS
  <2>4. LoopBits' /\ HistoryBits'
    OBVIOUS
  <2>5. ServedInv'
    OBVIOUS
  <2> QED
    BY <2>1, <2>2, <2>3, <2>4, <2>5 DEF IInv
<1> QED
  BY <1>1, <1>2, <1>3, <1>4, <1>5, <1>6 DEF DevLoop

(* main.                                                                   *)
LEMMA MainStep == IInv /\ (MainDisables \/ MainEnables) => IInv'
<1> SUFFICES ASSUME IInv, MainDisables \/ MainEnables PROVE IInv'
  OBVIOUS
<1> USE HotPlugAssumption
<1> USE DEF Plugged, Places, Capabilities, ChipBits, LoopBits, HistoryBits, ServedInv,
            Present, chipVars, modeVars, edidVars, localVars
<1>0. /\ Plugged /\ Places /\ Capabilities /\ ChipBits /\ LoopBits /\ HistoryBits
      /\ ServedInv
  BY DEF IInv
<1>1. CASE MainDisables
  <2> USE <1>0, <1>1 DEF MainDisables, DisableOutput
  <2>1. Plugged' /\ Places'
    OBVIOUS
  <2>2. Capabilities'
    OBVIOUS
  <2>3. ChipBits'
    OBVIOUS
  <2>4. LoopBits' /\ HistoryBits'
    OBVIOUS
  <2>5. ServedInv'
    OBVIOUS
  <2> QED
    BY <2>1, <2>2, <2>3, <2>4, <2>5 DEF IInv
<1>2. CASE MainEnables
  <2> USE <1>0, <1>2 DEF MainEnables, SetOutput
  <2>1. Plugged' /\ Places'
    OBVIOUS
  <2>2. Capabilities'
    BY DEF Capability, ColorDepths
  <2>3. ChipBits'
    OBVIOUS
  <2>4. LoopBits' /\ HistoryBits'
    OBVIOUS
  <2>5. ServedInv'
    OBVIOUS
  <2> QED
    BY <2>1, <2>2, <2>3, <2>4, <2>5 DEF IInv
<1> QED
  BY <1>1, <1>2

(* So does every step of the system.                                       *)
LEMMA InvStep == IInv /\ [Next]_vars => IInv'
<1>1. IInv /\ UNCHANGED vars => IInv'
  BY DEF IInv, Plugged, Places, Capabilities, ChipBits, LoopBits, HistoryBits, ServedInv,
         Present, vars, chipVars, modeVars, edidVars, localVars
<1> QED
  BY <1>1, EnvironmentStep, CheckStep, DevLoopStep, MainStep DEF Next, Loop

(***************************************************************************)
(* What follows from it.                                                   *)
(***************************************************************************)

(* The inductive invariant holds in every reachable state.                 *)
LEMMA InvHolds == Spec => []IInv
  BY InvInit, InvStep, PTL DEF Spec

(* TypeOK holds in every reachable state: the parser never looks past the  *)
(* last extension block a display announced, and what it finds fits what   *)
(* is kept of it.                                                          *)
THEOREM TypeCorrect == Spec => []TypeOK
  BY InvHolds, InvImpliesType, PTL

(* No step of the loop takes the output from a display that has it and     *)
(* stays: not a latched change that is old news, not an interrupt of       *)
(* another kind, not a level that was sampled before the display came.     *)
THEOREM PictureIsKept == Spec => PictureStays
<1>1. IInv /\ [Next]_vars => [served /\ served' /\ Output => Output']_vars
  <2> SUFFICES ASSUME IInv, [Next]_vars, served, served', Output PROVE Output'
    BY DEF vars
  <2> USE DEF Output, chipVars
  <2>0. /\ afe \in BOOLEAN /\ vidReset \in BOOLEAN
        /\ afe' \in BOOLEAN /\ vidReset' \in BOOLEAN
    BY InvStep DEF IInv, ChipBits
  <2>1. /\ Present /\ PreHPD
        /\ pc # "status" => HPD
        /\ pc \notin {"edid", "main", "enable"}
    BY DEF IInv, ServedInv
  <2>2. CASE Environment
    BY <2>0, <2>2 DEF Environment, Plug, SwitchOnOrOff, Unplug, VideoChanges, OtherInterrupt
  <2>3. CASE Check
    <3>1. CASE ReadStatus
      BY <2>0, <2>1, <3>1 DEF ReadStatus
    <3>2. CASE ReadStat1
      BY <2>0, <2>1, <3>2 DEF ReadStat1
    <3>3. CASE ReadStat3 \/ ClearInterrupts
      BY <2>0, <3>3 DEF ReadStat3, ClearInterrupts
    <3> QED
      BY <2>3, <3>1, <3>2, <3>3 DEF Check
  <2>4. CASE DevLoop
    <3>1. CASE NoChange
      BY <2>0, <3>1 DEF NoChange
    <3>2. CASE SinkComes \/ SinkGoes
      BY <2>0, <2>1, <3>2 DEF SinkComes, SinkGoes, News
    <3>3. CASE Steady
      BY <2>0, <3>3 DEF Steady, SetOutput
    <3>4. CASE ReadBlock0 \/ ReadBlock
      BY <2>0, <2>1, <3>4 DEF ReadBlock0, ReadBlock
    <3> QED
      BY <2>4, <3>1, <3>2, <3>3, <3>4 DEF DevLoop
  <2>5. CASE MainDisables \/ MainEnables
    BY <2>0, <2>1, <2>5 DEF MainDisables, MainEnables
  <2>6. CASE UNCHANGED vars
    BY <2>0, <2>6 DEF vars
  <2> QED
    BY <2>2, <2>3, <2>4, <2>5, <2>6 DEF Next, Loop
<1> QED
  BY <1>1, InvHolds, PTL DEF Spec, PictureStays
(***************************************************************************)
(* The mode of the output.  While no other interrupt crosses a change of   *)
(* the plug, the loop knows of every change, forgets what the display that *)
(* went could do, and collects from the blocks of the one that came.       *)
(***************************************************************************)

(* The level of the last pass is the one the loop acted on, or a change is *)
(* latched that will tell it so.                                           *)
LevelInv ==
  /\ pc = "loop" => bHPD = HPD
  /\ ~crossed =>
       /\ pc \in {"status", "edid", "main", "enable"} => bHPD = PreHPD
       /\ pc = "status" /\ (vidInt \/ otherInt) => hpdInt \/ rxInt \/ bHPD = Present
       /\ pc = "stat1" => hpdInt \/ rxInt \/ HPD = PreHPD
       /\ pc \in {"stat3", "clear", "loop"} => HPDChange \/ HPD = PreHPD
       /\ pc \in {"loop", "edid", "main", "enable"} => ~vidInt /\ ~otherInt

(* Without a display nothing is left of HDMI in the capabilities.          *)
ForgottenInv ==
  /\ known => sink # NoDisplay
  /\ pc = "edid" => PreHPD
  /\ ~crossed /\ ~PreHPD => ~cap.ValidHDMI

Read == known /\ ~failed /\ ~crossed

(* The capabilities c are what the first n blocks of display d say.        *)
Parsed(c, d, n) ==
  /\ c.ValidHDMI = SaysHDMI(d, n)
  /\ c.ValidHDMI =>
       /\ c.ValidCEA
       /\ \A bits \in {30, 36} : c.deep = bits <=> SaysDepth(d, n, bits)

(* While the blocks are read.                                              *)
ParseInv ==
  Read /\ pc = "edid" =>
    /\ blk = 0 => ~cap.ValidHDMI
    /\ blk > 0 => count = Blocks(sink) /\ ~bValidCEA /\ Parsed(cap, sink, blk - 1)

(* When they are, as long as the display is there.                         *)
DecidedInv ==
  Read /\ PreHPD /\ pc # "edid" /\ CEALast(sink) =>
    /\ cap.Valid /\ Parsed(cap, sink, Blocks(sink))
    /\ bHDMIMode = cap.ValidHDMI
    /\ bAudioEnable => bHDMIMode

(* And while it has its output, the depth follows.                         *)
DepthInv ==
  Read /\ served /\ CEALast(sink) =>
    \A bits \in {30, 36} : depth = bits <=> TakesDepth(sink, bits)

ModeInv == LevelInv /\ ForgottenInv /\ ParseInv /\ DecidedInv /\ DepthInv

(* A vendor block more decides alone, whosever it is; another block changes *)
(* nothing; no block says nothing.                                         *)
LEMMA OneBlockMore ==
  ASSUME NEW d \in Displays, NEW n \in 1 .. Blocks(d), NEW bits
  PROVE  /\ Vendor(d, n) =>
              /\ SaysHDMI(d, n) <=> Extensions[d][n].vendor = "hdmi"
              /\ SaysDepth(d, n, bits) <=> /\ Extensions[d][n].vendor = "hdmi"
                                          /\ Extensions[d][n].deep = bits
         /\ ~Vendor(d, n) =>
              /\ SaysHDMI(d, n) <=> SaysHDMI(d, n - 1)
              /\ SaysDepth(d, n, bits) <=> SaysDepth(d, n - 1, bits)
<1>0. Extensions[d] \in Seq(Block)
  BY HotPlugAssumption
<1>1. /\ n \in Nat /\ n >= 1 /\ 1 .. n = (1 .. n - 1) \cup {n}
      /\ \A i \in 1 .. n - 1 : i + 1 .. n = (i + 1 .. n - 1) \cup {n}
      /\ n + 1 .. n = {} /\ n \in 1 .. n
  BY <1>0 DEF Blocks
<1>2. CASE Vendor(d, n)
  <2>1. \A i \in 1 .. n - 1 : n \in i + 1 .. n
    BY <1>1
  <2>2. \A i \in 1 .. n : LastOfHDMI(d, n, i) <=> i = n /\ Extensions[d][n].vendor = "hdmi"
    BY <1>1, <1>2, <2>1, Zenon DEF LastOfHDMI
  <2>3. SaysHDMI(d, n) <=> Extensions[d][n].vendor = "hdmi"
    BY <1>1, <2>2, Zenon DEF SaysHDMI
  <2>4. SaysDepth(d, n, bits) <=> /\ Extensions[d][n].vendor = "hdmi"
                                  /\ Extensions[d][n].deep = bits
    BY <1>1, <2>2, Zenon DEF SaysDepth
  <2> QED
    BY <1>2, <2>3, <2>4
<1>3. CASE ~Vendor(d, n)
  <2>1. ~LastOfHDMI(d, n, n)
    BY <1>3 DEF LastOfHDMI
  <2>2. \A i \in 1 .. n - 1 : LastOfHDMI(d, n, i) <=> LastOfHDMI(d, n - 1, i)
    <3> SUFFICES ASSUME NEW i \in 1 .. n - 1
                 PROVE  LastOfHDMI(d, n, i) <=> LastOfHDMI(d, n - 1, i)
      OBVIOUS
    <3>1. (\A j \in i + 1 .. n : ~Vendor(d, j)) <=> (\A j \in i + 1 .. n - 1 : ~Vendor(d, j))
      BY <1>1, <1>3
    <3> QED
      BY <3>1, Zenon DEF LastOfHDMI
  <2>3. SaysHDMI(d, n) <=> SaysHDMI(d, n - 1)
    BY <1>1, <2>1, <2>2, Zenon DEF SaysHDMI
  <2>4. SaysDepth(d, n, bits) <=> SaysDepth(d, n - 1, bits)
    BY <1>1, <2>1, <2>2, Zenon DEF SaysDepth
  <2> QED
    BY <1>3, <2>3, <2>4
<1> QED
  BY <1>2, <1>3

LEMMA NoBlock == ASSUME NEW d PROVE ~SaysHDMI(d, 0)
  BY DEF SaysHDMI

(* A display that does not take HDMI takes no deep colour.                 *)
LEMMA DeepIsHDMI ==
  ASSUME NEW d, NEW n, NEW bits, SaysDepth(d, n, bits) PROVE SaysHDMI(d, n)
  BY Zenon DEF SaysHDMI, SaysDepth

(* What the parser does to the blocks it has and to the modes is done with *)
(* the display, its level and the interrupts as they were.                 *)
LEMMA ReadsAlone ==
  ASSUME ReadBlock0 \/ ReadBlock
  PROVE  /\ pc = "edid"
         /\ UNCHANGED <<sink, sense, chipVars, bHPD, PreHPD, HPD, HPDChange, known, served,
                        crossed, depth>>
  BY DEF ReadBlock0, ReadBlock, localVars

LEMMA LevelStep == IInv /\ LevelInv /\ [Next]_vars => LevelInv'
<1> SUFFICES ASSUME IInv, LevelInv, [Next]_vars PROVE LevelInv'
  OBVIOUS
<1> USE DEF LevelInv, Present, chipVars, modeVars, edidVars, localVars
<1>0. Places /\ ChipBits /\ LoopBits /\ HistoryBits /\ ServedInv
  BY DEF IInv
<1>1. CASE Plug \/ Unplug \/ SwitchOnOrOff
  BY <1>0, <1>1 DEF Plug, Unplug, SwitchOnOrOff
<1>2. CASE VideoChanges \/ OtherInterrupt
  <2>1. /\ crossed' \/ (~crossed /\ pc = "status" /\ bHPD = Present)
        /\ UNCHANGED <<sink, sense, hpdInt, rxInt, pc, bHPD, PreHPD, HPD, HPDChange>>
    BY <1>2, Zenon DEF VideoChanges, OtherInterrupt, Crosses
  <2>2. Present' = Present
    BY <2>1, Zenon DEF Present
  <2> QED
    BY <2>1, <2>2 
<1>3. CASE ReadStatus
  BY <1>0, <1>3 DEF ReadStatus, ChipBits, LoopBits
<1>4. CASE ReadStat1
  BY <1>0, <1>4 DEF ReadStat1, ChipBits
<1>5. CASE ReadStat3
  BY <1>0, <1>5 DEF ReadStat3
<1>6. CASE ClearInterrupts
  BY <1>0, <1>6 DEF ClearInterrupts
<1>7. CASE NoChange
  BY <1>0, <1>7 DEF NoChange, News, LoopBits
<1>8. CASE SinkComes
  BY <1>0, <1>8 DEF SinkComes
<1>9. CASE SinkGoes
  <2>1. /\ crossed' \/ (~vidInt' /\ ~otherInt')
        /\ pc' = "main" /\ bHPD' = HPD /\ PreHPD' = HPD
    BY <1>9, Zenon DEF SinkGoes
  <2> QED
    BY <2>1
<1>10. CASE Steady
  BY <1>0, <1>10 DEF Steady, SetOutput
<1>11. CASE ReadBlock0 \/ ReadBlock
  <2>1. pc' \in {"edid", "main"}
    BY <1>11, ReadBlock0Type, ReadBlockType
  <2> QED
    BY <1>11, <2>1, ReadsAlone
<1>12. CASE MainDisables \/ MainEnables
  BY <1>0, <1>12 DEF MainDisables, MainEnables, SetOutput
<1>13. CASE UNCHANGED vars
  BY <1>13 DEF vars
<1> QED
  BY <1>1, <1>2, <1>3, <1>4, <1>5, <1>6, <1>7, <1>8, <1>9, <1>10, <1>11, <1>12, <1>13
  DEF Next, Loop, Check, DevLoop, Environment

LEMMA ForgottenStep == IInv /\ LevelInv /\ ForgottenInv /\ [Next]_vars => ForgottenInv'
<1> SUFFICES ASSUME IInv, LevelInv, ForgottenInv, [Next]_vars PROVE ForgottenInv'
  OBVIOUS
<1> USE DEF ForgottenInv, modeVars, edidVars, localVars
<1>0. Places /\ Capabilities /\ LoopBits /\ HistoryBits
  BY DEF IInv
<1>1. CASE Environment
  BY <1>0, <1>1 DEF Environment, Plug, Unplug, SwitchOnOrOff, VideoChanges, OtherInterrupt,
                    Crosses, HistoryBits
<1>2. CASE Check
  BY <1>0, <1>2 DEF Check, ReadStatus, ReadStat1, ReadStat3, ClearInterrupts
<1>3. CASE NoChange
  BY <1>0, <1>3 DEF NoChange
<1>4. CASE SinkGoes
  BY <1>0, <1>4 DEF SinkGoes, Capabilities, Capability
<1>5. CASE Steady
  BY <1>0, <1>5 DEF Steady, LevelInv
<1>6. CASE ReadBlock0 \/ ReadBlock
  BY <1>6, ReadsAlone
<1>7. CASE MainDisables \/ MainEnables
  BY <1>0, <1>7 DEF MainDisables, MainEnables
<1>8. CASE SinkComes
  <2>1. pc' = "edid" /\ PreHPD' /\ UNCHANGED sink /\ (known' => sink # NoDisplay)
    BY <1>8, Zenon DEF SinkComes
  <2> QED
    BY <2>1
<1>9. CASE UNCHANGED vars
  BY <1>9 DEF vars
<1> QED
  BY <1>1, <1>2, <1>3, <1>4, <1>5, <1>6, <1>7, <1>8, <1>9 DEF Next, Loop, DevLoop

(* What the parser keeps of one block.                                     *)
LEMMA OneBlockParsed ==
  ASSUME Plugged, Capabilities, sink # NoDisplay, blk \in 1 .. Blocks(sink),
         Parsed(cap, sink, blk - 1)
  PROVE  LET b == Extensions[sink][blk] IN
         /\ b.cea  => Parsed(Found(cap, b), sink, blk)
         /\ ~b.cea => Parsed(cap, sink, blk)
<1> DEFINE b == Extensions[sink][blk]
<1>1. sink \in Displays
  BY DEF Plugged
<1>2. b \in Block
  <2>1. Extensions[sink] \in Seq(Block)
    BY <1>1, HotPlugAssumption
  <2> QED
    BY <2>1 DEF Blocks
<1>3. Vendor(sink, blk) <=> b.cea /\ b.vendor # "none"
  BY DEF Vendor
<1>4. /\ cap.ValidHDMI = SaysHDMI(sink, blk - 1)
      /\ cap.ValidHDMI =>
           /\ cap.ValidCEA
           /\ \A bits \in {30, 36} : cap.deep = bits <=> SaysDepth(sink, blk - 1, bits)
  BY DEF Parsed
<1>5. SaysHDMI(sink, blk) \in BOOLEAN
  BY DEF SaysHDMI
<1>6. CASE ~Vendor(sink, blk)
  <2>1. SaysHDMI(sink, blk) <=> SaysHDMI(sink, blk - 1)
    BY <1>1, <1>6, OneBlockMore
  <2>2. \A bits : SaysDepth(sink, blk, bits) <=> SaysDepth(sink, blk - 1, bits)
    BY <1>1, <1>6, OneBlockMore
  <2>3. Parsed(cap, sink, blk)
    BY <1>4, <1>5, <2>1, <2>2 DEF Parsed, SaysHDMI
  <2>4. CASE b.cea
    <3>1. b.vendor = "none"
      BY <1>3, <1>6, <2>4
    <3>2. /\ Found(cap, b).ValidHDMI = cap.ValidHDMI /\ Found(cap, b).deep = cap.deep
          /\ Found(cap, b).ValidCEA = TRUE
      BY <3>1 DEF Found, HDMIAfter, DepthAfter, Capabilities, Capability
    <3> QED
      BY <2>3, <2>4, <3>2 DEF Parsed
  <2> QED
    BY <2>3, <2>4
<1>7. CASE Vendor(sink, blk)
  <2>1. SaysHDMI(sink, blk) <=> b.vendor = "hdmi"
    BY <1>1, <1>7, OneBlockMore
  <2>2. \A bits : SaysDepth(sink, blk, bits) <=> b.vendor = "hdmi" /\ b.deep = bits
    BY <1>1, <1>7, OneBlockMore
  <2>3. b.cea /\ b.vendor # "none"
    BY <1>3, <1>7
  <2>4. /\ Found(cap, b).ValidHDMI = (b.vendor = "hdmi")
        /\ b.vendor = "hdmi" => Found(cap, b).deep = b.deep
        /\ Found(cap, b).ValidCEA = TRUE
    BY <2>3 DEF Found, HDMIAfter, DepthAfter, Capabilities, Capability
  <2>5. Found(cap, b).ValidHDMI = SaysHDMI(sink, blk)
    BY <1>5, <2>1, <2>4
  <2>6. Parsed(Found(cap, b), sink, blk)
    BY <2>2, <2>4, <2>5, Zenon DEF Parsed
  <2> QED
    BY <2>3, <2>6
<1> QED
  BY <1>6, <1>7

(* Only the arrival of a display and what the parser does start or spoil a *)
(* reading; every other step leaves a reading that is good what it was.    *)
LEMMA ReadStable ==
  ASSUME IInv, Next, Read', ~SinkComes, ~SinkGoes, ~ReadBlock0, ~ReadBlock
  PROVE  /\ Read /\ sink' = sink /\ cap' = cap /\ blk' = blk /\ count' = count
         /\ bValidCEA' = bValidCEA /\ bHDMIMode' = bHDMIMode
         /\ bAudioEnable' = bAudioEnable
         /\ pc' = "edid" <=> pc = "edid"
<1> USE DEF Read, edidVars, localVars, modeVars
<1>0. HistoryBits /\ Places
  BY DEF IInv
<1>1. CASE Plug \/ Unplug
  BY <1>1 DEF Plug, Unplug
<1>2. CASE SwitchOnOrOff
  BY <1>2 DEF SwitchOnOrOff
<1>3. CASE VideoChanges \/ OtherInterrupt
  <2>1. crossed' \/ ~crossed
    BY <1>3, Zenon DEF VideoChanges, OtherInterrupt, Crosses
  <2>2. UNCHANGED <<sink, modeVars, edidVars, pc, known, failed>>
    BY <1>3 DEF VideoChanges, OtherInterrupt
  <2> QED
    BY <2>1, <2>2
<1>4. CASE Check
  <2>1. UNCHANGED <<sink, modeVars, edidVars, known, failed, crossed>>
    BY <1>4 DEF Check, ReadStatus, ReadStat1, ReadStat3, ClearInterrupts
  <2>2. pc # "edid" /\ pc' # "edid"
    BY <1>4 DEF Check, ReadStatus, ReadStat1, ReadStat3, ClearInterrupts
  <2> QED
    BY <2>1, <2>2
<1>5. CASE NoChange
  BY <1>5 DEF NoChange
<1>6. CASE Steady
  BY <1>6 DEF Steady, SetOutput
<1>7. CASE MainDisables
  BY <1>7 DEF MainDisables
<1>8. CASE MainEnables
  BY <1>8 DEF MainEnables, SetOutput
<1> QED
  BY <1>1, <1>2, <1>3, <1>4, <1>5, <1>6, <1>7, <1>8
  DEF Next, Loop, DevLoop, Environment

(* After a last block that was good the modes are what was found.          *)
LEMMA DecideGood ==
  ASSUME NEW c \in Capability, Decide(c, TRUE)
  PROVE  /\ cap' = [c EXCEPT !.Valid = TRUE] /\ bHDMIMode' = c.ValidHDMI /\ pc' = "main"
         /\ bAudioEnable' => bHDMIMode'
<1>1. c.ValidHDMI \in BOOLEAN
  BY DEF Capability
<1>2. bHDMIMode' = c.ValidHDMI
  BY <1>1 DEF Decide
<1>3. bAudioEnable' => c.ValidHDMI
  BY Zenon DEF Decide
<1> QED
  BY <1>2, <1>3 DEF Decide

(* The first block, read without an error, tells how many there are.       *)
LEMMA FirstBlockRead ==
  ASSUME IInv, ForgottenInv, ParseInv, ReadBlock0, Read'
  PROVE  ParseInv' /\ DecidedInv'
<1> DEFINE c == [cap EXCEPT !.ValidCEA = FALSE]
<1>1. /\ sink # NoDisplay /\ count' = Blocks(sink) /\ failed' = failed
      /\ \/ count' = 0 /\ Decide(c, TRUE)
         \/ count' # 0 /\ blk' = 1 /\ cap' = c /\ pc' = pc
  BY Zenon DEF ReadBlock0, Read, Blocks
<1>2. /\ pc = "edid" /\ blk = 0 /\ ~bValidCEA'
      /\ UNCHANGED <<sink, known, crossed>>
  BY ReadsAlone DEF ReadBlock0
<1>3. ~cap.ValidHDMI /\ cap \in Capability
  BY <1>1, <1>2 DEF Read, ParseInv, IInv, Capabilities
<1>4. c.ValidHDMI = FALSE
  BY <1>3 DEF Capability
<1>5. SaysHDMI(sink, 0) = FALSE
  BY NoBlock DEF SaysHDMI
<1> HIDE DEF c
<1>6. CASE count' = 0 /\ Decide(c, TRUE)
  <2>0. c \in Capability
    BY <1>3 DEF c, Capability
  <2>1. /\ cap' = [c EXCEPT !.Valid = TRUE] /\ bHDMIMode' = c.ValidHDMI /\ pc' = "main"
        /\ bAudioEnable' => bHDMIMode'
    BY <1>6, <2>0, DecideGood
  <2>2. cap'.Valid = TRUE /\ cap'.ValidHDMI = FALSE
    BY <1>3, <1>4, <2>1 DEF c, Capability
  <2>3. bHDMIMode' = cap'.ValidHDMI
    BY <1>4, <2>1, <2>2
  <2>4. Parsed(cap', sink, 0)
    BY <1>5, <2>2 DEF Parsed
  <2> QED
    BY <1>1, <1>2, <1>6, <2>1, <2>2, <2>3, <2>4 DEF ParseInv, DecidedInv
<1>7. CASE count' # 0 /\ blk' = 1 /\ cap' = c /\ pc' = pc
  <2>1. Parsed(cap', sink, 0)
    BY <1>4, <1>5, <1>7 DEF Parsed
  <2>2. blk' - 1 = 0 /\ blk' > 0 /\ blk' # 0
    BY <1>7
  <2> QED
    BY <1>1, <1>2, <1>7, <2>1, <2>2 DEF ParseInv, DecidedInv
<1> QED
  BY <1>1, <1>6, <1>7

(* Every further block adds what it says; after the last one the modes are *)
(* what the display takes.                                                 *)
LEMMA FurtherBlockRead ==
  ASSUME IInv, ForgottenInv, ParseInv, ReadBlock, Read'
  PROVE  ParseInv' /\ DecidedInv'
<1> DEFINE b == Extensions[sink][blk]
           c == IF b.cea THEN Found(cap, b) ELSE cap
<1>0. Plugged /\ Capabilities /\ Places
  BY DEF IInv
<1>1. /\ pc = "edid" /\ blk > 0 /\ UNCHANGED <<sink, known, crossed, count>>
  BY ReadsAlone DEF ReadBlock
<1>2. ~failed'
  BY DEF Read
<1>3. /\ UNCHANGED <<failed, bValidCEA>> /\ sink # NoDisplay
      /\ \/ (bValidCEA \/ ~b.cea) /\ NextBlock(cap, TRUE)
         \/ ~(bValidCEA \/ ~b.cea) /\ NextBlock(Found(cap, b), FALSE)
  BY <1>2, Zenon DEF ReadBlock
<1>4. /\ Read /\ count = Blocks(sink) /\ ~bValidCEA /\ Parsed(cap, sink, blk - 1)
  BY <1>1, <1>3 DEF Read, ParseInv
<1>5. blk \in 1 .. Blocks(sink) /\ sink \in Displays
  BY <1>0, <1>1, <1>3, <1>4 DEF Places, Plugged
<1>6. b \in Block
  <2>1. Extensions[sink] \in Seq(Block)
    BY <1>5, HotPlugAssumption
  <2> QED
    BY <1>5, <2>1 DEF Blocks
<1>7. b.cea \in BOOLEAN
  BY <1>6 DEF Block
<1>8. c \in Capability
  BY <1>0, <1>6, FoundType DEF Capabilities
<1>9. Parsed(c, sink, blk)
  BY <1>0, <1>3, <1>4, <1>5, OneBlockParsed
<1>10. NextBlock(c, ~b.cea)
  BY <1>3, <1>4, <1>7
<1> HIDE DEF c, b
<1>11. CASE MoreBlocks
  <2>1. blk' = blk + 1 /\ cap' = c /\ pc' = pc
    BY <1>10, <1>11 DEF NextBlock
  <2>2. blk' - 1 = blk /\ blk' > 0 /\ blk' # 0
    BY <1>0, <2>1 DEF Places
  <2> QED
    BY <1>1, <1>3, <1>4, <1>9, <2>1, <2>2 DEF ParseInv, DecidedInv
<1>12. CASE ~MoreBlocks
  <2>1. blk = Blocks(sink)
    BY <1>0, <1>4, <1>5, <1>12 DEF MoreBlocks, Places
  <2>2. Decide(c, b.cea)
    BY <1>7, <1>10, <1>12 DEF NextBlock, LastWasGood
  <2>3. pc' = "main"
    BY <2>2 DEF Decide
  <2> SUFFICES ASSUME CEALast(sink)'
               PROVE  /\ cap'.Valid /\ Parsed(cap', sink', Blocks(sink'))
                      /\ bHDMIMode' = cap'.ValidHDMI
                      /\ bAudioEnable' => bHDMIMode'
    BY <2>3 DEF ParseInv, DecidedInv
  <2>4. CEALast(sink)
    BY <1>1 DEF CEALast
  <2>5. b.cea = TRUE
    BY <1>5, <1>7, <2>1, <2>4 DEF CEALast, b
  <2>6. /\ cap' = [c EXCEPT !.Valid = TRUE] /\ bHDMIMode' = c.ValidHDMI
        /\ bAudioEnable' => bHDMIMode'
    BY <1>8, <2>2, <2>5, DecideGood
  <2>7. /\ cap'.Valid = TRUE /\ cap'.ValidHDMI = c.ValidHDMI
        /\ cap'.ValidCEA = c.ValidCEA /\ cap'.deep = c.deep
    BY <1>8, <2>6 DEF Capability
  <2>8. Parsed(cap', sink, Blocks(sink))
    BY <1>9, <2>1, <2>7 DEF Parsed
  <2> QED
    BY <1>1, <2>6, <2>7, <2>8
<1> QED
  BY <1>11, <1>12

(* The depth is set where the output is enabled, and nowhere else is a     *)
(* display given its output.                                               *)
LEMMA OnlyMainEnables ==
  ASSUME Next, ~MainEnables
  PROVE  depth' = depth /\ (served' => served)
<1> USE DEF modeVars
<1>1. CASE Environment
  BY <1>1 DEF Environment, Plug, SwitchOnOrOff, Unplug, VideoChanges, OtherInterrupt
<1>2. CASE Check
  BY <1>2 DEF Check, ReadStatus, ReadStat1, ReadStat3, ClearInterrupts
<1>3. CASE NoChange \/ SinkComes \/ SinkGoes
  BY <1>3 DEF NoChange, SinkComes, SinkGoes
<1>4. CASE Steady
  BY <1>4 DEF Steady
<1>5. CASE ReadBlock0 \/ ReadBlock
  BY <1>5, ReadsAlone
<1>6. CASE MainDisables
  BY <1>6 DEF MainDisables
<1> QED
  BY <1>1, <1>2, <1>3, <1>4, <1>5, <1>6 DEF Next, Loop, DevLoop

(* The level of the last pass rises with SinkComes only: a steady pass     *)
(* takes over what it had.                                                 *)
LEMMA OnlySinkComes ==
  ASSUME LevelInv, Next, ~crossed, ~SinkComes, PreHPD'
  PROVE  PreHPD
<1>1. CASE Environment
  BY <1>1 DEF Environment, Plug, SwitchOnOrOff, Unplug, VideoChanges, OtherInterrupt
<1>2. CASE Check
  BY <1>2 DEF Check, ReadStatus, ReadStat1, ReadStat3, ClearInterrupts
<1>3. CASE NoChange
  BY <1>3 DEF NoChange
<1>4. CASE SinkGoes
  BY <1>4 DEF SinkGoes
<1>5. CASE Steady
  BY <1>5 DEF Steady, LevelInv
<1>6. CASE ReadBlock0 \/ ReadBlock
  BY <1>6, ReadsAlone
<1>7. CASE MainDisables \/ MainEnables
  BY <1>7 DEF MainDisables, MainEnables
<1> QED
  BY <1>1, <1>2, <1>3, <1>4, <1>5, <1>6, <1>7 DEF Next, Loop, DevLoop

(* So all of it is kept by every step.                                     *)
LEMMA ModeStep == IInv /\ ModeInv /\ [Next]_vars => ModeInv'
<1> SUFFICES ASSUME IInv, ModeInv, [Next]_vars PROVE ModeInv'
  OBVIOUS
<1>0. LevelInv /\ ForgottenInv /\ ParseInv /\ DecidedInv /\ DepthInv
  BY DEF ModeInv
<1>1. LevelInv' /\ ForgottenInv'
  BY <1>0, LevelStep, ForgottenStep
<1>2. IInv' /\ Plugged /\ ServedInv /\ ServedInv'
  BY InvStep DEF IInv
<1>3. CASE UNCHANGED vars
  BY <1>0, <1>1, <1>3
  DEF ModeInv, ParseInv, DecidedInv, DepthInv, Read, Parsed, CEALast, vars, modeVars,
      edidVars, localVars
<1>4. CASE SinkComes
  <2>1. pc' = "edid" /\ blk' = 0 /\ cap' = cap /\ crossed' = crossed /\ ~PreHPD
    BY <1>4 DEF SinkComes, News
  <2>2. ParseInv' /\ DecidedInv'
    BY <1>0, <2>1 DEF ParseInv, DecidedInv, ForgottenInv, Read
  <2>3. DepthInv'
    BY <1>2, <2>1 DEF ServedInv, DepthInv
  <2> QED
    BY <1>1, <2>2, <2>3 DEF ModeInv
<1>5. CASE SinkGoes
  <2>1. pc' = "main" /\ ~PreHPD'
    BY <1>5 DEF SinkGoes
  <2> QED
    BY <1>1, <1>2, <2>1 DEF ModeInv, ParseInv, DecidedInv, DepthInv, ServedInv
<1>6. CASE ReadBlock0 \/ ReadBlock
  <2>1. ParseInv' /\ DecidedInv'
    <3>1. CASE Read'
      BY <1>0, <1>6, <3>1, FirstBlockRead, FurtherBlockRead
    <3>2. CASE ~Read'
      BY <3>2 DEF ParseInv, DecidedInv
    <3> QED
      BY <3>1, <3>2
  <2>2. ~served'
    BY <1>2, <1>6, ReadsAlone DEF ServedInv
  <2> QED
    BY <1>1, <2>1, <2>2 DEF ModeInv, DepthInv
<1>7. CASE Next /\ ~SinkComes /\ ~SinkGoes /\ ~ReadBlock0 /\ ~ReadBlock
  <2> SUFFICES ASSUME Read' PROVE ParseInv' /\ DecidedInv' /\ DepthInv'
    BY <1>1 DEF ModeInv, ParseInv, DecidedInv, DepthInv
  <2>1. /\ Read /\ sink' = sink /\ cap' = cap /\ blk' = blk /\ count' = count
        /\ bValidCEA' = bValidCEA /\ bHDMIMode' = bHDMIMode
        /\ bAudioEnable' = bAudioEnable
        /\ pc' = "edid" <=> pc = "edid"
    BY <1>7, ReadStable
  <2>2. ParseInv'
    BY <1>0, <2>1 DEF ParseInv
  <2>3. PreHPD' => PreHPD
    BY <1>0, <1>7, <2>1, OnlySinkComes DEF Read
  <2>4. CEALast(sink)' = CEALast(sink)
    BY <2>1 DEF CEALast
  <2>5. DecidedInv'
    BY <1>0, <2>1, <2>3, <2>4 DEF DecidedInv
  <2>6. DepthInv'
    <3>1. CASE MainEnables
      <4>1. PreHPD /\ pc # "edid"
        BY <1>2, <3>1 DEF MainEnables, ServedInv
      <4>2. depth' = IF cap.Valid /\ cap.ValidHDMI /\ cap.ValidCEA THEN cap.deep ELSE 24
        BY <3>1 DEF MainEnables
      <4>3. CEALast(sink) => \A bits \in {30, 36} : depth' = bits <=> TakesDepth(sink, bits)
        <5> SUFFICES ASSUME CEALast(sink), NEW bits \in {30, 36}
                     PROVE  depth' = bits <=> TakesDepth(sink, bits)
          OBVIOUS
        <5>1. cap.Valid /\ Parsed(cap, sink, Blocks(sink))
          BY <1>0, <2>1, <4>1 DEF DecidedInv
        <5>2. CASE cap.ValidHDMI
          BY <4>2, <5>1, <5>2 DEF Parsed, TakesDepth
        <5>3. CASE ~cap.ValidHDMI
          <6>1. ~SaysHDMI(sink, Blocks(sink))
            BY <5>1, <5>3 DEF Parsed
          <6>2. ~TakesDepth(sink, bits)
            BY <6>1, DeepIsHDMI DEF TakesDepth
          <6> QED
            BY <4>2, <5>3, <6>2
        <5> QED
          BY <5>2, <5>3
      <4> QED
        BY <2>1, <4>3 DEF DepthInv, CEALast
    <3>2. CASE ~MainEnables
      <4>1. depth' = depth /\ (served' => served)
        BY <1>7, <3>2, OnlyMainEnables
      <4> QED
        BY <1>0, <2>1, <2>4, <4>1 DEF DepthInv
    <3> QED
      BY <3>1, <3>2
  <2> QED
    BY <2>2, <2>5, <2>6
<1> QED
  BY <1>3, <1>4, <1>5, <1>6, <1>7

(* It holds as the loop starts.                                            *)
LEMMA ModeInit == Init => ModeInv
<1> SUFFICES ASSUME Init PROVE ModeInv
  OBVIOUS
<1>1. LevelInv
  BY DEF Init, LevelInv
<1>2. ~cap.ValidHDMI /\ ~known /\ pc = "status"
  BY DEF Init, NoCap
<1> QED
  BY <1>1, <1>2 DEF ModeInv, ForgottenInv, ParseInv, DecidedInv, DepthInv, Read

(* A display whose EDID was read without an error, and that has its        *)
(* output, gets the mode and the depth its own blocks ask for, whatever    *)
(* was plugged before it and however often: nothing of a display that went *)
(* is left in the modes, as long as no other interrupt crossed a change of *)
(* the plug.                                                               *)
THEOREM ModeFollowsSink == Spec => []ModeIsSinks
<1>1. IInv /\ ModeInv => ModeIsSinks
  BY DEF IInv, ServedInv, ModeInv, DecidedInv, DepthInv, Read, Parsed, ModeIsSinks, IsHDMI
<1> QED
  BY <1>1, ModeInit, ModeStep, InvHolds, PTL DEF Spec

-----------------------------------------------------------------------------
(***************************************************************************)
(* The settings: bytes and their bits.                                     *)
(***************************************************************************)
Weights == {1, 2, 4, 8, 16, 32, 64, 128}

Byte(f) ==
  Weigh(f[1], 1) + Weigh(f[2], 2) + Weigh(f[4], 4) + Weigh(f[8], 8) + Weigh(f[16], 16)
    + Weigh(f[32], 32) + Weigh(f[64], 64) + Weigh(f[128], 128)

(* A byte put together from eight bits is a byte and has those bits.       *)
LEMMA BitsOfByte ==
  ASSUME NEW f \in [Weights -> BOOLEAN]
  PROVE  Byte(f) \in Bytes /\ \A w \in Weights : HasBit(Byte(f), w) <=> f[w]
<1>1. PICK s : s = Byte(f)
  OBVIOUS
<1>2. /\ s \in Bytes
      /\ HasBit(s, 1) <=> f[1]
      /\ HasBit(s, 2) <=> f[2]
      /\ HasBit(s, 4) <=> f[4]
      /\ HasBit(s, 8) <=> f[8]
      /\ HasBit(s, 16) <=> f[16]
      /\ HasBit(s, 32) <=> f[32]
      /\ HasBit(s, 64) <=> f[64]
      /\ HasBit(s, 128) <=> f[128]
  BY <1>1 DEF Byte, Weigh, HasBit, Bytes, Weights
<1> QED
  BY <1>1, <1>2 DEF Weights

BitsOf(v) == [w \in Weights |-> HasBit(v, w)]

(* A byte is put together from its own bits.                               *)
LEMMA ByteOfBits ==
  ASSUME NEW v \in Bytes
  PROVE  v = Byte(BitsOf(v))
<1>1. v = Weigh(HasBit(v, 1), 1) + Weigh(HasBit(v, 2), 2) + Weigh(HasBit(v, 4), 4)
            + Weigh(HasBit(v, 8), 8) + Weigh(HasBit(v, 16), 16) + Weigh(HasBit(v, 32), 32)
            + Weigh(HasBit(v, 64), 64) + Weigh(HasBit(v, 128), 128)
  BY DEF Weigh, HasBit, Bytes
<1>2. \A w \in Weights : Weigh(BitsOf(v)[w], w) = Weigh(HasBit(v, w), w)
  BY DEF BitsOf, Weigh
<1>3. Byte(BitsOf(v)) = Weigh(HasBit(v, 1), 1) + Weigh(HasBit(v, 2), 2) + Weigh(HasBit(v, 4), 4)
            + Weigh(HasBit(v, 8), 8) + Weigh(HasBit(v, 16), 16) + Weigh(HasBit(v, 32), 32)
            + Weigh(HasBit(v, 64), 64) + Weigh(HasBit(v, 128), 128)
  BY <1>2 DEF Byte, Weights
<1> QED
  BY <1>1, <1>3

(* The operator & of the driver: a byte with the bits both sides have.     *)
LEMMA AndBits ==
  ASSUME NEW v, NEW u
  PROVE  /\ v & u \in Bytes
         /\ \A w \in Weights : HasBit(v & u, w) <=> HasBit(v, w) /\ HasBit(u, w)
<1> DEFINE f == [w \in Weights |-> HasBit(v, w) /\ HasBit(u, w)]
<1>1. v & u = Byte(f)
  BY DEF &, Byte, Weights
<1>2. f \in [Weights -> BOOLEAN]
  OBVIOUS
<1>3. Byte(f) \in Bytes /\ \A w \in Weights : HasBit(Byte(f), w) <=> f[w]
  BY <1>2, BitsOfByte
<1> QED
  BY <1>1, <1>3

(* The operator | of the driver: a byte with the bits either side has.     *)
LEMMA OrBits ==
  ASSUME NEW v, NEW u
  PROVE  /\ v | u \in Bytes
         /\ \A w \in Weights : HasBit(v | u, w) <=> HasBit(v, w) \/ HasBit(u, w)
<1> DEFINE f == [w \in Weights |-> HasBit(v, w) \/ HasBit(u, w)]
<1>1. v | u = Byte(f)
  BY DEF |, Byte, Weights
<1>2. f \in [Weights -> BOOLEAN]
  OBVIOUS
<1>3. Byte(f) \in Bytes /\ \A w \in Weights : HasBit(Byte(f), w) <=> f[w]
  BY <1>2, BitsOfByte
<1> QED
  BY <1>1, <1>3

(* One bit of &.                                                           *)
LEMMA AndBit ==
  ASSUME NEW v, NEW u, NEW w \in Weights
  PROVE  HasBit(v & u, w) <=> HasBit(v, w) /\ HasBit(u, w)
BY AndBits

(* One bit of |.                                                           *)
LEMMA OrBit ==
  ASSUME NEW v, NEW u, NEW w \in Weights
  PROVE  HasBit(v | u, w) <=> HasBit(v, w) \/ HasBit(u, w)
BY OrBits

(* Taking the bits of a mask out of a byte leaves the others.              *)
LEMMA WithoutBits ==
  ASSUME NEW v \in Bytes, NEW u
  PROVE  /\ Without(v, u) \in Bytes
         /\ \A w \in Weights : HasBit(Without(v, u), w) <=> HasBit(v, w) /\ ~HasBit(u, w)
<1> DEFINE f == [w \in Weights |-> HasBit(v, w) /\ ~HasBit(u, w)]
           g == [w \in Weights |-> HasBit(v, w) /\ HasBit(u, w)]
<1>1. v = Byte(BitsOf(v))
  BY ByteOfBits
<1>2. v & u = Byte(g)
  BY DEF &, Byte, Weights
<1>3. Byte(BitsOf(v)) - Byte(g) = Byte(f)
  <2>1. \A w \in Weights :
          /\ Weigh(BitsOf(v)[w], w) \in Int /\ Weigh(g[w], w) \in Int
          /\ Weigh(f[w], w) = Weigh(BitsOf(v)[w], w) - Weigh(g[w], w)
    <3> SUFFICES ASSUME NEW w \in Weights
                 PROVE  /\ Weigh(BitsOf(v)[w], w) \in Int /\ Weigh(g[w], w) \in Int
                        /\ Weigh(f[w], w) = Weigh(BitsOf(v)[w], w) - Weigh(g[w], w)
      OBVIOUS
    <3>1. Weigh(BitsOf(v)[w], w) = Weigh(HasBit(v, w), w)
      BY DEF BitsOf, Weigh
    <3>2. Weigh(g[w], w) = Weigh(HasBit(v, w) /\ HasBit(u, w), w)
      BY DEF Weigh
    <3>3. Weigh(f[w], w) = Weigh(HasBit(v, w) /\ ~HasBit(u, w), w)
      BY DEF Weigh
    <3>4. w \in Int
      BY DEF Weights
    <3> QED
      BY <3>1, <3>2, <3>3, <3>4 DEF Weigh
  <2> HIDE DEF f, g
  <2> QED
    BY <2>1 DEF Byte, Weights
<1>4. f \in [Weights -> BOOLEAN]
  OBVIOUS
<1>5. Byte(f) \in Bytes /\ \A w \in Weights : HasBit(Byte(f), w) <=> f[w]
  BY <1>4, BitsOfByte
<1>6. Without(v, u) = Byte(f)
  BY <1>1, <1>2, <1>3 DEF Without
<1> QED
  BY <1>5, <1>6

(* Bytes with the same bits are the same.                                  *)
LEMMA SameBits ==
  ASSUME NEW v \in Bytes, NEW u \in Bytes, \A w \in Weights : HasBit(v, w) <=> HasBit(u, w)
  PROVE  v = u
<1>1. v = Byte(BitsOf(v)) /\ u = Byte(BitsOf(u))
  BY ByteOfBits
<1>2. \A w \in Weights : Weigh(BitsOf(v)[w], w) = Weigh(BitsOf(u)[w], w)
  BY DEF BitsOf, Weigh
<1>3. Byte(BitsOf(v)) = Byte(BitsOf(u))
  BY <1>2 DEF Byte, Weights
<1> QED
  BY <1>1, <1>3

(* A set of naturals that holds 0, and with each number the next one, holds *)
(* all of them.                                                            *)
LEMMA AllNaturals ==
  ASSUME NEW T \in SUBSET Nat, 0 \in T, \A n \in T : n + 1 \in T
  PROVE  T = Nat
<1> DEFINE R == OpToRel(<, Nat)
           U == Nat \ T
<1>1. SUFFICES ASSUME U # {} PROVE FALSE
  OBVIOUS
<1>2. IsWellFoundedOn(R, Nat)
  BY NatLessThanWellFounded
<1>3. PICK x \in U : \A y \in U : ~ (<<y, x>> \in R)
  <2> HIDE DEF R
  <2> QED
    BY <1>1, <1>2, WFMin, Zenon
<1>4. x \in Nat /\ x # 0 /\ x - 1 \in Nat /\ x - 1 \notin T
  OBVIOUS
<1>5. <<x - 1, x>> \in R
  BY <1>4 DEF OpToRel
<1> QED
  BY <1>3, <1>4, <1>5

(* A row of values, each one step after the one before: what a definition  *)
(* by recursion along a sequence computes.                                 *)
Row(f, X, m, first, step) ==
  /\ f \in [0 .. m -> X]
  /\ f[0] = first
  /\ \A n \in 1 .. m : f[n] = step[n][f[n - 1]]

(* There is such a row.                                                    *)
LEMMA RowExists ==
  ASSUME NEW X, NEW first \in X, NEW m \in Nat, NEW step \in [1 .. m -> [X -> X]]
  PROVE  \E f : Row(f, X, m, first, step)
<1> DEFINE Upto(f, n) == /\ f \in [0 .. n -> X]
                         /\ f[0] = first
                         /\ \A k \in 1 .. n : f[k] = step[k][f[k - 1]]
           T == {n \in Nat : n <= m => \E f : Upto(f, n)}
<1>1. 0 \in T
  <2> DEFINE g == [k \in 0 .. 0 |-> first]
  <2>1. g \in [0 .. 0 -> X] /\ g[0] = first
    OBVIOUS
  <2>2. ASSUME NEW k \in 1 .. 0 PROVE g[k] = step[k][g[k - 1]]
    <3>1. k \in Int /\ 1 <= k /\ k <= 0
      BY <2>2
    <3> QED
      BY <3>1
  <2>3. Upto(g, 0)
    BY <2>1, <2>2, Zenon
  <2> HIDE DEF g, Upto
  <2> QED
    BY <2>3
<1>2. ASSUME NEW n \in T PROVE n + 1 \in T
  <2>1. SUFFICES ASSUME n + 1 <= m PROVE \E f : Upto(f, n + 1)
    <3> HIDE DEF Upto
    <3> QED
      OBVIOUS
  <2>2. n \in Nat /\ n <= m
    BY <2>1
  <2>3. PICK f : Upto(f, n)
    <3> HIDE DEF Upto
    <3> QED
      BY <1>2, <2>2
  <2> DEFINE w == step[n + 1][f[n]]
             g == [k \in 0 .. n + 1 |-> IF k = n + 1 THEN w ELSE f[k]]
  <2>4. w \in X
    <3>1. n + 1 \in 1 .. m /\ f[n] \in X
      BY <2>1, <2>2, <2>3
    <3>2. step[n + 1] \in [X -> X]
      BY <3>1
    <3> QED
      BY <3>1, <3>2
  <2>5. ASSUME NEW k \in 0 .. n PROVE g[k] = f[k]
    BY <2>2
  <2>6. g[n + 1] = w
    BY <2>2
  <2>7. g \in [0 .. n + 1 -> X]
    <3> HIDE DEF w
    <3> QED
      BY <2>2, <2>3, <2>4
  <2> HIDE DEF g
  <2>8. ASSUME NEW k \in 1 .. n + 1 PROVE g[k] = step[k][g[k - 1]]
    <3>1. CASE k = n + 1
      <4>1. g[k - 1] = f[n]
        BY <2>2, <2>5, <3>1
      <4> QED
        BY <2>6, <3>1, <4>1
    <3>2. CASE k \in 1 .. n
      <4>1. g[k] = f[k] /\ g[k - 1] = f[k - 1]
        BY <2>2, <2>5, <3>2
      <4> QED
        BY <2>3, <3>2, <4>1
    <3> QED
      BY <2>2, <3>1, <3>2
  <2>9. g[0] = first
    BY <2>2, <2>3, <2>5
  <2>10. Upto(g, n + 1)
    BY <2>7, <2>8, <2>9, Zenon
  <2> HIDE DEF Upto
  <2> QED
    BY <2>10
<1>3. T = Nat
  <2> HIDE DEF T
  <2>1. T \in SUBSET Nat
    BY DEF T
  <2> QED
    BY <1>1, <1>2, <2>1, AllNaturals
<1>4. PICK f : Upto(f, m)
  <2> HIDE DEF Upto
  <2>1. m \in T
    BY <1>3
  <2> QED
    BY <2>1
<1> QED
  BY <1>4, Zenon DEF Row

(* There is no other: whatever obeys the recursion is the row.             *)
LEMMA RowsAgree ==
  ASSUME NEW X, NEW first \in X, NEW m \in Nat,
         NEW step \in [1 .. m -> [X -> X]], NEW f, Row(f, X, m, first, step),
         NEW c, c[0] = first, \A n \in 1 .. m : c[n] = step[n][c[n - 1]]
  PROVE  \A n \in 0 .. m : c[n] = f[n] /\ c[n] \in X
<1> DEFINE T == {n \in Nat : n <= m => c[n] = f[n]}
<1>1. 0 \in T
  BY DEF Row
<1>2. ASSUME NEW n \in T PROVE n + 1 \in T
  <2>1. SUFFICES ASSUME n + 1 <= m PROVE c[n + 1] = f[n + 1]
    OBVIOUS
  <2>2. n + 1 \in 1 .. m /\ (n + 1) - 1 = n /\ c[n] = f[n]
    BY <1>2, <2>1
  <2>3. c[n + 1] = step[n + 1][c[n]]
    BY <2>2
  <2>4. f[n + 1] = step[n + 1][f[n]]
    BY <2>2 DEF Row
  <2> QED
    BY <2>2, <2>3, <2>4
<1>3. T = Nat
  <2>1. T \in SUBSET Nat
    BY DEF T
  <2> HIDE DEF T
  <2> QED
    BY <1>1, <1>2, <2>1, AllNaturals
<1>4. ASSUME NEW n \in 0 .. m PROVE c[n] = f[n] /\ c[n] \in X
  <2>1. n \in Nat /\ n <= m
    OBVIOUS
  <2>2. n \in T
    <3> HIDE DEF T
    <3> QED
      BY <1>3, <2>1
  <2>3. f[n] \in X
    BY DEF Row
  <2> QED
    BY <2>1, <2>2, <2>3
<1> QED
  BY <1>4

-----------------------------------------------------------------------------
(* The registers.                                                          *)

Chips == [bank : {0, 1}, reg : [{0, 1} -> [Bytes -> Bytes]]]

(* One write: to the bank register, or to one other register.              *)
LEMMA WriteType ==
  ASSUME NEW c \in Chips, NEW a \in Bytes, NEW v \in Bytes
  PROVE  WriteReg(c, a, v) \in Chips
<1>1. BankOf(c, a) \in {0, 1}
  BY DEF BankOf, Chips
<1>2. v % 2 \in {0, 1}
  BY DEF Bytes
<1> QED
  BY <1>1, <1>2 DEF WriteReg, Chips

(* A write to the bank register selects the bank and nothing else.         *)
LEMMA WriteToBank ==
  ASSUME NEW c \in Chips, NEW v \in {0, 1}
  PROVE  /\ WriteReg(c, Irq.BANK, v).bank = v
         /\ WriteReg(c, Irq.BANK, v).reg = c.reg
<1>1. v % 2 = v
  OBVIOUS
<1> QED
  BY <1>1 DEF WriteReg, Chips

(* Any other write changes one register, in the bank it means.             *)
LEMMA WriteToReg ==
  ASSUME NEW c \in Chips, NEW a \in Bytes, NEW v \in Bytes, a # Irq.BANK
  PROVE  /\ WriteReg(c, a, v).bank = c.bank
         /\ \A b \in {0, 1}, x \in Bytes :
              WriteReg(c, a, v).reg[b][x]
                = IF b = BankOf(c, a) /\ x = a THEN v ELSE c.reg[b][x]
<1>1. BankOf(c, a) \in {0, 1}
  BY DEF BankOf, Chips
<1> QED
  BY <1>1 DEF WriteReg, Chips

(* A read gives a byte.                                                    *)
LEMMA ReadType ==
  ASSUME NEW c \in Chips, NEW a \in Bytes
  PROVE  ReadReg(c, a) \in Bytes
BY DEF ReadReg, BankOf, Chips

(* A run of writes is one after the other.                                 *)
Written == Bytes \X Bytes

(* The recursion of Writes has a value: the chips after each write.        *)
LEMMA WritesDef ==
  ASSUME NEW c \in Chips, NEW s \in Seq(Written)
  PROVE  \E f \in [0 .. Len(s) -> Chips] :
           /\ f[0] = c
           /\ \A n \in 1 .. Len(s) : f[n] = WriteReg(f[n - 1], s[n][1], s[n][2])
           /\ Writes(c, s) = f[Len(s)]
<1> DEFINE m == Len(s)
           step == [n \in 1 .. m |-> [d \in Chips |-> WriteReg(d, s[n][1], s[n][2])]]
           D(g) == [n \in 0 .. m |-> IF n = 0 THEN c
                                     ELSE WriteReg(g[n - 1], s[n][1], s[n][2])]
           e == CHOOSE g : g = D(g)
<1>1. m \in Nat /\ \A n \in 1 .. m : s[n] \in Written
  OBVIOUS
<1>2. step \in [1 .. m -> [Chips -> Chips]]
  <2>1. ASSUME NEW n \in 1 .. m, NEW d \in Chips PROVE WriteReg(d, s[n][1], s[n][2]) \in Chips
    <3>1. s[n][1] \in Bytes /\ s[n][2] \in Bytes
      BY <1>1 DEF Written
    <3> QED
      BY <3>1, WriteType
  <2>2. \A n \in 1 .. m : step[n] \in [Chips -> Chips]
    BY <2>1
  <2> QED
    BY <2>2
<1>3. \A n \in 1 .. m, d \in Chips : step[n][d] = WriteReg(d, s[n][1], s[n][2])
  OBVIOUS
<1> HIDE DEF step
<1>4. PICK f : Row(f, Chips, m, c, step)
  BY <1>1, <1>2, RowExists
<1>5. f = D(f)
  <2>1. ASSUME NEW n \in 0 .. m PROVE f[n] = D(f)[n]
    <3>1. CASE n = 0
      BY <3>1, <1>4 DEF Row
    <3>2. CASE n # 0
      <4>1. n \in 1 .. m /\ n - 1 \in 0 .. m
        BY <1>1, <3>2
      <4>2. f[n - 1] \in Chips /\ f[n] = step[n][f[n - 1]]
        BY <1>4, <4>1 DEF Row
      <4>3. f[n] = WriteReg(f[n - 1], s[n][1], s[n][2])
        BY <1>3, <4>1, <4>2
      <4> QED
        BY <3>2, <4>3
    <3> QED
      BY <3>1, <3>2
  <2>2. f = [n \in 0 .. m |-> f[n]]
    BY <1>4 DEF Row
  <2> QED
    BY <2>1, <2>2
<1>6. e = D(e)
  <2> HIDE DEF D
  <2> QED
    BY <1>5, Zenon
<1>7. Writes(c, s) = e[m]
  BY DEF Writes
<1> HIDE DEF e
<1>8. \A n \in 1 .. m : e[n] = WriteReg(e[n - 1], s[n][1], s[n][2])
  <2> TAKE n \in 1 .. m
  <2>1. n \in 0 .. m /\ n # 0
    BY <1>1
  <2>2. D(e)[n] = WriteReg(e[n - 1], s[n][1], s[n][2])
    BY <2>1
  <2> HIDE DEF D
  <2> QED
    BY <1>6, <2>2
<1>9. e[0] = c
  <2>1. D(e)[0] = c
    BY <1>1
  <2> HIDE DEF D
  <2> QED
    BY <1>6, <2>1
<1>10. \A n \in 0 .. m : e[n] \in Chips
  <2> DEFINE T == {n \in Nat : n <= m => e[n] \in Chips}
  <2>1. 0 \in T
    BY <1>9
  <2>2. ASSUME NEW n \in T PROVE n + 1 \in T
    <3>1. SUFFICES ASSUME n + 1 <= m PROVE e[n + 1] \in Chips
      OBVIOUS
    <3>2. e[n] \in Chips /\ n + 1 \in 1 .. m /\ (n + 1) - 1 = n
      BY <1>1, <2>2, <3>1
    <3>3. s[n + 1][1] \in Bytes /\ s[n + 1][2] \in Bytes
      BY <1>1, <3>2 DEF Written
    <3> QED
      BY <1>8, <3>2, <3>3, WriteType
  <2>3. T = Nat
    <3> HIDE DEF T
    <3>1. T \in SUBSET Nat
      BY DEF T
    <3> QED
      BY <2>1, <2>2, <3>1, AllNaturals
  <2> QED
    BY <1>1, <2>3
<1>11. e \in [0 .. m -> Chips]
  <2>1. e = [n \in 0 .. m |-> e[n]]
    <3>1. D(e) = [n \in 0 .. m |-> D(e)[n]]
      OBVIOUS
    <3> HIDE DEF D
    <3> QED
      BY <1>6, <3>1
  <2> QED
    BY <1>10, <2>1
<1> QED
  BY <1>7, <1>8, <1>9, <1>11

OffBank == Bytes \ {Irq.BANK}

(* Selecting a bank leaves the registers alone.                            *)
LEMMA BankType ==
  ASSUME NEW c \in Chips, NEW b \in {0, 1}
  PROVE  Bank(c, b) \in Chips /\ Bank(c, b).bank = b /\ Bank(c, b).reg = c.reg
<1>1. b \in Bytes /\ Irq.BANK \in Bytes
  BY DEF Bytes, Irq
<1> QED
  BY <1>1, WriteType, WriteToBank DEF Bank

(* A run of writes that leaves the bank register alone changes only the    *)
(* registers it names, and leaves in each what it wrote there last.        *)
LEMMA WritesMeans ==
  ASSUME NEW c \in Chips, NEW s \in Seq(OffBank \X Bytes)
  PROVE  /\ Writes(c, s) \in Chips
         /\ Writes(c, s).bank = c.bank
         /\ \A b \in {0, 1}, x \in Bytes :
              (\A n \in 1 .. Len(s) : x # s[n][1] \/ b # BankOf(c, x))
                => Writes(c, s).reg[b][x] = c.reg[b][x]
         /\ \A n \in 1 .. Len(s) :
              (\A k \in 1 .. Len(s) : k > n => s[k][1] # s[n][1])
                => Writes(c, s).reg[BankOf(c, s[n][1])][s[n][1]] = s[n][2]
<1> DEFINE m == Len(s)
           Same(d, n) == \A b \in {0, 1}, x \in Bytes :
                           (\A i \in 1 .. n : x # s[i][1] \/ b # BankOf(c, x))
                             => d.reg[b][x] = c.reg[b][x]
           Last(d, n) == \A i \in 1 .. n :
                           (\A k \in 1 .. n : k > i => s[k][1] # s[i][1])
                             => d.reg[BankOf(c, s[i][1])][s[i][1]] = s[i][2]
           Good(d, n) == d \in Chips /\ d.bank = c.bank /\ Same(d, n) /\ Last(d, n)
<1>1. /\ s \in Seq(Written) /\ m \in Nat
      /\ \A n \in 1 .. m : s[n][1] \in OffBank /\ s[n][2] \in Bytes
  BY DEF Written, OffBank
<1>2. PICK f \in [0 .. m -> Chips] :
        /\ f[0] = c
        /\ \A n \in 1 .. m : f[n] = WriteReg(f[n - 1], s[n][1], s[n][2])
        /\ Writes(c, s) = f[m]
  BY <1>1, WritesDef
<1> HIDE DEF m
<1> DEFINE T == {n \in Nat : n <= m => Good(f[n], n)}
<1>3. 0 \in T
  <2>1. Same(f[0], 0) /\ Last(f[0], 0)
    BY <1>2
  <2> QED
    BY <1>2, <2>1
<1>4. ASSUME NEW n \in T PROVE n + 1 \in T
  <2> DEFINE a == s[n + 1][1]
             v == s[n + 1][2]
             d == f[n]
             e == WriteReg(d, a, v)
  <2>1. SUFFICES ASSUME n + 1 <= m PROVE Good(f[n + 1], n + 1)
    OBVIOUS
  <2>2. n + 1 \in 1 .. m /\ (n + 1) - 1 = n /\ Good(d, n) /\ n \in Nat
    BY <1>1, <1>4, <2>1
  <2>3. f[n + 1] = e /\ a \in Bytes /\ a # Irq.BANK /\ v \in Bytes
    BY <1>1, <1>2, <2>2 DEF OffBank
  <2>4. /\ e \in Chips /\ e.bank = d.bank
        /\ \A b \in {0, 1}, x \in Bytes :
             e.reg[b][x] = IF b = BankOf(d, a) /\ x = a THEN v ELSE d.reg[b][x]
    <3>1. d \in Chips
      BY <2>2
    <3>2. a \in Bytes /\ a # Irq.BANK /\ v \in Bytes
      BY <2>3
    <3> HIDE DEF a, v, d
    <3>3. e \in Chips
      BY <3>1, <3>2, WriteType
    <3>4. /\ e.bank = d.bank
          /\ \A b \in {0, 1}, x \in Bytes :
               e.reg[b][x] = IF b = BankOf(d, a) /\ x = a THEN v ELSE d.reg[b][x]
      BY <3>1, <3>2, WriteToReg
    <3> QED
      BY <3>3, <3>4
  <2>5. \A x : BankOf(d, x) = BankOf(c, x)
    BY <2>2 DEF BankOf
  <2>6. Same(e, n + 1)
    <3> SUFFICES ASSUME NEW b \in {0, 1}, NEW x \in Bytes,
                        \A i \in 1 .. n + 1 : x # s[i][1] \/ b # BankOf(c, x)
                 PROVE  e.reg[b][x] = c.reg[b][x]
      OBVIOUS
    <3>1. x # a \/ b # BankOf(c, x)
      BY <2>2
    <3>2. \A i \in 1 .. n : x # s[i][1] \/ b # BankOf(c, x)
      BY <2>2
    <3>3. d.reg[b][x] = c.reg[b][x]
      BY <2>2, <3>2
    <3>4. ~(b = BankOf(d, a) /\ x = a)
      <4> HIDE DEF a, d
      <4> QED
        BY <2>5, <3>1, Zenon
    <3> HIDE DEF e, a, d
    <3> QED
      BY <2>4, <3>3, <3>4
  <2>7. Last(e, n + 1)
    <3> SUFFICES ASSUME NEW i \in 1 .. n + 1,
                        \A k \in 1 .. n + 1 : k > i => s[k][1] # s[i][1]
                 PROVE  e.reg[BankOf(c, s[i][1])][s[i][1]] = s[i][2]
      OBVIOUS
    <3>1. /\ i \in 1 .. m /\ s[i][1] \in Bytes /\ BankOf(c, s[i][1]) \in {0, 1}
      BY <1>1, <2>2 DEF OffBank, BankOf, Chips
    <3>2. CASE i = n + 1
      <4>1. s[i][1] = a /\ s[i][2] = v
        BY <3>2
      <4> HIDE DEF e, a, v
      <4> QED
        BY <2>3, <2>4, <2>5, <3>1, <4>1
    <3>3. CASE i # n + 1
      <4>1. i \in 1 .. n /\ n + 1 \in 1 .. n + 1 /\ n + 1 > i
        BY <2>2, <3>3
      <4>2. s[i][1] # a
        BY <4>1
      <4>3. d.reg[BankOf(c, s[i][1])][s[i][1]] = s[i][2]
        <5>1. \A k \in 1 .. n : k > i => s[k][1] # s[i][1]
          BY <2>2
        <5> QED
          BY <2>2, <4>1, <5>1
      <4> HIDE DEF e, a, v, d
      <4> QED
        BY <2>4, <3>1, <4>2, <4>3
    <3> QED
      BY <3>2, <3>3
  <2> HIDE DEF e, d
  <2> QED
    BY <2>2, <2>3, <2>4, <2>6, <2>7
<1>5. T = Nat
  <2> HIDE DEF T
  <2>1. T \in SUBSET Nat
    BY DEF T
  <2> QED
    BY <1>3, <1>4, <2>1, AllNaturals
<1>6. Good(f[m], m)
  <2>1. m \in T
    BY <1>1, <1>5
  <2> QED
    BY <1>1, <2>1
<1> QED
  BY <1>2, <1>6 DEF m

(* The registers the properties are about: in bank 0 the colour bits, the *)
(* input mode, the converter and its matrix, and whether the infoframes    *)
(* are sent; in bank 1 the infoframes.                                     *)
Shown0 == {112, 114, 193, 205, 206} \cup 118 .. 135
Shown1 == 88 .. 101 \cup 104 .. 109

Free0(X) == (OffBank \ (Shown0 \ X)) \X Bytes
Free1(Y) == (OffBank \ (Shown1 \ Y)) \X Bytes

(* A chip that differs from another in shown registers of X and Y at most. *)
Keeps(c, d, X, Y) ==
  /\ d \in Chips
  /\ \A x \in Shown0 \ X : d.reg[0][x] = c.reg[0][x]
  /\ \A x \in Shown1 \ Y : d.reg[1][x] = c.reg[1][x]

(* What two calls keep, one after the other, is kept.                      *)
LEMMA KeepsTrans ==
  ASSUME NEW c, NEW d, NEW e, NEW X, NEW Y, Keeps(c, d, X, Y), Keeps(d, e, X, Y)
  PROVE  Keeps(c, e, X, Y)
BY DEF Keeps

(* A chip that keeps all that is shown keeps any part of it.               *)
LEMMA KeepsMore ==
  ASSUME NEW c, NEW d, NEW X, NEW Y, Keeps(c, d, {}, {})
  PROVE  Keeps(c, d, X, Y)
BY DEF Keeps

(* The registers shown are registers.                                      *)
LEMMA ShownAreBytes == Shown0 \subseteq Bytes /\ Shown1 \subseteq Bytes
BY DEF Shown0, Shown1, Bytes

(* Selecting a bank keeps all that is shown.                               *)
LEMMA BankKeeps ==
  ASSUME NEW c \in Chips, NEW b \in {0, 1}
  PROVE  Keeps(c, Bank(c, b), {}, {}) /\ Bank(c, b) \in Chips /\ Bank(c, b).bank = b
BY BankType DEF Keeps

(* A write to a register that is not shown in its bank keeps the rest.     *)
LEMMA WriteKeeps ==
  ASSUME NEW c \in Chips, NEW a \in OffBank, NEW v \in Bytes, NEW X, NEW Y,
         c.bank = 0 => a \notin Shown0 \ X, c.bank = 1 => a \notin Shown1 \ Y
  PROVE  /\ Keeps(c, WriteReg(c, a, v), X, Y)
         /\ WriteReg(c, a, v) \in Chips /\ WriteReg(c, a, v).bank = c.bank
         /\ WriteReg(c, a, v).reg[BankOf(c, a)][a] = v
<1>1. a \in Bytes /\ a # Irq.BANK /\ BankOf(c, a) \in {0, 1} /\ c.bank \in {0, 1}
  BY DEF OffBank, BankOf, Chips
<1>2. /\ WriteReg(c, a, v).bank = c.bank
      /\ \A b \in {0, 1}, x \in Bytes :
           WriteReg(c, a, v).reg[b][x]
             = IF b = BankOf(c, a) /\ x = a THEN v ELSE c.reg[b][x]
  BY <1>1, WriteToReg
<1>5. WriteReg(c, a, v) \in Chips
  BY <1>1, WriteType
<1>3. ASSUME NEW x \in Shown0 \ X PROVE WriteReg(c, a, v).reg[0][x] = c.reg[0][x]
  <2>1. x \in Bytes /\ ~(0 = BankOf(c, a) /\ x = a)
    BY <1>1 DEF BankOf, Shown0, Bytes
  <2> QED
    BY <1>2, <2>1
<1>4. ASSUME NEW x \in Shown1 \ Y PROVE WriteReg(c, a, v).reg[1][x] = c.reg[1][x]
  <2>1. x \in Bytes /\ ~(1 = BankOf(c, a) /\ x = a)
    BY <1>1 DEF BankOf, Shown1, Bytes
  <2> QED
    BY <1>2, <2>1
<1> QED
  BY <1>1, <1>2, <1>3, <1>4, <1>5 DEF Keeps

(* So does a read, modify and write.                                       *)
LEMMA SetRegKeeps ==
  ASSUME NEW c \in Chips, NEW a \in OffBank, NEW keep, NEW set0, NEW X, NEW Y,
         c.bank = 0 => a \notin Shown0 \ X, c.bank = 1 => a \notin Shown1 \ Y
  PROVE  /\ Keeps(c, SetReg(c, a, keep, set0), X, Y)
         /\ SetReg(c, a, keep, set0) \in Chips /\ SetReg(c, a, keep, set0).bank = c.bank
         /\ SetReg(c, a, keep, set0).reg[BankOf(c, a)][a] = (ReadReg(c, a) & keep) | set0
<1>1. (ReadReg(c, a) & keep) | set0 \in Bytes
  BY OrBits
<1> QED
  BY <1>1, WriteKeeps DEF SetReg

(* So does a run of writes.                                                *)
LEMMA WritesKeep ==
  ASSUME NEW c \in Chips, NEW s, NEW X, NEW Y,
         c.bank = 0 => s \in Seq(Free0(X)),
         c.bank = 1 => s \in Seq(Free1(Y))
  PROVE  /\ Keeps(c, Writes(c, s), X, Y)
         /\ Writes(c, s) \in Chips /\ Writes(c, s).bank = c.bank
<1>1. c.bank \in {0, 1}
  BY DEF Chips
<1>2. /\ s \in Seq(OffBank \X Bytes) /\ Len(s) \in Nat
      /\ c.bank = 0 => \A n \in 1 .. Len(s) : s[n][1] \notin Shown0 \ X
      /\ c.bank = 1 => \A n \in 1 .. Len(s) : s[n][1] \notin Shown1 \ Y
  BY <1>1 DEF Free0, Free1
<1>3. /\ Writes(c, s) \in Chips
      /\ Writes(c, s).bank = c.bank
      /\ \A b \in {0, 1}, x \in Bytes :
           (\A n \in 1 .. Len(s) : x # s[n][1] \/ b # BankOf(c, x))
             => Writes(c, s).reg[b][x] = c.reg[b][x]
  BY <1>2, WritesMeans
<1>4. ASSUME NEW x \in Shown0 \ X PROVE Writes(c, s).reg[0][x] = c.reg[0][x]
  <2>1. x \in Bytes /\ BankOf(c, x) = c.bank
    BY DEF Shown0, Bytes, BankOf
  <2>2. \A n \in 1 .. Len(s) : x # s[n][1] \/ 0 # BankOf(c, x)
    BY <1>2, <2>1
  <2> QED
    BY <1>3, <2>1, <2>2
<1>5. ASSUME NEW x \in Shown1 \ Y PROVE Writes(c, s).reg[1][x] = c.reg[1][x]
  <2>1. x \in Bytes /\ BankOf(c, x) = c.bank
    BY DEF Shown1, Bytes, BankOf
  <2>2. \A n \in 1 .. Len(s) : x # s[n][1] \/ 1 # BankOf(c, x)
    BY <1>2, <2>1
  <2> QED
    BY <1>3, <2>1, <2>2
<1> QED
  BY <1>3, <1>4, <1>5 DEF Keeps

(* Between the calls bank 0 is selected.                                   *)
Tame(c) == c \in Chips /\ c.bank = 0

(* A function that ends by selecting bank 0 leaves it selected.            *)
LEMMA BankIsTame ==
  ASSUME NEW c \in Chips
  PROVE  Tame(Bank(c, 0)) /\ Bank(c, 0).reg = c.reg
BY BankType DEF Tame

(* Between the calls a read is of bank 0.                                  *)
LEMMA ReadTame ==
  ASSUME NEW c, Tame(c), NEW a \in Bytes
  PROVE  ReadReg(c, a) = c.reg[0][a] /\ ReadReg(c, a) \in Bytes
<1>1. BankOf(c, a) = 0
  BY DEF BankOf, Tame
<1> QED
  BY <1>1, ReadType DEF ReadReg, Tame

(* Between the calls a write is to bank 0.                                 *)
LEMMA WriteTame ==
  ASSUME NEW c, Tame(c), NEW a \in OffBank, NEW v \in Bytes, NEW X, NEW Y,
         a \notin Shown0 \ X
  PROVE  /\ Keeps(c, WriteReg(c, a, v), X, Y) /\ Tame(WriteReg(c, a, v))
         /\ WriteReg(c, a, v).reg[0][a] = v
<1>1. c \in Chips /\ c.bank = 0 /\ BankOf(c, a) = 0
  BY DEF BankOf, Tame
<1>2. /\ Keeps(c, WriteReg(c, a, v), X, Y)
      /\ WriteReg(c, a, v) \in Chips /\ WriteReg(c, a, v).bank = c.bank
      /\ WriteReg(c, a, v).reg[BankOf(c, a)][a] = v
  BY <1>1, WriteKeeps
<1> QED
  BY <1>1, <1>2 DEF Tame

(* Between the calls a read, modify and write is of bank 0.                *)
LEMMA SetRegTame ==
  ASSUME NEW c, Tame(c), NEW a \in OffBank, NEW keep, NEW set0, NEW X, NEW Y,
         a \notin Shown0 \ X
  PROVE  /\ Keeps(c, SetReg(c, a, keep, set0), X, Y) /\ Tame(SetReg(c, a, keep, set0))
         /\ SetReg(c, a, keep, set0).reg[0][a] = (c.reg[0][a] & keep) | set0
<1>1. (ReadReg(c, a) & keep) | set0 \in Bytes
  BY OrBits
<1>2. ReadReg(c, a) = c.reg[0][a]
  BY ReadTame DEF OffBank
<1> QED
  BY <1>1, <1>2, WriteTame DEF SetReg

(* Between the calls a run of writes is to bank 0.                         *)
LEMMA WritesTame ==
  ASSUME NEW c, Tame(c), NEW X, NEW Y, NEW s \in Seq(Free0(X))
  PROVE  Keeps(c, Writes(c, s), X, Y) /\ Tame(Writes(c, s))
<1>1. c \in Chips /\ c.bank = 0
  BY DEF Tame
<1>2. /\ Keeps(c, Writes(c, s), X, Y)
      /\ Writes(c, s) \in Chips /\ Writes(c, s).bank = c.bank
  <2>1. (c.bank = 0 => s \in Seq(Free0(X))) /\ (c.bank = 1 => s \in Seq(Free1(Y)))
    BY <1>1
  <2> QED
    BY <1>1, <2>1, WritesKeep
<1> QED
  BY <1>1, <1>2 DEF Tame

(* The two parts of an entry of a list of pairs.                           *)
LEMMA Entries ==
  ASSUME NEW S, NEW T, NEW s \in Seq(S \X T), NEW n \in 1 .. Len(s)
  PROVE  s[n][1] \in S /\ s[n][2] \in T
OBVIOUS

(* A register of the selected bank holds what was written to it last.      *)
LEMMA WritesFirst ==
  ASSUME NEW c \in Chips, NEW s \in Seq(OffBank \X Bytes), NEW n \in 1 .. Len(s),
         \A k \in 1 .. Len(s) : k > n => s[k][1] # s[n][1], s[n][1] >= 48
  PROVE  Writes(c, s).reg[c.bank][s[n][1]] = s[n][2]
<1>1. s[n][1] \in OffBank
  BY Entries
<1>2. \A a \in OffBank : a >= 48 => BankOf(c, a) = c.bank
  BY DEF BankOf, OffBank, Bytes
<1>3. BankOf(c, s[n][1]) = c.bank
  BY <1>1, <1>2, Zenon
<1>4. Writes(c, s).reg[BankOf(c, s[n][1])][s[n][1]] = s[n][2]
  BY WritesMeans
<1> QED
  BY <1>3, <1>4

(* Setting or clearing the mute bit leaves the colour depth bits alone.    *)
LEMMA DepthAndMuteApart ==
  ASSUME NEW v \in Bytes, NEW m \in {0, Hdmi.SETAVMUTE}
  PROVE  (Without(v, Hdmi.SETAVMUTE) | m) & Hdmi.DEPTH_MASK = v & Hdmi.DEPTH_MASK
<1> DEFINE w0 == Without(v, Hdmi.SETAVMUTE)
           r == w0 | m
<1>1. \A w \in Weights : /\ HasBit(Hdmi.SETAVMUTE, w) <=> w = 1
                         /\ HasBit(Hdmi.DEPTH_MASK, w) <=> w \in {16, 32, 64}
                         /\ HasBit(m, w) => w = 1
  BY DEF Hdmi, Weights, HasBit
<1>2. w0 \in Bytes /\ \A w \in Weights : HasBit(w0, w) <=> HasBit(v, w) /\ w # 1
  BY <1>1, WithoutBits
<1> HIDE DEF w0
<1>3. r \in Bytes /\ \A w \in Weights : HasBit(r, w) <=> HasBit(w0, w) \/ HasBit(m, w)
  BY OrBits
<1> HIDE DEF r
<1>4. /\ r & Hdmi.DEPTH_MASK \in Bytes /\ v & Hdmi.DEPTH_MASK \in Bytes
      /\ \A w \in Weights :
           /\ HasBit(r & Hdmi.DEPTH_MASK, w) <=> HasBit(r, w) /\ HasBit(Hdmi.DEPTH_MASK, w)
           /\ HasBit(v & Hdmi.DEPTH_MASK, w) <=> HasBit(v, w) /\ HasBit(Hdmi.DEPTH_MASK, w)
  BY AndBits
<1>5. \A w \in Weights : HasBit(r & Hdmi.DEPTH_MASK, w) <=> HasBit(v & Hdmi.DEPTH_MASK, w)
  <2> SUFFICES ASSUME NEW w \in Weights
               PROVE  HasBit(r & Hdmi.DEPTH_MASK, w) <=> HasBit(v & Hdmi.DEPTH_MASK, w)
    OBVIOUS
  <2>1. HasBit(Hdmi.DEPTH_MASK, w) => w # 1
    BY <1>1
  <2>2. w # 1 => (HasBit(r, w) <=> HasBit(v, w))
    BY <1>1, <1>2, <1>3, Zenon
  <2> QED
    BY <1>4, <2>1, <2>2, Zenon
<1>6. r & Hdmi.DEPTH_MASK = v & Hdmi.DEPTH_MASK
  BY <1>4, <1>5, SameBits
<1> QED
  BY <1>6 DEF r, w0

(* Replacing the depth bits gives the new depth bits.                      *)
LEMMA DepthIsKept ==
  ASSUME NEW v \in Bytes, NEW b \in {0, Hdmi.CD_24, Hdmi.CD_30, Hdmi.CD_36}
  PROVE  (Without(v, Hdmi.DEPTH_MASK) | b) & Hdmi.DEPTH_MASK = b
<1> DEFINE w0 == Without(v, Hdmi.DEPTH_MASK)
           r == w0 | b
<1>1. /\ b \in Bytes
      /\ \A w \in Weights : /\ HasBit(Hdmi.DEPTH_MASK, w) <=> w \in {16, 32, 64}
                            /\ HasBit(b, w) => w \in {16, 32, 64}
  BY DEF Hdmi, Weights, HasBit, Bytes
<1>2. w0 \in Bytes /\ \A w \in Weights : HasBit(w0, w) => w \notin {16, 32, 64}
  BY <1>1, WithoutBits
<1> HIDE DEF w0
<1>3. r \in Bytes /\ \A w \in Weights : HasBit(r, w) <=> HasBit(w0, w) \/ HasBit(b, w)
  BY OrBits
<1> HIDE DEF r
<1>4. /\ r & Hdmi.DEPTH_MASK \in Bytes
      /\ \A w \in Weights :
           HasBit(r & Hdmi.DEPTH_MASK, w) <=> HasBit(r, w) /\ HasBit(Hdmi.DEPTH_MASK, w)
  BY AndBits
<1>5. \A w \in Weights : HasBit(r & Hdmi.DEPTH_MASK, w) <=> HasBit(b, w)
  BY <1>1, <1>2, <1>3, <1>4, Zenon
<1>6. r & Hdmi.DEPTH_MASK = b
  BY <1>1, <1>4, <1>5, SameBits
<1> QED
  BY <1>6 DEF r, w0

(* SetAVMute changes the general control packet and not its colour depth.  *)
LEMMA SetAVMuteKeeps ==
  ASSUME NEW c, Tame(c), NEW mute \in BOOLEAN
  PROVE  /\ Keeps(c, SetAVMute(c, mute), {193}, {}) /\ Tame(SetAVMute(c, mute))
         /\ SetAVMute(c, mute).reg[0][193] & Hdmi.DEPTH_MASK
              = c.reg[0][193] & Hdmi.DEPTH_MASK
<1> DEFINE m == IF mute THEN Hdmi.SETAVMUTE ELSE 0
           c0 == Bank(c, 0)
           v == Without(ReadReg(c0, Hdmi.GCP), Hdmi.SETAVMUTE) | m
           s == <<<<Hdmi.GCP, v>>, <<Hdmi.PKT_GENERAL_CTRL, Hdmi.ENABLE_REPEAT>>>>
<1>1. Tame(c0) /\ c0.reg = c.reg
  BY BankIsTame DEF Tame
<1>2. SetAVMute(c, mute) = Writes(c0, s)
  BY DEF SetAVMute
<1> HIDE DEF c0
<1>3. ReadReg(c0, 193) = c.reg[0][193] /\ c.reg[0][193] \in Bytes
  <2>1. 193 \in Bytes
    BY DEF Bytes
  <2>2. ReadReg(c0, 193) = c0.reg[0][193] /\ ReadReg(c0, 193) \in Bytes
    BY <1>1, <2>1, ReadTame
  <2> QED
    BY <1>1, <2>2
<1>4. Hdmi.GCP = 193
  BY DEF Hdmi
<1>5. v \in Bytes /\ v & Hdmi.DEPTH_MASK = c.reg[0][193] & Hdmi.DEPTH_MASK
  BY <1>3, <1>4, OrBits, DepthAndMuteApart
<1> HIDE DEF v
<1>6. /\ s \in Seq(Free0({193})) /\ s \in Seq(OffBank \X Bytes)
      /\ Len(s) = 2 /\ s[1][1] = 193 /\ s[1][2] = v /\ s[2][1] = 198
  BY <1>5 DEF Free0, OffBank, Shown0, Bytes, Hdmi, Irq
<1> HIDE DEF s
<1>7. Keeps(c0, Writes(c0, s), {193}, {}) /\ Tame(Writes(c0, s))
  BY <1>1, <1>6, WritesTame
<1>8. Writes(c0, s).reg[c0.bank][s[1][1]] = s[1][2]
  <2>1. /\ 1 \in 1 .. Len(s) /\ s[1][1] >= 48
        /\ \A k \in 1 .. Len(s) : k > 1 => s[k][1] # s[1][1]
    BY <1>6
  <2>2. c0 \in Chips /\ s \in Seq(OffBank \X Bytes)
    BY <1>1, <1>6 DEF Tame
  <2> QED
    BY <2>1, <2>2, WritesFirst
<1>9. Writes(c0, s).reg[0][193] = v
  BY <1>1, <1>6, <1>8 DEF Tame
<1> QED
  BY <1>1, <1>2, <1>5, <1>7, <1>9 DEF Keeps

(* SetOutputColorDepthPhase puts the depth asked for there.                *)
LEMMA SetDepthKeeps ==
  ASSUME NEW c, Tame(c), NEW d
  PROVE  /\ Keeps(c, SetOutputColorDepthPhase(c, d), {193}, {})
         /\ Tame(SetOutputColorDepthPhase(c, d))
         /\ SetOutputColorDepthPhase(c, d).reg[0][193] & Hdmi.DEPTH_MASK = DepthBits(d)
<1> DEFINE c0 == Bank(c, 0)
           v == Without(ReadReg(c0, Hdmi.GCP), Hdmi.DEPTH_MASK) | DepthBits(d)
<1>1. Tame(c0) /\ c0.reg = c.reg
  BY BankIsTame DEF Tame
<1>2. SetOutputColorDepthPhase(c, d) = WriteReg(c0, Hdmi.GCP, v)
  BY DEF SetOutputColorDepthPhase
<1> HIDE DEF c0
<1>3. DepthBits(d) \in {0, Hdmi.CD_24, Hdmi.CD_30, Hdmi.CD_36}
  BY DEF DepthBits
<1>4. /\ Hdmi.GCP = 193 /\ 193 \in OffBank /\ 193 \in Bytes
      /\ 193 \notin Shown0 \ {193}
  BY DEF Hdmi, OffBank, Irq, Bytes
<1>5. v \in Bytes /\ v & Hdmi.DEPTH_MASK = DepthBits(d)
  BY <1>1, <1>3, <1>4, ReadTame, OrBits, DepthIsKept
<1> HIDE DEF v
<1>6. /\ Keeps(c0, WriteReg(c0, 193, v), {193}, {}) /\ Tame(WriteReg(c0, 193, v))
      /\ WriteReg(c0, 193, v).reg[0][193] = v
  BY <1>1, <1>4, <1>5, WriteTame
<1> QED
  BY <1>1, <1>2, <1>4, <1>5, <1>6 DEF Keeps

(* A mask finds nothing when no bit is in both.                            *)
LEMMA NoBits ==
  ASSUME NEW v, NEW m
  PROVE  v & m = 0 <=> \A w \in Weights : ~(HasBit(v, w) /\ HasBit(m, w))
<1>1. /\ v & m \in Bytes
      /\ \A w \in Weights : HasBit(v & m, w) <=> HasBit(v, w) /\ HasBit(m, w)
  BY AndBits
<1>2. 0 \in Bytes /\ \A w \in Weights : ~HasBit(0, w)
  BY DEF Bytes, HasBit, Weights
<1>3. ASSUME \A w \in Weights : ~(HasBit(v, w) /\ HasBit(m, w)) PROVE v & m = 0
  <2>1. \A w \in Weights : HasBit(v & m, w) <=> HasBit(0, w)
    BY <1>1, <1>2, <1>3
  <2> QED
    BY <1>1, <1>2, <2>1, SameBits
<1>4. ASSUME v & m = 0 PROVE \A w \in Weights : ~(HasBit(v, w) /\ HasBit(m, w))
  BY <1>1, <1>2, <1>4
<1> QED
  BY <1>3, <1>4

(* SetInputMode tells the chip RGB exactly when the input mode is neither  *)
(* YUV.                                                                    *)
LEMMA SetInputModeKeeps ==
  ASSUME NEW c, Tame(c), NEW mode, NEW sig
  PROVE  /\ Keeps(c, SetInputMode(c, mode, sig), {112}, {})
         /\ Tame(SetInputMode(c, mode, sig))
         /\ SetInputMode(c, mode, sig).reg[0][112] & Video.INCOLMOD = Video.IN_RGB
              <=> mode & F_MODE_CLRMOD_MASK \notin {F_MODE_YUV422, F_MODE_YUV444}
<1> DEFINE colour == mode & F_MODE_CLRMOD_MASK
           bit(t, b) == IF sig & t # 0 THEN b ELSE 0
           M == Video.INCOLMOD | Video.X656CLK | Video.SYNCEMB | Video.INDDR
                  | Video.PCLKDIV2
           code == CASE colour = F_MODE_YUV422 -> Video.IN_YUV422
                     [] colour = F_MODE_YUV444 -> Video.IN_YUV444
                     [] OTHER -> Video.IN_RGB
           b1 == bit(T_MODE_PCLKDIV2, Video.PCLKDIV2)
           b2 == bit(T_MODE_CCIR656, Video.X656CLK)
           b3 == bit(T_MODE_SYNCEMB, Video.SYNCEMB)
           b4 == bit(T_MODE_INDDR, Video.INDDR)
           new == code | b1 | b2 | b3 | b4
           r == (c.reg[0][112] & Without(255, M)) | new
<1>1. SetInputMode(c, mode, sig) = SetReg(c, 112, Without(255, M), new)
  BY DEF SetInputMode, Video
<1>2. \A w \in {64, 128} : /\ HasBit(Video.INCOLMOD, w)
                           /\ ~HasBit(b1, w) /\ ~HasBit(b2, w) /\ ~HasBit(b3, w)
                           /\ ~HasBit(b4, w)
  BY DEF HasBit, Video
<1>3. \A w \in Weights \ {64, 128} : ~HasBit(Video.INCOLMOD, w)
  BY DEF HasBit, Video, Weights
<1>4. (\A w \in {64, 128} : ~HasBit(code, w)) <=> colour \notin {F_MODE_YUV422, F_MODE_YUV444}
  BY DEF HasBit, Video, F_MODE_YUV422, F_MODE_YUV444
<1> HIDE DEF colour, code, b1, b2, b3, b4
<1>5. \A w \in Weights : HasBit(new, w) <=> HasBit(code, w) \/ HasBit(b1, w) \/ HasBit(b2, w)
                                              \/ HasBit(b3, w) \/ HasBit(b4, w)
  BY OrBit
<1>6. \A w \in Weights : HasBit(Video.INCOLMOD, w) => HasBit(M, w)
  BY OrBit
<1> HIDE DEF new, M
<1>7. \A w \in {64, 128} : ~HasBit(Without(255, M), w)
  <2>1. 255 \in Bytes /\ {64, 128} \subseteq Weights
    BY DEF Bytes, Weights
  <2> QED
    BY <1>2, <1>6, <2>1, WithoutBits
<1>8. \A w \in {64, 128} : HasBit(r, w) <=> HasBit(code, w)
  <2>1. {64, 128} \subseteq Weights
    BY DEF Weights
  <2>2. \A w \in Weights :
          HasBit(r, w) <=> (HasBit(c.reg[0][112], w) /\ HasBit(Without(255, M), w))
                             \/ HasBit(new, w)
    BY AndBit, OrBit
  <2> HIDE DEF r
  <2> QED
    BY <1>2, <1>5, <1>7, <2>1, <2>2
<1>9. r & Video.INCOLMOD = 0 <=> \A w \in {64, 128} : ~HasBit(r, w)
  <2>1. {64, 128} \subseteq Weights
    BY DEF Weights
  <2> HIDE DEF r
  <2> QED
    BY <1>2, <1>3, <2>1, NoBits
<1>10. /\ Keeps(c, SetReg(c, 112, Without(255, M), new), {112}, {})
       /\ Tame(SetReg(c, 112, Without(255, M), new))
       /\ SetReg(c, 112, Without(255, M), new).reg[0][112] = r
  <2>1. 112 \in OffBank /\ 112 \notin Shown0 \ {112}
    BY DEF OffBank, Irq, Bytes
  <2> QED
    BY <2>1, SetRegTame
<1>11. Video.IN_RGB = 0
  BY DEF Video
<1> HIDE DEF r
<1> QED
  BY <1>1, <1>4, <1>8, <1>9, <1>10, <1>11 DEF colour

(* The converter can be read back beside the filter bits.                  *)
LEMMA ConverterBits ==
  ASSUME NEW v, NEW in, NEW out, NEW mode, NEW csc \in {0, 2, 3}
  PROVE  ((v & Without(255, Video.CSC_SEL | Video.DNFREE_GO | Video.EN_DITHER
                              | Video.EN_UDFILTER))
          | (FilterOf(in, out, mode) | csc)) & Video.CSC_SEL = csc
<1> DEFINE M == Video.CSC_SEL | Video.DNFREE_GO | Video.EN_DITHER | Video.EN_UDFILTER
           r == (v & Without(255, M)) | (FilterOf(in, out, mode) | csc)
<1>1. /\ csc \in Bytes /\ 255 \in Bytes
      /\ \A w \in Weights : HasBit(Video.CSC_SEL, w) <=> w \in {1, 2}
      /\ \A w \in Weights : HasBit(csc, w) => w \in {1, 2}
  BY DEF Bytes, Video, HasBit, Weights
<1>2. \A w \in Weights : w \in {1, 2} => ~HasBit(FilterOf(in, out, mode), w)
  <2>1. \A w \in Weights : w \in {1, 2} =>
          ~HasBit(Video.EN_UDFILTER, w) /\ ~HasBit(Video.EN_DITHER, w)
            /\ ~HasBit(Video.DNFREE_GO, w) /\ ~HasBit(0, w)
    BY DEF Video, HasBit, Weights
  <2>2. \A w \in Weights : w \in {1, 2} => ~HasBit(Video.EN_DITHER | Video.DNFREE_GO, w)
    BY <2>1, OrBits
  <2> DEFINE p(a) == IF a THEN Video.EN_UDFILTER ELSE 0
             q(a) == IF a THEN Video.EN_DITHER | Video.DNFREE_GO ELSE 0
  <2>3. \A a, b \in BOOLEAN : \A w \in Weights : w \in {1, 2} => ~HasBit(p(a) | q(b), w)
    <3>1. \A a, b \in BOOLEAN : \A w \in Weights :
            w \in {1, 2} => ~HasBit(p(a), w) /\ ~HasBit(q(b), w)
      BY <2>1, <2>2
    <3> HIDE DEF p, q
    <3> QED
      BY <3>1, OrBits
  <2>4. \E a, b \in BOOLEAN : FilterOf(in, out, mode) = p(a) | q(b)
    <3> DEFINE a == /\ in # out /\ F_MODE_YUV422 \in {in, out}
                    /\ mode & F_MODE_EN_UDFILT # 0
               b == /\ in # out /\ <<in, out>> # <<F_MODE_YUV444, F_MODE_YUV422>>
                    /\ mode & F_MODE_EN_DITHER # 0
    <3>1. a \in BOOLEAN /\ b \in BOOLEAN
      OBVIOUS
    <3>2. FilterOf(in, out, mode) = p(a) | q(b)
      BY DEF FilterOf
    <3> HIDE DEF a, b, p, q
    <3> QED
      BY <3>1, <3>2
  <2> HIDE DEF p, q
  <2> QED
    BY <2>3, <2>4
<1>3. \A w \in Weights : HasBit(Video.CSC_SEL, w) => HasBit(M, w)
  BY OrBit
<1> HIDE DEF M
<1>4. \A w \in Weights : w \in {1, 2} => ~HasBit(Without(255, M), w)
  BY <1>1, <1>3, WithoutBits
<1>5. \A w \in Weights :
        HasBit(r, w) <=> (HasBit(v, w) /\ HasBit(Without(255, M), w))
                           \/ HasBit(FilterOf(in, out, mode), w) \/ HasBit(csc, w)
  BY AndBit, OrBit
<1> HIDE DEF r
<1>6. /\ r & Video.CSC_SEL \in Bytes
      /\ \A w \in Weights : HasBit(r & Video.CSC_SEL, w)
                              <=> HasBit(r, w) /\ HasBit(Video.CSC_SEL, w)
  BY AndBits
<1>7. ASSUME NEW w \in Weights PROVE HasBit(r & Video.CSC_SEL, w) <=> HasBit(csc, w)
  <2>1. CASE w \in {1, 2}
    BY <1>1, <1>2, <1>4, <1>5, <1>6, <2>1
  <2>2. CASE w \notin {1, 2}
    BY <1>1, <1>6, <2>2
  <2> QED
    BY <2>1, <2>2
<1>8. r & Video.CSC_SEL = csc
  <2>1. r & Video.CSC_SEL \in Bytes /\ csc \in Bytes
    BY <1>1, <1>6
  <2> QED
    BY <1>7, <2>1, SameBits
<1> QED
  BY <1>8 DEF r, M

(* A run of bytes written to consecutive registers of bank 0.              *)
LEMMA BurstTame ==
  ASSUME NEW c, Tame(c), NEW X, NEW Y, NEW a \in Nat, NEW l \in Seq(Bytes),
         \A k \in 1 .. Len(l) : a + k - 1 \in OffBank \ (Shown0 \ X)
  PROVE  Keeps(c, Writes(c, Burst(a, l)), X, Y) /\ Tame(Writes(c, Burst(a, l)))
<1>1. Len(l) \in Nat /\ \A k \in 1 .. Len(l) : l[k] \in Bytes
  OBVIOUS
<1>2. \A k \in 1 .. Len(l) : <<a + k - 1, l[k]>> \in Free0(X)
  BY <1>1 DEF Free0
<1>3. Burst(a, l) \in Seq(Free0(X))
  BY <1>1, <1>2 DEF Burst
<1> QED
  BY <1>3, WritesTame

(* Each of these registers holds its byte.                                 *)
LEMMA BurstLast ==
  ASSUME NEW c, Tame(c), NEW a \in Nat, a >= 48, NEW l \in Seq(Bytes),
         \A k \in 1 .. Len(l) : a + k - 1 \in OffBank
  PROVE  \A k \in 1 .. Len(l) : Writes(c, Burst(a, l)).reg[0][a + k - 1] = l[k]
<1> DEFINE s == Burst(a, l)
<1>1. Len(l) \in Nat /\ \A k \in 1 .. Len(l) : l[k] \in Bytes
  OBVIOUS
<1>2. /\ s \in Seq(OffBank \X Bytes) /\ Len(s) = Len(l)
      /\ \A k \in 1 .. Len(l) : s[k][1] = a + k - 1 /\ s[k][2] = l[k]
  <2>1. \A k \in 1 .. Len(l) : <<a + k - 1, l[k]>> \in OffBank \X Bytes
    BY <1>1
  <2> QED
    BY <1>1, <2>1 DEF Burst
<1> HIDE DEF s
<1>3. ASSUME NEW k \in 1 .. Len(l) PROVE Writes(c, s).reg[0][a + k - 1] = l[k]
  <2>1. k \in 1 .. Len(s) /\ s[k][1] >= 48
    BY <1>1, <1>2
  <2>2. \A j \in 1 .. Len(s) : j > k => s[j][1] # s[k][1]
    BY <1>1, <1>2
  <2>3. c \in Chips /\ c.bank = 0 /\ s \in Seq(OffBank \X Bytes)
    BY <1>2 DEF Tame
  <2>4. Writes(c, s).reg[c.bank][s[k][1]] = s[k][2]
    BY <2>1, <2>2, <2>3, WritesFirst
  <2> QED
    BY <1>2, <2>3, <2>4
<1> QED
  BY <1>3 DEF s

(* The matrices from RGB are eighteen bytes.                               *)
LEMMA RGB2YUVIsBytes ==
  ASSUME NEW a \in BOOLEAN, NEW b \in BOOLEAN
  PROVE  RGB2YUV(a, b) \in Seq(Bytes) /\ Len(RGB2YUV(a, b)) = 18
<1>1. RGB2YUV(TRUE, TRUE) \in Seq(Bytes) /\ Len(RGB2YUV(TRUE, TRUE)) = 18
  BY SMTT(30) DEF RGB2YUV, Bytes
<1>2. RGB2YUV(TRUE, FALSE) \in Seq(Bytes) /\ Len(RGB2YUV(TRUE, FALSE)) = 18
  BY SMTT(30) DEF RGB2YUV, Bytes
<1>3. RGB2YUV(FALSE, TRUE) \in Seq(Bytes) /\ Len(RGB2YUV(FALSE, TRUE)) = 18
  BY SMTT(30) DEF RGB2YUV, Bytes
<1>4. RGB2YUV(FALSE, FALSE) \in Seq(Bytes) /\ Len(RGB2YUV(FALSE, FALSE)) = 18
  BY SMTT(30) DEF RGB2YUV, Bytes
<1>5. (a = TRUE \/ a = FALSE) /\ (b = TRUE \/ b = FALSE)
  OBVIOUS
<1> QED
  BY <1>1, <1>2, <1>3, <1>4, <1>5

(* So are the matrices to RGB.                                             *)
LEMMA YUV2RGBIsBytes ==
  ASSUME NEW a \in BOOLEAN, NEW b \in BOOLEAN
  PROVE  YUV2RGB(a, b) \in Seq(Bytes) /\ Len(YUV2RGB(a, b)) = 18
<1>1. YUV2RGB(TRUE, TRUE) \in Seq(Bytes) /\ Len(YUV2RGB(TRUE, TRUE)) = 18
  BY SMTT(30) DEF YUV2RGB, Bytes
<1>2. YUV2RGB(TRUE, FALSE) \in Seq(Bytes) /\ Len(YUV2RGB(TRUE, FALSE)) = 18
  BY SMTT(30) DEF YUV2RGB, Bytes
<1>3. YUV2RGB(FALSE, TRUE) \in Seq(Bytes) /\ Len(YUV2RGB(FALSE, TRUE)) = 18
  BY SMTT(30) DEF YUV2RGB, Bytes
<1>4. YUV2RGB(FALSE, FALSE) \in Seq(Bytes) /\ Len(YUV2RGB(FALSE, FALSE)) = 18
  BY SMTT(30) DEF YUV2RGB, Bytes
<1>5. (a = TRUE \/ a = FALSE) /\ (b = TRUE \/ b = FALSE)
  OBVIOUS
<1> QED
  BY <1>1, <1>2, <1>3, <1>4, <1>5

(* The converter and its matrix are those of an input and an output mode.  *)
Converted(c, inMode, outMode) ==
  LET csc == CscOf(inMode & F_MODE_CLRMOD_MASK, outMode & F_MODE_CLRMOD_MASK)
      itu709 == inMode & F_MODE_ITU709 # 0
  IN /\ c.reg[0][114] & Video.CSC_SEL = csc
     /\ csc # Video.CSC_BYPASS =>
          \E limited \in BOOLEAN : \A k \in 1 .. 18 :
            c.reg[0][118 + k - 1] = IF csc = Video.CSC_RGB2YUV
                                    THEN RGB2YUV(itu709, limited)[k]
                                    ELSE YUV2RGB(itu709, limited)[k]

(* SetCSCScale selects the converter and the matrix of two colour modes.   *)
LEMMA SetCSCScaleKeeps ==
  ASSUME NEW c, Tame(c), NEW inMode, NEW outMode
  PROVE  /\ Keeps(c, SetCSCScale(c, inMode, outMode), {114} \cup 118 .. 135, {})
         /\ Tame(SetCSCScale(c, inMode, outMode))
         /\ SetCSCScale(c, inMode, outMode).reg[0][112] = c.reg[0][112]
         /\ Converted(SetCSCScale(c, inMode, outMode), inMode, outMode)
<1> DEFINE d == SetCSCScale(c, inMode, outMode)
           in == inMode & F_MODE_CLRMOD_MASK
           out == outMode & F_MODE_CLRMOD_MASK
           csc == CscOf(in, out)
           itu709 == inMode & F_MODE_ITU709 # 0
           limited == inMode & F_MODE_16_235 # 0
           matrix == IF csc = Video.CSC_RGB2YUV THEN RGB2YUV(itu709, limited)
                     ELSE YUV2RGB(itu709, limited)
           offset == IF limited THEN Offset_16_235 ELSE Offset_0_255
           yoff == 115
           mtx == 118
           c1 == Writes(c, Burst(yoff, offset))
           c2 == Writes(c1, Burst(mtx, matrix))
           scaled == IF csc = Video.CSC_BYPASS THEN c ELSE c2
           M == Without(255, Video.CSC_SEL | Video.DNFREE_GO | Video.EN_DITHER
                               | Video.EN_UDFILTER)
           X == {114} \cup 118 .. 135
<1>1. d = SetReg(scaled, 114, M, FilterOf(in, out, inMode) | csc)
  BY DEF SetCSCScale, Video
<1>2. csc \in {0, 2, 3}
  BY DEF CscOf, Video
<1>3. matrix \in Seq(Bytes) /\ Len(matrix) = 18
  <2>1. itu709 \in BOOLEAN /\ limited \in BOOLEAN
    OBVIOUS
  <2> HIDE DEF itu709, limited, csc
  <2> QED
    BY <2>1, RGB2YUVIsBytes, YUV2RGBIsBytes
<1>4. offset \in Seq(Bytes) /\ Len(offset) = 3
  <2> HIDE DEF limited
  <2>1. Offset_16_235 \in Seq(Bytes) /\ Len(Offset_16_235) = 3
    BY DEF Offset_16_235, Bytes
  <2>2. Offset_0_255 \in Seq(Bytes) /\ Len(Offset_0_255) = 3
    BY DEF Offset_0_255, Bytes
  <2> QED
    BY <2>1, <2>2
<1> HIDE DEF d, csc, matrix, offset
<1>5. Keeps(c, c1, X, {}) /\ Tame(c1)
  <2>1. \A k \in 1 .. Len(offset) : yoff + k - 1 \in OffBank \ (Shown0 \ X)
    BY <1>4 DEF OffBank, Bytes, Irq, Shown0
  <2>2. offset \in Seq(Bytes) /\ yoff \in Nat /\ yoff >= 48
    BY <1>4
  <2> HIDE DEF X, yoff
  <2> QED
    BY <2>1, <2>2, BurstTame
<1> HIDE DEF c1
<1>6. /\ Keeps(c1, c2, X, {}) /\ Tame(c2)
      /\ \A k \in 1 .. 18 : c2.reg[0][118 + k - 1] = matrix[k]
  <2>1. \A k \in 1 .. Len(matrix) : mtx + k - 1 \in OffBank \ (Shown0 \ X)
    BY <1>3 DEF OffBank, Bytes, Irq, Shown0
  <2>2. matrix \in Seq(Bytes) /\ mtx \in Nat /\ mtx >= 48 /\ Tame(c1)
    BY <1>3, <1>5
  <2> HIDE DEF X, mtx
  <2>3. Keeps(c1, c2, X, {}) /\ Tame(c2)
    BY <2>1, <2>2, BurstTame
  <2>4. \A k \in 1 .. Len(matrix) : c2.reg[0][mtx + k - 1] = matrix[k]
    BY <2>1, <2>2, BurstLast
  <2> QED
    BY <1>3, <2>3, <2>4 DEF mtx
<1> HIDE DEF c2
<1>7. Keeps(c, c2, X, {})
  <2> HIDE DEF X
  <2> QED
    BY <1>5, <1>6, KeepsTrans
<1>8. /\ Keeps(c, scaled, X, {}) /\ Tame(scaled)
      /\ csc # Video.CSC_BYPASS => \A k \in 1 .. 18 : scaled.reg[0][118 + k - 1] = matrix[k]
  <2>1. Keeps(c, c, X, {})
    BY DEF Keeps, Tame
  <2>2. CASE csc = Video.CSC_BYPASS
    BY <2>1, <2>2
  <2>3. CASE csc # Video.CSC_BYPASS
    BY <1>6, <1>7, <2>3
  <2> QED
    BY <2>2, <2>3
<1> HIDE DEF scaled
<1>9. /\ Keeps(scaled, d, {114}, {}) /\ Tame(d)
      /\ d.reg[0][114] = (scaled.reg[0][114] & M) | (FilterOf(in, out, inMode) | csc)
  <2>1. 114 \in OffBank /\ 114 \notin Shown0 \ {114}
    BY DEF OffBank, Irq, Bytes
  <2>2. Tame(scaled)
    BY <1>8
  <2> HIDE DEF M, in, out
  <2> QED
    BY <1>1, <2>1, <2>2, SetRegTame
<1>10. d.reg[0][114] & Video.CSC_SEL = csc
  BY <1>2, <1>9, ConverterBits
<1>11. Keeps(c, d, X, {}) /\ d.reg[0][112] = c.reg[0][112]
  BY <1>8, <1>9 DEF Keeps, Shown0
<1>12. ASSUME csc # Video.CSC_BYPASS, NEW k \in 1 .. 18
       PROVE  d.reg[0][118 + k - 1] = matrix[k]
  <2>1. 118 + k - 1 \in Shown0 \ {114}
    BY DEF Shown0
  <2> QED
    BY <1>8, <1>9, <1>12, <2>1 DEF Keeps
<1>13. limited \in BOOLEAN
  OBVIOUS
<1> HIDE DEF limited
<1>14. csc # Video.CSC_BYPASS =>
         \E l \in BOOLEAN : \A k \in 1 .. 18 :
           d.reg[0][118 + k - 1]
             = IF csc = Video.CSC_RGB2YUV THEN RGB2YUV(itu709, l)[k]
               ELSE YUV2RGB(itu709, l)[k]
  BY <1>12, <1>13 DEF matrix
<1>15. Converted(d, inMode, outMode)
  BY <1>10, <1>14 DEF Converted, csc
<1> QED
  BY <1>9, <1>11, <1>15 DEF d

(* What leaves the shown registers alone and bank 0 selected; and what     *)
(* leaves them alone while bank 1 is.                                      *)
Quiet(c, d) == Keeps(c, d, {}, {}) /\ Tame(d)
In1(c) == c \in Chips /\ c.bank = 1
Quiet1(c, d) == Keeps(c, d, {}, {}) /\ In1(d)

(* Two quiet calls are quiet.                                              *)
LEMMA QuietTrans ==
  ASSUME NEW c, NEW d, NEW e, Quiet(c, d), Quiet(d, e)
  PROVE  Quiet(c, e)
BY KeepsTrans DEF Quiet

(* A write to a register of bank 0 that is not shown is quiet.             *)
LEMMA QuietWrite ==
  ASSUME NEW c, Tame(c), NEW a \in OffBank \ Shown0, NEW v \in Bytes
  PROVE  Quiet(c, WriteReg(c, a, v))
<1>1. a \in OffBank /\ a \notin Shown0 \ {}
  OBVIOUS
<1> QED
  BY <1>1, WriteTame DEF Quiet

(* So is a read, modify and write of one.                                  *)
LEMMA QuietSet ==
  ASSUME NEW c, Tame(c), NEW a \in OffBank \ Shown0, NEW keep, NEW bits
  PROVE  Quiet(c, SetReg(c, a, keep, bits))
<1>1. a \in OffBank /\ a \notin Shown0 \ {}
  OBVIOUS
<1> QED
  BY <1>1, SetRegTame DEF Quiet

(* So is a run of writes to such registers.                                *)
LEMMA QuietWrites ==
  ASSUME NEW c, Tame(c), NEW s \in Seq(Free0({}))
  PROVE  Quiet(c, Writes(c, s))
BY WritesTame DEF Quiet

(* Going back to bank 0 ends a call.                                       *)
LEMMA ToBank0 ==
  ASSUME NEW c \in Chips
  PROVE  Quiet(c, Bank(c, 0))
BY BankKeeps, BankIsTame DEF Quiet

(* Selecting bank 1 keeps all that is shown.                               *)
LEMMA ToBank1 ==
  ASSUME NEW c \in Chips
  PROVE  Quiet1(c, Bank(c, 1))
BY BankKeeps DEF Quiet1, In1

(* Two quiet pieces in bank 1 are quiet.                                   *)
LEMMA Quiet1Trans ==
  ASSUME NEW c, NEW d, NEW e, Quiet1(c, d), Quiet1(d, e)
  PROVE  Quiet1(c, e)
BY KeepsTrans DEF Quiet1

(* A quiet piece in bank 1 is quiet once bank 0 is selected.               *)
LEMMA Quiet1Back ==
  ASSUME NEW c, NEW d, Quiet1(c, d)
  PROVE  Quiet(c, Bank(d, 0))
<1>1. Quiet(d, Bank(d, 0))
  BY ToBank0 DEF Quiet1, In1
<1> QED
  BY <1>1, KeepsTrans DEF Quiet1, Quiet

(* In bank 1, a write to a register that is not shown is quiet.            *)
LEMMA Quiet1Write ==
  ASSUME NEW c, In1(c), NEW a \in OffBank \ Shown1, NEW v \in Bytes
  PROVE  Quiet1(c, WriteReg(c, a, v))
<1>1. /\ c \in Chips /\ c.bank = 1 /\ a \in OffBank
      /\ c.bank = 0 => a \notin Shown0 \ {}
      /\ c.bank = 1 => a \notin Shown1 \ {}
  BY DEF In1
<1>2. /\ Keeps(c, WriteReg(c, a, v), {}, {})
      /\ WriteReg(c, a, v) \in Chips /\ WriteReg(c, a, v).bank = c.bank
  BY <1>1, WriteKeeps
<1> QED
  BY <1>1, <1>2 DEF Quiet1, In1

(* So is a read, modify and write of one.                                  *)
LEMMA Quiet1Set ==
  ASSUME NEW c, In1(c), NEW a \in OffBank \ Shown1, NEW keep, NEW bits
  PROVE  Quiet1(c, SetReg(c, a, keep, bits))
<1>1. (ReadReg(c, a) & keep) | bits \in Bytes
  BY OrBits
<1> QED
  BY <1>1, Quiet1Write DEF SetReg

(* So is a run of writes to such registers.                                *)
LEMMA Quiet1Writes ==
  ASSUME NEW c, In1(c), NEW s \in Seq(Free1({}))
  PROVE  Quiet1(c, Writes(c, s))
<1>1. /\ c \in Chips /\ c.bank = 1
      /\ c.bank = 0 => s \in Seq(Free0({}))
      /\ c.bank = 1 => s \in Seq(Free1({}))
  BY DEF In1
<1>2. /\ Keeps(c, Writes(c, s), {}, {})
      /\ Writes(c, s) \in Chips /\ Writes(c, s).bank = c.bank
  BY <1>1, WritesKeep
<1> QED
  BY <1>1, <1>2 DEF Quiet1, In1

-----------------------------------------------------------------------------
(* What the driver's functions for the picture change.                     *)

(* Both operators give bytes.                                              *)
LEMMA OrAreBytes == \A v, u : v & u \in Bytes /\ v | u \in Bytes
BY AndBits, OrBits

(* Setting up the analogue front end touches nothing that is shown.        *)
LEMMA SetupAFEQuiet ==
  ASSUME NEW c, Tame(c), NEW high \in BOOLEAN
  PROVE  Quiet(c, SetupAFE(c, high))
<1> DEFINE s == <<<<Afe.DRV_CTRL, Afe.DRV_RST>>, <<Afe.XP_CTRL, IF high THEN 136 ELSE 24>>,
                  <<Afe.ISW_CTRL, 16>>, <<Afe.IP_CTRL, IF high THEN 132 ELSE 12>> >>
           c1 == Writes(c, s)
           hold == Sys.AREF_RST | Sys.AUD_RST | Sys.HDCP_RST
           c2 == SetReg(c1, Sys.SW_RST, hold | Sys.VID_RST, 0)
           c3 == SetReg(c2, Sys.SW_RST, hold, 0)
<1>1. s \in Seq(Free0({}))
  BY DEF Free0, OffBank, Shown0, Bytes, Afe, Irq
<1>2. Sys.SW_RST \in OffBank \ Shown0
  BY DEF OffBank, Shown0, Bytes, Sys, Irq
<1>3. SetupAFE(c, high) = c3
  BY DEF SetupAFE, AndReg
<1> HIDE DEF s, hold
<1>4. Quiet(c, c1)
  BY <1>1, QuietWrites
<1> HIDE DEF c1
<1>5. Quiet(c1, c2)
  BY <1>2, <1>4, QuietSet DEF Quiet
<1> HIDE DEF c2
<1>6. Quiet(c2, c3)
  BY <1>2, <1>5, QuietSet DEF Quiet
<1> HIDE DEF c3
<1> QED
  BY <1>3, <1>4, <1>5, <1>6, QuietTrans

(* Nor does firing it.                                                     *)
LEMMA FireAFEQuiet ==
  ASSUME NEW c, Tame(c)
  PROVE  Quiet(c, FireAFE(c))
<1>1. Quiet(c, Bank(c, 0))
  BY ToBank0 DEF Tame
<1>2. Afe.DRV_CTRL \in OffBank \ Shown0 /\ 0 \in Bytes
  BY DEF OffBank, Shown0, Bytes, Afe, Irq
<1>3. Quiet(Bank(c, 0), FireAFE(c))
  BY <1>1, <1>2, QuietWrite DEF Quiet, FireAFE
<1> QED
  BY <1>1, <1>3, QuietTrans

(* Nor does disabling the video output.                                    *)
LEMMA DisableVideoQuiet ==
  ASSUME NEW c, Tame(c)
  PROVE  Quiet(c, DisableVideoOutput(c))
<1> DEFINE c1 == SetReg(c, Sys.SW_RST, 255, Sys.VID_RST)
<1>1. Sys.SW_RST \in OffBank \ Shown0 /\ Afe.DRV_CTRL \in OffBank \ Shown0
  BY DEF OffBank, Shown0, Bytes, Sys, Afe, Irq
<1>2. Quiet(c, c1)
  BY <1>1, QuietSet
<1>3. DisableVideoOutput(c) = WriteReg(c1, Afe.DRV_CTRL, Afe.DRV_RST | Afe.DRV_PWD)
  BY DEF DisableVideoOutput, OrReg
<1> HIDE DEF c1
<1>4. Quiet(c1, DisableVideoOutput(c))
  BY <1>1, <1>2, <1>3, OrAreBytes, QuietWrite DEF Quiet
<1> QED
  BY <1>2, <1>4, QuietTrans

(* Nor does disabling the sound.                                           *)
LEMMA DisableAudioQuiet ==
  ASSUME NEW c, Tame(c)
  PROVE  Quiet(c, DisableAudioOutput(c))
<1>1. Sys.SW_RST \in OffBank \ Shown0
  BY DEF OffBank, Shown0, Bytes, Sys, Irq
<1> QED
  BY <1>1, QuietSet DEF DisableAudioOutput, OrReg

(* Nor does closing all.                                                   *)
LEMMA DisableIT6613Quiet ==
  ASSUME NEW c, Tame(c)
  PROVE  Quiet(c, DisableIT6613(c))
<1> DEFINE v == Sys.AREF_RST | Sys.VID_RST | Sys.AUD_RST | Sys.HDCP_RST
           u == Afe.DRV_RST | Afe.DRV_PWD
<1>1. v \in Bytes /\ u \in Bytes
  BY OrAreBytes
<1> HIDE DEF v, u
<1>2. <<<<Sys.SW_RST, v>>, <<Afe.DRV_CTRL, u>>>> \in Seq(Free0({}))
  BY <1>1 DEF Free0, OffBank, Shown0, Bytes, Sys, Afe, Irq
<1> QED
  BY <1>2, QuietWrites DEF DisableIT6613, v, u

(* Nor does what authentication leaves behind.                             *)
LEMMA EnableHDCPQuiet ==
  ASSUME NEW c, Tame(c), NEW ok \in BOOLEAN
  PROVE  Quiet(c, EnableHDCP(c, ok))
<1>1. Sys.SW_RST \in OffBank \ Shown0
  BY DEF OffBank, Shown0, Bytes, Sys, Irq
<1>2. \A keep, bits : Quiet(c, SetReg(c, Sys.SW_RST, keep, bits))
  BY <1>1, QuietSet
<1> QED
  BY <1>2 DEF EnableHDCP, OrReg, AndReg

Depth(c) == c.reg[0][193] & Hdmi.DEPTH_MASK

(* The registers of the picture are those of an input and an output mode.  *)
PictureIs(c, inMode, outMode) ==
  /\ c.reg[0][112] & Video.INCOLMOD = Video.IN_RGB
       <=> inMode & F_MODE_CLRMOD_MASK \notin {F_MODE_YUV422, F_MODE_YUV444}
  /\ Converted(c, inMode, outMode)

PictureRegs == {112, 114} \cup 118 .. 135

(* A call that keeps the registers of the picture keeps the picture.       *)
LEMMA PictureLeftAlone ==
  ASSUME NEW c, NEW d, NEW X, NEW Y, Keeps(c, d, X, Y), X \cap PictureRegs = {}
  PROVE  \A i, o : PictureIs(c, i, o) => PictureIs(d, i, o)
<1>1. \A x \in PictureRegs : d.reg[0][x] = c.reg[0][x]
  BY DEF Keeps, PictureRegs, Shown0
<1>2. d.reg[0][112] = c.reg[0][112] /\ d.reg[0][114] = c.reg[0][114]
  BY <1>1 DEF PictureRegs
<1>3. \A k \in 1 .. 18 : d.reg[0][118 + k - 1] = c.reg[0][118 + k - 1]
  <2> TAKE k \in 1 .. 18
  <2>1. 118 + k - 1 \in PictureRegs
    BY DEF PictureRegs
  <2> QED
    BY <1>1, <2>1
<1> QED
  BY <1>2, <1>3 DEF PictureIs, Converted

(* A call that keeps the general control packet keeps the depth.           *)
LEMMA DepthStays ==
  ASSUME NEW c, NEW d, NEW X, NEW Y, Keeps(c, d, X, Y), 193 \notin X
  PROVE  Depth(d) = Depth(c)
BY DEF Keeps, Depth, Shown0

(* EnableVideoOutput sets the registers of the picture to its two modes    *)
(* and keeps depth, infoframes and all else that is shown.                 *)
LEMMA EnableVideoMeans ==
  ASSUME NEW c, Tame(c), NEW high \in BOOLEAN, NEW inMode, NEW outMode,
         NEW hdmi \in BOOLEAN, NEW sig
  PROVE  LET d == EnableVideoOutput(c, high, inMode, outMode, hdmi, sig)
         IN /\ Keeps(c, d, {193} \cup PictureRegs, {}) /\ Tame(d)
            /\ Depth(d) = Depth(c) /\ PictureIs(d, inMode, outMode)
<1> DEFINE d == EnableVideoOutput(c, high, inMode, outMode, hdmi, sig)
           X == {193} \cup PictureRegs
           rst == Sys.AUD_RST | Sys.AREF_RST | Sys.HDCP_RST
           c1 == WriteReg(c, Sys.SW_RST, rst | Sys.VID_RST)
           c2 == IF hdmi THEN SetAVMute(c1, TRUE) ELSE c1
           c3 == SetInputMode(c2, inMode, sig)
           c4 == SetCSCScale(c3, inMode, outMode)
           s5 == <<<<Hdmi.MODE, IF hdmi THEN Hdmi.HDMI_MODE ELSE Hdmi.DVI_MODE>>,
                   <<Sys.SW_RST, rst>> >>
           c5 == Writes(c4, s5)
           c6 == SetupAFE(c5, high)
           s7 == <<<<Irq.CLR0, 0>>, <<Irq.CLR1, Irq.CLR_VIDSTABLE>>,
                   <<Irq.SYS_STATUS, Irq.INTACTDONE>>, <<Irq.SYS_STATUS, 0>> >>
           c7 == Writes(c6, s7)
<1>1. d = FireAFE(c7)
  BY DEF EnableVideoOutput
<1>2. rst \in Bytes /\ rst | Sys.VID_RST \in Bytes
  BY OrAreBytes
<1> HIDE DEF d, rst
<1>3. s5 \in Seq(Free0({})) /\ s7 \in Seq(Free0({}))
  BY <1>2 DEF Free0, OffBank, Shown0, Bytes, Sys, Hdmi, Irq
<1> HIDE DEF s5, s7
<1>4. Quiet(c, c1)
  <2>1. Sys.SW_RST \in OffBank \ Shown0
    BY DEF OffBank, Shown0, Bytes, Sys, Irq
  <2> QED
    BY <1>2, <2>1, QuietWrite
<1> HIDE DEF c1
<1>5. Keeps(c1, c2, {193}, {}) /\ Tame(c2) /\ Depth(c2) = Depth(c1)
  <2>1. CASE hdmi
    BY <1>4, <2>1, SetAVMuteKeeps DEF Quiet, Depth
  <2>2. CASE ~hdmi
    BY <1>4, <2>2 DEF Quiet, Tame, Keeps
  <2> QED
    BY <2>1, <2>2
<1> HIDE DEF c2
<1>6. /\ Keeps(c2, c3, {112}, {}) /\ Tame(c3)
      /\ c3.reg[0][112] & Video.INCOLMOD = Video.IN_RGB
           <=> inMode & F_MODE_CLRMOD_MASK \notin {F_MODE_YUV422, F_MODE_YUV444}
  BY <1>5, SetInputModeKeeps
<1> HIDE DEF c3
<1>7. /\ Keeps(c3, c4, {114} \cup 118 .. 135, {}) /\ Tame(c4)
      /\ PictureIs(c4, inMode, outMode)
  <2>1. /\ Keeps(c3, c4, {114} \cup 118 .. 135, {}) /\ Tame(c4)
        /\ c4.reg[0][112] = c3.reg[0][112]
        /\ Converted(c4, inMode, outMode)
    <3>1. Tame(c3)
      BY <1>6
    <3>2. Keeps(c3, c4, {114} \cup 118 .. 135, {})
      BY <3>1, SetCSCScaleKeeps
    <3>3. Tame(c4)
      BY <3>1, SetCSCScaleKeeps
    <3>4. c4.reg[0][112] = c3.reg[0][112]
      BY <3>1, SetCSCScaleKeeps
    <3>5. Converted(c4, inMode, outMode)
      BY <3>1, SetCSCScaleKeeps
    <3> QED
      BY <3>2, <3>3, <3>4, <3>5
  <2>2. /\ c4.reg[0][112] & Video.INCOLMOD = Video.IN_RGB
             <=> inMode & F_MODE_CLRMOD_MASK \notin {F_MODE_YUV422, F_MODE_YUV444}
    <3> HIDE DEF c4
    <3> QED
      BY <1>6, <2>1
  <2>3. PictureIs(c4, inMode, outMode)
    <3> HIDE DEF c4
    <3> QED
      BY <2>1, <2>2 DEF PictureIs
  <2> QED
    BY <2>1, <2>3
<1> HIDE DEF c4
<1>8. Quiet(c4, c5)
  BY <1>3, <1>7, QuietWrites
<1> HIDE DEF c5
<1>9. Quiet(c5, c6)
  BY <1>8, SetupAFEQuiet DEF Quiet
<1> HIDE DEF c6
<1>10. Quiet(c6, c7)
  BY <1>3, <1>9, QuietWrites DEF Quiet
<1> HIDE DEF c7
<1>11. Quiet(c7, d)
  BY <1>1, <1>10, FireAFEQuiet DEF Quiet
<1>12. Quiet(c4, d)
  BY <1>8, <1>9, <1>10, <1>11, QuietTrans
<1>13. PictureIs(d, inMode, outMode) /\ Depth(d) = Depth(c4) /\ Tame(d)
  BY <1>7, <1>12, PictureLeftAlone, DepthStays DEF Quiet
<1>14. Depth(c4) = Depth(c3) /\ Depth(c3) = Depth(c2) /\ Depth(c1) = Depth(c)
  BY <1>4, <1>6, <1>7, DepthStays DEF Quiet
<1>15. Keeps(c, d, X, {})
  <2>1. Keeps(c, c1, X, {}) /\ Keeps(c4, d, X, {})
    BY <1>4, <1>12, KeepsMore DEF Quiet
  <2>2. Keeps(c1, c2, X, {}) /\ Keeps(c2, c3, X, {}) /\ Keeps(c3, c4, X, {})
    BY <1>5, <1>6, <1>7 DEF Keeps, PictureRegs
  <2> HIDE DEF X
  <2> QED
    BY <2>1, <2>2, KeepsTrans
<1> QED
  BY <1>5, <1>13, <1>14, <1>15 DEF d

-----------------------------------------------------------------------------
(* The tables the driver looks modes up in.                                *)

(* The first row with a key is a row of the table.                         *)
LEMMA FirstRowIsOne ==
  ASSUME NEW table, DOMAIN table \subseteq Nat, NEW key, FirstRow(table, key) # 0
  PROVE  FirstRow(table, key) \in DOMAIN table
<1> DEFINE hits == {i \in DOMAIN table : table[i][1] = key}
           R == OpToRel(<, Nat)
<1>1. hits # {} /\ hits \subseteq Nat
  BY DEF FirstRow
<1>2. IsWellFoundedOn(R, Nat)
  BY NatLessThanWellFounded
<1>3. PICK x \in hits : \A y \in hits : ~ (<<y, x>> \in R)
  <2> HIDE DEF R, hits
  <2> QED
    BY <1>1, <1>2, WFMin, Zenon
<1>4. \A y \in hits : x <= y
  <2> TAKE y \in hits
  <2>1. x \in Nat /\ y \in Nat /\ ~ (<<y, x>> \in R)
    <3> HIDE DEF R
    <3> QED
      BY <1>1, <1>3
  <2> HIDE DEF hits
  <2> QED
    BY <2>1 DEF OpToRel
<1>5. FirstRow(table, key) = CHOOSE i \in hits : \A j \in hits : i <= j
  BY <1>1 DEF FirstRow
<1>6. (CHOOSE i \in hits : \A j \in hits : i <= j) \in hits
  <2> HIDE DEF hits
  <2> QED
    BY <1>4
<1> QED
  BY <1>5, <1>6

(* Table rows go to registers that are not shown.                          *)
LEMMA DEQuiet ==
  ASSUME NEW c, Tame(c), NEW id, NEW sig
  PROVE  Quiet(c, ProgramDEGenModeByID(c, id, sig))
<1> DEFINE d == ProgramDEGenModeByID(c, id, sig)
           i == FirstRow(DeGen_Table, id)
           r == DeGen_Table[i]
           s == <<<<144, r[2]>>, <<146, r[3]>>, <<147, r[4]>>, <<148, r[5]>>,
                  <<154, r[6]>>, <<155, r[7]>>, <<156, r[8]>>, <<157, r[9]>>,
                  <<158, r[10]>>, <<159, r[11]>> >>
<1>1. CASE d = c
  BY <1>1 DEF Quiet, Keeps, Tame
<1>2. CASE d # c
  <2>1. d = Writes(Bank(c, 0), s) /\ i # 0
    BY <1>2 DEF ProgramDEGenModeByID
  <2> HIDE DEF d
  <2>2. i \in DOMAIN DeGen_Table
    BY <2>1, TablesAreBytes, FirstRowIsOne
  <2> HIDE DEF i
  <2>3. \A k \in 2 .. 11 : r[k] \in Bytes
    BY <2>2, TablesAreBytes
  <2> HIDE DEF r
  <2>4. s \in Seq(Free0({}))
    <3>1. /\ r[2] \in Bytes /\ r[3] \in Bytes /\ r[4] \in Bytes /\ r[5] \in Bytes
          /\ r[6] \in Bytes /\ r[7] \in Bytes /\ r[8] \in Bytes /\ r[9] \in Bytes
          /\ r[10] \in Bytes /\ r[11] \in Bytes
      BY <2>3
    <3>2. {144, 146, 147, 148, 154, 155, 156, 157, 158, 159} \subseteq OffBank \ (Shown0 \ {})
      BY DEF OffBank, Shown0, Bytes, Irq
    <3> QED
      BY <3>1, <3>2 DEF Free0
  <2> HIDE DEF s
  <2>5. Quiet(c, Bank(c, 0))
    BY ToBank0 DEF Tame
  <2>6. Quiet(Bank(c, 0), d)
    BY <2>1, <2>4, <2>5, QuietWrites DEF Quiet
  <2> QED
    BY <2>5, <2>6, QuietTrans DEF d
<1> QED
  BY <1>1, <1>2

(* Programming the decoder of embedded sync touches nothing that is        *)
(* shown.                                                                  *)
LEMMA SyncQuiet ==
  ASSUME NEW c, Tame(c), NEW vic, NEW sig
  PROVE  Quiet(c, ProgramSyncEmbeddedVideoMode(c, vic, sig))
<1> DEFINE d == ProgramSyncEmbeddedVideoMode(c, vic, sig)
           i == FirstRow(SyncEmbTable, vic)
           r == SyncEmbTable[i]
           s == <<<<144, r[2]>>, <<145, r[3]>>, <<149, r[4]>>, <<150, r[5]>>,
                  <<151, r[6]>>, <<160, r[7]>>, <<161, r[8]>>, <<162, r[9]>>,
                  <<163, r[10]>> >>
<1>1. CASE d = c
  BY <1>1 DEF Quiet, Keeps, Tame
<1>2. CASE d # c
  <2>1. d = Writes(c, s) /\ i # 0
    BY <1>2 DEF ProgramSyncEmbeddedVideoMode
  <2> HIDE DEF d
  <2>2. i \in DOMAIN SyncEmbTable
    BY <2>1, TablesAreBytes, FirstRowIsOne
  <2> HIDE DEF i
  <2>3. \A k \in 2 .. 10 : r[k] \in Bytes
    BY <2>2, TablesAreBytes
  <2> HIDE DEF r
  <2>4. s \in Seq(Free0({}))
    <3>1. /\ r[2] \in Bytes /\ r[3] \in Bytes /\ r[4] \in Bytes /\ r[5] \in Bytes
          /\ r[6] \in Bytes /\ r[7] \in Bytes /\ r[8] \in Bytes /\ r[9] \in Bytes
          /\ r[10] \in Bytes
      BY <2>3
    <3>2. {144, 145, 149, 150, 151, 160, 161, 162, 163} \subseteq OffBank \ (Shown0 \ {})
      BY DEF OffBank, Shown0, Bytes, Irq
    <3> QED
      BY <3>1, <3>2 DEF Free0
  <2> HIDE DEF s
  <2> QED
    BY <2>1, <2>4, QuietWrites DEF d
<1> QED
  BY <1>1, <1>2

-----------------------------------------------------------------------------
(* The sound.                                                              *)

Codes == {AUDFS[r] : r \in DOMAIN AUDFS} \cup {AUDFS_OTHER}

Instances == [bOutputAudioMode : Bytes, bAudioChannelEnable : Bytes, bAudFs : Codes,
              TMDSClock : Nat, bInputVideoSignalType : Nat, opened : BOOLEAN]

(* The codes of the sample rates are bytes.                                *)
LEMMA CodesAreBytes ==
  /\ Codes \subseteq Bytes
  /\ \A r \in DOMAIN AUDFS : AUDFS[r] \in Codes
  /\ AUDFS_OTHER \in Codes /\ AUDFS_48KHz \in Codes
<1>1. \A r \in DOMAIN AUDFS : AUDFS[r] \in Bytes
  BY DEF AUDFS, Bytes
<1>2. AUDFS_OTHER \in Bytes
  BY DEF AUDFS_OTHER, Bytes
<1>3. AUDFS_48KHz = AUDFS[480] /\ 480 \in DOMAIN AUDFS
  BY DEF AUDFS_48KHz, AUDFS
<1> QED
  BY <1>1, <1>2, <1>3 DEF Codes

(* The rate found from the counted CTS is one of the codes.                *)
LEMMA NearestIsCode == \A hz : Nearest(hz) \in Codes
<1>1. /\ AUDFS[320] \in Codes /\ AUDFS[441] \in Codes /\ AUDFS[480] \in Codes
      /\ AUDFS[882] \in Codes /\ AUDFS[960] \in Codes /\ AUDFS[1764] \in Codes
      /\ AUDFS[1920] \in Codes /\ AUDFS_OTHER \in Codes
  <2>1. {320, 441, 480, 882, 960, 1764, 1920} = DOMAIN AUDFS
    BY DEF AUDFS
  <2> QED
    BY <2>1, CodesAreBytes
<1> QED
  BY <1>1 DEF Nearest

(* N is a natural number, for every clock and code.                        *)
LEMMA NIsNatural ==
  ASSUME NEW clk, NEW fs \in Bytes
  PROVE  NOf(clk, fs) \in Nat
<1>1. ASSUME fs \in DOMAIN NTable, NEW k \in {1, 2, 3} PROVE NTable[fs][k] \in Nat
  BY <1>1 DEF NTable
<1>2. CASE fs \in DOMAIN NTable
  BY <1>1, <1>2 DEF NOf
<1>3. CASE fs \notin DOMAIN NTable
  BY <1>3 DEF NOf, Bytes
<1> QED
  BY <1>2, <1>3

(* A run of bytes to consecutive registers of bank 1 that are not shown.   *)
LEMMA BurstQuiet1 ==
  ASSUME NEW c, In1(c), NEW a \in Nat, NEW l \in Seq(Bytes),
         \A k \in 1 .. Len(l) : a + k - 1 \in OffBank \ Shown1
  PROVE  Quiet1(c, Writes(c, Burst(a, l)))
<1>1. Len(l) \in Nat /\ \A k \in 1 .. Len(l) : l[k] \in Bytes
  OBVIOUS
<1>2. \A k \in 1 .. Len(l) : <<a + k - 1, l[k]>> \in Free1({})
  BY <1>1 DEF Free1
<1>3. Burst(a, l) \in Seq(Free1({}))
  BY <1>1, <1>2 DEF Burst
<1> QED
  BY <1>3, Quiet1Writes

(* Writing N is such a run.                                                *)
LEMMA WriteNQuiet1 ==
  ASSUME NEW c, In1(c), NEW n \in Nat
  PROVE  Quiet1(c, WriteN(c, n))
<1> DEFINE l == <<Low(n), Mid(n), High(n)>>
           a == Bank1.AudN
<1>1. Low(n) \in Bytes /\ Mid(n) \in Bytes /\ High(n) \in Bytes
  BY DEF Low, Mid, High, Bytes
<1>2. l \in Seq(Bytes) /\ Len(l) = 3
  BY <1>1
<1>3. a \in Nat /\ \A k \in 1 .. Len(l) : a + k - 1 \in OffBank \ Shown1
  BY <1>2 DEF Bank1, OffBank, Shown1, Bytes, Irq
<1>4. WriteN(c, n) = Writes(c, Burst(a, l))
  BY DEF WriteN
<1> HIDE DEF a, l
<1> QED
  BY <1>2, <1>3, <1>4, BurstQuiet1

(* SetNCTS gives the bank back and touches nothing that is shown.          *)
LEMMA SetNCTSQuiet ==
  ASSUME NEW c, Tame(c), NEW clk, NEW fs \in Bytes
  PROVE  Quiet(c, SetNCTS(c, clk, fs))
<1> DEFINE c1 == Bank(c, 1)
           c2 == WriteN(c1, NOf(clk, fs))
           c3 == Bank(c2, 0)
           c4 == WriteReg(c3, Hdmi.PKT_SINGLE_CTRL, 0)
           c5 == SetReg(c4, Afe.CLK_CTRL0, Without(255, Afe.EXT_MCLK_SEL), Afe.EXT_256FS)
<1>1. SetNCTS(c, clk, fs) = c5
  BY DEF SetNCTS
<1>2. Quiet1(c, c1)
  BY ToBank1 DEF Tame
<1> HIDE DEF c1
<1>3. Quiet1(c1, c2)
  BY <1>2, NIsNatural, WriteNQuiet1 DEF Quiet1
<1> HIDE DEF c2
<1>4. Quiet(c, c3)
  BY <1>2, <1>3, Quiet1Trans, Quiet1Back
<1> HIDE DEF c3
<1>5. /\ Hdmi.PKT_SINGLE_CTRL \in OffBank \ Shown0 /\ Afe.CLK_CTRL0 \in OffBank \ Shown0
      /\ 0 \in Bytes
  BY DEF Hdmi, Afe, OffBank, Shown0, Bytes, Irq
<1>6. Quiet(c3, c4)
  BY <1>4, <1>5, QuietWrite DEF Quiet
<1> HIDE DEF c4
<1>7. Quiet(c4, c5)
  BY <1>5, <1>6, QuietSet DEF Quiet
<1> HIDE DEF c5
<1> QED
  BY <1>1, <1>4, <1>6, <1>7, QuietTrans

(* What a function of the sound does to chip and instance.                 *)
Sounds(s, t) == Quiet(s.chip, t.chip) /\ t.inst \in Instances
States == [chip : Chips, inst : Instances]

(* So does SetAudioFormat.                                                 *)
LEMMA SetAudioFormatQuiet ==
  ASSUME NEW s \in States, Tame(s.chip), NEW ch \in Nat, NEW enable \in Bytes,
         NEW fs \in Bytes, NEW swl, NEW cat \in {0, 1}
  PROVE  Sounds(s, SetAudioFormat(s, ch, enable, fs, swl, cat))
<1> DEFINE i == [s.inst EXCEPT !.bOutputAudioMode = IF ch > 2 THEN @ ELSE Without(@, 64)]
           t == SetAudioFormat(s, ch, enable, fs, swl, cat)
           en == Without(enable, Audio.SWL | Audio.SPDIFTC) | WordLengths[swl][1]
           c0 == Bank(s.chip, 0)
           c1 == WriteReg(c0, Audio.CTRL0, en & 240)
           c2 == SetReg(c1, Sys.SW_RST, Without(255, Sys.AUD_RST | Sys.AREF_RST), 0)
           s3 == <<<<Audio.CTRL1, i.bOutputAudioMode>>, <<Audio.FIFOMAP, 228>>,
                   <<Audio.CTRL3, en & Audio.SPDIF>>,
                   <<Audio.SRCVALID_FLAT, Sources(ch)[1]>> >>
           c3 == Writes(c2, s3)
           c4 == Bank(c3, 1)
           s5 == <<<<Bank1.CHST_MODE, IF ch = 1 THEN 1 ELSE 0>>,
                   <<Bank1.CHST_CAT, cat>>, <<Bank1.CHST_SRCNUM, Sources(ch)[2]>>,
                   <<Bank1.CHST_CHTNUM, 0>>, <<Bank1.CHST_CA_FS, fs>>,
                   <<Bank1.CHST_OFS_WL, OFS(fs) | WordLengths[swl][2]>> >>
           c5 == Writes(c4, s5)
           c6 == Bank(c5, 0)
           c7 == WriteReg(c6, Audio.CTRL0, en)
<1>1. /\ i \in Instances /\ i.bOutputAudioMode \in Bytes
  <2>1. s.inst \in Instances /\ s.inst.bOutputAudioMode \in Bytes
    BY DEF States, Instances
  <2>2. Without(s.inst.bOutputAudioMode, 64) \in Bytes
    BY <2>1, WithoutBits
  <2> QED
    BY <2>1, <2>2 DEF Instances
<1>2. en \in Bytes /\ en & 240 \in Bytes /\ en & Audio.SPDIF \in Bytes
      /\ OFS(fs) | WordLengths[swl][2] \in Bytes
  BY OrAreBytes
<1>3. \/ t = [s EXCEPT !.inst = i]
      \/ t = [s EXCEPT !.inst = [i EXCEPT !.bAudioChannelEnable = en], !.chip = c6]
      \/ t = [s EXCEPT !.inst = [i EXCEPT !.bAudioChannelEnable = en], !.chip = c7]
  BY DEF SetAudioFormat, AndReg
<1>4. Sources(ch)[1] \in Bytes /\ Sources(ch)[2] \in Bytes
  BY DEF Sources, Bytes
<1>5. [i EXCEPT !.bAudioChannelEnable = en] \in Instances
  <2> HIDE DEF i, en
  <2> QED
    BY <1>1, <1>2 DEF Instances
<1> HIDE DEF i, en, t
<1>6. s3 \in Seq(Free0({}))
  BY <1>1, <1>2, <1>4 DEF Free0, OffBank, Shown0, Bytes, Audio, Irq
<1>7. s5 \in Seq(Free1({}))
  BY <1>2, <1>4 DEF Free1, OffBank, Shown1, Bytes, Bank1, Irq
<1> HIDE DEF s3, s5
<1>8. Quiet(s.chip, c0)
  BY ToBank0 DEF Tame
<1> HIDE DEF c0
<1>9. /\ Audio.CTRL0 \in OffBank \ Shown0 /\ Sys.SW_RST \in OffBank \ Shown0
  BY DEF Audio, Sys, OffBank, Shown0, Bytes, Irq
<1>10. Quiet(c0, c1)
  BY <1>2, <1>8, <1>9, QuietWrite DEF Quiet
<1> HIDE DEF c1
<1>11. Quiet(c1, c2)
  BY <1>9, <1>10, QuietSet DEF Quiet
<1> HIDE DEF c2
<1>12. Quiet(c2, c3)
  BY <1>6, <1>11, QuietWrites DEF Quiet
<1> HIDE DEF c3
<1>13. Quiet1(c3, c4)
  BY <1>12, ToBank1 DEF Quiet, Tame
<1> HIDE DEF c4
<1>14. Quiet1(c4, c5)
  BY <1>7, <1>13, Quiet1Writes DEF Quiet1
<1> HIDE DEF c5
<1>15. Quiet(c3, c6)
  BY <1>13, <1>14, Quiet1Trans, Quiet1Back
<1> HIDE DEF c6
<1>16. Quiet(s.chip, c6)
  BY <1>8, <1>10, <1>11, <1>12, <1>15, QuietTrans
<1>17. Quiet(c6, c7)
  BY <1>2, <1>9, <1>15, QuietWrite DEF Quiet
<1>18. Quiet(s.chip, c7)
  BY <1>16, <1>17, QuietTrans
<1>19. Quiet(s.chip, s.chip)
  BY DEF Quiet, Keeps, Tame
<1> HIDE DEF c7
<1> QED
  BY <1>1, <1>3, <1>5, <1>16, <1>18, <1>19 DEF Sounds, States, t

(* So does EnableAudioOutput.                                              *)
LEMMA EnableAudioQuiet ==
  ASSUME NEW s \in States, Tame(s.chip), NEW clk \in Nat, NEW fs \in Codes,
         NEW ch \in Nat, NEW swl, NEW spdif \in BOOLEAN
  PROVE  Sounds(s, EnableAudioOutput(s, clk, fs, ch, swl, spdif))
<1> DEFINE i == [s.inst EXCEPT !.TMDSClock = clk, !.bAudFs = fs]
           c0 == s.chip
           l == <<80, 115, 0>>
           cts == Bank1.AudCTS
           c1 == Bank(c0, 1)
           c2 == Writes(c1, Burst(cts, l))
           c3 == WriteN(c2, 6144)
           c4 == Bank(c3, 0)
           c5 == WriteReg(c4, Hdmi.PKT_SINGLE_CTRL, 2)
           c == IF spdif THEN c5 ELSE SetNCTS(c0, clk, fs)
           s1 == [s EXCEPT !.inst = i, !.chip = c]
           en == Inputs(ch) | (IF spdif THEN Audio.SPDIF ELSE 0)
           cat == IF spdif THEN 1 ELSE 0
<1>1. EnableAudioOutput(s, clk, fs, ch, swl, spdif) = SetAudioFormat(s1, ch, en, fs, swl, cat)
  BY DEF EnableAudioOutput
<1>2. i \in Instances
  BY DEF States, Instances
<1>3. en \in Bytes /\ fs \in Bytes /\ cat \in {0, 1}
  BY OrAreBytes, CodesAreBytes
<1> HIDE DEF i, en, cat
<1>4. l \in Seq(Bytes) /\ Len(l) = 3
  BY DEF Bytes
<1>5. cts \in Nat /\ \A k \in 1 .. Len(l) : cts + k - 1 \in OffBank \ Shown1
  BY <1>4 DEF Bank1, OffBank, Shown1, Bytes, Irq
<1>6. c0 \in Chips /\ Tame(c0)
  BY DEF States
<1> HIDE DEF l, cts, c0
<1>7. Quiet1(c0, c1)
  BY <1>6, ToBank1
<1> HIDE DEF c1
<1>8. Quiet1(c1, c2)
  BY <1>4, <1>5, <1>7, BurstQuiet1 DEF Quiet1
<1> HIDE DEF c2
<1>9. Quiet1(c2, c3)
  BY <1>8, WriteNQuiet1 DEF Quiet1
<1> HIDE DEF c3
<1>10. Quiet(c0, c4)
  BY <1>7, <1>8, <1>9, Quiet1Trans, Quiet1Back
<1> HIDE DEF c4
<1>11. Quiet(c4, c5)
  <2>1. Hdmi.PKT_SINGLE_CTRL \in OffBank \ Shown0 /\ 2 \in Bytes
    BY DEF Hdmi, OffBank, Shown0, Bytes, Irq
  <2> QED
    BY <1>10, <2>1, QuietWrite DEF Quiet
<1> HIDE DEF c5
<1>12. Quiet(c0, c)
  <2>1. Quiet(c0, SetNCTS(c0, clk, fs))
    BY <1>3, <1>6, SetNCTSQuiet
  <2>2. Quiet(c0, c5)
    BY <1>10, <1>11, QuietTrans
  <2> QED
    BY <2>1, <2>2
<1> HIDE DEF c
<1>13. s1 \in States /\ s1.chip = c /\ Tame(s1.chip)
  BY <1>2, <1>12 DEF States, Quiet, Tame
<1> HIDE DEF s1
<1>14. Sounds(s1, SetAudioFormat(s1, ch, en, fs, swl, cat))
  BY <1>3, <1>13, SetAudioFormatQuiet
<1> QED
  BY <1>1, <1>12, <1>13, <1>14, QuietTrans DEF Sounds, c0

(* So does AutoAdjustAudio, whatever it counted.                           *)
LEMMA AutoAdjustQuiet ==
  ASSUME NEW s \in States, Tame(s.chip), NEW rate
  PROVE  Sounds(s, AutoAdjustAudio(s, rate)) /\ AutoAdjustAudio(s, rate) \in States
<1> DEFINE t == AutoAdjustAudio(s, rate)
           n == NInUse(s.chip)
           cts == CountCTS(s.inst.TMDSClock, n, rate)
           fs == Nearest((((s.inst.TMDSClock * 1000) \div cts) * n) \div 128)
           c0 == s.chip
           c1 == SetNCTS(c0, s.inst.TMDSClock, fs)
           c2 == Bank(c1, 1)
           c3 == WriteReg(c2, Bank1.CHST_CA_FS, fs)
           c4 == SetReg(c3, Bank1.CHST_OFS_WL, 15, OFS(fs))
           c5 == Bank(c4, 0)
<1>1. \/ t = [s EXCEPT !.chip = Bank(c0, 0)]
      \/ t = [s EXCEPT !.inst.bAudFs = fs, !.chip = c5]
  BY DEF AutoAdjustAudio
<1>2. fs \in Codes /\ fs \in Bytes
  BY NearestIsCode, CodesAreBytes
<1> HIDE DEF t, fs
<1>3. c0 \in Chips /\ Tame(c0)
  BY DEF States
<1> HIDE DEF c0
<1>4. Quiet(c0, c1)
  BY <1>2, <1>3, SetNCTSQuiet
<1> HIDE DEF c1
<1>5. Quiet1(c1, c2)
  BY <1>4, ToBank1 DEF Quiet, Tame
<1> HIDE DEF c2
<1>6. Bank1.CHST_CA_FS \in OffBank \ Shown1 /\ Bank1.CHST_OFS_WL \in OffBank \ Shown1
  BY DEF Bank1, OffBank, Shown1, Bytes, Irq
<1>7. Quiet1(c2, c3)
  BY <1>2, <1>5, <1>6, Quiet1Write DEF Quiet1
<1> HIDE DEF c3
<1>8. Quiet1(c3, c4)
  BY <1>6, <1>7, Quiet1Set DEF Quiet1
<1> HIDE DEF c4
<1>9. Quiet(c1, c5)
  BY <1>5, <1>7, <1>8, Quiet1Trans, Quiet1Back
<1> HIDE DEF c5
<1>10. Quiet(c0, c5) /\ Quiet(c0, Bank(c0, 0))
  BY <1>3, <1>4, <1>9, QuietTrans, ToBank0
<1>11. [s.inst EXCEPT !.bAudFs = fs] \in Instances /\ s.inst \in Instances
  BY <1>2 DEF States, Instances
<1>12. \/ t.chip = Bank(c0, 0) /\ t.inst = s.inst
       \/ t.chip = c5 /\ t.inst = [s.inst EXCEPT !.bAudFs = fs]
  BY <1>1 DEF States
<1>13. t = [chip |-> t.chip, inst |-> t.inst]
  BY <1>1 DEF States
<1>14. Quiet(c0, t.chip) /\ t.inst \in Instances
  BY <1>10, <1>11, <1>12
<1> QED
  BY <1>13, <1>14 DEF Sounds, States, Quiet, Tame, t, c0

(* So does SetupAudioChannel, in every branch.                             *)
LEMMA SetupAudioQuiet ==
  ASSUME NEW s \in States, Tame(s.chip), NEW lock \in BOOLEAN, NEW rate
  PROVE  Sounds(s, SetupAudioChannel(s, lock, rate))
<1> DEFINE t == SetupAudioChannel(s, lock, rate)
           c0 == s.chip
           c == Bank(c0, 0)
           c1 == SetNCTS(c, s.inst.TMDSClock, s.inst.bAudFs)
           s1 == [s EXCEPT !.chip = c1]
           s2 == AutoAdjustAudio(s1, rate)
           c3 == Bank(s2.chip, 0)
           c4 == WriteReg(c3, Audio.CTRL0, s.inst.bAudioChannelEnable)
           c5 == WriteReg(c, Audio.CTRL0, s.inst.bAudioChannelEnable & 240)
<1>1. \/ t = s
      \/ t = [s2 EXCEPT !.chip = c4, !.inst.opened = TRUE]
      \/ t = [s EXCEPT !.inst.opened = FALSE, !.chip = c5]
      \/ t = [s EXCEPT !.inst.opened = FALSE, !.chip = c]
  BY DEF SetupAudioChannel
<1>2. /\ s.inst \in Instances /\ s.inst.bAudioChannelEnable \in Bytes
      /\ s.inst.bAudFs \in Bytes /\ s.inst.bAudioChannelEnable & 240 \in Bytes
  BY CodesAreBytes, OrAreBytes DEF States, Instances
<1> HIDE DEF t
<1>3. c0 \in Chips /\ Tame(c0)
  BY DEF States
<1> HIDE DEF c0
<1>4. Quiet(c0, c)
  BY <1>3, ToBank0
<1> HIDE DEF c
<1>5. Quiet(c, c1)
  BY <1>2, <1>4, SetNCTSQuiet DEF Quiet
<1> HIDE DEF c1
<1>6. s1 \in States /\ Tame(s1.chip) /\ s1.chip = c1
  BY <1>5 DEF States, Quiet, Tame
<1> HIDE DEF s1
<1>7. Sounds(s1, s2) /\ s2 \in States
  BY <1>6, AutoAdjustQuiet
<1>8. s2 = [chip |-> s2.chip, inst |-> s2.inst] /\ s2.inst \in Instances
  BY <1>7 DEF Sounds, States
<1> HIDE DEF s2
<1>9. Quiet(c1, s2.chip)
  BY <1>6, <1>7 DEF Sounds
<1>10. Quiet(s2.chip, c3)
  BY <1>9, ToBank0 DEF Quiet, Tame
<1> HIDE DEF c3
<1>11. Audio.CTRL0 \in OffBank \ Shown0
  BY DEF Audio, OffBank, Shown0, Bytes, Irq
<1>12. Quiet(c3, c4) /\ Quiet(c, c5)
  BY <1>2, <1>4, <1>10, <1>11, QuietWrite DEF Quiet
<1> HIDE DEF c4, c5
<1>13. Quiet(c0, c4) /\ Quiet(c0, c5) /\ Quiet(c0, c0)
  <2>1. Quiet(c0, c0)
    BY <1>3 DEF Quiet, Keeps, Tame
  <2> QED
    BY <1>4, <1>5, <1>9, <1>10, <1>12, <2>1, QuietTrans
<1>14. /\ [s2.inst EXCEPT !.opened = TRUE] \in Instances
       /\ [s.inst EXCEPT !.opened = FALSE] \in Instances
  BY <1>2, <1>8 DEF Instances
<1>15. \/ t.chip = c0 /\ t.inst = s.inst
       \/ t.chip = c4 /\ t.inst = [s2.inst EXCEPT !.opened = TRUE]
       \/ t.chip = c5 /\ t.inst = [s.inst EXCEPT !.opened = FALSE]
       \/ t.chip = c /\ t.inst = [s.inst EXCEPT !.opened = FALSE]
  BY <1>1, <1>8 DEF States, c0
<1> QED
  BY <1>2, <1>4, <1>13, <1>14, <1>15 DEF Sounds, t, c0

-----------------------------------------------------------------------------
(* The infoframes.                                                         *)

(* The recursion of Sum has a value: the sums of the beginnings.           *)
LEMMA SumDef ==
  ASSUME NEW s \in Seq(Int)
  PROVE  \E f \in [0 .. Len(s) -> Int] :
           /\ f[0] = 0
           /\ \A n \in 1 .. Len(s) : f[n] = f[n - 1] + s[n]
           /\ Sum(s) = f[Len(s)]
<1> DEFINE m == Len(s)
           step == [n \in 1 .. m |-> [x \in Int |-> x + s[n]]]
           D(g) == [n \in 0 .. m |-> IF n = 0 THEN 0 ELSE g[n - 1] + s[n]]
           e == CHOOSE g : g = D(g)
<1>1. m \in Nat /\ \A n \in 1 .. m : s[n] \in Int
  OBVIOUS
<1>2. step \in [1 .. m -> [Int -> Int]]
  <2>1. \A n \in 1 .. m, x \in Int : x + s[n] \in Int
    BY <1>1
  <2>2. \A n \in 1 .. m : step[n] \in [Int -> Int]
    BY <2>1
  <2> QED
    BY <2>2
<1>3. \A n \in 1 .. m, x \in Int : step[n][x] = x + s[n]
  OBVIOUS
<1> HIDE DEF step
<1>4. PICK f : Row(f, Int, m, 0, step)
  <2> DEFINE I == Int
  <2>1. 0 \in I /\ step \in [1 .. m -> [I -> I]] /\ m \in Nat
    BY <1>1, <1>2
  <2> HIDE DEF I
  <2>2. \E f : Row(f, I, m, 0, step)
    BY <2>1, RowExists
  <2> QED
    BY <2>2 DEF I
<1>5. f = D(f)
  <2>1. ASSUME NEW n \in 0 .. m PROVE f[n] = D(f)[n]
    <3>1. CASE n = 0
      BY <3>1, <1>4 DEF Row
    <3>2. CASE n # 0
      <4>1. n \in 1 .. m /\ n - 1 \in 0 .. m
        BY <1>1, <3>2
      <4>2. f[n - 1] \in Int /\ f[n] = step[n][f[n - 1]]
        BY <1>4, <4>1 DEF Row
      <4>3. f[n] = f[n - 1] + s[n]
        BY <1>3, <4>1, <4>2
      <4> QED
        BY <3>2, <4>3
    <3> QED
      BY <3>1, <3>2
  <2>2. f = [n \in 0 .. m |-> f[n]]
    BY <1>4 DEF Row
  <2> QED
    BY <2>1, <2>2
<1>6. e = D(e)
  <2> HIDE DEF D
  <2> QED
    BY <1>5, Zenon
<1>7. Sum(s) = e[m]
  BY DEF Sum
<1> HIDE DEF e
<1>8. \A n \in 1 .. m : e[n] = e[n - 1] + s[n]
  <2> TAKE n \in 1 .. m
  <2>1. n \in 0 .. m /\ n # 0
    BY <1>1
  <2>2. D(e)[n] = e[n - 1] + s[n]
    BY <2>1
  <2> HIDE DEF D
  <2> QED
    BY <1>6, <2>2
<1>9. e[0] = 0
  <2>1. D(e)[0] = 0
    BY <1>1
  <2> HIDE DEF D
  <2> QED
    BY <1>6, <2>1
<1>10. \A n \in 0 .. m : e[n] \in Int
  <2> DEFINE T == {n \in Nat : n <= m => e[n] \in Int}
  <2>1. 0 \in T
    BY <1>9
  <2>2. ASSUME NEW n \in T PROVE n + 1 \in T
    <3>1. SUFFICES ASSUME n + 1 <= m PROVE e[n + 1] \in Int
      OBVIOUS
    <3>2. e[n] \in Int /\ n + 1 \in 1 .. m /\ (n + 1) - 1 = n
      BY <1>1, <2>2, <3>1
    <3> QED
      BY <1>1, <1>8, <3>2
  <2>3. T = Nat
    <3> HIDE DEF T
    <3>1. T \in SUBSET Nat
      BY DEF T
    <3> QED
      BY <2>1, <2>2, <3>1, AllNaturals
  <2> QED
    BY <1>1, <2>3
<1>11. e \in [0 .. m -> Int]
  <2>1. e = [n \in 0 .. m |-> e[n]]
    <3>1. D(e) = [n \in 0 .. m |-> D(e)[n]]
      OBVIOUS
    <3> HIDE DEF D
    <3> QED
      BY <1>6, <3>1
  <2> QED
    BY <1>10, <2>1
<1> QED
  BY <1>7, <1>8, <1>9, <1>11

(* A sum of integers is an integer.                                        *)
LEMMA SumIsInt ==
  ASSUME NEW s \in Seq(Int)
  PROVE  Sum(s) \in Int
<1>1. Len(s) \in 0 .. Len(s)
  OBVIOUS
<1> QED
  BY <1>1, SumDef

(* The sum of four.                                                        *)
LEMMA SumOfFour ==
  ASSUME NEW a \in Int, NEW b \in Int, NEW c \in Int, NEW d \in Int
  PROVE  Sum(<<a, b, c, d>>) = a + b + c + d
<1> DEFINE s == <<a, b, c, d>>
<1>1. /\ s \in Seq(Int) /\ Len(s) = 4
      /\ s[1] = a /\ s[2] = b /\ s[3] = c /\ s[4] = d
  OBVIOUS
<1> HIDE DEF s
<1>2. PICK f \in [0 .. Len(s) -> Int] :
           /\ f[0] = 0
           /\ \A n \in 1 .. Len(s) : f[n] = f[n - 1] + s[n]
           /\ Sum(s) = f[Len(s)]
  BY <1>1, SumDef
<1>3. \A n \in 0 .. 3 : f[n + 1] = f[n] + s[n + 1]
  <2> TAKE n \in 0 .. 3
  <2>1. n + 1 \in 1 .. Len(s) /\ (n + 1) - 1 = n
    BY <1>1
  <2> QED
    BY <1>2, <2>1
<1>5. f[1] = f[0] + s[1] /\ f[2] = f[1] + s[2] /\ f[3] = f[2] + s[3] /\ f[4] = f[3] + s[4]
  <2>1. f[0 + 1] = f[0] + s[0 + 1] /\ f[1 + 1] = f[1] + s[1 + 1]
    BY <1>3
  <2>2. f[2 + 1] = f[2] + s[2 + 1] /\ f[3 + 1] = f[3] + s[3 + 1]
    BY <1>3
  <2> QED
    BY <2>1, <2>2
<1>4. f[1] = a /\ f[2] = a + b /\ f[3] = a + b + c /\ f[4] = a + b + c + d
  BY <1>1, <1>2, <1>5
<1> QED
  BY <1>1, <1>2, <1>4 DEF s

(* The sum of five.                                                        *)
LEMMA SumOfFive ==
  ASSUME NEW a \in Int, NEW b \in Int, NEW c \in Int, NEW d \in Int, NEW e \in Int
  PROVE  Sum(<<a, b, c, d, e>>) = a + b + c + d + e
<1> DEFINE s == <<a, b, c, d, e>>
<1>1. /\ s \in Seq(Int) /\ Len(s) = 5
      /\ s[1] = a /\ s[2] = b /\ s[3] = c /\ s[4] = d /\ s[5] = e
  OBVIOUS
<1> HIDE DEF s
<1>2. PICK f \in [0 .. Len(s) -> Int] :
           /\ f[0] = 0
           /\ \A n \in 1 .. Len(s) : f[n] = f[n - 1] + s[n]
           /\ Sum(s) = f[Len(s)]
  BY <1>1, SumDef
<1>3. \A n \in 0 .. 4 : f[n + 1] = f[n] + s[n + 1]
  <2> TAKE n \in 0 .. 4
  <2>1. n + 1 \in 1 .. Len(s) /\ (n + 1) - 1 = n
    BY <1>1
  <2> QED
    BY <1>2, <2>1
<1>5. /\ f[1] = f[0] + s[1] /\ f[2] = f[1] + s[2] /\ f[3] = f[2] + s[3]
      /\ f[4] = f[3] + s[4] /\ f[5] = f[4] + s[5]
  <2>1. f[0 + 1] = f[0] + s[0 + 1] /\ f[1 + 1] = f[1] + s[1 + 1]
    BY <1>3
  <2>2. /\ f[2 + 1] = f[2] + s[2 + 1] /\ f[3 + 1] = f[3] + s[3 + 1]
        /\ f[4 + 1] = f[4] + s[4 + 1]
    BY <1>3
  <2> QED
    BY <2>1, <2>2
<1>4. /\ f[1] = a /\ f[2] = a + b /\ f[3] = a + b + c /\ f[4] = a + b + c + d
      /\ f[5] = a + b + c + d + e
  BY <1>1, <1>2, <1>5
<1> QED
  BY <1>1, <1>2, <1>4 DEF s

(* The two infoframes in the registers add up to 0 with their headers.     *)
AVISum(c) == Sum([k \in 1 .. 13 |-> c.reg[1][Bank1.AVI_DB[k]]])
AVISound(c) == (145 + c.reg[1][93] + AVISum(c)) % 256 = 0
AUDSound(c) ==
  (143 + c.reg[1][109]
    + (c.reg[1][104] + c.reg[1][105] + c.reg[1][107] + c.reg[1][108])) % 256 = 0

(* The bytes of the AVI infoframe are in bank 1, and its checksum is not   *)
(* among them.                                                             *)
LEMMA AVIAddresses ==
  /\ \A k \in 1 .. 13 : /\ Bank1.AVI_DB[k] \in 88 .. 101 /\ Bank1.AVI_DB[k] # 93
                        /\ Bank1.AVI_DB[k] \in OffBank /\ Bank1.AVI_DB[k] \in Bytes
                        /\ Bank1.AVI_DB[k] >= 48
  /\ DOMAIN Bank1.AVI_DB = 1 .. 13 /\ Bank1.AVI_SUM = 93
<1>1. \A k \in 1 .. 13 : Bank1.AVI_DB[k] = IF k <= 5 THEN 87 + k ELSE 88 + k
  BY DEF Bank1
<1>2. DOMAIN Bank1.AVI_DB = 1 .. 13 /\ Bank1.AVI_SUM = 93
  BY DEF Bank1
<1>3. \A k \in 1 .. 13 : Bank1.AVI_DB[k] \in 88 .. 101 /\ Bank1.AVI_DB[k] # 93
  BY <1>1
<1>5. \A a \in 88 .. 101 : a \in OffBank /\ a \in Bytes /\ a >= 48
  BY DEF OffBank, Bytes, Irq
<1> QED
  BY <1>2, <1>3, <1>5

(* Each byte of the AVI infoframe has a register of its own.               *)
LEMMA AVIDistinct ==
  ASSUME NEW j \in 1 .. 13, NEW k \in 1 .. 13, j > k
  PROVE  Bank1.AVI_DB[j] # Bank1.AVI_DB[k]
<1>1. \A i \in 1 .. 13 : Bank1.AVI_DB[i] = IF i <= 5 THEN 87 + i ELSE 88 + i
  BY DEF Bank1
<1> QED
  BY <1>1

(* A checksum is a byte and makes header, checksum and data add up to 0.   *)
LEMMA ChecksumMeans ==
  ASSUME NEW type \in Int, NEW ver \in Int, NEW len \in Int, NEW s, Sum(s) \in Int
  PROVE  /\ Checksum(type, ver, len, s) \in Bytes
         /\ (128 + ver + type + len + Checksum(type, ver, len, s) + Sum(s)) % 256 = 0
<1> DEFINE x == 128 + ver + type + len + Sum(s)
           y == (-x) % 256
<1>1. x \in Int
  OBVIOUS
<1>2. Checksum(type, ver, len, s) = y
  BY DEF Checksum
<1>3. 128 + ver + type + len + y + Sum(s) = x + y
  <2>1. y \in Int
    BY <1>1
  <2> HIDE DEF y
  <2> QED
    BY <2>1
<1> HIDE DEF x
<1>4. y \in Bytes /\ (x + y) % 256 = 0
  BY <1>1 DEF Bytes
<1> QED
  BY <1>2, <1>3, <1>4

(* A sequence is a function of its indices.                                *)
LEMMA SeqEntries ==
  ASSUME NEW S, NEW s \in Seq(S)
  PROVE  s = [k \in 1 .. Len(s) |-> s[k]] /\ \A k \in 1 .. Len(s) : s[k] \in S
OBVIOUS

(* SetAVIInfoFrame sends a sound infoframe with the two bytes of the       *)
(* colours.                                                                *)
LEMMA AVIFrameMeans ==
  ASSUME NEW c, Tame(c), NEW db \in Seq(Bytes), Len(db) = 13
  PROVE  LET d == SetAVIInfoFrame(c, db)
         IN /\ Keeps(c, d, {205}, 88 .. 101) /\ Tame(d) /\ AVISound(d)
            /\ d.reg[1][88] = db[1] /\ d.reg[1][89] = db[2]
<1> DEFINE d == SetAVIInfoFrame(c, db)
           s == [k \in 1 .. 13 |-> <<Bank1.AVI_DB[k], db[k]>>]
           cs == Checksum(2, 2, 13, db)
           c0 == Bank(c, 1)
           c1 == Writes(c0, s)
           c2 == WriteReg(c1, 93, cs)
           c3 == Bank(c2, 0)
           Y == 88 .. 101
<1>1. d = WriteReg(c3, 205, 3)
  <2>1. Hdmi.AVI_CTRL = 205 /\ Hdmi.ENABLE_REPEAT = 3 /\ Bank1.AVI_SUM = 93
    BY DEF Hdmi, Bank1
  <2> QED
    BY <2>1 DEF SetAVIInfoFrame
<1>2. /\ Sum(db) \in Int
      /\ \A k \in 1 .. 13 : db[k] \in Bytes
      /\ db = [k \in 1 .. 13 |-> db[k]]
  <2>1. (\A k \in 1 .. 13 : db[k] \in Bytes) /\ db = [k \in 1 .. 13 |-> db[k]]
    <3>1. \A k \in 1 .. Len(db) : db[k] \in Bytes
      BY SeqEntries
    <3>2. db = [k \in 1 .. Len(db) |-> db[k]]
      BY SeqEntries
    <3> QED
      BY <3>1, <3>2
  <2>2. \A k \in 1 .. 13 : db[k] \in Int
    BY <2>1 DEF Bytes
  <2>3. db \in Seq(Int)
    BY <2>1, <2>2
  <2> QED
    BY <2>1, <2>3, SumIsInt
<1>3. cs \in Bytes /\ (145 + cs + Sum(db)) % 256 = 0
  <2> DEFINE t == 2
             l == 13
             x == Checksum(t, t, l, db)
  <2>1. t \in Int /\ l \in Int /\ cs = x
    OBVIOUS
  <2> HIDE DEF t, l, cs
  <2>2. x \in Bytes /\ (128 + t + t + l + x + Sum(db)) % 256 = 0
    BY <1>2, <2>1, ChecksumMeans
  <2> HIDE DEF x
  <2>3. 128 + t + t + l + x + Sum(db) = 145 + x + Sum(db)
    BY <1>2, <2>2 DEF t, l, Bytes
  <2> QED
    BY <2>1, <2>2, <2>3
<1> HIDE DEF cs, d
<1>4. /\ s \in Seq(OffBank \X Bytes) /\ s \in Seq(Free1(Y)) /\ Len(s) = 13
      /\ \A k \in 1 .. 13 : s[k][1] = Bank1.AVI_DB[k] /\ s[k][2] = db[k]
  <2>1. \A k \in 1 .. 13 : /\ Bank1.AVI_DB[k] \in OffBank
                           /\ Bank1.AVI_DB[k] \in OffBank \ (Shown1 \ Y)
    <3>1. \A a \in 88 .. 101 : a \notin Shown1 \ Y
      OBVIOUS
    <3> HIDE DEF Y
    <3> QED
      BY <3>1, AVIAddresses
  <2>2. \A k \in 1 .. 13 : s[k] \in OffBank \X Bytes /\ s[k] \in Free1(Y)
    BY <1>2, <2>1 DEF Free1
  <2> QED
    BY <2>2
<1> HIDE DEF s, Y
<1>5. c0 \in Chips /\ c0.bank = 1 /\ Keeps(c, c0, {205}, Y)
  BY BankKeeps, KeepsMore DEF Tame
<1> HIDE DEF c0
<1>6. Keeps(c0, c1, {205}, Y) /\ c1 \in Chips /\ c1.bank = 1
  <2>1. (c0.bank = 0 => s \in Seq(Free0({205}))) /\ (c0.bank = 1 => s \in Seq(Free1(Y)))
    BY <1>4, <1>5
  <2> QED
    BY <1>5, <2>1, WritesKeep
<1>7. \A k \in 1 .. 13 : c1.reg[1][Bank1.AVI_DB[k]] = db[k]
  <2> TAKE k \in 1 .. 13
  <2>1. k \in 1 .. Len(s) /\ s[k][1] >= 48
    <3>1. Bank1.AVI_DB[k] >= 48
      BY AVIAddresses
    <3>2. s[k][1] = Bank1.AVI_DB[k] /\ Len(s) = 13
      BY <1>4
    <3> QED
      BY <3>1, <3>2
  <2>2. \A j \in 1 .. Len(s) : j > k => s[j][1] # s[k][1]
    <3>1. ASSUME NEW j \in 1 .. Len(s), j > k PROVE s[j][1] # s[k][1]
      <4>4. Len(s) = 13
        BY <1>4
      <4>3. j \in 1 .. 13 /\ j > k
        BY <3>1, <4>4
      <4>1. j \in 1 .. 13 /\ Bank1.AVI_DB[j] # Bank1.AVI_DB[k]
        BY <4>3, AVIDistinct
      <4>2. s[j][1] = Bank1.AVI_DB[j] /\ s[k][1] = Bank1.AVI_DB[k]
        BY <1>4, <4>1
      <4> QED
        BY <4>1, <4>2
    <3> QED
      BY <3>1
  <2>3. c1.reg[c0.bank][s[k][1]] = s[k][2]
    BY <1>4, <1>5, <2>1, <2>2, WritesFirst
  <2> QED
    BY <1>4, <1>5, <2>3
<1> HIDE DEF c1
<1>8. 93 \in OffBank /\ 93 \in Y /\ 93 \in Bytes /\ 93 # Irq.BANK /\ BankOf(c1, 93) = 1
  BY <1>6 DEF OffBank, Bytes, Irq, Y, BankOf
<1>9. Keeps(c1, c2, {205}, Y) /\ c2 \in Chips
  <2>1. c1 \in Chips /\ 93 \in OffBank /\ cs \in Bytes /\ c1.bank # 0 /\ 93 \notin Shown1 \ Y
    BY <1>3, <1>6, <1>8
  <2> QED
    BY <2>1, WriteKeeps
<1>10. \A x \in Bytes : c2.reg[1][x] = IF x = 93 THEN cs ELSE c1.reg[1][x]
  BY <1>3, <1>6, <1>8, WriteToReg
<1> HIDE DEF c2
<1>11. Keeps(c2, c3, {205}, Y) /\ Tame(c3) /\ c3.reg = c2.reg /\ c3 \in Chips
  BY <1>9, BankKeeps, BankIsTame, KeepsMore
<1> HIDE DEF c3
<1>12. /\ 205 \in OffBank /\ 205 \in Bytes /\ 205 # Irq.BANK /\ 205 \notin Shown0 \ {205}
       /\ BankOf(c3, 205) = 0 /\ 3 \in Bytes
  BY <1>11 DEF OffBank, Bytes, Irq, BankOf, Tame
<1>13. Keeps(c3, d, {205}, Y) /\ Tame(d)
  BY <1>1, <1>11, <1>12, WriteTame
<1>14. \A x \in Bytes : d.reg[1][x] = c3.reg[1][x]
  BY <1>1, <1>11, <1>12, WriteToReg
<1>15. Keeps(c, d, {205}, Y)
  BY <1>5, <1>6, <1>9, <1>11, <1>13, KeepsTrans
<1>16. /\ d.reg[1][93] = cs
       /\ \A k \in 1 .. 13 : d.reg[1][Bank1.AVI_DB[k]] = db[k]
  <2>1. \A k \in 1 .. 13 : Bank1.AVI_DB[k] \in Bytes /\ Bank1.AVI_DB[k] # 93
    BY AVIAddresses
  <2>2. \A x \in Bytes : d.reg[1][x] = IF x = 93 THEN cs ELSE c1.reg[1][x]
    BY <1>10, <1>11, <1>14
  <2>3. d.reg[1][93] = cs
    BY <1>8, <2>2
  <2>4. \A k \in 1 .. 13 : d.reg[1][Bank1.AVI_DB[k]] = c1.reg[1][Bank1.AVI_DB[k]]
    BY <2>1, <2>2
  <2> QED
    BY <1>7, <2>3, <2>4
<1>17. AVISum(d) = Sum(db)
  <2>1. [k \in 1 .. 13 |-> d.reg[1][Bank1.AVI_DB[k]]] = [k \in 1 .. 13 |-> db[k]]
    BY <1>16
  <2> QED
    BY <1>2, <2>1 DEF AVISum
<1>18. d.reg[1][88] = db[1] /\ d.reg[1][89] = db[2]
  <2>1. Bank1.AVI_DB[1] = 88 /\ Bank1.AVI_DB[2] = 89
    BY DEF Bank1
  <2>2. d.reg[1][Bank1.AVI_DB[1]] = db[1] /\ d.reg[1][Bank1.AVI_DB[2]] = db[2]
    BY <1>16
  <2> QED
    BY <2>1, <2>2
<1> QED
  BY <1>3, <1>13, <1>15, <1>16, <1>17, <1>18 DEF AVISound, Y, d

(* ConfigAudioInfoFrm sends a sound infoframe.                             *)
LEMMA AUDFrameMeans ==
  ASSUME NEW c, Tame(c)
  PROVE  LET d == ConfigAudioInfoFrm(c)
         IN Keeps(c, d, {206}, 104 .. 109) /\ Tame(d) /\ AUDSound(d)
<1> DEFINE d == ConfigAudioInfoFrm(c)
           db == <<1, 0, 0, 0, 0, 0, 0, 0, 0, 0>>
           cs == Checksum(4, 1, 10, [k \in 1 .. 5 |-> db[k]])
           s == <<<<104, db[1]>>, <<105, db[2]>>, <<107, db[4]>>, <<108, db[5]>>, <<109, cs>> >>
           c0 == Bank(c, 1)
           c1 == Writes(c0, s)
           c2 == Bank(c1, 0)
           Y == 104 .. 109
<1>1. d = WriteReg(c2, 206, 3)
  <2>1. /\ Hdmi.AUD_CTRL = 206 /\ Hdmi.ENABLE_REPEAT = 3 /\ Bank1.AUD_SUM = 109
        /\ Bank1.AUD_CC = 104 /\ Bank1.AUD_SF = 105 /\ Bank1.AUD_CA = 107
        /\ Bank1.AUD_DM_LSV = 108
    BY DEF Hdmi, Bank1
  <2> HIDE DEF cs
  <2>2. d = SetAudioInfoFrame(c, db)
    BY DEF ConfigAudioInfoFrm, EnableAudioInfoFrame
  <2> HIDE DEF db, d
  <2> QED
    BY <2>1, <2>2 DEF SetAudioInfoFrame, cs
<1>2. /\ cs \in Bytes /\ (143 + cs + 1) % 256 = 0
      /\ db[1] = 1 /\ db[2] = 0 /\ db[4] = 0 /\ db[5] = 0
  <2> DEFINE z == 0
             o == 1
             t == 4
             l == 10
             five == [k \in 1 .. 5 |-> db[k]]
             x == Checksum(t, o, l, five)
  <2>1. five = <<o, z, z, z, z>>
    OBVIOUS
  <2>2. z \in Int /\ o \in Int /\ t \in Int /\ l \in Int /\ cs = x
    OBVIOUS
  <2> HIDE DEF z, o, t, l, cs, five
  <2>3. Sum(five) = o + z + z + z + z
    BY <2>1, <2>2, SumOfFive
  <2>4. x \in Bytes /\ (128 + o + t + l + x + Sum(five)) % 256 = 0
    BY <2>2, <2>3, ChecksumMeans
  <2> HIDE DEF x
  <2>6. x \in Int /\ 128 + o + t + l + x + Sum(five) = 143 + x + 1
    BY <2>3, <2>4 DEF z, o, t, l, Bytes
  <2>5. db[1] = 1 /\ db[2] = 0 /\ db[4] = 0 /\ db[5] = 0
    OBVIOUS
  <2> QED
    BY <2>2, <2>4, <2>5, <2>6
<1> HIDE DEF cs, d, db
<1>3. /\ s \in Seq(OffBank \X Bytes) /\ s \in Seq(Free1(Y)) /\ Len(s) = 5
      /\ s[1] = <<104, 1>> /\ s[2] = <<105, 0>> /\ s[3] = <<107, 0>>
      /\ s[4] = <<108, 0>> /\ s[5] = <<109, cs>>
  BY <1>2 DEF Free1, OffBank, Bytes, Irq, Shown1
<1> HIDE DEF s, Y
<1>5. c0 \in Chips /\ c0.bank = 1 /\ Keeps(c, c0, {206}, Y)
  BY BankKeeps, KeepsMore DEF Tame
<1> HIDE DEF c0
<1>6. Keeps(c0, c1, {206}, Y) /\ c1 \in Chips /\ c1.bank = 1
  <2>1. (c0.bank = 0 => s \in Seq(Free0({206}))) /\ (c0.bank = 1 => s \in Seq(Free1(Y)))
    BY <1>3, <1>5
  <2> QED
    BY <1>5, <2>1, WritesKeep
<1>7. \A k \in 1 .. 5 : c1.reg[1][s[k][1]] = s[k][2]
  <2> TAKE k \in 1 .. 5
  <2>1. k \in 1 .. Len(s) /\ s[k][1] >= 48
    BY <1>3
  <2>2. \A j \in 1 .. Len(s) : j > k => s[j][1] # s[k][1]
    BY <1>3
  <2>3. c1.reg[c0.bank][s[k][1]] = s[k][2]
    BY <1>3, <1>5, <2>1, <2>2, WritesFirst
  <2> QED
    BY <1>5, <2>3
<1>8. /\ c1.reg[1][104] = 1 /\ c1.reg[1][105] = 0 /\ c1.reg[1][107] = 0
      /\ c1.reg[1][108] = 0 /\ c1.reg[1][109] = cs
  <2>1. /\ s[1][1] = 104 /\ s[1][2] = 1 /\ s[2][1] = 105 /\ s[2][2] = 0
        /\ s[3][1] = 107 /\ s[3][2] = 0 /\ s[4][1] = 108 /\ s[4][2] = 0
        /\ s[5][1] = 109 /\ s[5][2] = cs
    BY <1>3
  <2>2. /\ c1.reg[1][s[1][1]] = s[1][2] /\ c1.reg[1][s[2][1]] = s[2][2]
        /\ c1.reg[1][s[3][1]] = s[3][2] /\ c1.reg[1][s[4][1]] = s[4][2]
        /\ c1.reg[1][s[5][1]] = s[5][2]
    BY <1>7
  <2> QED
    BY <2>1, <2>2
<1> HIDE DEF c1
<1>11. Keeps(c1, c2, {206}, Y) /\ Tame(c2) /\ c2.reg = c1.reg /\ c2 \in Chips
  BY <1>6, BankKeeps, BankIsTame, KeepsMore
<1> HIDE DEF c2
<1>12. /\ 206 \in OffBank /\ 206 \in Bytes /\ 206 # Irq.BANK /\ 206 \notin Shown0 \ {206}
       /\ BankOf(c2, 206) = 0 /\ 3 \in Bytes
  BY <1>11 DEF OffBank, Bytes, Irq, BankOf, Tame
<1>13. Keeps(c2, d, {206}, Y) /\ Tame(d)
  BY <1>1, <1>11, <1>12, WriteTame
<1>14. \A x \in Bytes : d.reg[1][x] = c2.reg[1][x]
  BY <1>1, <1>11, <1>12, WriteToReg
<1>15. Keeps(c, d, {206}, Y)
  BY <1>5, <1>6, <1>11, <1>13, KeepsTrans
<1>16. AUDSound(d)
  <2>1. {104, 105, 107, 108, 109} \subseteq Bytes
    BY DEF Bytes
  <2>2. /\ d.reg[1][104] = 1 /\ d.reg[1][105] = 0 /\ d.reg[1][107] = 0
        /\ d.reg[1][108] = 0 /\ d.reg[1][109] = cs
    BY <1>8, <1>11, <1>14, <2>1
  <2>3. 143 + cs + (1 + 0 + 0 + 0) = 143 + cs + 1
    BY <1>2 DEF Bytes
  <2> QED
    BY <1>2, <2>2, <2>3 DEF AUDSound
<1> QED
  BY <1>13, <1>15, <1>16 DEF Y, d

-----------------------------------------------------------------------------
(* The settings and what the infoframe tells of them.                      *)

(* A colour mode is its own colour bits; one byte of the infoframe tells   *)
(* RGB from YUV.                                                           *)
LEMMA ColourBits ==
  /\ \A c \in Colours : c & F_MODE_CLRMOD_MASK = c
  /\ 80 & 96 # 0 /\ 48 & 96 # 0 /\ 16 & 96 = 0
<1>1. 0 & 3 = 0 /\ 1 & 3 = 1 /\ 2 & 3 = 2
  BY DEF &, Weigh, HasBit
<1>2. 80 & 96 = 64 /\ 48 & 96 = 32 /\ 16 & 96 = 0
  BY DEF &, Weigh, HasBit
<1> QED
  BY <1>1, <1>2 DEF Colours, F_MODE_RGB444, F_MODE_YUV422, F_MODE_YUV444,
                    F_MODE_CLRMOD_MASK

(* The other tells ITU-R BT.709 from 601.                                  *)
LEMMA ColorimetryBits ==
  ASSUME NEW wide \in BOOLEAN, NEW itu709 \in BOOLEAN
  PROVE  (8 | (IF wide THEN 32 ELSE 16) | (IF itu709 THEN 128 ELSE 64)) & 192 = 128
           <=> itu709
<1>1. 8 | 32 = 40 /\ 8 | 16 = 24
  BY DEF |, Weigh, HasBit
<1>2. 40 | 128 = 168 /\ 24 | 128 = 152 /\ 40 | 64 = 104 /\ 24 | 64 = 88
  BY DEF |, Weigh, HasBit
<1>3. 168 & 192 = 128 /\ 152 & 192 = 128 /\ 104 & 192 = 64 /\ 88 & 192 = 64
  BY DEF &, Weigh, HasBit
<1> QED
  BY <1>1, <1>2, <1>3

(* The AVI infoframe of a picture: thirteen bytes that tell its colours    *)
(* and its colorimetry.                                                    *)
LEMMA AVIMeans ==
  ASSUME NEW vic \in Bytes, NEW out \in Colours, NEW wide \in BOOLEAN,
         NEW itu709 \in BOOLEAN, NEW rep
  PROVE  LET db == AVI(vic, out, wide, itu709, rep)
         IN /\ db \in Seq(Bytes) /\ Len(db) = 13
            /\ db[1] & 96 = 0 <=> out = F_MODE_RGB444
            /\ db[2] & 192 = 128 <=> itu709
<1> DEFINE a == CASE out = F_MODE_YUV444 -> 80 [] out = F_MODE_YUV422 -> 48
                  [] OTHER -> 16
           b == 8 | (IF wide THEN 32 ELSE 16) | (IF itu709 THEN 128 ELSE 64)
           r == rep & 3
           db == AVI(vic, out, wide, itu709, rep)
<1>1. db = <<a, b, 0, vic, r, 0, 0, 0, 0, 0, 0, 0, 0>>
  BY DEF AVI
<1>2. a \in Bytes /\ (a & 96 = 0 <=> out = F_MODE_RGB444)
  <2>1. \/ out = F_MODE_YUV444 /\ a = 80
        \/ out = F_MODE_YUV422 /\ a = 48
        \/ out = F_MODE_RGB444 /\ a = 16
    BY DEF Colours, F_MODE_RGB444, F_MODE_YUV422, F_MODE_YUV444
  <2>2. 80 \in Bytes /\ 48 \in Bytes /\ 16 \in Bytes
    BY DEF Bytes
  <2> HIDE DEF a
  <2> QED
    BY <2>1, <2>2, ColourBits DEF F_MODE_RGB444, F_MODE_YUV422, F_MODE_YUV444
<1>3. b \in Bytes /\ r \in Bytes /\ 0 \in Bytes
  BY OrAreBytes DEF Bytes
<1>4. b & 192 = 128 <=> itu709
  BY ColorimetryBits
<1> HIDE DEF a, b, r, db
<1>5. db \in Seq(Bytes) /\ Len(db) = 13 /\ db[1] = a /\ db[2] = b
  BY <1>1, <1>2, <1>3
<1> QED
  BY <1>2, <1>4, <1>5 DEF db

(* The globals of it6613_sys.c.                                            *)
Settings == [VIC : (Timings \cap DOMAIN TimingTable) \cup {0}, VideoPixelClock : Nat,
             pixelrep : Nat, wide : BOOLEAN, itu709 : BOOLEAN, bInputColorMode : Bytes,
             bOutputColorMode : Colours, bChangeMode : BOOLEAN, bHDMIMode : BOOLEAN,
             bAudioEnable : BOOLEAN]

(* The colorimetry in the flags of the input mode is that of the timing.   *)
InOrder(s) == s.itu709 <=> s.bInputColorMode & F_MODE_ITU709 # 0
KnownInput(s) == s.bInputColorMode & F_MODE_CLRMOD_MASK \in Colours

(* What the table of timings holds.                                        *)
LEMMA TimingTableType ==
  /\ DOMAIN TimingTable \subseteq Bytes
  /\ \A vic \in DOMAIN TimingTable :
       /\ TimingTable[vic][1] \in Nat /\ TimingTable[vic][2] \in Nat
       /\ TimingTable[vic][3] \in BOOLEAN /\ TimingTable[vic][4] \in BOOLEAN
<1>1. DOMAIN TimingTable \subseteq Bytes
  BY DEF TimingTable, Bytes
<1>2. ASSUME NEW vic \in DOMAIN TimingTable
      PROVE  /\ TimingTable[vic][1] \in Nat /\ TimingTable[vic][2] \in Nat
             /\ TimingTable[vic][3] \in BOOLEAN /\ TimingTable[vic][4] \in BOOLEAN
  <2>1. \E clk, rep \in Nat, wide, itu709 \in BOOLEAN :
          TimingTable[vic] = <<clk, rep, wide, itu709>>
    <3>1. \/ \E clk \in Nat, rep \in Nat : TimingTable[vic] = SD(clk, rep)
          \/ \E clk \in Nat, rep \in Nat : TimingTable[vic] = Wide(clk, rep)
          \/ \E clk \in Nat : TimingTable[vic] = HD(clk)
      <4>1. \/ TimingTable[vic] = SD(25000, 0)
            \/ TimingTable[vic] = SD(27000, 0)
            \/ TimingTable[vic] = SD(13500, 1)
            \/ TimingTable[vic] = Wide(27000, 0)
            \/ TimingTable[vic] = Wide(13500, 1)
            \/ TimingTable[vic] = Wide(148500, 0)
            \/ TimingTable[vic] = HD(74250)
            \/ TimingTable[vic] = HD(148500)
        <5>1. vic \in 1..7 \cup 16..22 \cup 31..34 \cup {46}
          BY DEF TimingTable
        <5>2. vic \in {1, 2, 3, 4, 5, 6, 7, 16, 17, 18, 19, 20, 21, 22, 31, 32, 33, 34, 46}
          BY <5>1
        <5>3. /\ vic = 1 => TimingTable[vic] = SD(25000, 0)
              /\ vic \in {2, 17} => TimingTable[vic] = SD(27000, 0)
              /\ vic \in {6, 21} => TimingTable[vic] = SD(13500, 1)
          BY DEF TimingTable
        <5>4. /\ vic \in {3, 18} => TimingTable[vic] = Wide(27000, 0)
              /\ vic \in {7, 22} => TimingTable[vic] = Wide(13500, 1)
              /\ vic = 46 => TimingTable[vic] = Wide(148500, 0)
          BY DEF TimingTable
        <5>5. /\ vic \in {4, 5, 19, 20, 32, 33, 34} => TimingTable[vic] = HD(74250)
              /\ vic \in {16, 31} => TimingTable[vic] = HD(148500)
          BY DEF TimingTable
        <5> QED
          BY <5>2, <5>3, <5>4, <5>5
      <4> QED
        BY <4>1
    <3>2. CASE \E clk \in Nat, rep \in Nat : TimingTable[vic] = SD(clk, rep)
      BY <3>2 DEF SD
    <3>3. CASE \E clk \in Nat, rep \in Nat : TimingTable[vic] = Wide(clk, rep)
      BY <3>3 DEF Wide
    <3>4. CASE \E clk \in Nat : TimingTable[vic] = HD(clk)
      BY <3>4 DEF HD
    <3> QED
      BY <3>1, <3>2, <3>3, <3>4
  <2>2. PICK clk \in Nat, rep \in Nat, wide \in BOOLEAN, itu709 \in BOOLEAN :
          TimingTable[vic] = <<clk, rep, wide, itu709>>
    BY <2>1
  <2> QED
    BY <2>2
<1> QED
  BY <1>1, <1>2

(* Replacing the flags of colorimetry and range keeps the colour of the    *)
(* input mode.                                                             *)
LEMMA FlagBits ==
  ASSUME NEW v \in Bytes, NEW f \in {F_MODE_ITU709, F_MODE_16_235}
  PROVE  LET u == Without(v, F_MODE_ITU709 | F_MODE_16_235) | f
         IN /\ u \in Bytes
            /\ u & F_MODE_CLRMOD_MASK = v & F_MODE_CLRMOD_MASK
            /\ u & F_MODE_ITU709 # 0 <=> f = F_MODE_ITU709
<1> DEFINE M == F_MODE_ITU709 | F_MODE_16_235
           w0 == Without(v, M)
           u == w0 | f
<1>1. \A w \in Weights : /\ HasBit(F_MODE_ITU709, w) <=> w = 16
                         /\ HasBit(F_MODE_16_235, w) <=> w = 32
                         /\ HasBit(F_MODE_CLRMOD_MASK, w) <=> w \in {1, 2}
  BY DEF F_MODE_ITU709, F_MODE_16_235, F_MODE_CLRMOD_MASK, HasBit, Weights
<1>2. \A w \in Weights : HasBit(M, w) <=> w \in {16, 32}
  BY <1>1, OrBit
<1> HIDE DEF M
<1>3. w0 \in Bytes /\ \A w \in Weights : HasBit(w0, w) <=> HasBit(v, w) /\ w \notin {16, 32}
  BY <1>2, WithoutBits
<1> HIDE DEF w0
<1>4. u \in Bytes /\ \A w \in Weights : HasBit(u, w) <=> HasBit(w0, w) \/ HasBit(f, w)
  BY OrBits
<1> HIDE DEF u
<1>5. F_MODE_ITU709 # F_MODE_16_235
  BY DEF F_MODE_ITU709, F_MODE_16_235
<1>6. \A w \in {1, 2} : w \in Weights /\ (HasBit(u, w) <=> HasBit(v, w))
  BY <1>1, <1>3, <1>4 DEF Weights
<1>7. 16 \in Weights /\ (HasBit(u, 16) <=> f = F_MODE_ITU709)
  BY <1>1, <1>3, <1>4, <1>5 DEF Weights
<1>8. u & F_MODE_CLRMOD_MASK = v & F_MODE_CLRMOD_MASK
  <2>1. u & F_MODE_CLRMOD_MASK \in Bytes /\ v & F_MODE_CLRMOD_MASK \in Bytes
    BY OrAreBytes
  <2>2. \A w \in Weights :
          HasBit(u & F_MODE_CLRMOD_MASK, w) <=> HasBit(v & F_MODE_CLRMOD_MASK, w)
    BY <1>1, <1>6, AndBit
  <2> QED
    BY <2>1, <2>2, SameBits
<1>9. u & F_MODE_ITU709 # 0 <=> f = F_MODE_ITU709
  BY <1>1, <1>7, NoBits
<1> QED
  BY <1>4, <1>8, <1>9 DEF u, w0, M

(* HDMITX_ChangeDisplayOption keeps the settings well formed, and a known  *)
(* timing makes colorimetry and flags agree.                               *)
LEMMA OptionMeans ==
  ASSUME NEW s \in Settings, KnownInput(s), NEW vic \in Timings, NEW out \in Colours
  PROVE  LET t == HDMITX_ChangeDisplayOption(s, vic, out)
         IN /\ t \in Settings /\ KnownInput(t)
            /\ InOrder(s) \/ vic \in DOMAIN TimingTable => InOrder(t)
<1> DEFINE t == HDMITX_ChangeDisplayOption(s, vic, out)
<1>1. CASE vic \notin DOMAIN TimingTable
  <2>1. t = [s EXCEPT !.VIC = 0, !.bChangeMode = FALSE]
    BY <1>1 DEF HDMITX_ChangeDisplayOption
  <2> HIDE DEF t
  <2>2. /\ t \in Settings /\ t.bInputColorMode = s.bInputColorMode
        /\ t.itu709 = s.itu709
    BY <2>1 DEF Settings
  <2> QED
    BY <1>1, <2>2 DEF t, InOrder, KnownInput
<1>2. CASE vic \in DOMAIN TimingTable
  <2> DEFINE e == TimingTable[vic]
             f == IF e[4] THEN F_MODE_ITU709 ELSE F_MODE_16_235
             u == Without(s.bInputColorMode, F_MODE_ITU709 | F_MODE_16_235) | f
  <2>1. t = [s EXCEPT !.VIC = vic, !.VideoPixelClock = e[1], !.pixelrep = e[2],
                      !.wide = e[3], !.itu709 = e[4], !.bOutputColorMode = out,
                      !.bInputColorMode = u, !.bChangeMode = TRUE]
    BY <1>2 DEF HDMITX_ChangeDisplayOption, Settings
  <2>2. e[1] \in Nat /\ e[2] \in Nat /\ e[3] \in BOOLEAN /\ e[4] \in BOOLEAN
    BY <1>2, TimingTableType
  <2> HIDE DEF t, e
  <2>3. /\ f \in {F_MODE_ITU709, F_MODE_16_235} /\ s.bInputColorMode \in Bytes
        /\ f = F_MODE_ITU709 <=> e[4]
    BY <2>2 DEF Settings, F_MODE_ITU709, F_MODE_16_235
  <2> HIDE DEF f
  <2>4. /\ u \in Bytes
        /\ u & F_MODE_CLRMOD_MASK = s.bInputColorMode & F_MODE_CLRMOD_MASK
        /\ u & F_MODE_ITU709 # 0 <=> f = F_MODE_ITU709
    <3>1. f \in {F_MODE_ITU709, F_MODE_16_235} /\ s.bInputColorMode \in Bytes
      BY <2>3
    <3> QED
      BY <3>1, FlagBits
  <2> HIDE DEF u
  <2>5. t \in Settings /\ t.bInputColorMode = u /\ t.itu709 = e[4]
    BY <1>2, <2>1, <2>2, <2>4 DEF Settings
  <2> QED
    BY <2>3, <2>4, <2>5 DEF t, InOrder, KnownInput
<1> QED
  BY <1>1, <1>2

-----------------------------------------------------------------------------
(* Start-up: bank 0, no infoframe sent, no colour bits asked for.         *)
LEMMA BlankIsTame == Tame(Blank) /\ \A x \in Bytes : Blank.reg[0][x] = 0
BY DEF Tame, Chips, Blank, Bytes

(* Nothing is in no bits.                                                  *)
LEMMA NoBitsOfZero == \A m : 0 & m = 0
<1>1. \A w \in Weights : ~HasBit(0, w)
  BY DEF HasBit, Weights
<1> QED
  BY <1>1, NoBits

(* Saying where the HDCP keys are touches nothing that is shown.           *)
LEMMA HDCPROMQuiet ==
  ASSUME NEW c, Tame(c), NEW internal \in BOOLEAN
  PROVE  Quiet(c, InitIT6613_HDCPROM(c, internal))
<1> DEFINE s == <<<<248, 195>>, <<248, 165>>, <<Keys.LISTCTRL, 96>>,
                  <<Keys.ROM_HEADER, IF internal THEN 224 ELSE 160>>,
                  <<Keys.LISTCTRL, IF internal THEN 72 ELSE 0>>, <<248, 255>> >>
<1>1. InitIT6613_HDCPROM(c, internal) = Writes(Bank(c, 0), s)
  BY DEF InitIT6613_HDCPROM
<1>2. s \in Seq(Free0({}))
  BY DEF Free0, OffBank, Shown0, Bytes, Keys, Irq
<1> HIDE DEF s
<1>3. Quiet(c, Bank(c, 0))
  BY ToBank0 DEF Tame
<1>4. Quiet(Bank(c, 0), Writes(Bank(c, 0), s))
  BY <1>2, <1>3, QuietWrites DEF Quiet
<1> QED
  BY <1>1, <1>3, <1>4, QuietTrans

(* InitIT6613 leaves bank 0 selected, no depth, and sends no infoframe.    *)
LEMMA InitMeans ==
  ASSUME NEW internal \in BOOLEAN
  PROVE  LET c == InitIT6613(Blank, internal)
         IN Tame(c) /\ Depth(c) = 0 /\ c.reg[0][205] = 0 /\ c.reg[0][206] = 0
<1> DEFINE rst == Sys.VID_RST | Sys.AUD_RST | Sys.AREF_RST | Sys.HDCP_RST
           v1 == Sys.REF_RST | rst
           v2 == Afe.DRV_RST | Afe.DRV_PWD
           s1 == <<<<Sys.INT_CTRL, 0>>, <<Sys.SW_RST, v1>>,
                   <<Sys.SW_RST, rst>>, <<Afe.DRV_CTRL, v2>>,
                   <<Irq.MASK1, 178>>, <<Irq.MASK2, 248>>,
                   <<Irq.MASK3, 55>> >>
           s2 == <<<<Hdmi.NULL_CTRL, 0>>, <<Hdmi.ACP_CTRL, 0>>, <<Hdmi.ISRC1_CTRL, 0>>,
                   <<Hdmi.ISRC2_CTRL, 0>>, <<Hdmi.AVI_CTRL, 0>>, <<Hdmi.AUD_CTRL, 0>>,
                   <<Hdmi.SPD_CTRL, 0>>, <<Hdmi.MPG_CTRL, 0>>,
                   <<Audio.CTRL1, InitInstanceData.bOutputAudioMode>> >>
           c1 == Writes(Blank, s1)
           c2 == Bank(c1, 0)
           c3 == Writes(c2, s2)
           c == InitIT6613(Blank, internal)
<1>1. c = InitIT6613_HDCPROM(c3, internal)
  BY DEF InitIT6613
<1>2. rst \in Bytes /\ v1 \in Bytes /\ v2 \in Bytes
  BY OrAreBytes
<1> HIDE DEF rst, v1, v2, c
<1>3. s1 \in Seq(Free0({}))
  BY <1>2 DEF Free0, OffBank, Shown0, Bytes, Sys, Afe, Irq
<1>4. InitInstanceData.bOutputAudioMode = 0
  BY DEF InitInstanceData
<1>5. /\ s2 \in Seq(Free0({205, 206})) /\ s2 \in Seq(OffBank \X Bytes) /\ Len(s2) = 9
      /\ s2[5] = <<205, 0>> /\ s2[6] = <<206, 0>>
      /\ \A k \in 1 .. 9 : (k > 5 => s2[k][1] # 205) /\ (k > 6 => s2[k][1] # 206)
  <2>1. s2 = <<<<201, 0>>, <<202, 0>>, <<203, 0>>, <<204, 0>>, <<205, 0>>, <<206, 0>>,
               <<207, 0>>, <<208, 0>>, <<225, 0>> >>
    BY <1>4 DEF Hdmi, Audio
  <2> HIDE DEF s2
  <2>2. s2 \in Seq(Free0({205, 206}))
    BY <2>1 DEF Free0, OffBank, Shown0, Bytes, Irq
  <2>3. s2 \in Seq(OffBank \X Bytes)
    BY <2>1 DEF OffBank, Bytes, Irq
  <2> QED
    BY <2>1, <2>2, <2>3
<1> HIDE DEF s1, s2
<1>6. Quiet(Blank, c1)
  BY <1>3, BlankIsTame, QuietWrites
<1> HIDE DEF c1
<1>7. Quiet(Blank, c2)
  BY <1>6, ToBank0, QuietTrans DEF Quiet, Tame
<1> HIDE DEF c2
<1>8. Keeps(c2, c3, {205, 206}, {}) /\ Tame(c3)
  BY <1>5, <1>7, WritesTame DEF Quiet
<1>9. c3.reg[0][205] = 0 /\ c3.reg[0][206] = 0
  <2>1. c2 \in Chips /\ c2.bank = 0 /\ s2 \in Seq(OffBank \X Bytes)
    BY <1>5, <1>7 DEF Quiet, Tame
  <2>2. /\ 5 \in 1 .. Len(s2) /\ 6 \in 1 .. Len(s2)
        /\ s2[5][1] = 205 /\ s2[5][2] = 0 /\ s2[6][1] = 206 /\ s2[6][2] = 0
        /\ \A k \in 1 .. Len(s2) : k > 5 => s2[k][1] # s2[5][1]
        /\ \A k \in 1 .. Len(s2) : k > 6 => s2[k][1] # s2[6][1]
    BY <1>5
  <2>3. s2[5][1] >= 48 /\ s2[6][1] >= 48
    BY <2>2
  <2>4. c3.reg[c2.bank][s2[5][1]] = s2[5][2]
    BY <2>1, <2>2, <2>3, WritesFirst
  <2>5. c3.reg[c2.bank][s2[6][1]] = s2[6][2]
    BY <2>1, <2>2, <2>3, WritesFirst
  <2> QED
    BY <2>1, <2>2, <2>4, <2>5
<1> HIDE DEF c3
<1>10. Quiet(c3, c)
  BY <1>1, <1>8, HDCPROMQuiet
<1>11. c.reg[0][205] = 0 /\ c.reg[0][206] = 0
  BY <1>9, <1>10 DEF Quiet, Keeps, Shown0
<1>12. Blank.reg[0][193] = 0
  BY BlankIsTame DEF Bytes
<1>13. c.reg[0][193] = 0
  BY <1>7, <1>8, <1>10, <1>12 DEF Quiet, Keeps, Shown0
<1> QED
  BY <1>10, <1>11, <1>13, NoBitsOfZero DEF Quiet, Depth, c

-----------------------------------------------------------------------------
(* The inductive invariant, in parts: the state's shape; the colour bits; *)
(* the sums of the infoframes that are sent; what they tell of the picture.*)

Conv(c) == c.reg[0][114] & Video.CSC_SEL
RGBIn(c) == c.reg[0][112] & Video.INCOLMOD = Video.IN_RGB

ColoursTold(c) ==
  c.reg[1][88] & 96 = 0
    <=> Conv(c) = Video.CSC_YUV2RGB \/ (RGBIn(c) /\ Conv(c) = Video.CSC_BYPASS)

MatrixIs(c, itu709) ==
  \E limited \in BOOLEAN : \A k \in 1 .. 18 :
    c.reg[0][118 + k - 1] = IF Conv(c) = Video.CSC_RGB2YUV
                            THEN RGB2YUV(itu709, limited)[k]
                            ELSE YUV2RGB(itu709, limited)[k]

MatrixTold(c) ==
  Conv(c) # Video.CSC_BYPASS => \E itu709 \in BOOLEAN :
    (itu709 <=> c.reg[1][89] & 192 = 128) /\ MatrixIs(c, itu709)

FramesSound(c) ==
  /\ c.reg[0][205] # 0 => AVISound(c)
  /\ c.reg[0][206] # 0 => AUDSound(c)

Frames == {"none", "driver", "mixed", "caller"}
ToldShape == /\ told = [depth |-> told.depth, rate |-> told.rate, mode |-> told.mode,
                        inOrder |-> told.inOrder, frame |-> told.frame]
             /\ told.inOrder \in BOOLEAN /\ told.frame \in Frames

Shape == Tame(chip) /\ inst \in Instances /\ set \in Settings /\ source \in Rates \cup {0}
         /\ ToldShape

Modes == KnownInput(set) /\ (told.inOrder => InOrder(set))

Picturing == /\ Depth(chip) = told.depth
             /\ FramesSound(chip)
             /\ told.frame \in {"driver", "mixed"} => ColoursTold(chip)
             /\ told.frame = "driver" => MatrixTold(chip)

TxInv == Shape /\ Modes /\ Picturing

(* What leaves the picture and the infoframes alone keeps what they tell.  *)
LEMMA TellsStay ==
  ASSUME NEW c, NEW d, NEW X, NEW Y, Keeps(c, d, X, Y),
         X \cap PictureRegs = {}, Y \cap {88, 89} = {}
  PROVE  /\ ColoursTold(c) => ColoursTold(d)
         /\ MatrixTold(c) => MatrixTold(d)
<1>1. \A x \in PictureRegs : d.reg[0][x] = c.reg[0][x]
  BY DEF Keeps, PictureRegs, Shown0
<1>2. d.reg[0][112] = c.reg[0][112] /\ d.reg[0][114] = c.reg[0][114]
  BY <1>1 DEF PictureRegs
<1>3. \A k \in 1 .. 18 : d.reg[0][118 + k - 1] = c.reg[0][118 + k - 1]
  <2> TAKE k \in 1 .. 18
  <2>1. 118 + k - 1 \in PictureRegs
    BY DEF PictureRegs
  <2> QED
    BY <1>1, <2>1
<1>4. d.reg[1][88] = c.reg[1][88] /\ d.reg[1][89] = c.reg[1][89]
  BY DEF Keeps, Shown1
<1>5. Conv(d) = Conv(c) /\ (RGBIn(d) <=> RGBIn(c))
  BY <1>2 DEF Conv, RGBIn
<1>6. ColoursTold(c) => ColoursTold(d)
  <2>1. d.reg[1][88] & 96 = c.reg[1][88] & 96
    BY <1>4
  <2> QED
    BY <1>5, <2>1, Zenon DEF ColoursTold
<1>7. MatrixTold(c) => MatrixTold(d)
  <2>1. \A itu709 : MatrixIs(c, itu709) => MatrixIs(d, itu709)
    BY <1>3, <1>5 DEF MatrixIs
  <2> QED
    BY <1>4, <1>5, <2>1 DEF MatrixTold
<1> QED
  BY <1>6, <1>7

(* What keeps the registers of the AVI infoframe keeps it sound.           *)
LEMMA AVIStays ==
  ASSUME NEW c, NEW d, NEW X, NEW Y, Keeps(c, d, X, Y), Y \cap (88 .. 101) = {}, 205 \notin X
  PROVE  d.reg[0][205] = c.reg[0][205] /\ (AVISound(c) => AVISound(d))
<1>1. \A x \in 88 .. 101 : d.reg[1][x] = c.reg[1][x]
  BY DEF Keeps, Shown1
<1>2. \A k \in 1 .. 13 : d.reg[1][Bank1.AVI_DB[k]] = c.reg[1][Bank1.AVI_DB[k]]
  BY <1>1, AVIAddresses
<1>3. AVISum(d) = AVISum(c)
  BY <1>2 DEF AVISum
<1>4. d.reg[1][93] = c.reg[1][93]
  BY <1>1
<1>5. d.reg[0][205] = c.reg[0][205]
  BY DEF Keeps, Shown0
<1> QED
  BY <1>3, <1>4, <1>5 DEF AVISound

(* What keeps the registers of the audio infoframe keeps it sound.         *)
LEMMA AUDStays ==
  ASSUME NEW c, NEW d, NEW X, NEW Y, Keeps(c, d, X, Y), Y \cap (104 .. 109) = {}, 206 \notin X
  PROVE  d.reg[0][206] = c.reg[0][206] /\ (AUDSound(c) => AUDSound(d))
<1>1. \A x \in 104 .. 109 : d.reg[1][x] = c.reg[1][x]
  BY DEF Keeps, Shown1
<1>2. /\ d.reg[1][104] = c.reg[1][104] /\ d.reg[1][105] = c.reg[1][105]
      /\ d.reg[1][107] = c.reg[1][107] /\ d.reg[1][108] = c.reg[1][108]
      /\ d.reg[1][109] = c.reg[1][109]
  BY <1>1
<1>3. d.reg[0][206] = c.reg[0][206]
  BY DEF Keeps, Shown0
<1> QED
  BY <1>2, <1>3 DEF AUDSound

(* What keeps bank 1 keeps both sound.                                     *)
LEMMA FramesStay ==
  ASSUME NEW c, NEW d, NEW X, Keeps(c, d, X, {}), 205 \notin X, 206 \notin X,
         FramesSound(c)
  PROVE  FramesSound(d)
<1>1. d.reg[0][205] = c.reg[0][205] /\ (AVISound(c) => AVISound(d))
  <2>1. {} \cap (88 .. 101) = {}
    OBVIOUS
  <2> QED
    BY <2>1, AVIStays
<1>2. d.reg[0][206] = c.reg[0][206] /\ (AUDSound(c) => AUDSound(d))
  <2>1. {} \cap (104 .. 109) = {}
    OBVIOUS
  <2> QED
    BY <2>1, AUDStays
<1> QED
  BY <1>1, <1>2 DEF FramesSound

(* After the AVI infoframe, and after the audio one, both are sound.       *)
LEMMA AVIFrameStays ==
  ASSUME NEW c, Tame(c), FramesSound(c), NEW db \in Seq(Bytes), Len(db) = 13
  PROVE  LET d == SetAVIInfoFrame(c, db)
         IN /\ Tame(d) /\ FramesSound(d) /\ Depth(d) = Depth(c)
            /\ d.reg[1][88] = db[1] /\ d.reg[1][89] = db[2]
            /\ \A i, o : PictureIs(c, i, o) => PictureIs(d, i, o)
<1> DEFINE d == SetAVIInfoFrame(c, db)
           X == {205}
           Y == 88 .. 101
<1>1. /\ Keeps(c, d, X, Y) /\ Tame(d) /\ AVISound(d)
      /\ d.reg[1][88] = db[1] /\ d.reg[1][89] = db[2]
  BY AVIFrameMeans
<1>2. /\ Y \cap (104 .. 109) = {} /\ 206 \notin X /\ 193 \notin X /\ X \cap PictureRegs = {}
  BY DEF PictureRegs
<1> HIDE DEF d, X, Y
<1>3. d.reg[0][206] = c.reg[0][206] /\ (AUDSound(c) => AUDSound(d))
  BY <1>1, <1>2, AUDStays
<1>4. Depth(d) = Depth(c)
  BY <1>1, <1>2, DepthStays
<1>5. \A i, o : PictureIs(c, i, o) => PictureIs(d, i, o)
  BY <1>1, <1>2, PictureLeftAlone
<1> QED
  BY <1>1, <1>3, <1>4, <1>5 DEF FramesSound, d

(* After the audio infoframe the AVI one is as it was.                     *)
LEMMA AUDFrameStays ==
  ASSUME NEW c, Tame(c), FramesSound(c)
  PROVE  LET d == ConfigAudioInfoFrm(c)
         IN /\ Tame(d) /\ FramesSound(d) /\ Depth(d) = Depth(c)
            /\ d.reg[1][88] = c.reg[1][88] /\ d.reg[1][89] = c.reg[1][89]
            /\ \A i, o : PictureIs(c, i, o) => PictureIs(d, i, o)
<1> DEFINE d == ConfigAudioInfoFrm(c)
           X == {206}
           Y == 104 .. 109
<1>1. Keeps(c, d, X, Y) /\ Tame(d) /\ AUDSound(d)
  BY AUDFrameMeans
<1>2. /\ Y \cap (88 .. 101) = {} /\ 205 \notin X /\ 193 \notin X /\ X \cap PictureRegs = {}
      /\ 88 \notin Y /\ 89 \notin Y
  BY DEF PictureRegs
<1> HIDE DEF d, X, Y
<1>3. d.reg[0][205] = c.reg[0][205] /\ (AVISound(c) => AVISound(d))
  BY <1>1, <1>2, AVIStays
<1>4. Depth(d) = Depth(c)
  BY <1>1, <1>2, DepthStays
<1>5. \A i, o : PictureIs(c, i, o) => PictureIs(d, i, o)
  BY <1>1, <1>2, PictureLeftAlone
<1>6. d.reg[1][88] = c.reg[1][88] /\ d.reg[1][89] = c.reg[1][89]
  BY <1>1, <1>2 DEF Keeps, Shown1
<1> QED
  BY <1>1, <1>3, <1>4, <1>5, <1>6 DEF FramesSound, d

(* A chip with the picture of two modes and an infoframe of two bytes.     *)
Framed(c, bits, a, b, i, o) ==
  /\ Tame(c) /\ FramesSound(c) /\ Depth(c) = bits
  /\ c.reg[1][88] = a /\ c.reg[1][89] = b
  /\ PictureIs(c, i, o)

AVIOf(s) == AVI(s.VIC, s.bOutputColorMode, s.wide, s.itu709, s.pixelrep)

(* The infoframe the settings make tells their colours and colorimetry.    *)
LEMMA AVIOfMeans ==
  ASSUME NEW s \in Settings
  PROVE  /\ AVIOf(s) \in Seq(Bytes) /\ Len(AVIOf(s)) = 13
         /\ AVIOf(s)[1] & 96 = 0 <=> s.bOutputColorMode = F_MODE_RGB444
         /\ AVIOf(s)[2] & 192 = 128 <=> s.itu709
<1>1. /\ s.VIC \in Bytes /\ s.bOutputColorMode \in Colours
      /\ s.wide \in BOOLEAN /\ s.itu709 \in BOOLEAN
  BY TimingTableType DEF Settings, Bytes
<1> QED
  BY <1>1, AVIMeans DEF AVIOf

(* On such a chip the infoframe tells the colours of the converter, and    *)
(* with settings in order the matrix.                                      *)
LEMMA FramedMeans ==
  ASSUME NEW s \in Settings, KnownInput(s), NEW c, NEW bits,
         Framed(c, bits, AVIOf(s)[1], AVIOf(s)[2], s.bInputColorMode, s.bOutputColorMode)
  PROVE  ColoursTold(c) /\ (InOrder(s) => MatrixTold(c))
<1> DEFINE in == s.bInputColorMode & F_MODE_CLRMOD_MASK
           out == s.bOutputColorMode
           a == AVIOf(s)[1]
           b == AVIOf(s)[2]
           t == s.bInputColorMode & F_MODE_ITU709 # 0
<1>1. in \in Colours /\ out \in Colours /\ out & F_MODE_CLRMOD_MASK = out
  BY ColourBits DEF KnownInput, Settings
<1>2. (a & 96 = 0 <=> out = F_MODE_RGB444) /\ (b & 192 = 128 <=> s.itu709)
  BY AVIOfMeans
<1>3. c.reg[1][88] = a /\ c.reg[1][89] = b /\ PictureIs(c, s.bInputColorMode, out)
  BY DEF Framed
<1>4. (RGBIn(c) <=> in \notin {F_MODE_YUV422, F_MODE_YUV444})
  BY <1>3 DEF PictureIs, RGBIn
<1>5. Converted(c, s.bInputColorMode, out)
  BY <1>3 DEF PictureIs
<1>6. Conv(c) = CscOf(in, out)
  BY <1>1, <1>5 DEF Converted, Conv
<1>7. CscOf(in, out) # Video.CSC_BYPASS =>
        \E l \in BOOLEAN : \A k \in 1 .. 18 :
          c.reg[0][118 + k - 1] = IF CscOf(in, out) = Video.CSC_RGB2YUV
                                  THEN RGB2YUV(t, l)[k] ELSE YUV2RGB(t, l)[k]
  BY <1>1, <1>5 DEF Converted
<1> HIDE DEF in, out, a, b
<1>8. ColoursTold(c)
  <2>1. CscOf(in, out) = Video.CSC_YUV2RGB
          \/ (in = F_MODE_RGB444 /\ CscOf(in, out) = Video.CSC_BYPASS)
          <=> out = F_MODE_RGB444
    BY <1>1 DEF CscOf, Colours, F_MODE_RGB444, F_MODE_YUV422, F_MODE_YUV444, Video
  <2>2. RGBIn(c) <=> in = F_MODE_RGB444
    BY <1>1, <1>4 DEF Colours, F_MODE_RGB444, F_MODE_YUV422, F_MODE_YUV444
  <2>3. c.reg[1][88] & 96 = 0 <=> out = F_MODE_RGB444
    BY <1>2, <1>3
  <2> QED
    BY <1>6, <2>1, <2>2, <2>3, Zenon DEF ColoursTold
<1>9. ASSUME InOrder(s) PROVE MatrixTold(c)
  <2>1. t \in BOOLEAN /\ (t <=> c.reg[1][89] & 192 = 128)
    BY <1>2, <1>3, <1>9 DEF InOrder
  <2> HIDE DEF t
  <2>2. Conv(c) # Video.CSC_BYPASS => MatrixIs(c, t)
    BY <1>6, <1>7 DEF MatrixIs
  <2> QED
    BY <2>1, <2>2 DEF MatrixTold
<1> QED
  BY <1>8, <1>9

(* A quiet call keeps it so.                                               *)
LEMMA FramedStays ==
  ASSUME NEW c, NEW d, NEW bits, NEW a, NEW b, NEW i, NEW o,
         Framed(c, bits, a, b, i, o), Quiet(c, d)
  PROVE  Framed(d, bits, a, b, i, o)
<1>1. Keeps(c, d, {}, {}) /\ Tame(d)
  BY DEF Quiet
<1>2. FramesSound(d)
  BY <1>1, FramesStay DEF Framed
<1>3. Depth(d) = Depth(c)
  BY <1>1, DepthStays
<1>4. d.reg[1][88] = c.reg[1][88] /\ d.reg[1][89] = c.reg[1][89]
  BY <1>1 DEF Keeps, Shown1
<1>5. PictureIs(c, i, o) => PictureIs(d, i, o)
  <2>1. {} \cap PictureRegs = {}
    OBVIOUS
  <2> QED
    BY <1>1, <2>1, PictureLeftAlone
<1> QED
  BY <1>1, <1>2, <1>3, <1>4, <1>5 DEF Framed

(* So does showing the picture.                                            *)
LEMMA FramedUnmuted ==
  ASSUME NEW c, NEW bits, NEW a, NEW b, NEW i, NEW o, Framed(c, bits, a, b, i, o)
  PROVE  Framed(SetAVMute(c, FALSE), bits, a, b, i, o)
<1> DEFINE d == SetAVMute(c, FALSE)
<1>0. Tame(c)
  BY DEF Framed
<1>1. Keeps(c, d, {193}, {}) /\ Tame(d) /\ Depth(d) = Depth(c)
  BY <1>0, SetAVMuteKeeps DEF Depth
<1> HIDE DEF d
<1>2. FramesSound(d)
  <2>1. 205 \notin {193} /\ 206 \notin {193} /\ FramesSound(c)
    BY DEF Framed
  <2> QED
    BY <1>1, <2>1, FramesStay
<1>4. d.reg[1][88] = c.reg[1][88] /\ d.reg[1][89] = c.reg[1][89]
  BY <1>1 DEF Keeps, Shown1
<1>5. PictureIs(c, i, o) => PictureIs(d, i, o)
  <2>1. {193} \cap PictureRegs = {}
    BY DEF PictureRegs
  <2> QED
    BY <1>1, <2>1, PictureLeftAlone
<1> QED
  BY <1>1, <1>2, <1>4, <1>5 DEF Framed, d

-----------------------------------------------------------------------------
(* The start, and one lemma per call.                                      *)

(* The invariant holds after start-up.                                     *)
LEMMA InitTxInv == TxInit => TxInv
<1> SUFFICES ASSUME TxInit PROVE TxInv
  OBVIOUS
<1>1. Tame(chip) /\ Depth(chip) = 0 /\ chip.reg[0][205] = 0 /\ chip.reg[0][206] = 0
  BY InitMeans DEF TxInit
<1>2. inst \in Instances
  <2>1. 0 \in Bytes /\ 1 \in Bytes /\ 0 \in Nat /\ AUDFS_48KHz \in Codes
    BY CodesAreBytes DEF Bytes
  <2> QED
    BY <2>1 DEF TxInit, InitInstanceData, Instances
<1>3. set \in Settings /\ KnownInput(set)
  <2>1. F_MODE_RGB444 \in Colours /\ F_MODE_RGB444 \in Bytes
    BY DEF F_MODE_RGB444, Colours, Bytes
  <2>2. F_MODE_RGB444 & F_MODE_CLRMOD_MASK = F_MODE_RGB444
    BY <2>1, ColourBits
  <2> QED
    BY <2>1, <2>2 DEF TxInit, Settings, KnownInput
<1>4. /\ told.depth = 0 /\ told.inOrder = FALSE /\ told.frame = "none" /\ ToldShape
      /\ source = 0
  BY DEF TxInit, ToldShape, Frames
<1>5. Picturing
  BY <1>1, <1>4 DEF Picturing, FramesSound
<1> QED
  BY <1>1, <1>2, <1>3, <1>4, <1>5 DEF TxInv, Shape, Modes

(* A call that is quiet, and changes none of the history of the picture,   *)
(* leaves all that is told of it true.                                     *)
LEMMA QuietPicture ==
  ASSUME TxInv, Quiet(chip, chip'), told'.depth = told.depth, told'.frame = told.frame
  PROVE  Tame(chip') /\ Picturing'
<1>1. Keeps(chip, chip', {}, {}) /\ Tame(chip')
  BY DEF Quiet
<1>2. FramesSound(chip')
  BY <1>1, FramesStay DEF TxInv, Picturing
<1>3. Depth(chip') = Depth(chip)
  BY <1>1, DepthStays
<1>4. (ColoursTold(chip) => ColoursTold(chip')) /\ (MatrixTold(chip) => MatrixTold(chip'))
  <2>1. {} \cap PictureRegs = {} /\ {} \cap {88, 89} = {}
    OBVIOUS
  <2> QED
    BY <1>1, <2>1, TellsStay
<1> QED
  BY <1>1, <1>2, <1>3, <1>4 DEF TxInv, Picturing

(* A call that leaves the chip alone.                                      *)
LEMMA OptionsKeepTxInv ==
  ASSUME TxInv, NEW vic \in Timings, NEW out \in Colours,
         set' = HDMITX_ChangeDisplayOption(set, vic, out),
         told' = [told EXCEPT !.inOrder = @ \/ vic \in DOMAIN TimingTable],
         UNCHANGED <<chip, inst, source>>
  PROVE  TxInv'
<1>1. /\ set' \in Settings /\ KnownInput(set')
      /\ InOrder(set) \/ vic \in DOMAIN TimingTable => InOrder(set')
  BY OptionMeans DEF TxInv, Shape, Modes
<1>2. /\ told'.inOrder = (told.inOrder \/ vic \in DOMAIN TimingTable)
      /\ told'.depth = told.depth /\ told'.frame = told.frame /\ ToldShape'
  BY DEF TxInv, Shape, ToldShape
<1>3. Modes'
  BY <1>1, <1>2 DEF TxInv, Modes
<1>4. Picturing'
  BY <1>2 DEF TxInv, Picturing
<1> QED
  BY <1>1, <1>2, <1>3, <1>4 DEF TxInv, Shape

(* A timing asked for keeps it.                                            *)
LEMMA TimingKeepsTxInv ==
  ASSUME TxInv, HDMITX_ChangeVideoTiming
  PROVE  TxInv'
<1>1. KnownColour(set.bOutputColorMode) \in Colours
  BY DEF KnownColour, Colours
<1> QED
  BY <1>1, OptionsKeepTxInv DEF HDMITX_ChangeVideoTiming

(* A timing and colours asked for keep it.                                 *)
LEMMA TimingAndColorKeepsTxInv ==
  ASSUME TxInv, HDMITX_ChangeVideoTimingAndColor
  PROVE  TxInv'
BY OptionsKeepTxInv DEF HDMITX_ChangeVideoTimingAndColor

(* Colours asked for keep it: the settings are no longer in order.         *)
LEMMA ColorSpaceKeepsTxInv ==
  ASSUME TxInv, HDMITX_SetColorSpace
  PROVE  TxInv'
<1>1. PICK in \in Colours, out \in Colours :
        set' = [set EXCEPT !.bInputColorMode = in, !.bOutputColorMode = out]
  BY DEF HDMITX_SetColorSpace
<1>2. in & F_MODE_CLRMOD_MASK = in
  BY ColourBits
<1>3. in \in Bytes
  BY DEF Colours, F_MODE_RGB444, F_MODE_YUV422, F_MODE_YUV444, Bytes
<1>4. set' \in Settings /\ KnownInput(set')
  BY <1>1, <1>2, <1>3 DEF TxInv, Shape, Settings, KnownInput
<1>5. /\ told' = [told EXCEPT !.inOrder = FALSE]
      /\ chip' = chip /\ inst' = inst /\ source' = source
  BY DEF HDMITX_SetColorSpace
<1>6. /\ told'.inOrder = FALSE /\ told'.depth = told.depth /\ told'.frame = told.frame
      /\ ToldShape'
  BY <1>5 DEF TxInv, Shape, ToldShape
<1>7. Modes'
  BY <1>4, <1>6 DEF Modes
<1>8. Picturing'
  BY <1>5, <1>6 DEF TxInv, Picturing
<1> QED
  BY <1>4, <1>5, <1>6, <1>7, <1>8 DEF TxInv, Shape

(* A colour depth keeps it.                                                *)
LEMMA ColorDepthKeepsTxInv ==
  ASSUME TxInv, HDMITX_SetOutputColorDepth
  PROVE  TxInv'
<1>1. PICK d \in Depths : /\ chip' = SetOutputColorDepthPhase(chip, d)
                          /\ told' = [told EXCEPT !.depth = DepthBits(d)]
  BY DEF HDMITX_SetOutputColorDepth
<1>2. inst' = inst /\ set' = set /\ source' = source
  BY DEF HDMITX_SetOutputColorDepth
<1>3. Keeps(chip, chip', {193}, {}) /\ Tame(chip') /\ Depth(chip') = DepthBits(d)
  BY <1>1, SetDepthKeeps DEF TxInv, Shape, Depth
<1>4. /\ told'.depth = DepthBits(d) /\ told'.frame = told.frame
      /\ told'.inOrder = told.inOrder /\ ToldShape'
  BY <1>1 DEF TxInv, Shape, ToldShape
<1>5. FramesSound(chip')
  <2>1. 205 \notin {193} /\ 206 \notin {193}
    OBVIOUS
  <2> QED
    BY <1>3, <2>1, FramesStay DEF TxInv, Picturing
<1>6. (ColoursTold(chip) => ColoursTold(chip')) /\ (MatrixTold(chip) => MatrixTold(chip'))
  <2>1. {193} \cap PictureRegs = {} /\ {} \cap {88, 89} = {}
    BY DEF PictureRegs
  <2> QED
    BY <1>3, <2>1, TellsStay
<1>7. Picturing'
  BY <1>3, <1>4, <1>5, <1>6 DEF TxInv, Picturing
<1>8. Modes'
  BY <1>2, <1>4 DEF TxInv, Modes
<1> QED
  BY <1>2, <1>3, <1>4, <1>7, <1>8 DEF TxInv, Shape

(* A quiet call keeps it, whatever it does to the instance and the         *)
(* source.                                                                 *)
LEMMA QuietKeepsTxInv ==
  ASSUME TxInv, Quiet(chip, chip'), inst' \in Instances, source' \in Rates \cup {0},
         set' = set, ToldShape', told'.depth = told.depth, told'.frame = told.frame,
         told'.inOrder = told.inOrder
  PROVE  TxInv'
<1>1. Tame(chip') /\ Picturing'
  BY QuietPicture
<1>2. Modes'
  BY DEF TxInv, Modes
<1> QED
  BY <1>1, <1>2 DEF TxInv, Shape

(* The calls that switch something off keep it.                            *)
LEMMA DisablesKeepTxInv ==
  ASSUME TxInv, HDMITX_DisableVideoOutput \/ CloseAll \/ CloseAudio
  PROVE  TxInv'
<1>1. Tame(chip)
  BY DEF TxInv, Shape
<1>2. Quiet(chip, chip')
  BY <1>1, DisableVideoQuiet, DisableIT6613Quiet, DisableAudioQuiet
     DEF HDMITX_DisableVideoOutput, CloseAll, CloseAudio
<1>3. inst' = inst /\ set' = set /\ source' = source /\ told' = told
  BY DEF HDMITX_DisableVideoOutput, CloseAll, CloseAudio
<1>4. inst' \in Instances /\ source' \in Rates \cup {0} /\ ToldShape'
  BY <1>3 DEF TxInv, Shape, ToldShape
<1> QED
  BY <1>2, <1>3, <1>4, QuietKeepsTxInv

(* What is found out about a sink keeps it.                                *)
LEMMA SinkKeepsTxInv ==
  ASSUME TxInv, SinkFound
  PROVE  TxInv'
<1>1. PICK hdmi \in BOOLEAN, audio \in BOOLEAN :
        set' = [set EXCEPT !.bHDMIMode = hdmi, !.bAudioEnable = audio]
  BY DEF SinkFound
<1>2. chip' = chip /\ inst' = inst /\ source' = source /\ told' = told
  BY DEF SinkFound
<1>3. /\ set' \in Settings /\ set'.bInputColorMode = set.bInputColorMode
      /\ set'.itu709 = set.itu709
  BY <1>1 DEF TxInv, Shape, Settings
<1>4. Modes'
  BY <1>2, <1>3 DEF TxInv, Modes, KnownInput, InOrder
<1> QED
  BY <1>2, <1>3, <1>4 DEF TxInv, Shape, Picturing, ToldShape

(* The clock of a picture is a natural number.                             *)
LEMMA ClockIsNatural ==
  ASSUME NEW s \in Settings
  PROVE  s.VideoPixelClock * (s.pixelrep + 1) \in Nat
BY DEF Settings

(* What a SetOutput to an HDMI sink adds to a picture.                     *)
LEMMA SoundKeepsFramed ==
  ASSUME NEW c, NEW i \in Instances, NEW clk \in Nat, NEW bits, NEW a, NEW b, NEW in, NEW out,
         Framed(c, bits, a, b, in, out)
  PROVE  LET s == EnableAudioOutput([chip |-> c, inst |-> i], clk, AUDFS_48KHz, 2, 16, FALSE)
         IN /\ s.inst \in Instances
            /\ Framed(ConfigAudioInfoFrm(s.chip), bits, a, b, in, out)
<1> DEFINE s0 == [chip |-> c, inst |-> i]
           ch == 2
           swl == 16
           spdif == FALSE
           s == EnableAudioOutput(s0, clk, AUDFS_48KHz, ch, swl, spdif)
           d == ConfigAudioInfoFrm(s.chip)
<1>1. Tame(c) /\ s0 \in States /\ s0.chip = c
  BY DEF Framed, Tame, States
<1>2. ch \in Nat /\ spdif \in BOOLEAN /\ AUDFS_48KHz \in Codes
  BY CodesAreBytes
<1> HIDE DEF s0, ch, swl, spdif
<1>3. Sounds(s0, s)
  BY <1>1, <1>2, EnableAudioQuiet
<1>4. Quiet(c, s.chip) /\ s.inst \in Instances
  BY <1>1, <1>3 DEF Sounds
<1> HIDE DEF s
<1>5. Framed(s.chip, bits, a, b, in, out)
  BY <1>4, FramedStays
<1>6. Framed(d, bits, a, b, in, out)
  <2>1. Tame(s.chip) /\ FramesSound(s.chip)
    BY <1>5 DEF Framed
  <2>2. /\ Tame(d) /\ FramesSound(d) /\ Depth(d) = Depth(s.chip)
        /\ d.reg[1][88] = s.chip.reg[1][88] /\ d.reg[1][89] = s.chip.reg[1][89]
        /\ PictureIs(s.chip, in, out) => PictureIs(d, in, out)
    BY <2>1, AUDFrameStays
  <2> HIDE DEF d
  <2> QED
    BY <1>5, <2>2 DEF Framed
<1> HIDE DEF d
<1> QED
  BY <1>4, <1>6 DEF d, s, s0, ch, swl, spdif

(* HDMITX_SetOutput keeps it: picture, infoframe, authentication, sound    *)
(* and unmuting, in this order.                                            *)
LEMMA SetOutputKeepsTxInv ==
  ASSUME TxInv, HDMITX_SetOutput
  PROVE  TxInv'
<1> DEFINE in == set.bInputColorMode
           out == set.bOutputColorMode
           p == VideoOut
           a == AVIOf(set)[1]
           b == AVIOf(set)[2]
           f == SetAVIInfoFrame(p, AVIOf(set))
           F(c) == Framed(c, told.depth, a, b, in, out)
<1>1. /\ Tame(chip) /\ inst \in Instances /\ set \in Settings /\ KnownInput(set)
      /\ FramesSound(chip) /\ Depth(chip) = told.depth
      /\ (told.inOrder => InOrder(set))
  BY DEF TxInv, Shape, Modes, Picturing
<1>2. TMDSClock \in Nat /\ set.bHDMIMode \in BOOLEAN
  BY <1>1, ClockIsNatural DEF Settings, TMDSClock
<1>3. /\ Keeps(chip, p, {193} \cup PictureRegs, {}) /\ Tame(p)
      /\ Depth(p) = Depth(chip) /\ PictureIs(p, in, out)
  <2> DEFINE high == TMDSClock > 80000
  <2>1. high \in BOOLEAN
    BY <1>2
  <2>2. p = EnableVideoOutput(chip, high, in, out, set.bHDMIMode, inst.bInputVideoSignalType)
    BY DEF VideoOut
  <2>3. Tame(chip) /\ set.bHDMIMode \in BOOLEAN
    BY <1>1, <1>2
  <2> DEFINE q == EnableVideoOutput(chip, high, in, out, set.bHDMIMode,
                                    inst.bInputVideoSignalType)
  <2> HIDE DEF high, p
  <2>4. /\ Keeps(chip, q, {193} \cup PictureRegs, {}) /\ Tame(q)
        /\ Depth(q) = Depth(chip) /\ PictureIs(q, in, out)
    BY <2>1, <2>3, EnableVideoMeans
  <2> HIDE DEF q
  <2> QED
    BY <2>2, <2>4 DEF q
<1> HIDE DEF p
<1>4. FramesSound(p)
  <2>1. 205 \notin {193} \cup PictureRegs /\ 206 \notin {193} \cup PictureRegs
    BY DEF PictureRegs
  <2> QED
    BY <1>1, <1>3, <2>1, FramesStay
<1>5. AVIOf(set) \in Seq(Bytes) /\ Len(AVIOf(set)) = 13
  BY <1>1, AVIOfMeans
<1>6. F(f)
  <2>1. /\ Tame(f) /\ FramesSound(f) /\ Depth(f) = Depth(p)
        /\ f.reg[1][88] = a /\ f.reg[1][89] = b
        /\ PictureIs(p, in, out) => PictureIs(f, in, out)
    BY <1>3, <1>4, <1>5, AVIFrameStays
  <2> HIDE DEF f
  <2> QED
    BY <1>1, <1>3, <2>1 DEF Framed
<1>7. ConfigAVIInfoFrame(p) = f
  BY DEF ConfigAVIInfoFrame, EnableAVIInfoFrame, AVIOf
<1> HIDE DEF f
<1>8. ASSUME NEW ok \in BOOLEAN
      PROVE  F(HDMIOut(ok))
  <2>1. HDMIOut(ok) = EnableHDCP(f, ok)
    BY <1>7 DEF HDMIOut, p
  <2>2. Quiet(f, HDMIOut(ok))
    BY <1>6, <2>1, EnableHDCPQuiet DEF Framed
  <2> QED
    BY <1>6, <2>2, FramedStays
<1>9. ASSUME NEW ok \in BOOLEAN
      PROVE  SoundOut(ok).inst \in Instances /\ F(ConfigAudioInfoFrm(SoundOut(ok).chip))
  BY <1>1, <1>2, <1>8, SoundKeepsFramed DEF SoundOut
<1>10. /\ set' = [set EXCEPT !.bChangeMode = FALSE] /\ source' = source
       /\ told'.depth = told.depth /\ told'.inOrder = told.inOrder /\ ToldShape'
       /\ told'.frame = IF ~set.bHDMIMode THEN "none"
                        ELSE IF told.inOrder THEN "driver" ELSE "mixed"
  <2> DEFINE frame == IF ~set.bHDMIMode THEN "none"
                      ELSE IF told.inOrder THEN "driver" ELSE "mixed"
             rate == IF set.bHDMIMode /\ set.bAudioEnable THEN 480 ELSE told.rate
  <2>1. /\ set' = [set EXCEPT !.bChangeMode = FALSE] /\ source' = source
        /\ told' = [told EXCEPT !.frame = frame, !.rate = rate]
    BY DEF HDMITX_SetOutput
  <2>2. frame \in Frames
    BY DEF Frames
  <2> HIDE DEF frame, rate
  <2>3. /\ told'.depth = told.depth /\ told'.inOrder = told.inOrder
        /\ told'.frame = frame /\ ToldShape'
    BY <2>1, <2>2 DEF TxInv, Shape, ToldShape
  <2> QED
    BY <2>1, <2>3 DEF frame
<1>11. set' \in Settings /\ Modes'
  <2>1. /\ set' \in Settings /\ set'.bInputColorMode = set.bInputColorMode
        /\ set'.itu709 = set.itu709
    BY <1>1, <1>10 DEF Settings
  <2> QED
    BY <1>1, <1>10, <2>1 DEF Modes, KnownInput, InOrder
<1>12. CASE ~set.bHDMIMode
  <2>1. chip' = SetAVMute(p, FALSE) /\ inst' = inst
    BY <1>12 DEF HDMITX_SetOutput, p
  <2>2. Keeps(p, chip', {193}, {}) /\ Tame(chip') /\ Depth(chip') = Depth(p)
    BY <1>3, <2>1, SetAVMuteKeeps DEF Depth
  <2>3. FramesSound(chip')
    <3>1. 205 \notin {193} /\ 206 \notin {193}
      OBVIOUS
    <3> QED
      BY <1>4, <2>2, <3>1, FramesStay
  <2>4. told'.frame = "none"
    BY <1>10, <1>12
  <2>5. Picturing'
    BY <1>1, <1>3, <1>10, <2>2, <2>3, <2>4 DEF Picturing
  <2> QED
    BY <1>1, <1>10, <1>11, <2>1, <2>2, <2>5 DEF TxInv, Shape
<1>13. CASE set.bHDMIMode
  <2>1. \E c : F(c) /\ chip' = SetAVMute(c, FALSE) /\ inst' \in Instances
    BY <1>1, <1>8, <1>9, <1>13 DEF HDMITX_SetOutput
  <2>2. F(chip') /\ inst' \in Instances
    BY <2>1, FramedUnmuted
  <2>3. ColoursTold(chip') /\ (InOrder(set) => MatrixTold(chip'))
    BY <1>1, <2>2, FramedMeans
  <2>4. Tame(chip') /\ FramesSound(chip') /\ Depth(chip') = told.depth
    BY <2>2 DEF Framed
  <2>5. told'.frame = "driver" => told.inOrder
    BY <1>10, <1>13
  <2>6. Picturing'
    BY <1>1, <1>10, <2>3, <2>4, <2>5 DEF Picturing
  <2> QED
    BY <1>1, <1>10, <1>11, <2>2, <2>4, <2>6 DEF TxInv, Shape
<1> QED
  BY <1>12, <1>13

(* An infoframe of the caller keeps it.                                    *)
LEMMA InfoFrameKeepsTxInv ==
  ASSUME TxInv, HDMITX_SetAVIInfoFrame
  PROVE  TxInv'
<1>1. PICK out \in Colours, hd \in BOOLEAN :
        chip' = EnableAVIInfoFrame(chip, TRUE, AVI(set.VIC, out, hd, hd, 0))
  BY DEF HDMITX_SetAVIInfoFrame
<1> DEFINE rep == 0
           db == AVI(set.VIC, out, hd, hd, rep)
<1> HIDE DEF rep
<1>2. db \in Seq(Bytes) /\ Len(db) = 13
  <2>1. set.VIC \in Bytes
    BY TimingTableType DEF TxInv, Shape, Settings, Bytes
  <2> QED
    BY <2>1, AVIMeans
<1>3. chip' = SetAVIInfoFrame(chip, db)
  BY <1>1 DEF EnableAVIInfoFrame, rep
<1> HIDE DEF db
<1>4. Tame(chip') /\ FramesSound(chip') /\ Depth(chip') = Depth(chip)
  BY <1>2, <1>3, AVIFrameStays DEF TxInv, Shape, Picturing
<1>5. /\ inst' = inst /\ set' = set /\ source' = source
      /\ told'.depth = told.depth /\ told'.inOrder = told.inOrder
      /\ told'.frame = "caller" /\ ToldShape'
  BY DEF HDMITX_SetAVIInfoFrame, TxInv, Shape, ToldShape, Frames
<1>6. Picturing' /\ Modes'
  BY <1>4, <1>5 DEF TxInv, Picturing, Modes
<1> QED
  BY <1>4, <1>5, <1>6 DEF TxInv, Shape

(* Opening the sound keeps it.                                             *)
LEMMA OpenAudioKeepsTxInv ==
  ASSUME TxInv, OpenAudio
  PROVE  TxInv'
<1>1. PICK rate \in Asked, f \in Formats, spdif \in BOOLEAN,
           vic \in Timings \cap DOMAIN TimingTable :
        LET s == EnableAudioOutput([chip |-> chip, inst |-> inst], TimingTable[vic][1],
                                   AUDFS[rate], f[1], f[2], spdif)
        IN /\ chip' = s.chip /\ inst' = s.inst
           /\ told' = [told EXCEPT !.rate = IF f[2] \in DOMAIN WordLengths
                                            THEN rate ELSE 0]
  BY DEF OpenAudio
<1> DEFINE s0 == [chip |-> chip, inst |-> inst]
           clk == TimingTable[vic][1]
           fs == AUDFS[rate]
           ch == f[1]
           swl == f[2]
           s == EnableAudioOutput(s0, clk, fs, ch, swl, spdif)
           r == IF f[2] \in DOMAIN WordLengths THEN rate ELSE 0
<1>2. Tame(chip) /\ s0 \in States /\ s0.chip = chip
  BY DEF TxInv, Shape, Tame, States
<1>3. clk \in Nat
  BY TimingTableType
<1>4. fs \in Codes
  BY SettingsAssumption, CodesAreBytes
<1>5. ch \in Nat
  BY SettingsAssumption
<1>6. chip' = s.chip /\ inst' = s.inst /\ told' = [told EXCEPT !.rate = r]
  BY <1>1
<1> HIDE DEF s0, clk, fs, ch, swl, r
<1>7. Sounds(s0, s)
  BY <1>2, <1>3, <1>4, <1>5, EnableAudioQuiet
<1> HIDE DEF s
<1>8. Quiet(chip, chip') /\ inst' \in Instances
  BY <1>2, <1>6, <1>7 DEF Sounds
<1>9. set' = set /\ source' = source /\ source \in Rates \cup {0}
  BY DEF OpenAudio, TxInv, Shape
<1>10. /\ ToldShape' /\ told'.depth = told.depth /\ told'.frame = told.frame
       /\ told'.inOrder = told.inOrder
  BY <1>6 DEF TxInv, Shape, ToldShape
<1> QED
  BY <1>8, <1>9, <1>10, QuietKeepsTxInv

(* A source that comes and goes keeps it.                                  *)
LEMMA SourceKeepsTxInv ==
  ASSUME TxInv, SourceChanges
  PROVE  TxInv'
BY DEF TxInv, Shape, Modes, Picturing, ToldShape, SourceChanges

(* The audio part of a pass keeps it.                                      *)
LEMMA AudioPassKeepsTxInv ==
  ASSUME TxInv, AudioPass
  PROVE  TxInv'
<1> DEFINE s0 == [chip |-> chip, inst |-> inst]
           lock == source # 0
           s == SetupAudioChannel(s0, lock, source)
<1>1. Tame(chip) /\ s0 \in States /\ s0.chip = chip /\ lock \in BOOLEAN
  BY DEF TxInv, Shape, Tame, States
<1>2. chip' = s.chip /\ inst' = s.inst
  BY DEF AudioPass
<1> HIDE DEF s0, lock
<1>3. Sounds(s0, s)
  BY <1>1, SetupAudioQuiet
<1> HIDE DEF s
<1>4. Quiet(chip, chip') /\ inst' \in Instances
  BY <1>1, <1>2, <1>3 DEF Sounds
<1>5. set' = set /\ source' = source /\ source \in Rates \cup {0}
  BY DEF AudioPass, TxInv, Shape
<1>6. /\ ToldShape' /\ told'.depth = told.depth /\ told'.frame = told.frame
      /\ told'.inOrder = told.inOrder
  BY DEF AudioPass, TxInv, Shape, ToldShape
<1> QED
  BY <1>4, <1>5, <1>6, QuietKeepsTxInv

(* A kind of input signal asked for keeps it.                              *)
LEMMA InputSignalKeepsTxInv ==
  ASSUME TxInv, SetupVideoInputSignal
  PROVE  TxInv'
<1>1. PICK sig \in {0, T_MODE_DEGEN | T_MODE_INDDR | T_MODE_PCLKDIV2,
                    T_MODE_SYNCEMB | T_MODE_CCIR656} :
        inst' = [inst EXCEPT !.bInputVideoSignalType = sig]
  BY DEF SetupVideoInputSignal
<1>2. sig \in Nat
  BY OrAreBytes DEF Bytes
<1>3. inst' \in Instances
  BY <1>1, <1>2 DEF TxInv, Shape, Instances
<1>4. chip' = chip /\ set' = set /\ source' = source /\ told' = told
  BY DEF SetupVideoInputSignal
<1> QED
  BY <1>3, <1>4 DEF TxInv, Shape, Modes, Picturing, ToldShape

(* A mode of the DE generator keeps it.                                    *)
LEMMA GenerateDEKeepsTxInv ==
  ASSUME TxInv, GenerateDE
  PROVE  TxInv'
<1>1. PICK id \in DeModes :
        chip' = ProgramDEGenModeByID(chip, id, inst.bInputVideoSignalType)
  BY DEF GenerateDE
<1>2. Quiet(chip, chip')
  BY <1>1, DEQuiet DEF TxInv, Shape
<1>3. /\ inst' = inst /\ set' = set /\ source' = source /\ inst \in Instances
      /\ source \in Rates \cup {0}
  BY DEF GenerateDE, TxInv, Shape
<1>4. /\ ToldShape' /\ told'.depth = told.depth /\ told'.frame = told.frame
      /\ told'.inOrder = told.inOrder
  BY DEF GenerateDE, TxInv, Shape, ToldShape
<1> QED
  BY <1>2, <1>3, <1>4, QuietKeepsTxInv

(* A mode of the sync decoder keeps it.                                    *)
LEMMA DecodeSyncKeepsTxInv ==
  ASSUME TxInv, DecodeSync
  PROVE  TxInv'
<1>1. PICK vic \in Timings :
        chip' = ProgramSyncEmbeddedVideoMode(chip, vic, inst.bInputVideoSignalType)
  BY DEF DecodeSync
<1>2. Quiet(chip, chip')
  BY <1>1, SyncQuiet DEF TxInv, Shape
<1>3. /\ inst' = inst /\ set' = set /\ source' = source /\ inst \in Instances
      /\ source \in Rates \cup {0}
  BY DEF DecodeSync, TxInv, Shape
<1>4. /\ ToldShape' /\ told'.depth = told.depth /\ told'.frame = told.frame
      /\ told'.inOrder = told.inOrder
  BY DEF DecodeSync, TxInv, Shape, ToldShape
<1> QED
  BY <1>2, <1>3, <1>4, QuietKeepsTxInv

(* So every step keeps it.                                                 *)
LEMMA NextTxInv == TxInv /\ [TxNext]_txVars => TxInv'
<1> SUFFICES ASSUME TxInv, [TxNext]_txVars PROVE TxInv'
  OBVIOUS
<1>1. CASE Picture
  BY <1>1, TimingKeepsTxInv, TimingAndColorKeepsTxInv, ColorSpaceKeepsTxInv,
     ColorDepthKeepsTxInv, DisablesKeepTxInv, SinkKeepsTxInv, SetOutputKeepsTxInv,
     InfoFrameKeepsTxInv DEF Picture
<1>2. CASE Sound
  BY <1>2, OpenAudioKeepsTxInv, DisablesKeepTxInv, SourceKeepsTxInv,
     AudioPassKeepsTxInv DEF Sound
<1>3. CASE Input
  BY <1>3, InputSignalKeepsTxInv, GenerateDEKeepsTxInv, DecodeSyncKeepsTxInv,
     SetOutputKeepsTxInv DEF Input
<1>4. CASE UNCHANGED txVars
  BY <1>4 DEF txVars, TxInv, Shape, Modes, Picturing, ToldShape
<1> QED
  BY <1>1, <1>2, <1>3, <1>4 DEF TxNext

(* The inductive invariant holds in every state of every history:          *)
(* it6613_drv.c is called between calls only in bank 0, and its            *)
(* registers, infoframes and globals fit each other.                       *)
THEOREM TxInvHolds == TxSpec => []TxInv
<1>1. TxInit => TxInv
  BY InitTxInv
<1>2. TxInv /\ [TxNext]_txVars => TxInv'
  BY NextTxInv
<1> QED
  BY <1>1, <1>2, PTL DEF TxSpec

(* The invariant has the types.                                            *)
LEMMA TxInvTypes == TxInv => TxTypeOK
<1> SUFFICES ASSUME TxInv PROVE TxTypeOK
  OBVIOUS
<1>1. chip.bank = 0 /\ chip.reg \in [{0, 1} -> [Bytes -> Bytes]]
  BY DEF TxInv, Shape, Tame, Chips
<1>2. /\ inst.bAudFs \in {AUDFS[r] : r \in DOMAIN AUDFS} \cup {AUDFS_OTHER}
      /\ inst.bAudioChannelEnable \in Bytes /\ inst.opened \in BOOLEAN
  BY DEF TxInv, Shape, Instances, Codes
<1>3. set.VIC \in Timings \cup {0} /\ set.bOutputColorMode \in Colours
  BY DEF TxInv, Shape, Settings
<1>4. source \in Rates \cup {0}
  BY DEF TxInv, Shape
<1> QED
  BY <1>1, <1>2, <1>3, <1>4 DEF TxTypeOK

(* Between calls bank 0 is selected and registers, instance and globals    *)
(* keep to their types: no function of it6613_drv.c leaves bank 1          *)
(* selected.                                                               *)
THEOREM TxTypeCorrect == TxSpec => []TxTypeOK
BY TxInvHolds, TxInvTypes, PTL

(* The colour depth in the general control packet is the one last asked    *)
(* for, although muting and unmuting write the same register (SetAVMute,   *)
(* SetOutputColorDepthPhase).                                              *)
THEOREM DepthSurvivesHolds == TxSpec => []DepthSurvives
<1>1. TxInv => DepthSurvives
  <2>1. Hdmi.GCP = 193
    BY DEF Hdmi
  <2> QED
    BY <2>1 DEF TxInv, Picturing, Depth, DepthSurvives, Reg
<1> QED
  BY <1>1, TxInvHolds, PTL

(* Every infoframe that is sent adds up to 0.                              *)
LEMMA TxInvSums == TxInv => FrameChecksums
<1> SUFFICES ASSUME TxInv PROVE FrameChecksums
  OBVIOUS
<1> DEFINE a == chip.reg[1][104]
           b == chip.reg[1][105]
           c == chip.reg[1][107]
           d == chip.reg[1][108]
<1>1. FramesSound(chip) /\ chip.reg \in [{0, 1} -> [Bytes -> Bytes]]
  BY DEF TxInv, Shape, Picturing, Tame, Chips
<1>2. SumOf(Bank1.AVI_DB) = AVISum(chip)
  <2>1. DOMAIN Bank1.AVI_DB = 1 .. 13
    BY AVIAddresses
  <2>2. [k \in DOMAIN Bank1.AVI_DB |-> Reg(1, Bank1.AVI_DB[k])]
          = [k \in 1 .. 13 |-> chip.reg[1][Bank1.AVI_DB[k]]]
    BY <2>1, Zenon DEF Reg
  <2> QED
    BY <2>2, Zenon DEF SumOf, AVISum
<1>3. /\ a \in Int /\ b \in Int /\ c \in Int /\ d \in Int
      /\ chip.reg[1][93] \in Int /\ chip.reg[1][109] \in Int
  <2>1. \A x \in Bytes : chip.reg[1][x] \in Bytes
    BY <1>1
  <2>2. Bytes \subseteq Int
    BY DEF Bytes
  <2>3. /\ 93 \in Bytes /\ 104 \in Bytes /\ 105 \in Bytes
        /\ 107 \in Bytes /\ 108 \in Bytes /\ 109 \in Bytes
    BY DEF Bytes
  <2>4. \A x \in Bytes : chip.reg[1][x] \in Int
    BY <2>1, <2>2
  <2> QED
    BY <2>3, <2>4
<1>4. SumOf(<<Bank1.AUD_CC, Bank1.AUD_SF, Bank1.AUD_CA, Bank1.AUD_DM_LSV>>)
        = a + b + c + d
  <2> DEFINE l == <<Bank1.AUD_CC, Bank1.AUD_SF, Bank1.AUD_CA, Bank1.AUD_DM_LSV>>
             s == [k \in DOMAIN l |-> Reg(1, l[k])]
  <2>1. l = <<104, 105, 107, 108>>
    BY DEF Bank1
  <2>2. s = <<a, b, c, d>>
    <3>1. DOMAIN l = 1 .. 4 /\ l[1] = 104 /\ l[2] = 105 /\ l[3] = 107 /\ l[4] = 108
      BY <2>1
    <3> HIDE DEF l
    <3>2. s = [k \in 1 .. 4 |-> chip.reg[1][l[k]]]
      BY <3>1 DEF Reg
    <3> QED
      BY <3>1, <3>2
  <2> HIDE DEF a, b, c, d
  <2>3. Sum(<<a, b, c, d>>) = a + b + c + d
    BY <1>3, SumOfFour
  <2> QED
    BY <2>2, <2>3 DEF SumOf
<1>5. /\ Hdmi.AVI_CTRL = 205 /\ Hdmi.AUD_CTRL = 206
      /\ Bank1.AVI_SUM = 93 /\ Bank1.AUD_SUM = 109
  BY DEF Hdmi, Bank1
<1>6. Reg(0, Hdmi.AVI_CTRL) # 0 =>
        (130 + 2 + 13 + Reg(1, Bank1.AVI_SUM) + SumOf(Bank1.AVI_DB)) % 256 = 0
  <2> DEFINE x == chip.reg[1][93]
             y == AVISum(chip)
             n == SumOf(Bank1.AVI_DB)
             m == Reg(1, Bank1.AVI_SUM)
  <2>1. x \in Int
    BY <1>3
  <2>2. m = x /\ n = y /\ Reg(0, Hdmi.AVI_CTRL) = chip.reg[0][205]
    BY <1>2, <1>5 DEF Reg
  <2>3. chip.reg[0][205] # 0 => (145 + x + y) % 256 = 0
    BY <1>1 DEF FramesSound, AVISound
  <2> HIDE DEF x, y, n, m
  <2>4. 130 + 2 + 13 + m = 145 + x
    BY <2>1, <2>2
  <2>5. 130 + 2 + 13 + m + n = 145 + x + y
    BY <2>2, <2>4
  <2> QED
    BY <2>2, <2>3, <2>5 DEF m, n
<1>7. Reg(0, Hdmi.AUD_CTRL) # 0 =>
        (132 + 1 + 10 + Reg(1, Bank1.AUD_SUM)
         + SumOf(<<Bank1.AUD_CC, Bank1.AUD_SF, Bank1.AUD_CA, Bank1.AUD_DM_LSV>>)) % 256 = 0
  <2> DEFINE x == chip.reg[1][109]
             y == a + b + c + d
             n == SumOf(<<Bank1.AUD_CC, Bank1.AUD_SF, Bank1.AUD_CA, Bank1.AUD_DM_LSV>>)
             m == Reg(1, Bank1.AUD_SUM)
  <2>1. x \in Int
    BY <1>3
  <2>2. m = x /\ n = y /\ Reg(0, Hdmi.AUD_CTRL) = chip.reg[0][206]
    BY <1>4, <1>5 DEF Reg
  <2>3. chip.reg[0][206] # 0 => (143 + x + y) % 256 = 0
    BY <1>1 DEF FramesSound, AUDSound
  <2> HIDE DEF x, y, n, m
  <2>4. 132 + 1 + 10 + m = 143 + x
    BY <2>1, <2>2
  <2>5. 132 + 1 + 10 + m + n = 143 + x + y
    BY <2>2, <2>4
  <2> QED
    BY <2>2, <2>3, <2>5 DEF m, n
<1> QED
  BY <1>6, <1>7 DEF FrameChecksums

(* The infoframes that are sent are sound in every byte, and the colours   *)
(* the AVI infoframe tells are the ones that leave the converter, after    *)
(* any number of calls in any order (SetCSCScale, ConfigAVIInfoFrame).     *)
THEOREM FrameTellsOutputHolds == TxSpec => []FrameTellsOutput
<1>1. TxInv => FrameTellsOutput
  <2> SUFFICES ASSUME TxInv PROVE FrameTellsOutput
    OBVIOUS
  <2>1. FrameChecksums
    BY TxInvSums
  <2>2. ASSUME told.frame \in {"driver", "mixed"} PROVE ColoursTold(chip)
    BY <2>2 DEF TxInv, Picturing
  <2>3. /\ Converter = Conv(chip) /\ (InputIsRGB <=> RGBIn(chip))
        /\ Told(1) = chip.reg[1][88]
    BY DEF Converter, Conv, InputIsRGB, RGBIn, Told, Reg, Video, Bank1
  <2> QED
    BY <2>1, <2>2, <2>3 DEF FrameTellsOutput, ColoursTold
<1> QED
  BY <1>1, TxInvHolds, PTL

(* A converted picture uses a matrix of the colorimetry its infoframe      *)
(* announces, when the timing was asked for after the colours              *)
(* (HDMITX_ChangeDisplayOption, SetCSCScale).                              *)
THEOREM MatrixAsAnnouncedHolds == TxSpec => []MatrixAsAnnounced
<1>1. TxInv => MatrixAsAnnounced
  <2> SUFFICES ASSUME TxInv, told.frame = "driver", Converter # Video.CSC_BYPASS
               PROVE  LET itu709 == Told(2) & \hC0 = \h80
                          table(limited) == IF Converter = Video.CSC_RGB2YUV
                                            THEN RGB2YUV(itu709, limited)
                                            ELSE YUV2RGB(itu709, limited)
                      IN \E limited \in BOOLEAN : \A k \in 1..18 :
                           Reg(0, Video.CSC_MTX11_L + k - 1) = table(limited)[k]
    BY DEF MatrixAsAnnounced
  <2> DEFINE t == Told(2) & 192 = 128
  <2>1. MatrixTold(chip)
    BY DEF TxInv, Picturing
  <2>2. Converter = Conv(chip) /\ Told(2) = chip.reg[1][89] /\ Video.CSC_MTX11_L = 118
    BY DEF Converter, Conv, Told, Reg, Video, Bank1
  <2>3. PICK itu709 \in BOOLEAN : (itu709 <=> t) /\ MatrixIs(chip, itu709)
    BY <2>1, <2>2 DEF MatrixTold
  <2>4. itu709 = t
    BY <2>3
  <2>5. MatrixIs(chip, t)
    BY <2>3, <2>4
  <2> HIDE DEF t
  <2>6. \E limited \in BOOLEAN : \A k \in 1 .. 18 :
          Reg(0, Video.CSC_MTX11_L + k - 1)
            = (IF Converter = Video.CSC_RGB2YUV THEN RGB2YUV(t, limited)
               ELSE YUV2RGB(t, limited))[k]
    BY <2>2, <2>5 DEF MatrixIs, Reg
  <2> QED
    BY <2>6 DEF t
<1> QED
  BY <1>1, TxInvHolds, PTL
=============================================================================
