------------------------- MODULE Ddr3UsrLogicProofs -------------------------
(***************************************************************************)
(* Theorems about the DDR3 fetch engine, for every beat width, FIFO depth, *)
(* threshold, address space and command set that the assumptions of        *)
(* Ddr3UsrLogic allow.                                                     *)
(***************************************************************************)
EXTENDS Ddr3UsrLogic, BeatOrderLemmas

(***************************************************************************)
(* Type correctness.                                                       *)
(***************************************************************************)

(* What one clock edge does to the registers of the state machine.         *)
LEMMA EngineType ==
  ASSUME TypeOK, NEW ready \in BOOLEAN, NEW valid \in BOOLEAN,
         MemoryStep(ready, valid), Engine(ready, valid)
  PROVE  /\ state' \in States
         /\ ddr3_read_start_reg' \in BOOLEAN
         /\ to_read_byte_reg' \in Count
         /\ start_addr_reg' \in Words
         /\ byte_valid' \in SUBSET Lanes
         /\ emif_read' \in BOOLEAN
         /\ emif_addr' \in Words
         /\ fifo_wr_ena' \in BOOLEAN
         /\ fifo_din' \in Beat
         /\ read_done' \in BOOLEAN
         /\ got' \in Count
<1> USE DEF TypeOK, States
<1>1. \A x \in Int : x % CountMod \in Count
  BY CountWraps
<1>2. CASE Idle(ready)
  <2>1. StartWord(cmd) \in Words /\ Offset(cmd) \in 0 .. BeatBytes - 1
    BY StartOfCommand
  <2>2. HeadMask(Offset(cmd)) \in SUBSET Lanes
    BY DEF HeadMask
  <2>3. cmd.total \in Count /\ 0 \in Count
    BY CountAssumption, BeatBytesPositive DEF Count
  <2> QED
    BY <1>2, <2>1, <2>2, <2>3 DEF Idle, NoRead
<1>3. CASE FirstRead(ready)
  <2>1. BeatBytes - Offset(cmd) \in Int
    BY StartOfCommand, BeatBytesPositive
  <2>2. to_read_byte_reg - (BeatBytes - Offset(cmd)) \in Int
    BY <2>1 DEF Count
  <2>3. Subtract(to_read_byte_reg, BeatBytes - Offset(cmd)) \in Count
    BY <1>1, <2>2 DEF Subtract
  <2> QED
    BY <1>3, <2>3 DEF FirstRead, Stalled, Issue, NoRead, NoWrite
<1>4. CASE Read(ready)
  <2>1. to_read_byte_reg - BeatBytes \in Int
    BY BeatBytesPositive DEF Count
  <2>2. Subtract(to_read_byte_reg, BeatBytes) \in Count
    BY <1>1, <2>1 DEF Subtract
  <2> QED
    BY <1>4, <2>2 DEF Read, Stalled, Issue, NoRead, NoWrite, FullMask
<1>5. CASE LastRead(ready)
  <2>1. TailMask(to_read_byte_reg % BeatBytes) \in SUBSET Lanes
    BY DEF TailMask
  <2>2. 0 \in Count
    BY CountAssumption, BeatBytesPositive DEF Count
  <2> QED
    BY <1>5, <2>1, <2>2 DEF LastRead, Stalled, Issue, NoRead, NoWrite
<1>6. CASE Wait(valid)
  <2>1. CASE valid
    <3>1. Head(inflight) \in Words
      BY <2>1 DEF MemoryStep
    <3>2. Swap(byte_valid) \in SUBSET Lanes
      BY SwapType
    <3>3. [word |-> Head(inflight), valid |-> Swap(byte_valid)] \in Beat
      BY <3>1, <3>2 DEF Beat
    <3>4. got + Cardinality(byte_valid) \in Int
      BY MaskCardinality DEF Count
    <3>5. (got + Cardinality(byte_valid)) % CountMod \in Count
      BY <1>1, <3>4
    <3>6. NextWord(emif_addr) \in Words
      BY NextWordType
    <3> QED
      BY <1>6, <2>1, <3>3, <3>5, <3>6 DEF Wait, NoRead
  <2>2. CASE ~valid
    BY <1>6, <2>2 DEF Wait, NoRead, NoWrite
  <2> QED
    BY <2>1, <2>2
<1> QED
  BY <1>2, <1>3, <1>4, <1>5, <1>6 DEF Engine

(* What it does to the FIFO, the memory controller and the command.        *)
LEMMA SurroundingsType ==
  ASSUME TypeOK, NEW ready \in BOOLEAN, NEW valid \in BOOLEAN,
         NEW read_req \in BOOLEAN,
         MemoryStep(ready, valid), FifoStep(read_req), ControllerStep
  PROVE  /\ fifo' \in Seq(Beat)
         /\ fifo_dout_valid' \in BOOLEAN
         /\ fifo_dout' \in Beat
         /\ inflight' \in Seq(Words)
         /\ cmd' \in [addr : Nat, total : Count]
         /\ read_start' \in BOOLEAN
         /\ busy' \in BOOLEAN
<1> USE DEF TypeOK
<1>1. NoBeat \in Beat
  BY WordSpacePositive DEF NoBeat, Beat, Words
<1>2. fifo' \in Seq(Beat) /\ fifo_dout_valid' \in BOOLEAN /\ fifo_dout' \in Beat
  BY <1>1 DEF FifoStep, fifo_empty
<1>3. inflight' \in Seq(Words)
  BY DEF MemoryStep
<1>4. /\ cmd' \in [addr : Nat, total : Count]
      /\ read_start' \in BOOLEAN
      /\ busy' \in BOOLEAN
  BY CommandsAssumption DEF ControllerStep
<1> QED
  BY <1>2, <1>3, <1>4

(* TypeOK holds in every reachable state: every register of                *)
(* ddr3_usr_logic.v keeps to its width, whatever ready does.               *)
THEOREM TypeCorrect == Spec => []TypeOK
<1>1. Init => TypeOK
  <2>1. 0 \in Words /\ 0 \in Count
    BY WordSpacePositive, CountAssumption, BeatBytesPositive DEF Words, Count
  <2>2. NoBeat \in Beat
    BY <2>1 DEF NoBeat, Beat
  <2>3. << >> \in Seq(Beat) /\ << >> \in Seq(Words)
    OBVIOUS
  <2>4. {} \in SUBSET Lanes /\ [addr |-> 0, total |-> 0] \in [addr : Nat, total : Count]
    BY <2>1
  <2> QED
    BY <2>1, <2>2, <2>3, <2>4 DEF Init, TypeOK, States
<1>2. TypeOK /\ [Next]_vars => TypeOK'
  <2> SUFFICES ASSUME TypeOK, [Next]_vars PROVE TypeOK'
    OBVIOUS
  <2>1. ASSUME NEW ready \in ReadyValues, NEW valid \in BOOLEAN,
               NEW read_req \in BOOLEAN, Clock(ready, valid, read_req)
        PROVE  TypeOK'
    <3>1. ready \in BOOLEAN
      BY ReadyAssumption
    <3>2. steady' \in BOOLEAN
      BY <2>1 DEF Clock, TypeOK
    <3> QED
      BY <2>1, <3>1, <3>2, EngineType, SurroundingsType DEF Clock, TypeOK
  <2>2. CASE Reset
    <3>1. 0 \in Words
      BY WordSpacePositive DEF Words
    <3>2. NoBeat \in Beat
      BY <3>1 DEF NoBeat, Beat
    <3>3. << >> \in Seq(Beat) /\ << >> \in Seq(Words)
      OBVIOUS
    <3> QED
      BY <2>2, <3>1, <3>2, <3>3 DEF Reset, TypeOK, States
  <2>3. CASE UNCHANGED vars
    BY <2>3 DEF vars, engineVars, fifoVars, controllerVars, TypeOK
  <2> QED
    BY <2>1, <2>2, <2>3 DEF Next
<1> QED
  BY <1>1, <1>2, PTL DEF Spec

(***************************************************************************)
(* The FIFO never overflows.                                               *)
(***************************************************************************)

(* NoFifoOverflow is not inductive: it does not say why a word that comes  *)
(* back long after almost_full was looked at still finds room.  Room does: *)
(* it counts the beat in the write register with the FIFO, and keeps one   *)
(* place free for the word that WAIT is going to hand over.                *)
Room ==
  Len(fifo) + (IF fifo_wr_ena THEN 1 ELSE 0)
    <= AlmostFull + (IF state = "WAIT" THEN 0 ELSE 1)

(* Room leaves a place for the beat in the write register.                 *)
LEMMA RoomSuffices == TypeOK /\ Room => NoFifoOverflow
  BY FifoAssumption DEF TypeOK, Room, NoFifoOverflow

(* The FIFO gains at most the beat of the write register.                  *)
LEMMA FifoGrowth ==
  ASSUME TypeOK, NEW read_req \in BOOLEAN, FifoStep(read_req)
  PROVE  /\ Len(fifo) \in Nat
         /\ Len(fifo') \in Nat
         /\ Len(fifo') <= Len(fifo) + (IF fifo_wr_ena THEN 1 ELSE 0)
  BY DEF TypeOK, FifoStep, fifo_empty

(* Every clock edge keeps Room: the states that issue a read look at       *)
(* almost_full, WAIT uses up the place they left.                          *)
LEMMA RoomStep == TypeOK /\ Room /\ [Next]_vars => Room'
<1> SUFFICES ASSUME TypeOK, Room, [Next]_vars PROVE Room'
  OBVIOUS
<1> USE FifoAssumption DEF Room
<1>1. ASSUME NEW ready \in ReadyValues, NEW valid \in BOOLEAN,
             NEW read_req \in BOOLEAN, Clock(ready, valid, read_req)
      PROVE  Room'
  <2>1. /\ Len(fifo) \in Nat
        /\ Len(fifo') \in Nat
        /\ Len(fifo') <= Len(fifo) + (IF fifo_wr_ena THEN 1 ELSE 0)
    BY <1>1, FifoGrowth DEF Clock
  <2>2. CASE Idle(ready)
    BY <2>1, <2>2 DEF Idle
  <2>3. CASE FirstRead(ready)
    BY <2>1, <2>3 DEF FirstRead, Stalled, Issue, NoWrite, fifo_full
  <2>4. CASE Read(ready)
    BY <2>1, <2>4 DEF Read, Stalled, Issue, NoWrite, fifo_full
  <2>5. CASE LastRead(ready)
    BY <2>1, <2>5 DEF LastRead, Stalled, Issue, NoWrite, fifo_full
  <2>6. CASE Wait(valid)
    BY <2>1, <2>6 DEF Wait, NoWrite
  <2> QED
    BY <1>1, <2>2, <2>3, <2>4, <2>5, <2>6 DEF Clock, Engine
<1>2. CASE Reset
  BY <1>2 DEF Reset
<1>3. CASE UNCHANGED vars
  BY <1>3 DEF vars, engineVars, fifoVars
<1> QED
  BY <1>1, <1>2, <1>3 DEF Next

(* A beat is never written to a full FIFO, however ready, the memory       *)
(* controller and the reader behave, whenever almost_full is raised with   *)
(* at least one place left (FifoAssumption).                               *)
THEOREM FifoNeverOverflows == Spec => []NoFifoOverflow
<1>1. Init => Room
  BY FifoAssumption DEF Init, Room
<1>2. TypeOK /\ Room /\ [Next]_vars => Room'
  BY RoomStep
<1> QED
  BY <1>1, <1>2, TypeCorrect, RoomSuffices, PTL DEF Spec

(***************************************************************************)
(* While ready is up whenever a read is issued or on the bus, a word comes *)
(* back for every wait.                                                    *)
(***************************************************************************)

(* OneReadPerWait, of a history in which ready was steady.                 *)
OneRead ==
  \/ state # "WAIT" /\ ~emif_read /\ inflight = << >>
  \/ state = "WAIT" /\ emif_read /\ inflight = << >>
  \/ state = "WAIT" /\ ~emif_read /\ Len(inflight) = 1

(* A history that is steady was so before, unless it starts here.          *)
LEMMA SteadyStep ==
  ASSUME TypeOK, NEW ready, NEW valid, NEW read_req, Clock(ready, valid, read_req), steady'
  PROVE  steady /\ (Asking => ready)
  BY DEF Clock, TypeOK

(* A clock edge keeps the read and the wait together.                      *)
LEMMA OneReadClock ==
  ASSUME TypeOK, OneRead, NEW ready \in BOOLEAN, NEW valid \in BOOLEAN, NEW read_req \in BOOLEAN,
         Clock(ready, valid, read_req), Asking => ready
  PROVE  OneRead'
<1> USE DEF OneRead, Clock
<1>1. CASE state # "WAIT" /\ ~emif_read /\ inflight = << >>
  <2>1. inflight' = << >>
    BY <1>1 DEF MemoryStep
  <2>2. (state' = "WAIT" /\ emif_read') \/ (state' # "WAIT" /\ ~emif_read')
    BY <1>1 DEF Engine, Idle, FirstRead, Read, LastRead, Wait, Stalled, Issue, NoRead, Asking
  <2> QED
    BY <2>1, <2>2
<1>2. CASE state = "WAIT" /\ emif_read /\ inflight = << >>
  <2>0. ready
    BY <1>2 DEF Asking
  <2>1. ~valid /\ inflight' = <<emif_addr>>
    BY <1>2, <2>0 DEF MemoryStep, TypeOK
  <2>2. state' = "WAIT" /\ ~emif_read'
    BY <1>2, <2>1 DEF Engine, Idle, FirstRead, Read, LastRead, Wait, NoRead
  <2> QED
    BY <2>1, <2>2
<1>3. CASE state = "WAIT" /\ ~emif_read /\ Len(inflight) = 1
  <2>1. CASE valid
    <3>1. inflight' = << >>
      BY <1>3, <2>1 DEF MemoryStep, TypeOK
    <3>2. state' # "WAIT" /\ ~emif_read'
      BY <1>3, <2>1 DEF Engine, Idle, FirstRead, Read, LastRead, Wait, NoRead
    <3> QED
      BY <3>1, <3>2
  <2>2. CASE ~valid
    <3>1. inflight' = inflight
      BY <1>3, <2>2 DEF MemoryStep
    <3>2. state' = "WAIT" /\ ~emif_read'
      BY <1>3, <2>2 DEF Engine, Idle, FirstRead, Read, LastRead, Wait, NoRead
    <3> QED
      BY <1>3, <3>1, <3>2
  <2> QED
    BY <2>1, <2>2
<1> QED
  BY <1>1, <1>2, <1>3

LEMMA OneReadStep == TypeOK /\ OneReadPerWait /\ [Next]_vars => OneReadPerWait'
<1> SUFFICES ASSUME TypeOK, OneReadPerWait, [Next]_vars, steady' PROVE OneRead'
  BY DEF OneReadPerWait, OneRead
<1>1. ASSUME NEW ready \in ReadyValues, NEW valid \in BOOLEAN, NEW read_req \in BOOLEAN,
             Clock(ready, valid, read_req)
      PROVE  OneRead'
  <2>1. steady /\ (Asking => ready) /\ ready \in BOOLEAN
    BY <1>1, SteadyStep, ReadyAssumption
  <2>2. OneRead
    BY <2>1 DEF OneReadPerWait, OneRead
  <2> QED
    BY <1>1, <2>1, <2>2, OneReadClock
<1>2. CASE Reset
  BY <1>2 DEF Reset, OneRead
<1>3. CASE UNCHANGED vars
  BY <1>3 DEF vars, engineVars, OneReadPerWait, OneRead
<1> QED
  BY <1>1, <1>2, <1>3 DEF Next

(* While ready is up whenever a read is issued or on the bus, the one read *)
(* in flight is the one that WAIT waits for: no word is dropped by a state *)
(* that does not look at ddr3_emif_rddata_valid, whatever ready does in    *)
(* the other cycles.                                                       *)
THEOREM SteadyReadyLosesNoWord == Spec => []OneReadPerWait
<1>1. Init => OneReadPerWait
  BY DEF Init, OneReadPerWait
<1>2. TypeOK /\ OneReadPerWait /\ [Next]_vars => OneReadPerWait'
  BY OneReadStep
<1> QED
  BY <1>1, <1>2, TypeCorrect, PTL DEF Spec

(***************************************************************************)
(* As long as ready is steady, the bytes of a command are counted right.   *)
(***************************************************************************)

(* The part of the invariant about the exchange with wps_controller: a     *)
(* command in progress keeps the controller busy, and so keeps the command *)
(* registers, which FIRST_READ reads again, as they were.                  *)
Exchange ==
  /\ state # "IDLE" \/ ddr3_read_start_reg \/ read_start =>
       busy /\ ~read_done /\ cmd \in Commands
  /\ read_start => state = "IDLE" /\ ~ddr3_read_start_reg
  /\ ddr3_read_start_reg => state = "IDLE"

(* The part about the bytes: those fetched, those of the word on its way   *)
(* and those left on the counter make up the command.                      *)
Accounting ==
  /\ ddr3_read_start_reg \/ state = "FIRST_READ" =>
       /\ got = 0
       /\ to_read_byte_reg = cmd.total
       /\ byte_valid = HeadMask(Offset(cmd))
  /\ state = "WAIT" => got + Cardinality(byte_valid) + to_read_byte_reg = cmd.total
  /\ state = "READ" => got + to_read_byte_reg = cmd.total /\ to_read_byte_reg >= BeatBytes
  /\ state = "LAST_READ" => got + to_read_byte_reg = cmd.total /\ to_read_byte_reg < BeatBytes
  /\ read_done => got = cmd.total

ByteInv == Exchange /\ (steady => Accounting)

(* Numbers the steps below compute with.                                   *)
LEMMA Numbers ==
  ASSUME TypeOK
  PROVE  /\ BeatBytes \in Nat \ {0} /\ CountMod \in Nat /\ CountMod > BeatBytes
         /\ got \in 0 .. CountMod - 1
         /\ to_read_byte_reg \in 0 .. CountMod - 1
         /\ cmd.total \in 0 .. CountMod - 1
         /\ Offset(cmd) \in 0 .. BeatBytes - 1
         /\ Cardinality(byte_valid) \in Nat
<1>1. cmd \in [addr : Nat, total : Count]
  BY DEF TypeOK
<1> QED
  BY <1>1, CountAssumption, BeatBytesPositive, StartOfCommand, MaskCardinality
  DEF TypeOK, Count

(* A value below the modulus is its own remainder: no counter wraps.       *)
LEMMA SmallRemainder ==
  ASSUME NEW a \in Nat, NEW b \in Nat, a < b
  PROVE  a % b = a
  OBVIOUS

(* The pulses of start and done keep to the exchange with the controller.  *)
LEMMA ExchangeStep == TypeOK /\ Exchange /\ [Next]_vars => Exchange'
<1> SUFFICES ASSUME TypeOK, Exchange, [Next]_vars PROVE Exchange'
  OBVIOUS
<1> USE DEF Exchange
<1>1. ASSUME NEW ready \in ReadyValues, NEW valid \in BOOLEAN, NEW read_req \in BOOLEAN,
             Clock(ready, valid, read_req)
      PROVE  Exchange'
  <2> USE <1>1 DEF Clock, ControllerStep
  <2>1. CASE Idle(ready)
    BY <2>1 DEF Idle, TypeOK
  <2>2. CASE FirstRead(ready)
    BY <2>2 DEF FirstRead, Stalled, Issue, NoWrite
  <2>3. CASE Read(ready)
    BY <2>3 DEF Read, Stalled, Issue, NoWrite
  <2>4. CASE LastRead(ready)
    BY <2>4 DEF LastRead, Stalled, Issue, NoWrite
  <2>5. CASE Wait(valid)
    BY <2>5 DEF Wait, NoWrite
  <2> QED
    BY <2>1, <2>2, <2>3, <2>4, <2>5 DEF Engine
<1>2. CASE Reset
  BY <1>2 DEF Reset
<1>3. CASE UNCHANGED vars
  BY <1>3 DEF vars, engineVars, controllerVars
<1> QED
  BY <1>1, <1>2, <1>3 DEF Next

(* Every state of the machine keeps the bytes of the command in balance.   *)
LEMMA AccountingStep ==
  ASSUME TypeOK, Exchange, Accounting, \A c \in Commands : Reaches(c),
         NEW ready \in BOOLEAN, NEW valid \in BOOLEAN, NEW read_req \in BOOLEAN,
         Clock(ready, valid, read_req), Asking => ready
  PROVE  Accounting'
<1> USE DEF Accounting
<1>0. state \in {"FIRST_READ", "READ", "LAST_READ"} /\ ~fifo_full => ready
  BY DEF Asking
<1>1. state # "IDLE" \/ ddr3_read_start_reg \/ read_start =>
        cmd' = cmd /\ cmd \in Commands
  BY DEF Clock, ControllerStep, Exchange
<1>2. CASE Idle(ready)
  <2>1. state' \in {"IDLE", "FIRST_READ"} /\ ~read_done'
    BY <1>2 DEF Idle
  <2>2. CASE ddr3_read_start_reg' \/ state' = "FIRST_READ"
    <3>1. ddr3_read_start_reg \/ read_start
      BY <1>2, <2>2 DEF Idle
    <3>2. CASE read_start
      BY <1>1, <1>2, <2>1, <3>2 DEF Idle
    <3>3. CASE ~read_start
      BY <1>1, <1>2, <2>1, <3>1, <3>3, Zenon DEF Idle
    <3> QED
      BY <3>2, <3>3
  <2> QED
    BY <2>1, <2>2
<1>3. CASE FirstRead(ready)
  <2>1. cmd' = cmd /\ Reaches(cmd) /\ ~read_done' /\ got' = got
    BY <1>1, <1>3 DEF FirstRead, NoWrite
  <2>2. CASE Stalled
    BY <1>3, <2>1, <2>2, Zenon DEF FirstRead, Stalled
  <2>3. CASE /\ Issue(ready) /\ UNCHANGED byte_valid
             /\ to_read_byte_reg' = Subtract(to_read_byte_reg, BeatBytes - Offset(cmd))
    <3>1. cmd.total - (BeatBytes - Offset(cmd)) \in 0 .. CountMod - 1
      BY <2>1, Numbers DEF Reaches, HeadBytes
    <3>2. to_read_byte_reg' = cmd.total - (BeatBytes - Offset(cmd))
      BY <1>3, <2>3, <3>1, Numbers, SmallRemainder DEF FirstRead, Subtract
    <3>3. Cardinality(byte_valid') = BeatBytes - Offset(cmd) /\ got' = 0
      BY <1>3, <2>1, <2>3, Numbers, MaskCardinality DEF FirstRead
    <3>4. state' = "WAIT" /\ ~ddr3_read_start_reg'
      BY <1>0, <1>3, <2>3 DEF FirstRead, Issue, Exchange
    <3> QED
      BY <2>1, <3>2, <3>3, <3>4, Numbers
  <2> QED
    BY <1>3, <2>2, <2>3 DEF FirstRead
<1>4. CASE Read(ready)
  <2>1. cmd' = cmd /\ ~read_done' /\ got' = got /\ ~ddr3_read_start_reg'
    BY <1>1, <1>4 DEF Read, NoWrite, Exchange
  <2>2. CASE Stalled
    BY <1>4, <2>1, <2>2 DEF Read, Stalled
  <2>3. CASE /\ Issue(ready) /\ byte_valid' = FullMask
             /\ to_read_byte_reg' = Subtract(to_read_byte_reg, BeatBytes)
    <3>1. to_read_byte_reg' = to_read_byte_reg - BeatBytes
      BY <1>4, <2>3, Numbers, SmallRemainder DEF Read, Subtract
    <3>2. Cardinality(byte_valid') = BeatBytes
      BY <2>3, MaskCardinality
    <3>3. got + to_read_byte_reg = cmd.total
      BY <1>4 DEF Read
    <3> QED
      BY <1>0, <1>4, <2>1, <2>3, <3>1, <3>2, <3>3, Numbers DEF Issue, Read
  <2> QED
    BY <1>4, <2>2, <2>3 DEF Read
<1>5. CASE LastRead(ready)
  <2>1. cmd' = cmd /\ ~read_done' /\ got' = got /\ ~ddr3_read_start_reg'
    BY <1>1, <1>5 DEF LastRead, NoWrite, Exchange
  <2>2. CASE Stalled
    BY <1>5, <2>1, <2>2 DEF LastRead, Stalled
  <2>3. CASE /\ Issue(ready) /\ to_read_byte_reg' = 0
             /\ byte_valid' = TailMask(to_read_byte_reg % BeatBytes)
    <3>1. got + to_read_byte_reg = cmd.total /\ to_read_byte_reg < BeatBytes
      BY <1>5 DEF LastRead
    <3>2. Cardinality(byte_valid') = to_read_byte_reg
      BY <2>3, <3>1, Numbers, SmallRemainder, MaskCardinality
    <3> QED
      BY <1>0, <1>5, <2>1, <2>3, <3>1, <3>2, Numbers DEF Issue, LastRead
  <2> QED
    BY <1>5, <2>2, <2>3 DEF LastRead
<1>6. CASE Wait(valid)
  <2>1. cmd' = cmd /\ ~ddr3_read_start_reg' /\ to_read_byte_reg' = to_read_byte_reg
    BY <1>1, <1>6 DEF Wait, Exchange
  <2>2. got + Cardinality(byte_valid) + to_read_byte_reg = cmd.total
    BY <1>6 DEF Wait
  <2>3. CASE ~valid
    BY <1>6, <2>1, <2>2, <2>3 DEF Wait, NoWrite
  <2>4. CASE valid
    <3>1. got' = got + Cardinality(byte_valid)
      BY <1>6, <2>2, <2>4, Numbers, SmallRemainder DEF Wait
    <3>2. got' + to_read_byte_reg' = cmd'.total
      BY <2>1, <2>2, <3>1, Numbers
    <3>3. read_done' = (to_read_byte_reg = 0)
      BY <1>6, <2>4 DEF Wait
    <3>5. state' = IF to_read_byte_reg = 0 THEN "IDLE"
                   ELSE IF to_read_byte_reg < BeatBytes THEN "LAST_READ"
                   ELSE "READ"
      BY <1>6, <2>4 DEF Wait
    <3>6. /\ state' # "WAIT" /\ state' # "FIRST_READ"
          /\ state' = "READ" => to_read_byte_reg' >= BeatBytes
          /\ state' = "LAST_READ" => to_read_byte_reg' < BeatBytes
      BY <2>1, <3>5, Numbers
    <3>7. read_done' => got' = cmd'.total
      <4>1. CASE to_read_byte_reg = 0
        BY <2>1, <3>1, <3>2, <4>1, Numbers
      <4>2. CASE to_read_byte_reg # 0
        BY <3>3, <4>2, Zenon
      <4> QED
        BY <4>1, <4>2
    <3>4. got' \in Nat
      BY <3>1, Numbers
    <3> QED
      BY <2>1, <3>2, <3>4, <3>6, <3>7
  <2> QED
    BY <2>3, <2>4
<1> QED
  BY <1>2, <1>3, <1>4, <1>5, <1>6 DEF Clock, Engine

LEMMA ByteStep ==
  ASSUME \A c \in Commands : Reaches(c)
  PROVE  TypeOK /\ ByteInv /\ [Next]_vars => ByteInv'
<1> SUFFICES ASSUME TypeOK, ByteInv, [Next]_vars PROVE ByteInv'
  OBVIOUS
<1>1. Exchange /\ Exchange'
  BY ExchangeStep DEF ByteInv
<1>2. ASSUME steady', NEW ready \in ReadyValues, NEW valid \in BOOLEAN,
             NEW read_req \in BOOLEAN, Clock(ready, valid, read_req)
      PROVE  Accounting'
  <2>1. steady /\ (Asking => ready) /\ ready \in BOOLEAN
    BY <1>2, SteadyStep, ReadyAssumption
  <2>2. Accounting
    BY <2>1 DEF ByteInv
  <2> QED
    BY <1>1, <1>2, <2>1, <2>2, AccountingStep
<1>3. CASE Reset
  <2>1. Accounting'
    BY <1>3 DEF Reset, Accounting
  <2> QED
    BY <1>1, <2>1 DEF ByteInv
<1>4. CASE UNCHANGED vars
  BY <1>1, <1>4 DEF vars, engineVars, controllerVars, ByteInv, Accounting
<1> QED
  BY <1>1, <1>2, <1>3, <1>4 DEF Next, ByteInv

(* While every command reaches the end of its first word, and ready is up  *)
(* whenever a read is issued or on the bus, read_done comes with exactly   *)
(* the bytes the command asked for: the head, the whole words and the tail *)
(* add up, whatever the start offset and the length.                       *)
THEOREM SteadyReadyCountsBytes ==
  ASSUME \A c \in Commands : Reaches(c)
  PROVE  Spec => []DoneCountsBytes
<1>1. Init => ByteInv
  BY DEF Init, ByteInv, Exchange, Accounting
<1>2. TypeOK /\ ByteInv /\ [Next]_vars => ByteInv'
  BY ByteStep
<1>3. ByteInv => DoneCountsBytes
  BY DEF ByteInv, Accounting, DoneCountsBytes
<1> QED
  BY <1>1, <1>2, <1>3, TypeCorrect, PTL DEF Spec

(***************************************************************************)
(* As long as ready is steady, the engine hands out the words of its       *)
(* commands: it implements BeatStream.                                     *)
(***************************************************************************)

(* The word on its way is the one the address register holds, the address  *)
(* registers hold words in use while they matter, and a last read has      *)
(* something left to read.                                                 *)
WordInv ==
  /\ OneRead
  /\ inflight # << >> => inflight = <<emif_addr>>
  /\ ddr3_read_start_reg \/ state = "FIRST_READ" => InUse(start_addr_reg)
  /\ state \in {"WAIT", "READ", "LAST_READ"} => InUse(emif_addr)
  /\ state = "LAST_READ" => to_read_byte_reg # 0

(* What the memory controller holds after a clock edge.                    *)
LEMMA MemoryHolds ==
  ASSUME TypeOK, WordInv, NEW ready \in BOOLEAN, NEW valid \in BOOLEAN,
         MemoryStep(ready, valid), emif_read => ready
  PROVE  /\ valid => inflight = <<emif_addr>> /\ state = "WAIT" /\ ~emif_read
         /\ \/ inflight' = << >>
            \/ inflight' = <<emif_addr>> /\ state = "WAIT" /\ ~valid
<1>1. CASE inflight = << >>
  <2>1. ~valid
    BY <1>1 DEF MemoryStep
  <2>2. inflight' = IF emif_read THEN Append(<< >>, emif_addr) ELSE << >>
    BY <1>1, <2>1 DEF MemoryStep
  <2>3. Append(<< >>, emif_addr) = <<emif_addr>>
    OBVIOUS
  <2>4. emif_read => state = "WAIT"
    BY DEF WordInv, OneRead
  <2> QED
    BY <2>1, <2>2, <2>3, <2>4
<1>2. CASE inflight # << >>
  <2>1. inflight = <<emif_addr>> /\ state = "WAIT" /\ ~emif_read
    BY <1>2 DEF WordInv, OneRead
  <2>2. inflight' = IF valid THEN Tail(<<emif_addr>>) ELSE inflight
    BY <2>1 DEF MemoryStep
  <2>3. Tail(<<emif_addr>>) = << >>
    OBVIOUS
  <2> QED
    BY <2>1, <2>2, <2>3
<1> QED
  BY <1>1, <1>2

(* Every clock edge keeps to the words in use.                             *)
LEMMA WordClock ==
  ASSUME TypeOK, Exchange, WordInv, \A c \in Commands : InUse(StartWord(c)),
         NEW ready \in BOOLEAN, NEW valid \in BOOLEAN, NEW read_req \in BOOLEAN,
         Clock(ready, valid, read_req), Asking => ready
  PROVE  WordInv'
<1> SUFFICES /\ inflight' # << >> => inflight' = <<emif_addr'>>
             /\ ddr3_read_start_reg' \/ state' = "FIRST_READ" => InUse(start_addr_reg')
             /\ state' \in {"WAIT", "READ", "LAST_READ"} => InUse(emif_addr')
             /\ state' = "LAST_READ" => to_read_byte_reg' # 0
  BY OneReadClock DEF WordInv
<1>1. /\ valid => inflight = <<emif_addr>> /\ state = "WAIT" /\ ~emif_read
      /\ \/ inflight' = << >>
         \/ inflight' = <<emif_addr>> /\ state = "WAIT" /\ ~valid
  BY MemoryHolds DEF Clock, Asking
<1>2. CASE Idle(ready)
  <2>1. inflight' = << >> /\ state' \in {"IDLE", "FIRST_READ"}
    BY <1>1, <1>2 DEF Idle
  <2>2. CASE read_start
    <3>1. InUse(StartWord(cmd)) /\ start_addr_reg' = StartWord(cmd)
      BY <1>2, <2>2 DEF Idle, Exchange
    <3> QED
      BY <2>1, <3>1
  <2>3. CASE ~read_start
    <3>1. start_addr_reg' = start_addr_reg
      BY <1>2, <2>3 DEF Idle
    <3>2. ddr3_read_start_reg' \/ state' = "FIRST_READ" => ddr3_read_start_reg
      BY <1>2, <2>3 DEF Idle
    <3> QED
      BY <2>1, <3>1, <3>2 DEF WordInv
  <2> QED
    BY <2>2, <2>3
<1>3. CASE FirstRead(ready)
  <2>1. inflight' = << >> /\ InUse(start_addr_reg) /\ start_addr_reg' = start_addr_reg
    BY <1>1, <1>3 DEF FirstRead, WordInv
  <2>2. \/ state' = "FIRST_READ"
        \/ state' = "WAIT" /\ emif_addr' = start_addr_reg
    BY <1>3 DEF FirstRead, Stalled, Issue
  <2> QED
    BY <2>1, <2>2
<1>4. CASE Read(ready)
  <2>1. /\ inflight' = << >> /\ InUse(emif_addr) /\ ~ddr3_read_start_reg
        /\ emif_addr' = emif_addr /\ ddr3_read_start_reg' = ddr3_read_start_reg
    BY <1>1, <1>4 DEF Read, Stalled, Issue, WordInv, Exchange
  <2>2. state' \in {"READ", "WAIT"}
    BY <1>4 DEF Read, Stalled, Issue
  <2> QED
    BY <2>1, <2>2
<1>5. CASE LastRead(ready)
  <2>1. /\ inflight' = << >> /\ InUse(emif_addr) /\ ~ddr3_read_start_reg
        /\ emif_addr' = emif_addr /\ ddr3_read_start_reg' = ddr3_read_start_reg
    BY <1>1, <1>5 DEF LastRead, Stalled, Issue, WordInv, Exchange
  <2>2. \/ state' = "LAST_READ" /\ to_read_byte_reg' = to_read_byte_reg
        \/ state' = "WAIT"
    BY <1>5 DEF LastRead, Stalled, Issue, Asking
  <2>3. to_read_byte_reg # 0
    BY <1>5 DEF LastRead, WordInv
  <2> QED
    BY <2>1, <2>2, <2>3
<1>6. CASE Wait(valid)
  <2>1. /\ InUse(emif_addr) /\ emif_addr \in Words
        /\ ~ddr3_read_start_reg /\ ddr3_read_start_reg' = ddr3_read_start_reg
        /\ to_read_byte_reg' = to_read_byte_reg
    BY <1>6 DEF Wait, WordInv, Exchange, TypeOK
  <2>2. CASE valid
    <3>1. InUse(NextWord(emif_addr)) /\ emif_addr' = NextWord(emif_addr)
      BY <1>6, <2>1, <2>2, WordAtNext DEF Wait
    <3>2. inflight' = << >>
      BY <1>1, <2>2
    <3>3. state' # "FIRST_READ" /\ (state' = "LAST_READ" => to_read_byte_reg # 0)
      BY <1>6, <2>2 DEF Wait
    <3> QED
      BY <2>1, <3>1, <3>2, <3>3
  <2>3. CASE ~valid
    <3>1. emif_addr' = emif_addr /\ state' = "WAIT"
      BY <1>6, <2>3 DEF Wait
    <3> QED
      BY <1>1, <2>1, <3>1
  <2> QED
    BY <2>2, <2>3
<1> QED
  BY <1>2, <1>3, <1>4, <1>5, <1>6 DEF Clock, Engine

LEMMA WordStep ==
  ASSUME \A c \in Commands : InUse(StartWord(c))
  PROVE  TypeOK /\ Exchange /\ (steady => WordInv) /\ [Next]_vars => (steady => WordInv)'
<1> SUFFICES ASSUME TypeOK, Exchange, steady => WordInv, [Next]_vars, steady' PROVE WordInv'
  OBVIOUS
<1>1. ASSUME NEW ready \in ReadyValues, NEW valid \in BOOLEAN, NEW read_req \in BOOLEAN,
             Clock(ready, valid, read_req)
      PROVE  WordInv'
  <2>1. steady /\ (Asking => ready) /\ ready \in BOOLEAN
    BY <1>1, SteadyStep, ReadyAssumption
  <2> QED
    BY <1>1, <2>1, WordClock
<1>2. CASE Reset
  BY <1>2 DEF Reset, WordInv, OneRead
<1>3. CASE UNCHANGED vars
  BY <1>3 DEF vars, engineVars, WordInv, OneRead
<1> QED
  BY <1>1, <1>2, <1>3 DEF Next

(* What pending stands for, state by state, before a step and after it.    *)
LEMMA PendingIs ==
  /\ state = "IDLE" /\ ~ddr3_read_start_reg => PendingBeats = << >>
  /\ state = "FIRST_READ" \/ (state = "IDLE" /\ ddr3_read_start_reg) =>
       PendingBeats = Run(start_addr_reg, Cardinality(byte_valid), NextWord(start_addr_reg),
                          Subtract(to_read_byte_reg, HeadBytes(cmd)))
  /\ state = "WAIT" =>
       PendingBeats = Run(emif_addr, Cardinality(byte_valid), NextWord(emif_addr),
                          to_read_byte_reg)
  /\ state \in {"READ", "LAST_READ"} => PendingBeats = Owed(emif_addr, to_read_byte_reg)
  BY DEF PendingBeats, Run

LEMMA PendingWas ==
  /\ state' = "IDLE" /\ ~ddr3_read_start_reg' => PendingBeats' = << >>
  /\ state' = "FIRST_READ" \/ (state' = "IDLE" /\ ddr3_read_start_reg') =>
       PendingBeats' = Run(start_addr_reg', Cardinality(byte_valid'),
                           NextWord(start_addr_reg'),
                           Subtract(to_read_byte_reg', HeadBytes(cmd')))
  /\ state' = "WAIT" =>
       PendingBeats' = Run(emif_addr', Cardinality(byte_valid'), NextWord(emif_addr'),
                           to_read_byte_reg')
  /\ state' \in {"READ", "LAST_READ"} => PendingBeats' = Owed(emif_addr', to_read_byte_reg')
  BY DEF PendingBeats, Run

(* The beats fetched and not handed out yet: the FIFO, and the beat in its *)
(* write register.                                                         *)
Standing == IF fifo_wr_ena THEN Append(fifo, fifo_din) ELSE fifo

LEMMA BufferedIs ==
  /\ BufferedBeats = Amounts(Standing)
  /\ BufferedBeats' = Amounts(Standing)'
  BY DEF BufferedBeats, Standing, Amounts, Amount, AsOwed

LEMMA OutWas ==
  /\ fifo_dout_valid' => BeatOut' = Amount(fifo_dout')
  /\ ~fifo_dout_valid' => BeatOut' = Stream!NoBeat
  BY DEF BeatOut, AsOwed, Amount, Stream!NoBeat

(* The FIFO hands its oldest beat to the reader, or nothing.               *)
LEMMA StandingStep ==
  ASSUME TypeOK, NEW read_req \in BOOLEAN, FifoStep(read_req)
  PROVE  /\ Standing \in Seq(Beat)
         /\ \/ /\ Standing # << >>
               /\ fifo_dout_valid'
               /\ fifo_dout' = Head(Standing)
               /\ fifo' = Tail(Standing)
            \/ /\ ~fifo_dout_valid'
               /\ fifo' = Standing
<1>1. fifo \in Seq(Beat) /\ fifo_din \in Beat
  BY DEF TypeOK
<1>2. Standing \in Seq(Beat)
  BY <1>1 DEF Standing
<1>3. CASE read_req /\ ~fifo_empty
  <2>1. fifo # << >>
    BY <1>3 DEF fifo_empty
  <2>2. /\ Append(fifo, fifo_din) # << >>
        /\ Head(Append(fifo, fifo_din)) = Head(fifo)
        /\ Tail(Append(fifo, fifo_din)) = Append(Tail(fifo), fifo_din)
    BY <1>1, <2>1, AppendFirst
  <2> QED
    BY <1>2, <1>3, <2>1, <2>2, Zenon DEF FifoStep, Standing
<1>4. CASE ~(read_req /\ ~fifo_empty)
  BY <1>2, <1>4, Zenon DEF FifoStep, Standing
<1> QED
  BY <1>3, <1>4

(* In the terms of BeatStream: with a beat written, and without.           *)
LEMMA DeliverStep ==
  ASSUME TypeOK, TypeOK', NEW read_req \in BOOLEAN, FifoStep(read_req)
  PROVE  /\ ~fifo_wr_ena' => Stream!Deliver(BufferedBeats)
         /\ fifo_wr_ena' => Stream!Deliver(Append(BufferedBeats, Amount(fifo_din')))
<1>1. Standing \in Seq(Beat)
  BY StandingStep
<1>2. fifo' \in Seq(Beat) /\ fifo_din' \in Beat
  BY DEF TypeOK
<1>3. Amounts(Standing) \in Seq(Owing) /\ Amount(fifo_din') \in Owing
  BY <1>1, <1>2, AmountsOf, AmountType
<1>4. /\ ~fifo_wr_ena' => BufferedBeats' = Amounts(fifo')
      /\ fifo_wr_ena' => BufferedBeats' = Append(Amounts(fifo'), Amount(fifo_din'))
  <2>1. Amounts(Append(fifo', fifo_din')) = Append(Amounts(fifo'), Amount(fifo_din'))
    BY <1>2, AmountsOf
  <2>2. BufferedBeats' = Amounts(IF fifo_wr_ena' THEN Append(fifo', fifo_din') ELSE fifo')
    BY BufferedIs DEF Standing, Amounts
  <2> QED
    BY <2>1, <2>2, Zenon
<1>5. CASE /\ Standing # << >>
           /\ fifo_dout_valid'
           /\ fifo_dout' = Head(Standing)
           /\ fifo' = Tail(Standing)
  <2>1. /\ Amounts(Standing) # << >>
        /\ Head(Amounts(Standing)) = Amount(Head(Standing))
        /\ Tail(Amounts(Standing)) = Amounts(Tail(Standing))
    BY <1>1, <1>5, AmountsOf
  <2>2. BeatOut' = Head(Amounts(Standing)) /\ Amounts(fifo') = Tail(Amounts(Standing))
    BY <1>5, <2>1, OutWas, Zenon
  <2>3. /\ Head(Append(Amounts(Standing), Amount(fifo_din'))) = Head(Amounts(Standing))
        /\ Tail(Append(Amounts(Standing), Amount(fifo_din')))
             = Append(Tail(Amounts(Standing)), Amount(fifo_din'))
    BY <1>3, <2>1, AppendFirst
  <2> QED
    BY <1>4, <2>1, <2>2, <2>3, BufferedIs, Zenon DEF Stream!Deliver
<1>6. CASE ~fifo_dout_valid' /\ fifo' = Standing
  BY <1>4, <1>6, OutWas, BufferedIs, Zenon DEF Stream!Deliver
<1> QED
  BY <1>5, <1>6, StandingStep

(* A clock edge that fetches nothing leaves what is pending, unless it     *)
(* takes a command.                                                        *)
LEMMA PendingStep ==
  ASSUME \A c \in Commands : Reaches(c), \A c \in Commands : InUse(StartWord(c)),
         TypeOK, Exchange, Accounting, WordInv,
         NEW ready \in BOOLEAN, NEW valid \in BOOLEAN, NEW read_req \in BOOLEAN,
         Clock(ready, valid, read_req), Asking => ready, ~fifo_wr_ena'
  PROVE  /\ ~read_done'
         /\ \/ PendingBeats' = PendingBeats
            \/ /\ PendingBeats = << >>
               /\ cmd \in Commands
               /\ PendingBeats' = OwedBy(cmd)
<1>1. state # "IDLE" \/ ddr3_read_start_reg \/ read_start => cmd' = cmd /\ cmd \in Commands
  BY DEF Clock, ControllerStep, Exchange
<1>2. /\ emif_addr \in Words /\ to_read_byte_reg \in Nat
      /\ state \in {"READ", "LAST_READ"} => InUse(emif_addr)
  BY Numbers DEF TypeOK, WordInv
<1>0. state \in {"FIRST_READ", "READ", "LAST_READ"} /\ ~fifo_full => ready
  BY DEF Asking
<1>3. CASE Idle(ready)
  <2>1. CASE read_start
    <3>1. cmd' = cmd /\ cmd \in Commands /\ Reaches(cmd)
      BY <1>1, <2>1
    <3>2. state = "IDLE" /\ ~ddr3_read_start_reg /\ ~read_done'
      BY <1>3, <2>1 DEF Idle, Exchange
    <3>3. /\ state' = "IDLE"
          /\ ddr3_read_start_reg'
          /\ to_read_byte_reg' = cmd.total
          /\ start_addr_reg' = StartWord(cmd)
          /\ byte_valid' = HeadMask(Offset(cmd))
      BY <1>3, <2>1, <3>2 DEF Idle
    <3>4. PendingBeats' = Run(StartWord(cmd), Cardinality(HeadMask(Offset(cmd))),
                              NextWord(StartWord(cmd)), Subtract(cmd.total, HeadBytes(cmd)))
      BY <3>1, <3>3, PendingWas, Zenon
    <3>5. PendingBeats' = OwedBy(cmd)
      <4>1. cmd \in [addr : Nat, total : Count] /\ InUse(StartWord(cmd))
        BY <3>1 DEF TypeOK
      <4> QED
        BY <3>1, <3>4, <4>1, OwedByCommand, Zenon
    <3> QED
      BY <3>1, <3>2, <3>5, PendingIs
  <2>2. CASE ~read_start
    <3>1. /\ state = "IDLE" /\ ~read_done'
          /\ UNCHANGED <<to_read_byte_reg, start_addr_reg, byte_valid>>
      BY <1>3, <2>2 DEF Idle
    <3>2. CASE ddr3_read_start_reg
      <4>1. /\ state' = "FIRST_READ" \/ (state' = "IDLE" /\ ddr3_read_start_reg')
            /\ cmd' = cmd
        BY <1>1, <1>3, <2>2, <3>2 DEF Idle, TypeOK
      <4> QED
        BY <3>1, <3>2, <4>1, PendingIs, PendingWas, Zenon
    <3>3. CASE ~ddr3_read_start_reg
      <4>1. state' = "IDLE" /\ ~ddr3_read_start_reg'
        BY <1>3, <2>2, <3>3 DEF Idle
      <4> QED
        BY <3>1, <3>3, <4>1, PendingIs, PendingWas
    <3> QED
      BY <3>2, <3>3
  <2> QED
    BY <2>1, <2>2
<1>4. CASE FirstRead(ready)
  <2>1. cmd' = cmd /\ ~read_done' /\ state = "FIRST_READ" /\ start_addr_reg' = start_addr_reg
    BY <1>1, <1>4 DEF FirstRead, NoWrite
  <2>2. CASE Stalled
    <3>1. UNCHANGED <<state, to_read_byte_reg, byte_valid>>
      BY <2>2 DEF Stalled
    <3> QED
      BY <2>1, <3>1, PendingIs, PendingWas, Zenon
  <2>3. CASE /\ Issue(ready)
             /\ emif_addr' = start_addr_reg
             /\ to_read_byte_reg' = Subtract(to_read_byte_reg, BeatBytes - Offset(cmd))
             /\ UNCHANGED byte_valid
    <3>1. state' = "WAIT"
      BY <1>0, <2>1, <2>3 DEF Issue
    <3> QED
      BY <2>1, <2>3, <3>1, PendingIs, PendingWas, Zenon DEF HeadBytes
  <2> QED
    BY <1>4, <2>2, <2>3, Zenon DEF FirstRead
<1>5. CASE Read(ready)
  <2>1. ~read_done' /\ state = "READ" /\ PendingBeats = Owed(emif_addr, to_read_byte_reg)
    BY <1>5, PendingIs DEF Read, NoWrite
  <2>2. CASE Stalled
    <3>1. UNCHANGED <<state, to_read_byte_reg, emif_addr>>
      BY <2>2 DEF Stalled
    <3>2. state' \in {"READ", "LAST_READ"}
      BY <2>1, <3>1
    <3> QED
      BY <2>1, <3>1, <3>2, PendingWas, Zenon
  <2>3. CASE /\ Issue(ready)
             /\ byte_valid' = FullMask
             /\ to_read_byte_reg' = Subtract(to_read_byte_reg, BeatBytes)
             /\ UNCHANGED emif_addr
    <3>1. to_read_byte_reg >= BeatBytes
      BY <2>1 DEF Accounting
    <3>2. to_read_byte_reg' = to_read_byte_reg - BeatBytes
      BY <2>3, <3>1, Numbers, SmallRemainder DEF Subtract
    <3>3. Cardinality(byte_valid') = BeatBytes
      BY <2>3, MaskCardinality
    <3>4. PendingBeats' = Run(emif_addr, BeatBytes, NextWord(emif_addr),
                              to_read_byte_reg - BeatBytes)
      <4>1. state' = "WAIT"
        BY <1>0, <2>1, <2>3 DEF Issue
      <4> QED
        BY <2>3, <3>2, <3>3, <4>1, PendingWas, Zenon
    <3>5. Owed(emif_addr, to_read_byte_reg) = Run(emif_addr, BeatBytes, NextWord(emif_addr),
                                             to_read_byte_reg - BeatBytes)
      <4>1. InUse(emif_addr)
        BY <1>2, <2>1
      <4> QED
        BY <1>2, <3>1, <4>1, OwedRun
    <3> QED
      BY <1>2, <2>1, <3>4, <3>5, Zenon
  <2> QED
    BY <1>5, <2>2, <2>3, Zenon DEF Read
<1>6. CASE LastRead(ready)
  <2>1. ~read_done' /\ state = "LAST_READ" /\ PendingBeats = Owed(emif_addr, to_read_byte_reg)
    BY <1>6, PendingIs DEF LastRead, NoWrite
  <2>2. CASE Stalled
    <3>1. UNCHANGED <<state, to_read_byte_reg, emif_addr>>
      BY <2>2 DEF Stalled
    <3>2. state' \in {"READ", "LAST_READ"}
      BY <2>1, <3>1
    <3> QED
      BY <2>1, <3>1, <3>2, PendingWas, Zenon
  <2>3. CASE /\ Issue(ready)
             /\ byte_valid' = TailMask(to_read_byte_reg % BeatBytes)
             /\ to_read_byte_reg' = 0
             /\ UNCHANGED emif_addr
    <3>1. to_read_byte_reg < BeatBytes /\ to_read_byte_reg # 0
      BY <2>1 DEF Accounting, WordInv
    <3>2. to_read_byte_reg \in 1 .. BeatBytes - 1 /\ to_read_byte_reg % BeatBytes = to_read_byte_reg
      BY <3>1, Numbers, SmallRemainder
    <3>3. Cardinality(byte_valid') = to_read_byte_reg
      BY <2>3, <3>2, Numbers, MaskCardinality
    <3>4. PendingBeats' = Run(emif_addr, to_read_byte_reg, NextWord(emif_addr), 0)
      <4>1. state' = "WAIT"
        BY <1>0, <2>1, <2>3 DEF Issue
      <4> QED
        BY <2>3, <3>3, <4>1, PendingWas, Zenon
    <3>5. Owed(emif_addr, to_read_byte_reg) = Run(emif_addr, to_read_byte_reg, NextWord(emif_addr), 0)
      <4>1. InUse(emif_addr)
        BY <1>2, <2>1
      <4> QED
        BY <1>2, <3>2, <4>1, OwedRun
    <3> QED
      BY <1>2, <2>1, <3>4, <3>5, Zenon
  <2> QED
    BY <1>6, <2>2, <2>3, Zenon DEF LastRead
<1>7. CASE Wait(valid)
  <2>1. ~valid
    BY <1>7 DEF Wait
  <2>2. ~read_done' /\ state = "WAIT" /\ UNCHANGED <<state, emif_addr, to_read_byte_reg, byte_valid>>
    BY <1>7, <2>1 DEF Wait, NoWrite
  <2> QED
    BY <2>2, PendingIs, PendingWas, Zenon
<1> QED
  BY <1>3, <1>4, <1>5, <1>6, <1>7 DEF Clock, Engine

(* A clock edge that fetches a word takes it off what is pending.          *)
LEMMA FetchStep ==
  ASSUME TypeOK, Exchange, WordInv,
         NEW ready \in BOOLEAN, NEW valid \in BOOLEAN, NEW read_req \in BOOLEAN,
         Clock(ready, valid, read_req), Asking => ready, fifo_wr_ena'
  PROVE  /\ PendingBeats # << >>
         /\ Head(PendingBeats) = Amount(fifo_din')
         /\ PendingBeats' = Tail(PendingBeats)
         /\ read_done' = (Tail(PendingBeats) = << >>)
<1>1. Wait(valid) /\ valid
  BY DEF Clock, Engine, Idle, FirstRead, Read, LastRead, Wait, NoWrite
<1>2. /\ state = "WAIT"
      /\ fifo_din' = [word |-> Head(inflight), valid |-> Swap(byte_valid)]
      /\ emif_addr' = NextWord(emif_addr)
      /\ read_done' = (to_read_byte_reg = 0)
      /\ state' = IF to_read_byte_reg = 0 THEN "IDLE"
                  ELSE IF to_read_byte_reg < BeatBytes THEN "LAST_READ"
                  ELSE "READ"
      /\ to_read_byte_reg' = to_read_byte_reg
      /\ ddr3_read_start_reg' = ddr3_read_start_reg
  BY <1>1 DEF Wait
<1>3. /\ InUse(emif_addr) /\ Head(inflight) = emif_addr /\ ~ddr3_read_start_reg
  <2>1. inflight = <<emif_addr>>
    BY <1>1, MemoryHolds DEF Clock, Asking
  <2> QED
    BY <1>2, <2>1 DEF WordInv, Exchange
<1>4. /\ emif_addr \in Words /\ NextWord(emif_addr) \in Words
      /\ byte_valid \in SUBSET Lanes
      /\ to_read_byte_reg \in Nat
  BY Numbers, NextWordType DEF TypeOK
<1>5. PendingBeats = Run(emif_addr, Cardinality(byte_valid), NextWord(emif_addr), to_read_byte_reg)
  BY <1>2, PendingIs
<1>6. /\ PendingBeats # << >>
      /\ Head(PendingBeats) = [word |-> emif_addr, bytes |-> Cardinality(byte_valid)]
      /\ Tail(PendingBeats) = Owed(NextWord(emif_addr), to_read_byte_reg)
  BY <1>4, <1>5, RunParts
<1>7. Amount(fifo_din') = [word |-> emif_addr, bytes |-> Cardinality(byte_valid)]
  BY <1>4, <1>2, <1>3, SwapCardinality DEF Amount
<1>8. (Tail(PendingBeats) = << >>) <=> to_read_byte_reg = 0
  <2>1. InUse(NextWord(emif_addr))
    BY <1>4, <1>3, WordAtNext
  <2> QED
    BY <1>4, <1>6, <2>1, OwedRun
<1>9. PendingBeats' = Tail(PendingBeats)
  <2>1. CASE to_read_byte_reg = 0
    <3>1. state' = "IDLE"
      BY <1>2, <2>1
    <3> QED
      BY <1>2, <1>3, <1>8, <2>1, <3>1, PendingWas
  <2>2. CASE to_read_byte_reg # 0
    <3>1. state' \in {"READ", "LAST_READ"}
      BY <1>2, <2>2
    <3> QED
      BY <1>2, <1>6, <3>1, PendingWas, Zenon
  <2> QED
    BY <2>1, <2>2
<1>10. read_done' = (Tail(PendingBeats) = << >>)
  BY <1>2, <1>8, Zenon
<1> QED
  BY <1>6, <1>7, <1>9, <1>10, Zenon

(* Every clock edge is a step of BeatStream, or none.                      *)
LEMMA StreamStep ==
  ASSUME \A c \in Commands : Reaches(c), \A c \in Commands : InUse(StartWord(c))
  PROVE  TypeOK /\ TypeOK' /\ ByteInv /\ (steady => WordInv) /\ [Next]_vars /\ steady'
           => [Stream!Next]_(Stream!streamVars)
<1> SUFFICES ASSUME TypeOK, TypeOK', ByteInv, steady => WordInv, [Next]_vars, steady'
             PROVE  [Stream!Next]_(Stream!streamVars)
  OBVIOUS
<1>1. ASSUME NEW ready \in ReadyValues, NEW valid \in BOOLEAN, NEW read_req \in BOOLEAN,
             Clock(ready, valid, read_req)
      PROVE  Stream!Next
  <2>0. (Asking => ready) /\ ready \in BOOLEAN /\ Exchange /\ Accounting /\ WordInv
    BY <1>1, SteadyStep, ReadyAssumption DEF ByteInv
  <2>1. FifoStep(read_req)
    BY <1>1 DEF Clock
  <2>2. CASE fifo_wr_ena'
    <3>1. Stream!Deliver(Append(BufferedBeats, Head(PendingBeats)))
      BY <1>1, <2>0, <2>1, <2>2, DeliverStep, FetchStep, Zenon
    <3>2. Stream!Fetch
      BY <1>1, <2>0, <2>2, <3>1, FetchStep, Zenon DEF Stream!Fetch
    <3> QED
      BY <3>2 DEF Stream!Next
  <2>3. CASE ~fifo_wr_ena'
    <3>1. Stream!Deliver(BufferedBeats)
      BY <2>1, <2>3, DeliverStep
    <3>2. ~read_done' /\ read_done' \in BOOLEAN
      BY <1>1, <2>0, <2>3, PendingStep DEF TypeOK
    <3>3. read_done' = FALSE
      BY <3>2
    <3>4. CASE PendingBeats' = PendingBeats
      BY <3>1, <3>3, <3>4, Zenon DEF Stream!Next, Stream!Pass
    <3>5. CASE /\ PendingBeats = << >>
               /\ cmd \in Commands
               /\ PendingBeats' = OwedBy(cmd)
      <4>1. Stream!OwedBy(cmd) = OwedBy(cmd)
        BY DEF Stream!OwedBy, OwedBy, Stream!Owed, Owed, Stream!StartWord, StartWord,
               Stream!HeadBytes, HeadBytes, Stream!Offset, Offset, Stream!WordAt, WordAt,
               Stream!BeatBytes, BeatBytes
      <4> QED
        BY <3>1, <3>3, <3>5, <4>1, Zenon DEF Stream!Next, Stream!Accept
    <3> QED
      BY <1>1, <2>0, <2>3, <3>4, <3>5, PendingStep
  <2> QED
    BY <2>2, <2>3
<1>2. CASE Reset
  <2>1. PendingBeats' = << >>
    BY <1>2, PendingWas DEF Reset
  <2>2. BufferedBeats' = << >>
    <3>1. ~fifo_wr_ena' /\ fifo' = << >>
      BY <1>2 DEF Reset
    <3>2. Standing' = << >>
      BY <3>1 DEF Standing
    <3>3. BufferedBeats' = Amounts(Standing')
      BY BufferedIs DEF Amounts
    <3> QED
      BY <3>2, <3>3, AmountsOf
  <2>3. BeatOut' = Stream!NoBeat
    BY <1>2, OutWas DEF Reset
  <2>4. read_done' = FALSE
    BY <1>2 DEF Reset
  <2> QED
    BY <2>1, <2>2, <2>3, <2>4, Zenon DEF Stream!Next, Stream!Forget
<1>3. CASE UNCHANGED vars
  <2>1. UNCHANGED <<PendingBeats, BufferedBeats, BeatOut, read_done>>
    BY <1>3 DEF vars, engineVars, fifoVars, controllerVars, PendingBeats, BufferedBeats, BeatOut
  <2> QED
    BY <2>1, Zenon DEF Stream!streamVars
<1> QED
  BY <1>1, <1>2, <1>3 DEF Next

(* While every command starts at a word in use and reaches the end of it,  *)
(* the engine implements BeatStream for as long as ready is up whenever a  *)
(* read is issued or on the bus: the words of every command come out once  *)
(* each, in the order of their addresses and across the unused ends of the *)
(* sectors, none of them before those of an earlier command, with the      *)
(* bytes the command asks for of each, and done comes with the last of     *)
(* them.                                                                   *)
THEOREM SteadyReadyHandsOutItsWords ==
  ASSUME \A c \in Commands : Reaches(c), \A c \in Commands : InUse(StartWord(c))
  PROVE  Spec => ImplementsBeatStream
<1>1. Init => Stream!Init
  <2> SUFFICES ASSUME Init PROVE Stream!Init
    OBVIOUS
  <2>1. PendingBeats = << >>
    BY PendingIs DEF Init
  <2>2. BufferedBeats = << >>
    <3>1. Standing = << >>
      BY DEF Init, Standing
    <3> QED
      BY <3>1, BufferedIs, AmountsOf
  <2>3. BeatOut = Stream!NoBeat /\ read_done = FALSE
    BY DEF Init, BeatOut, Stream!NoBeat
  <2> QED
    BY <2>1, <2>2, <2>3, Zenon DEF Stream!Init
<1>2. Init => ByteInv /\ WordInv
  BY DEF Init, ByteInv, Exchange, Accounting, WordInv, OneRead
<1>3. TypeOK /\ ByteInv /\ [Next]_vars => ByteInv'
  BY ByteStep
<1>4. TypeOK /\ ByteInv /\ (steady => WordInv) /\ [Next]_vars => (steady => WordInv)'
  BY WordStep DEF ByteInv
<1>5. TypeOK /\ TypeOK' /\ ByteInv /\ (steady => WordInv) /\ [Next]_vars
        => [steady' => [Stream!Next]_(Stream!streamVars)]_vars
  BY StreamStep
<1> QED
  BY <1>1, <1>2, <1>3, <1>4, <1>5, TypeCorrect, PTL DEF Spec, ImplementsBeatStream
=============================================================================
