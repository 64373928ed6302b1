---------------------- MODULE OnchipMemUsrLogicProofs ----------------------
(***************************************************************************)
(* Theorems about the on-chip fetch engine, for every width, FIFO depth,   *)
(* threshold, memory and command set that OnchipMemUsrLogic allows.        *)
(***************************************************************************)
EXTENDS OnchipMemUsrLogic, BeatOrderLemmas

(***************************************************************************)
(* Type correctness.                                                       *)
(***************************************************************************)

(* The address counter runs round the memory.                              *)
LEMMA NextAddrType ==
  ASSUME NEW w \in Words
  PROVE  NextAddr(w) \in Words
<1>1. w + 1 \in Int
  BY WordSpacePositive DEF Words
<1> QED
  BY <1>1, WordSpacePositive, ModInRange DEF NextAddr, Words

(* What one clock edge does to the registers of the state machine.         *)
LEMMA EngineType ==
  ASSUME TypeOK, Engine
  PROVE  /\ state' \in States
         /\ to_read_left' \in Count
         /\ start_addr_reg' \in Words
         /\ byte_valid' \in SUBSET Lanes
         /\ mem_read' \in BOOLEAN
         /\ mem_addr' \in Words
         /\ fifo_wr_ena' \in BOOLEAN
         /\ fifo_din' \in Beat
         /\ read_done' \in BOOLEAN
         /\ got' \in Count
<1> USE DEF TypeOK, States
<1>1. \A x \in Int : x % CountMod \in Count
  BY CountWraps
<1>0. 0 \in Count
  BY CountAssumption, BeatBytesPositive DEF Count
<1>2. CASE Idle
  <2>1. StartWord(cmd) \in Words /\ Offset(cmd) \in 0 .. BeatBytes - 1
    BY StartOfCommand
  <2>2. HeadMask(Offset(cmd)) \in SUBSET Lanes
    BY DEF HeadMask
  <2>3. cmd.total \in Count
    OBVIOUS
  <2> QED
    BY <1>0, <1>2, <2>1, <2>2, <2>3 DEF Idle, NoRead
<1>3. CASE FirstRead
  <2>1. to_read_left - (BeatBytes - Offset(cmd)) \in Int
    BY StartOfCommand, BeatBytesPositive DEF Count
  <2>2. Subtract(to_read_left, BeatBytes - Offset(cmd)) \in Count
    BY <1>1, <2>1 DEF Subtract
  <2> QED
    BY <1>3, <2>2 DEF FirstRead, Stalled, Issue, NoRead, NoWrite
<1>4. CASE Read
  <2>1. to_read_left - BeatBytes \in Int
    BY BeatBytesPositive DEF Count
  <2>2. Subtract(to_read_left, BeatBytes) \in Count
    BY <1>1, <2>1 DEF Subtract
  <2> QED
    BY <1>4, <2>2 DEF Read, Stalled, Issue, NoRead, NoWrite, FullMask
<1>5. CASE LastRead
  <2>1. TailMask(to_read_left % BeatBytes) \in SUBSET Lanes
    BY DEF TailMask
  <2> QED
    BY <1>0, <1>5, <2>1 DEF LastRead, Stalled, Issue, NoRead, NoWrite
<1>6. CASE Wait
  <2>1. CASE read_pipe[2].valid
    <3>1. read_pipe[2].word \in Words
      BY DEF Answer
    <3>2. [word |-> read_pipe[2].word, valid |-> Swap(byte_valid)] \in Beat
      BY <3>1, SwapType DEF Beat
    <3>3. got + Cardinality(byte_valid) \in Int
      BY MaskCardinality DEF Count
    <3>5. (got + Cardinality(byte_valid)) % CountMod \in Count
      BY <1>1, <3>3
    <3>4. NextAddr(mem_addr) \in Words
      BY NextAddrType
    <3> QED
      BY <1>6, <2>1, <3>2, <3>4, <3>5 DEF Wait, NoRead, NoWrite, AfterWord
  <2>2. CASE ~read_pipe[2].valid
    BY <1>6, <2>2 DEF Wait, NoRead, NoWrite
  <2> QED
    BY <2>1, <2>2
<1> QED
  BY <1>2, <1>3, <1>4, <1>5, <1>6 DEF Engine

(* What it does to the FIFO, the read pipeline and the command.            *)
LEMMA SurroundingsType ==
  ASSUME TypeOK, NEW read_req \in BOOLEAN,
         FifoStep(read_req), ReadPipe, ControllerStep
  PROVE  /\ fifo' \in Seq(Beat)
         /\ fifo_dout_valid' \in BOOLEAN
         /\ fifo_dout' \in Beat
         /\ read_pipe' \in [1 .. 2 -> Answer]
         /\ cmd' \in [addr : Nat, total : Count]
         /\ read_start' \in BOOLEAN
         /\ busy' \in BOOLEAN
<1> USE DEF TypeOK
<1>1. NoBeat \in Beat
  BY WordSpacePositive DEF NoBeat, Beat, Words
<1>2. fifo' \in Seq(Beat) /\ fifo_dout_valid' \in BOOLEAN /\ fifo_dout' \in Beat
  BY <1>1 DEF FifoStep, fifo_empty
<1>3. read_pipe' \in [1 .. 2 -> Answer]
  <2>1. [valid |-> mem_read, word |-> mem_addr] \in Answer /\ read_pipe[1] \in Answer
    BY DEF Answer
  <2> QED
    BY <2>1 DEF ReadPipe
<1>4. /\ cmd' \in [addr : Nat, total : Count]
      /\ read_start' \in BOOLEAN
      /\ busy' \in BOOLEAN
  BY CommandsAssumption DEF ControllerStep
<1> QED
  BY <1>2, <1>3, <1>4

(* TypeOK holds in every reachable state: every register of                *)
(* onchip_mem_usr_logic.v keeps to its width.                              *)
THEOREM TypeCorrect == Spec => []TypeOK
<1>0. /\ 0 \in Words /\ 0 \in Count
      /\ NoBeat \in Beat
      /\ << >> \in Seq(Beat)
      /\ [i \in 1 .. 2 |-> [valid |-> FALSE, word |-> 0]] \in [1 .. 2 -> Answer]
  BY WordSpacePositive, CountAssumption, BeatBytesPositive
  DEF Words, Count, NoBeat, Beat, Answer
<1>1. Init => TypeOK
  <2>1. {} \in SUBSET Lanes /\ [addr |-> 0, total |-> 0] \in [addr : Nat, total : Count]
    BY <1>0
  <2> QED
    BY <1>0, <2>1 DEF Init, TypeOK, States
<1>2. TypeOK /\ [Next]_vars => TypeOK'
  <2> SUFFICES ASSUME TypeOK, [Next]_vars PROVE TypeOK'
    OBVIOUS
  <2>1. ASSUME NEW read_req \in BOOLEAN, Clock(read_req)
        PROVE  TypeOK'
    BY <2>1, EngineType, SurroundingsType DEF Clock, TypeOK
  <2>2. CASE Reset
    BY <1>0, <2>2 DEF Reset, TypeOK, States
  <2>3. CASE UNCHANGED vars
    BY <2>3 DEF vars, engineVars, fifoVars, controllerVars, TypeOK
  <2> QED
    BY <2>1, <2>2, <2>3 DEF Next
<1> QED
  BY <1>1, <1>2, PTL DEF Spec

(***************************************************************************)
(* The FIFO never overflows.                                               *)
(***************************************************************************)

(* NoFifoOverflow alone is not inductive.  Room adds the beat in the write *)
(* register to the FIFO, and the place that a word under way will take.    *)
Room ==
  Len(fifo) + (IF fifo_wr_ena THEN 1 ELSE 0)
    <= AlmostFull + (IF state = "WAIT" THEN 0 ELSE 1)

(* Room leaves a place for the beat in the write register.                 *)
LEMMA RoomSuffices == TypeOK /\ Room => NoFifoOverflow
  BY FifoAssumption DEF TypeOK, Room, NoFifoOverflow

(* The FIFO gains at most the beat of the write register.                  *)
LEMMA FifoGrowth ==
  ASSUME TypeOK, NEW read_req \in BOOLEAN, FifoStep(read_req)
  PROVE  /\ Len(fifo) \in Nat
         /\ Len(fifo') \in Nat
         /\ Len(fifo') <= Len(fifo) + (IF fifo_wr_ena THEN 1 ELSE 0)
  BY DEF TypeOK, FifoStep, fifo_empty

(* Every clock edge keeps Room.                                            *)
LEMMA RoomStep == TypeOK /\ Room /\ [Next]_vars => Room'
<1> SUFFICES ASSUME TypeOK, Room, [Next]_vars PROVE Room'
  OBVIOUS
<1> USE FifoAssumption DEF Room
<1>1. ASSUME NEW read_req \in BOOLEAN, Clock(read_req)
      PROVE  Room'
  <2>1. /\ Len(fifo) \in Nat
        /\ Len(fifo') \in Nat
        /\ Len(fifo') <= Len(fifo) + (IF fifo_wr_ena THEN 1 ELSE 0)
    BY <1>1, FifoGrowth DEF Clock
  <2>2. CASE Idle
    BY <2>1, <2>2 DEF Idle
  <2>3. CASE FirstRead
    BY <2>1, <2>3 DEF FirstRead, Stalled, Issue, NoWrite, fifo_full
  <2>4. CASE Read
    BY <2>1, <2>4 DEF Read, Stalled, Issue, NoWrite, fifo_full
  <2>5. CASE LastRead
    BY <2>1, <2>5 DEF LastRead, Stalled, Issue, NoWrite, fifo_full
  <2>6. CASE Wait
    BY <2>1, <2>6 DEF Wait, NoWrite, AfterWord
  <2> QED
    BY <1>1, <2>2, <2>3, <2>4, <2>5, <2>6 DEF Clock, Engine
<1>2. CASE Reset
  BY <1>2 DEF Reset
<1>3. CASE UNCHANGED vars
  BY <1>3 DEF vars, engineVars, fifoVars
<1> QED
  BY <1>1, <1>2, <1>3 DEF Next

(* A beat is never written to a full FIFO, whatever the reader does, as    *)
(* long as almost_full is raised with a place left: there is always a      *)
(* place for the word read before it was raised.                           *)
THEOREM FifoNeverOverflows == Spec => []NoFifoOverflow
<1>1. Init => Room
  BY FifoAssumption DEF Init, Room
<1>2. TypeOK /\ Room /\ [Next]_vars => Room'
  BY RoomStep
<1> QED
  BY <1>1, <1>2, TypeCorrect, RoomSuffices, PTL DEF Spec

(***************************************************************************)
(* The bytes of a command are counted right.                               *)
(***************************************************************************)

(* A command in progress keeps the controller busy, and so the command.    *)
Exchange ==
  /\ state # "IDLE" \/ read_start => busy /\ ~read_done /\ cmd \in Commands
  /\ read_start => state = "IDLE"

(* The bytes fetched, those of the word under way and those left on the    *)
(* counter make up the command.                                            *)
Accounting ==
  /\ state = "FIRST_READ" =>
       /\ got = 0
       /\ to_read_left = cmd.total
       /\ byte_valid = HeadMask(Offset(cmd))
  /\ state = "WAIT" => got + Cardinality(byte_valid) + to_read_left = cmd.total
  /\ state = "READ" => got + to_read_left = cmd.total /\ to_read_left >= BeatBytes
  /\ state = "LAST_READ" => got + to_read_left = cmd.total /\ to_read_left < BeatBytes
  /\ DoneCountsBytes

ByteInv == Exchange /\ Accounting

(* Numbers the steps below compute with.                                   *)
LEMMA Numbers ==
  ASSUME TypeOK
  PROVE  /\ BeatBytes \in Nat \ {0} /\ CountMod \in Nat /\ CountMod > BeatBytes
         /\ got \in 0 .. CountMod - 1
         /\ to_read_left \in 0 .. CountMod - 1
         /\ cmd.total \in 0 .. CountMod - 1
         /\ Offset(cmd) \in 0 .. BeatBytes - 1
         /\ Cardinality(byte_valid) \in Nat
<1>1. cmd \in [addr : Nat, total : Count]
  BY DEF TypeOK
<1> QED
  BY <1>1, CountAssumption, BeatBytesPositive, StartOfCommand, MaskCardinality
  DEF TypeOK, Count

(* A value below the modulus is its own remainder: no counter wraps.       *)
LEMMA SmallRemainder ==
  ASSUME NEW a \in Nat, NEW b \in Nat, a < b
  PROVE  a % b = a
  OBVIOUS

(* The pulses of start and done keep to the exchange with the controller.  *)
LEMMA ExchangeStep == TypeOK /\ Exchange /\ [Next]_vars => Exchange'
<1> SUFFICES ASSUME TypeOK, Exchange, [Next]_vars PROVE Exchange'
  OBVIOUS
<1> USE DEF Exchange
<1>1. ASSUME NEW read_req \in BOOLEAN, Clock(read_req)
      PROVE  Exchange'
  <2> USE <1>1 DEF Clock, ControllerStep
  <2>1. CASE Idle
    BY <2>1 DEF Idle, TypeOK
  <2>2. CASE FirstRead
    BY <2>2 DEF FirstRead, Stalled, Issue, NoWrite
  <2>3. CASE Read
    BY <2>3 DEF Read, Stalled, Issue, NoWrite
  <2>4. CASE LastRead
    BY <2>4 DEF LastRead, Stalled, Issue, NoWrite
  <2>5. CASE Wait
    BY <2>5 DEF Wait, NoWrite, AfterWord
  <2> QED
    BY <2>1, <2>2, <2>3, <2>4, <2>5 DEF Engine
<1>2. CASE Reset
  BY <1>2 DEF Reset
<1>3. CASE UNCHANGED vars
  BY <1>3 DEF vars, engineVars, controllerVars
<1> QED
  BY <1>1, <1>2, <1>3 DEF Next

(* Every state of the machine keeps the bytes of the command in balance.   *)
LEMMA AccountingStep ==
  ASSUME \A c \in Commands : Reaches(c)
  PROVE  TypeOK /\ ByteInv /\ [Next]_vars => Accounting'
<1> SUFFICES ASSUME TypeOK, ByteInv, [Next]_vars PROVE Accounting'
  OBVIOUS
<1> USE DEF Accounting, DoneCountsBytes
<1>1. ASSUME NEW read_req \in BOOLEAN, Clock(read_req)
      PROVE  Accounting'
  <2>1. state # "IDLE" \/ read_start => cmd' = cmd /\ cmd \in Commands
    BY <1>1 DEF Clock, ControllerStep, ByteInv, Exchange
  <2>2. CASE Idle
    <3>1. state' \in {"IDLE", "FIRST_READ"} /\ ~read_done'
      BY <2>2 DEF Idle
    <3>2. CASE state' = "FIRST_READ"
      BY <2>1, <2>2, <3>1, <3>2 DEF Idle
    <3> QED
      BY <3>1, <3>2
  <2>3. CASE FirstRead
    <3>1. cmd' = cmd /\ Reaches(cmd) /\ ~read_done' /\ got' = got
      BY <2>1, <2>3 DEF FirstRead, NoWrite
    <3>2. CASE Stalled
      BY <2>3, <3>1, <3>2, Zenon DEF FirstRead, Stalled, ByteInv
    <3>3. CASE /\ Issue /\ UNCHANGED byte_valid
               /\ to_read_left' = Subtract(to_read_left, BeatBytes - Offset(cmd))
      <4>1. cmd.total - (BeatBytes - Offset(cmd)) \in 0 .. CountMod - 1
        BY <3>1, Numbers DEF Reaches, HeadBytes
      <4>2. to_read_left' = cmd.total - (BeatBytes - Offset(cmd))
        BY <2>3, <3>3, <4>1, Numbers, SmallRemainder DEF FirstRead, Subtract, ByteInv
      <4>3. Cardinality(byte_valid') = BeatBytes - Offset(cmd) /\ got' = 0
        BY <2>3, <3>1, <3>3, Numbers, MaskCardinality DEF FirstRead, ByteInv
      <4>4. state' = "WAIT"
        BY <3>3 DEF Issue
      <4> QED
        BY <3>1, <4>2, <4>3, <4>4, Numbers
    <3> QED
      BY <2>3, <3>2, <3>3 DEF FirstRead
  <2>4. CASE Read
    <3>1. cmd' = cmd /\ ~read_done' /\ got' = got
      BY <2>1, <2>4 DEF Read, NoWrite
    <3>2. CASE Stalled
      BY <2>4, <3>1, <3>2 DEF Read, Stalled, ByteInv
    <3>3. CASE /\ Issue /\ byte_valid' = FullMask
               /\ to_read_left' = Subtract(to_read_left, BeatBytes)
      <4>1. to_read_left' = to_read_left - BeatBytes
        BY <2>4, <3>3, Numbers, SmallRemainder DEF Read, Subtract, ByteInv
      <4>2. Cardinality(byte_valid') = BeatBytes
        BY <3>3, MaskCardinality
      <4>3. got + to_read_left = cmd.total
        BY <2>4 DEF Read, ByteInv
      <4> QED
        BY <3>1, <3>3, <4>1, <4>2, <4>3, Numbers DEF Issue
    <3> QED
      BY <2>4, <3>2, <3>3 DEF Read
  <2>5. CASE LastRead
    <3>1. cmd' = cmd /\ ~read_done' /\ got' = got
      BY <2>1, <2>5 DEF LastRead, NoWrite
    <3>2. CASE Stalled
      BY <2>5, <3>1, <3>2 DEF LastRead, Stalled, ByteInv
    <3>3. CASE /\ Issue /\ to_read_left' = 0
               /\ byte_valid' = TailMask(to_read_left % BeatBytes)
      <4>1. got + to_read_left = cmd.total /\ to_read_left < BeatBytes
        BY <2>5 DEF LastRead, ByteInv
      <4>2. Cardinality(byte_valid') = to_read_left
        BY <3>3, <4>1, Numbers, SmallRemainder, MaskCardinality
      <4> QED
        BY <3>1, <3>3, <4>1, <4>2, Numbers DEF Issue
    <3> QED
      BY <2>5, <3>2, <3>3 DEF LastRead
  <2>6. CASE Wait
    <3>1. cmd' = cmd /\ to_read_left' = to_read_left
      BY <2>1, <2>6 DEF Wait
    <3>2. got + Cardinality(byte_valid) + to_read_left = cmd.total
      BY <2>6 DEF Wait, ByteInv
    <3>3. CASE ~read_pipe[2].valid
      BY <2>6, <3>1, <3>2, <3>3 DEF Wait, NoWrite
    <3>4. CASE read_pipe[2].valid
      <4>1. got' = got + Cardinality(byte_valid)
        BY <2>6, <3>2, <3>4, Numbers, SmallRemainder DEF Wait, NoWrite
      <4>2. got' + to_read_left' = cmd'.total /\ got' \in Nat
        BY <3>1, <3>2, <4>1, Numbers
      <4>3. read_done' = (to_read_left = 0)
        BY <2>6, <3>4 DEF Wait, NoWrite
      <4>4. state' = AfterWord(to_read_left)
        BY <2>6, <3>4 DEF Wait, NoWrite
      <4>5. /\ state' # "WAIT" /\ state' # "FIRST_READ"
            /\ state' = "READ" => to_read_left' >= BeatBytes
            /\ state' = "LAST_READ" => to_read_left' < BeatBytes
        BY <3>1, <4>4, Numbers DEF AfterWord
      <4>6. read_done' => got' = cmd'.total
        <5>1. CASE to_read_left = 0
          BY <3>1, <4>1, <4>2, <5>1, Numbers
        <5>2. CASE to_read_left # 0
          BY <4>3, <5>2, Zenon
        <5> QED
          BY <5>1, <5>2
      <4> QED
        BY <3>1, <4>2, <4>5, <4>6
    <3> QED
      BY <3>3, <3>4
  <2> QED
    BY <1>1, <2>2, <2>3, <2>4, <2>5, <2>6 DEF Clock, Engine
<1>2. CASE Reset
  BY <1>2 DEF Reset
<1>3. CASE UNCHANGED vars
  BY <1>3 DEF vars, engineVars, controllerVars, ByteInv
<1> QED
  BY <1>1, <1>2, <1>3 DEF Next

(* Where every command reaches the end of its first word, done comes with  *)
(* exactly the bytes the command asked for: head, whole words and tail add *)
(* up, whatever the start offset and the length.                           *)
THEOREM CountsBytes ==
  ASSUME \A c \in Commands : Reaches(c)
  PROVE  Spec => []DoneCountsBytes
<1>1. Init => ByteInv
  BY DEF Init, ByteInv, Exchange, Accounting, DoneCountsBytes
<1>2. TypeOK /\ ByteInv /\ [Next]_vars => ByteInv'
  BY ExchangeStep, AccountingStep DEF ByteInv
<1>3. ByteInv => DoneCountsBytes
  BY DEF ByteInv, Accounting
<1> QED
  BY <1>1, <1>2, <1>3, TypeCorrect, PTL DEF Spec
(***************************************************************************)
(* The engine hands out the words of its commands: it implements           *)
(* BeatStream.                                                             *)
(***************************************************************************)

(* One read is under way at a time, only in WAIT, and for the word the     *)
(* address register still holds; a last read has something left to read.   *)
OneRead ==
  /\ state # "WAIT" => ~mem_read /\ ~read_pipe[1].valid /\ ~read_pipe[2].valid
  /\ mem_read => ~read_pipe[1].valid /\ ~read_pipe[2].valid
  /\ read_pipe[1].valid => ~read_pipe[2].valid /\ read_pipe[1].word = mem_addr
  /\ read_pipe[2].valid => read_pipe[2].word = mem_addr
  /\ state = "LAST_READ" => to_read_left # 0

(* Every clock edge keeps to one read at a time.                           *)
LEMMA OneReadStep == TypeOK /\ OneRead /\ [Next]_vars => OneRead'
<1> SUFFICES ASSUME TypeOK, OneRead, [Next]_vars PROVE OneRead'
  OBVIOUS
<1> USE DEF OneRead
<1>0. /\ read_pipe \in [1 .. 2 -> Answer]
      /\ mem_read \in BOOLEAN
      /\ read_pipe[1].valid \in BOOLEAN
      /\ read_pipe[2].valid \in BOOLEAN
  BY DEF TypeOK, Answer
<1>1. ASSUME NEW read_req \in BOOLEAN, Clock(read_req)
      PROVE  OneRead'
  <2>1. /\ read_pipe'[1] = [valid |-> mem_read, word |-> mem_addr]
        /\ read_pipe'[2] = read_pipe[1]
    BY <1>0, <1>1 DEF Clock, ReadPipe
  <2>2. read_pipe'[1].valid = mem_read /\ read_pipe'[1].word = mem_addr
    BY <2>1
  <2>3. CASE Idle
    BY <1>0, <2>1, <2>2, <2>3 DEF Idle, NoRead
  <2>4. CASE FirstRead
    BY <1>0, <2>1, <2>2, <2>4 DEF FirstRead, Stalled, Issue, NoRead
  <2>5. CASE Read
    BY <1>0, <2>1, <2>2, <2>5 DEF Read, Stalled, Issue, NoRead
  <2>6. CASE LastRead
    BY <1>0, <2>1, <2>2, <2>6 DEF LastRead, Stalled, Issue, NoRead
  <2>7. CASE Wait
    BY <1>0, <2>1, <2>2, <2>7 DEF Wait, NoRead, NoWrite, AfterWord
  <2> QED
    BY <1>1, <2>3, <2>4, <2>5, <2>6, <2>7 DEF Clock, Engine
<1>2. CASE Reset
  BY <1>2 DEF Reset
<1>3. CASE UNCHANGED vars
  BY <1>3 DEF vars, engineVars
<1> QED
  BY <1>1, <1>2, <1>3 DEF Next

(* The words of this memory are all in use and follow each other.          *)
LEMMA FlatOrder ==
  ASSUME NEW w \in Words
  PROVE  InUse(w) /\ NextAddr(w) = NextWord(w)
<1> USE SectorAssumption, FlatAssumption
<1>1. Span * Sectors = Span /\ w \in 0 .. Span - 1
  BY DEF Words
<1>2. w % Span = w /\ w \div Span = 0
  BY <1>1
<1>3. InUse(w)
  BY <1>1, <1>2 DEF InUse
<1>4. PICK n \in Nat \ {0} : n = Span * Sectors /\ n = Span
  BY <1>1
<1>5. NextAddr(w) = (w + 1) % n
  BY <1>4 DEF NextAddr
<1>6. CASE w = Span - 1
  <2>1. (w + 1) % n = 0
    BY <1>4, <1>6
  <2>2. (0 + 1) % Sectors = 0 /\ 0 * Span = 0
    OBVIOUS
  <2>3. NextWord(w) = ((0 + 1) % Sectors) * Span
    BY <1>2, <1>6 DEF NextWord
  <2> QED
    BY <1>3, <1>5, <2>1, <2>2, <2>3, Zenon
<1>7. CASE w # Span - 1
  BY <1>2, <1>3, <1>4, <1>5, <1>7 DEF NextWord
<1> QED
  BY <1>6, <1>7

(* What pending stands for, state by state, before a step and after it.    *)
LEMMA PendingIs ==
  /\ state = "IDLE" => PendingBeats = << >>
  /\ state = "FIRST_READ" =>
       PendingBeats = Run(start_addr_reg, Cardinality(byte_valid), NextAddr(start_addr_reg),
                          Subtract(to_read_left, HeadBytes(cmd)))
  /\ state = "WAIT" =>
       PendingBeats = Run(mem_addr, Cardinality(byte_valid), NextAddr(mem_addr), to_read_left)
  /\ state \in {"READ", "LAST_READ"} => PendingBeats = Owed(mem_addr, to_read_left)
  BY DEF PendingBeats, Run

LEMMA PendingWas ==
  /\ state' = "IDLE" => PendingBeats' = << >>
  /\ state' = "FIRST_READ" =>
       PendingBeats' = Run(start_addr_reg', Cardinality(byte_valid'),
                           NextAddr(start_addr_reg'), Subtract(to_read_left', HeadBytes(cmd')))
  /\ state' = "WAIT" =>
       PendingBeats' = Run(mem_addr', Cardinality(byte_valid'), NextAddr(mem_addr'),
                           to_read_left')
  /\ state' \in {"READ", "LAST_READ"} => PendingBeats' = Owed(mem_addr', to_read_left')
  BY DEF PendingBeats, Run

(* The beats fetched and not handed out yet: the FIFO, and the beat in its *)
(* write register.                                                         *)
Standing == IF fifo_wr_ena THEN Append(fifo, fifo_din) ELSE fifo

LEMMA BufferedIs ==
  /\ BufferedBeats = Amounts(Standing)
  /\ BufferedBeats' = Amounts(Standing)'
  BY DEF BufferedBeats, Standing, Amounts, Amount, AsOwed

LEMMA OutWas ==
  /\ fifo_dout_valid' => BeatOut' = Amount(fifo_dout')
  /\ ~fifo_dout_valid' => BeatOut' = Stream!NoBeat
  BY DEF BeatOut, AsOwed, Amount, Stream!NoBeat

(* The FIFO hands its oldest beat to the reader, or nothing.               *)
LEMMA StandingStep ==
  ASSUME TypeOK, NEW read_req \in BOOLEAN, FifoStep(read_req)
  PROVE  /\ Standing \in Seq(Beat)
         /\ \/ /\ Standing # << >>
               /\ fifo_dout_valid'
               /\ fifo_dout' = Head(Standing)
               /\ fifo' = Tail(Standing)
            \/ /\ ~fifo_dout_valid'
               /\ fifo' = Standing
<1>1. fifo \in Seq(Beat) /\ fifo_din \in Beat
  BY DEF TypeOK
<1>2. Standing \in Seq(Beat)
  BY <1>1 DEF Standing
<1>3. CASE read_req /\ ~fifo_empty
  <2>1. fifo # << >>
    BY <1>3 DEF fifo_empty
  <2>2. /\ Append(fifo, fifo_din) # << >>
        /\ Head(Append(fifo, fifo_din)) = Head(fifo)
        /\ Tail(Append(fifo, fifo_din)) = Append(Tail(fifo), fifo_din)
    BY <1>1, <2>1, AppendFirst
  <2> QED
    BY <1>2, <1>3, <2>1, <2>2, Zenon DEF FifoStep, Standing
<1>4. CASE ~(read_req /\ ~fifo_empty)
  BY <1>2, <1>4, Zenon DEF FifoStep, Standing
<1> QED
  BY <1>3, <1>4

(* In the terms of BeatStream: with a beat written, and without.           *)
LEMMA DeliverStep ==
  ASSUME TypeOK, TypeOK', NEW read_req \in BOOLEAN, FifoStep(read_req)
  PROVE  /\ ~fifo_wr_ena' => Stream!Deliver(BufferedBeats)
         /\ fifo_wr_ena' => Stream!Deliver(Append(BufferedBeats, Amount(fifo_din')))
<1>1. Standing \in Seq(Beat)
  BY StandingStep
<1>2. fifo' \in Seq(Beat) /\ fifo_din' \in Beat
  BY DEF TypeOK
<1>3. Amounts(Standing) \in Seq(Owing) /\ Amount(fifo_din') \in Owing
  BY <1>1, <1>2, AmountsOf, AmountType
<1>4. /\ ~fifo_wr_ena' => BufferedBeats' = Amounts(fifo')
      /\ fifo_wr_ena' => BufferedBeats' = Append(Amounts(fifo'), Amount(fifo_din'))
  <2>1. Amounts(Append(fifo', fifo_din')) = Append(Amounts(fifo'), Amount(fifo_din'))
    BY <1>2, AmountsOf
  <2>2. BufferedBeats' = Amounts(IF fifo_wr_ena' THEN Append(fifo', fifo_din') ELSE fifo')
    BY BufferedIs DEF Standing, Amounts
  <2> QED
    BY <2>1, <2>2, Zenon
<1>5. CASE /\ Standing # << >>
           /\ fifo_dout_valid'
           /\ fifo_dout' = Head(Standing)
           /\ fifo' = Tail(Standing)
  <2>1. /\ Amounts(Standing) # << >>
        /\ Head(Amounts(Standing)) = Amount(Head(Standing))
        /\ Tail(Amounts(Standing)) = Amounts(Tail(Standing))
    BY <1>1, <1>5, AmountsOf
  <2>2. BeatOut' = Head(Amounts(Standing)) /\ Amounts(fifo') = Tail(Amounts(Standing))
    BY <1>5, <2>1, OutWas, Zenon
  <2>3. /\ Head(Append(Amounts(Standing), Amount(fifo_din'))) = Head(Amounts(Standing))
        /\ Tail(Append(Amounts(Standing), Amount(fifo_din')))
             = Append(Tail(Amounts(Standing)), Amount(fifo_din'))
    BY <1>3, <2>1, AppendFirst
  <2> QED
    BY <1>4, <2>1, <2>2, <2>3, BufferedIs, Zenon DEF Stream!Deliver
<1>6. CASE ~fifo_dout_valid' /\ fifo' = Standing
  BY <1>4, <1>6, OutWas, BufferedIs, Zenon DEF Stream!Deliver
<1> QED
  BY <1>5, <1>6, StandingStep

(* A clock edge that fetches nothing leaves what is pending, unless it     *)
(* takes a command.                                                        *)
LEMMA PendingStep ==
  ASSUME \A c \in Commands : Reaches(c),
         TypeOK, ByteInv, OneRead, NEW read_req \in BOOLEAN, Clock(read_req), ~fifo_wr_ena'
  PROVE  /\ ~read_done'
         /\ \/ PendingBeats' = PendingBeats
            \/ /\ PendingBeats = << >>
               /\ cmd \in Commands
               /\ PendingBeats' = OwedBy(cmd)
<1>1. state # "IDLE" \/ read_start => cmd' = cmd /\ cmd \in Commands
  BY DEF Clock, ControllerStep, ByteInv, Exchange
<1>2. /\ mem_addr \in Words /\ InUse(mem_addr) /\ NextAddr(mem_addr) = NextWord(mem_addr)
      /\ to_read_left \in Nat
  BY Numbers, FlatOrder DEF TypeOK
<1>3. CASE Idle
  <2>1. CASE read_start
    <3>1. cmd' = cmd /\ cmd \in Commands /\ Reaches(cmd)
      BY <1>1, <2>1
    <3>2. /\ state' = "FIRST_READ"
          /\ to_read_left' = cmd.total
          /\ start_addr_reg' = StartWord(cmd)
          /\ byte_valid' = HeadMask(Offset(cmd))
      BY <1>3, <2>1 DEF Idle
    <3>3. PendingBeats' = Run(StartWord(cmd), Cardinality(HeadMask(Offset(cmd))),
                              NextAddr(StartWord(cmd)), Subtract(cmd.total, HeadBytes(cmd)))
      BY <3>1, <3>2, PendingWas, Zenon
    <3>4. PendingBeats' = OwedBy(cmd)
      <4>1. cmd \in [addr : Nat, total : Count]
        BY DEF TypeOK
      <4>2. InUse(StartWord(cmd)) /\ NextAddr(StartWord(cmd)) = NextWord(StartWord(cmd))
        BY <4>1, StartOfCommand, FlatOrder
      <4> QED
        BY <3>1, <3>3, <4>1, <4>2, OwedByCommand, Zenon
    <3>5. state = "IDLE" /\ ~read_done'
      BY <1>3 DEF Idle
    <3> QED
      BY <3>1, <3>4, <3>5, PendingIs
  <2>2. CASE ~read_start
    BY <1>3, <2>2, PendingIs, PendingWas DEF Idle
  <2> QED
    BY <2>1, <2>2
<1>4. CASE FirstRead
  <2>1. cmd' = cmd /\ ~read_done' /\ state = "FIRST_READ" /\ start_addr_reg' = start_addr_reg
    BY <1>1, <1>4 DEF FirstRead, NoWrite
  <2>2. CASE Stalled
    <3>1. UNCHANGED <<state, to_read_left, byte_valid>>
      BY <2>2 DEF Stalled
    <3> QED
      BY <2>1, <3>1, PendingIs, PendingWas, Zenon
  <2>3. CASE /\ Issue
             /\ mem_addr' = start_addr_reg
             /\ to_read_left' = Subtract(to_read_left, BeatBytes - Offset(cmd))
             /\ UNCHANGED byte_valid
    <3>1. state' = "WAIT"
      BY <2>3 DEF Issue
    <3> QED
      BY <2>1, <2>3, <3>1, PendingIs, PendingWas, Zenon DEF HeadBytes
  <2> QED
    BY <1>4, <2>2, <2>3, Zenon DEF FirstRead
<1>5. CASE Read
  <2>1. ~read_done' /\ state = "READ" /\ PendingBeats = Owed(mem_addr, to_read_left)
    BY <1>5, PendingIs DEF Read, NoWrite
  <2>2. CASE Stalled
    <3>1. UNCHANGED <<state, to_read_left, mem_addr>>
      BY <2>2 DEF Stalled
    <3>2. state' \in {"READ", "LAST_READ"}
      BY <2>1, <3>1
    <3> QED
      BY <2>1, <3>1, <3>2, PendingWas, Zenon
  <2>3. CASE /\ Issue
             /\ byte_valid' = FullMask
             /\ to_read_left' = Subtract(to_read_left, BeatBytes)
             /\ UNCHANGED mem_addr
    <3>1. to_read_left >= BeatBytes
      BY <2>1 DEF ByteInv, Accounting
    <3>2. to_read_left' = to_read_left - BeatBytes
      BY <2>3, <3>1, Numbers, SmallRemainder DEF Subtract
    <3>3. Cardinality(byte_valid') = BeatBytes
      BY <2>3, MaskCardinality
    <3>4. PendingBeats' = Run(mem_addr, BeatBytes, NextAddr(mem_addr),
                              to_read_left - BeatBytes)
      BY <2>3, <3>2, <3>3, PendingWas, Zenon DEF Issue
    <3>5. Owed(mem_addr, to_read_left) = Run(mem_addr, BeatBytes, NextWord(mem_addr),
                                             to_read_left - BeatBytes)
      BY <1>2, <3>1, OwedRun
    <3> QED
      BY <1>2, <2>1, <3>4, <3>5, Zenon
  <2> QED
    BY <1>5, <2>2, <2>3, Zenon DEF Read
<1>6. CASE LastRead
  <2>1. ~read_done' /\ state = "LAST_READ" /\ PendingBeats = Owed(mem_addr, to_read_left)
    BY <1>6, PendingIs DEF LastRead, NoWrite
  <2>2. CASE Stalled
    <3>1. UNCHANGED <<state, to_read_left, mem_addr>>
      BY <2>2 DEF Stalled
    <3>2. state' \in {"READ", "LAST_READ"}
      BY <2>1, <3>1
    <3> QED
      BY <2>1, <3>1, <3>2, PendingWas, Zenon
  <2>3. CASE /\ Issue
             /\ byte_valid' = TailMask(to_read_left % BeatBytes)
             /\ to_read_left' = 0
             /\ UNCHANGED mem_addr
    <3>1. to_read_left < BeatBytes /\ to_read_left # 0
      BY <2>1 DEF ByteInv, Accounting, OneRead
    <3>2. to_read_left \in 1 .. BeatBytes - 1 /\ to_read_left % BeatBytes = to_read_left
      BY <3>1, Numbers, SmallRemainder
    <3>3. Cardinality(byte_valid') = to_read_left
      BY <2>3, <3>2, Numbers, MaskCardinality
    <3>4. PendingBeats' = Run(mem_addr, to_read_left, NextAddr(mem_addr), 0)
      BY <2>3, <3>3, PendingWas, Zenon DEF Issue
    <3>5. Owed(mem_addr, to_read_left) = Run(mem_addr, to_read_left, NextWord(mem_addr), 0)
      BY <1>2, <3>2, OwedRun
    <3> QED
      BY <1>2, <2>1, <3>4, <3>5, Zenon
  <2> QED
    BY <1>6, <2>2, <2>3, Zenon DEF LastRead
<1>7. CASE Wait
  <2>1. ~read_pipe[2].valid
    BY <1>7 DEF Wait
  <2>2. ~read_done' /\ state = "WAIT" /\ UNCHANGED <<state, mem_addr, to_read_left, byte_valid>>
    BY <1>7, <2>1 DEF Wait, NoWrite
  <2> QED
    BY <2>2, PendingIs, PendingWas, Zenon
<1> QED
  BY <1>3, <1>4, <1>5, <1>6, <1>7 DEF Clock, Engine

(* A clock edge that fetches a word takes it off what is pending.          *)
LEMMA FetchStep ==
  ASSUME TypeOK, ByteInv, OneRead, NEW read_req \in BOOLEAN, Clock(read_req), fifo_wr_ena'
  PROVE  /\ PendingBeats # << >>
         /\ Head(PendingBeats) = Amount(fifo_din')
         /\ PendingBeats' = Tail(PendingBeats)
         /\ read_done' = (Tail(PendingBeats) = << >>)
<1>1. Wait /\ read_pipe[2].valid
  BY DEF Clock, Engine, Idle, FirstRead, Read, LastRead, Wait, NoWrite
<1>2. /\ state = "WAIT"
      /\ fifo_din' = [word |-> mem_addr, valid |-> Swap(byte_valid)]
      /\ mem_addr' = NextAddr(mem_addr)
      /\ read_done' = (to_read_left = 0)
      /\ state' = AfterWord(to_read_left)
      /\ to_read_left' = to_read_left
  BY <1>1 DEF Wait, NoWrite, OneRead
<1>3. /\ mem_addr \in Words /\ NextAddr(mem_addr) \in Words
      /\ byte_valid \in SUBSET Lanes
      /\ to_read_left \in Nat
  BY Numbers, NextAddrType DEF TypeOK
<1>4. PendingBeats = Run(mem_addr, Cardinality(byte_valid), NextAddr(mem_addr), to_read_left)
  BY <1>2, PendingIs
<1>5. /\ PendingBeats # << >>
      /\ Head(PendingBeats) = [word |-> mem_addr, bytes |-> Cardinality(byte_valid)]
      /\ Tail(PendingBeats) = Owed(NextAddr(mem_addr), to_read_left)
  BY <1>3, <1>4, RunParts
<1>6. Amount(fifo_din') = [word |-> mem_addr, bytes |-> Cardinality(byte_valid)]
  BY <1>2, <1>3, SwapCardinality DEF Amount
<1>7. (Tail(PendingBeats) = << >>) <=> to_read_left = 0
  BY <1>3, <1>5, OwedRun, FlatOrder
<1>8. PendingBeats' = Tail(PendingBeats)
  <2>1. CASE to_read_left = 0
    <3>1. state' = "IDLE"
      BY <1>2, <2>1 DEF AfterWord
    <3> QED
      BY <1>7, <2>1, <3>1, PendingWas
  <2>2. CASE to_read_left # 0
    <3>1. state' \in {"READ", "LAST_READ"}
      BY <1>2, <2>2 DEF AfterWord
    <3> QED
      BY <1>2, <1>5, <3>1, PendingWas, Zenon
  <2> QED
    BY <2>1, <2>2
<1>9. read_done' = (Tail(PendingBeats) = << >>)
  BY <1>2, <1>7, Zenon
<1> QED
  BY <1>5, <1>6, <1>8, <1>9, Zenon

(* Every clock edge is a step of BeatStream, or none.                      *)
LEMMA StreamStep ==
  ASSUME \A c \in Commands : Reaches(c)
  PROVE  TypeOK /\ TypeOK' /\ ByteInv /\ OneRead /\ [Next]_vars
           => [Stream!Next]_(Stream!streamVars)
<1> SUFFICES ASSUME TypeOK, TypeOK', ByteInv, OneRead, [Next]_vars
             PROVE  [Stream!Next]_(Stream!streamVars)
  OBVIOUS
<1>1. ASSUME NEW read_req \in BOOLEAN, Clock(read_req)
      PROVE  Stream!Next
  <2>1. FifoStep(read_req)
    BY <1>1 DEF Clock
  <2>2. CASE fifo_wr_ena'
    <3>1. Stream!Deliver(Append(BufferedBeats, Head(PendingBeats)))
      BY <1>1, <2>1, <2>2, DeliverStep, FetchStep, Zenon
    <3>2. Stream!Fetch
      BY <1>1, <2>2, <3>1, FetchStep, Zenon DEF Stream!Fetch
    <3> QED
      BY <3>2 DEF Stream!Next
  <2>3. CASE ~fifo_wr_ena'
    <3>1. Stream!Deliver(BufferedBeats)
      BY <2>1, <2>3, DeliverStep
    <3>2. ~read_done' /\ read_done' \in BOOLEAN
      BY <1>1, <2>3, PendingStep DEF TypeOK
    <3>3. read_done' = FALSE
      BY <3>2
    <3>4. CASE PendingBeats' = PendingBeats
      BY <3>1, <3>3, <3>4, Zenon DEF Stream!Next, Stream!Pass
    <3>5. CASE /\ PendingBeats = << >>
               /\ cmd \in Commands
               /\ PendingBeats' = OwedBy(cmd)
      <4>1. Stream!OwedBy(cmd) = OwedBy(cmd)
        BY DEF Stream!OwedBy, OwedBy, Stream!Owed, Owed, Stream!StartWord, StartWord,
               Stream!HeadBytes, HeadBytes, Stream!Offset, Offset, Stream!WordAt, WordAt,
               Stream!BeatBytes, BeatBytes
      <4> QED
        BY <3>1, <3>3, <3>5, <4>1, Zenon DEF Stream!Next, Stream!Accept
    <3> QED
      BY <1>1, <2>3, <3>4, <3>5, PendingStep
  <2> QED
    BY <2>2, <2>3
<1>2. CASE Reset
  <2>1. PendingBeats' = << >>
    BY <1>2, PendingWas DEF Reset
  <2>2. BufferedBeats' = << >>
    <3>1. ~fifo_wr_ena' /\ fifo' = << >>
      BY <1>2 DEF Reset
    <3>2. Standing' = << >>
      BY <3>1 DEF Standing
    <3>3. BufferedBeats' = Amounts(Standing')
      BY BufferedIs DEF Amounts
    <3> QED
      BY <3>2, <3>3, AmountsOf
  <2>3. BeatOut' = Stream!NoBeat
    BY <1>2, OutWas DEF Reset
  <2>4. read_done' = FALSE
    BY <1>2 DEF Reset
  <2> QED
    BY <2>1, <2>2, <2>3, <2>4, Zenon DEF Stream!Next, Stream!Forget
<1>3. CASE UNCHANGED vars
  <2>1. UNCHANGED <<PendingBeats, BufferedBeats, BeatOut, read_done>>
    BY <1>3 DEF vars, engineVars, fifoVars, controllerVars, PendingBeats, BufferedBeats, BeatOut
  <2> QED
    BY <2>1, Zenon DEF Stream!streamVars
<1> QED
  BY <1>1, <1>2, <1>3 DEF Next

(* The engine implements BeatStream, whatever the width, the memory, the   *)
(* FIFO and the commands that reach the end of their first word: the words *)
(* of every command come out once each, in the order of their addresses    *)
(* and round the end of the memory, none of them before those of an        *)
(* earlier command, with the bytes the command asks for of each, and done  *)
(* comes with the last of them.                                            *)
THEOREM HandsOutItsWords ==
  ASSUME \A c \in Commands : Reaches(c)
  PROVE  Spec => ImplementsBeatStream
<1>1. Init => Stream!Init
  <2> SUFFICES ASSUME Init PROVE Stream!Init
    OBVIOUS
  <2>1. PendingBeats = << >>
    BY PendingIs DEF Init
  <2>2. BufferedBeats = << >>
    <3>1. Standing = << >>
      BY DEF Init, Standing
    <3> QED
      BY <3>1, BufferedIs, AmountsOf
  <2>3. BeatOut = Stream!NoBeat /\ read_done = FALSE
    BY DEF Init, BeatOut, Stream!NoBeat
  <2> QED
    BY <2>1, <2>2, <2>3, Zenon DEF Stream!Init
<1>2. Init => ByteInv /\ OneRead
  BY DEF Init, ByteInv, Exchange, Accounting, DoneCountsBytes, OneRead
<1>3. TypeOK /\ ByteInv /\ [Next]_vars => ByteInv'
  BY ExchangeStep, AccountingStep DEF ByteInv
<1>4. TypeOK /\ OneRead /\ [Next]_vars => OneRead'
  BY OneReadStep
<1>5. TypeOK /\ TypeOK' /\ ByteInv /\ OneRead /\ [Next]_vars
        => [Stream!Next]_(Stream!streamVars)
  BY StreamStep
<1> QED
  BY <1>1, <1>2, <1>3, <1>4, <1>5, TypeCorrect, PTL DEF Spec, ImplementsBeatStream, Stream!Spec
=============================================================================
