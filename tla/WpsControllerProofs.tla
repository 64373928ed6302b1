------------------------- MODULE WpsControllerProofs -------------------------
(***************************************************************************)
(* Proofs about WpsController: every register keeps to its width, and      *)
(* whatever commands the host gives and whenever the logic is reset, a     *)
(* command is issued as it was written, an engine runs only for it, and    *)
(* done is reported only when it has been fetched - if the host clears the *)
(* done bit and no reset falls into the cycle of the on-chip start pulse.  *)
(***************************************************************************)
EXTENDS WpsController, TLAPS

-----------------------------------------------------------------------------
(* The inductive invariant.                                                *)

StartWord(i) == read_pipe[i].valid /\ read_pipe[i].word.start
PipeEmpty == ~read_pipe[1].valid /\ ~read_pipe[2].valid

(* The controller polls and nothing of a command is left anywhere.         *)
Quiet ==
  /\ state = "POLL_REG" /\ ~start_play_reg
  /\ ~mem_wr /\ ~mem.start
  /\ ~StartWord(1) /\ ~StartWord(2)

(* The write that reports done is on its way.                              *)
Reporting ==
  /\ state = "POLL_REG" /\ ~start_play_reg
  /\ ~mem_rd /\ PipeEmpty
  /\ ~mem.start
  /\ host = "waiting" /\ fetched

(* A start is in the memory, in the pipeline or in the registers only      *)
(* while the host waits for it, and with what the host wrote.              *)
StartsAreWanted ==
  /\ mem.args = wanted.args
  /\ mem.start => host = "waiting" /\ ~mem.done /\ mem.source = wanted.source
  /\ \A i \in 1 .. 2 : StartWord(i) =>
       /\ host = "waiting" /\ ~mem.done
       /\ wanted = [source |-> read_pipe[i].word.source, args |-> read_pipe[i].word.args]
  /\ start_play_reg =>
       /\ host = "waiting" /\ ~mem.done
       /\ wanted = [source |-> source_reg, args |-> args_reg]

(* What the memory port does in which state.                               *)
PortFollowsState ==
  /\ state # "POLL_REG" => start_play_reg /\ ~mem_rd
  /\ mem_wr => \/ byte_enable = {3} /\ state = "ISSUE_CMD"
               \/ byte_enable = {2, 3} /\ Reporting
  /\ state = "ISSUE_CMD" => mem_wr
  /\ state \in {"FETCH_DDR3", "FETCH_ONCHIP_MEM", "UPDATE_REG"} => ~mem.start

(* An engine has its start, runs or is done only in its own state, and the *)
(* pipeline drains meanwhile.                                              *)
EnginesFollowState ==
  /\ state \in {"FETCH_DDR3", "FETCH_ONCHIP_MEM"} =>
       state = FetchState(source_reg) /\ args_out = args_reg
  /\ \A s \in Sources :
       /\ read_start[s] => /\ state = FetchState(s) /\ ~read_pipe[1].valid
                           /\ \A t \in Sources : engine[t] = "idle" /\ ~read_done[t]
       /\ engine[s] = "running" => state = FetchState(s) /\ PipeEmpty /\ ~read_done[s]
       /\ read_done[s] => state = FetchState(s) /\ PipeEmpty
  /\ state = "UPDATE_REG" => fetched /\ PipeEmpty

(* Behind a report, and before a command, everything is quiet.             *)
ReportsAreEarned ==
  /\ host # "waiting" \/ mem.done => Quiet
  /\ host = "waiting" /\ mem.done => fetched

IInv ==
  /\ TypeOK
  /\ StartsAreWanted
  /\ PortFollowsState
  /\ EnginesFollowState
  /\ ReportsAreEarned

-----------------------------------------------------------------------------
(* Type correctness.                                                       *)

LEMMA TickType ==
  ASSUME NEW max \in Nat \ {0}, NEW timer \in TimerType(max), NEW enable \in BOOLEAN
  PROVE  Tick(timer, max, enable) \in TimerType(max)
<1>1. timer.ena \in BOOLEAN /\ timer.cnt \in 0 .. max
  BY DEF TimerType
<1>2. (IF timer.cnt # max /\ timer.ena THEN timer.cnt + 1 ELSE 0) \in 0 .. max
  BY <1>1
<1>3. (timer.cnt = max) \in BOOLEAN
  OBVIOUS
<1>4. QED
  BY <1>2, <1>3 DEF Tick, TimerType

LEMMA TypeInit == Init => TypeOK
<1> SUFFICES ASSUME Init PROVE TypeOK
  OBVIOUS
<1> USE PollAssumption, ResetsAssumption
<1>1. NoWord \in Word
  BY DEF NoWord, Word, Sources, AnyArgs
<1>2. poll_timer \in TimerType(PollPeriod)
  BY DEF Init, Stopped, TimerType
<1>3. read_pipe \in [1 .. 2 -> [valid : BOOLEAN, word : Word]]
  BY <1>1 DEF Init
<1>4. wanted \in Command
  BY DEF Init, Command, Sources, AnyArgs
<1>5. /\ state \in States /\ source_reg \in Sources
      /\ args_reg \in AnyArgs /\ args_out \in AnyArgs
      /\ host \in {"idle", "armed", "waiting"} /\ resets \in 0 .. MaxResets
  BY DEF Init, States, Sources, AnyArgs
<1>6. /\ read_start \in [Sources -> BOOLEAN] /\ read_done \in [Sources -> BOOLEAN]
      /\ engine \in [Sources -> {"idle", "running"}]
  BY DEF Init
<1>7. /\ start_play_reg \in BOOLEAN /\ mem_rd \in BOOLEAN /\ mem_wr \in BOOLEAN
      /\ fetched \in BOOLEAN /\ byte_enable \in SUBSET {2, 3} /\ mem \in Word
  BY <1>1 DEF Init
<1>8. QED
  BY <1>2, <1>3, <1>4, <1>5, <1>6, <1>7 DEF TypeOK

(* What is written to the memory is a command word again.                  *)
LEMMA WrittenType ==
  ASSUME TypeOK
  PROVE  /\ Written(mem) \in Word
         /\ Written(mem).args = mem.args
         /\ Written(mem).start <=> mem.start /\ ~(mem_wr /\ 3 \in byte_enable)
         /\ Written(mem).done <=> mem.done \/ (mem_wr /\ 2 \in byte_enable)
         /\ Written(mem).start => Written(mem).source = mem.source
<1>1. mem \in Word
  BY DEF TypeOK
<1>2. CASE ~mem_wr
  BY <1>1, <1>2 DEF Written
<1>3. CASE mem_wr
  <2>1. CASE 3 \in byte_enable /\ 2 \in byte_enable
    BY <1>1, <1>3, <2>1 DEF Written, Word, Sources
  <2>2. CASE 3 \in byte_enable /\ 2 \notin byte_enable
    BY <1>1, <1>3, <2>2 DEF Written, Word, Sources
  <2>3. CASE 3 \notin byte_enable /\ 2 \in byte_enable
    BY <1>1, <1>3, <2>3 DEF Written, Word, Sources
  <2>4. CASE 3 \notin byte_enable /\ 2 \notin byte_enable
    BY <1>1, <1>3, <2>4 DEF Written, Word, Sources
  <2>5. QED
    BY <2>1, <2>2, <2>3, <2>4
<1>4. QED
  BY <1>2, <1>3

(* The read pipeline after an edge.                                        *)
LEMMA PipeStep ==
  ASSUME TypeOK, ReadPipe
  PROVE  /\ read_pipe' \in [1 .. 2 -> [valid : BOOLEAN, word : Word]]
         /\ read_pipe'[1] = [valid |-> mem_rd, word |-> mem]
         /\ read_pipe'[2] = read_pipe[1]
BY DEF TypeOK, ReadPipe

LEMMA TypeClock == TypeOK /\ Clock => TypeOK'
<1> SUFFICES ASSUME TypeOK, Clock PROVE TypeOK'
  OBVIOUS
<1> DEFINE MachineTyped == /\ state' \in States
                       /\ start_play_reg' \in BOOLEAN /\ source_reg' \in Sources
                       /\ args_reg' \in AnyArgs /\ args_out' \in AnyArgs
                       /\ read_start' \in [Sources -> BOOLEAN]
                       /\ mem_rd' \in BOOLEAN /\ mem_wr' \in BOOLEAN
                       /\ byte_enable' \in SUBSET {2, 3}
           HostTyped == /\ host' \in {"idle", "armed", "waiting"} /\ wanted' \in Command
                    /\ fetched' \in BOOLEAN /\ mem' \in Word
<1>1. MachineTyped
  <2> USE DEF TypeOK, NoStart, NoWrite
  <2>1. CASE PollReg
    <3>1. read_pipe[2].word \in Word
      OBVIOUS
    <3>2. start_play_reg' \in BOOLEAN /\ source_reg' \in Sources /\ args_reg' \in AnyArgs
      BY <2>1, <3>1 DEF PollReg, Capture, Word
    <3>3. poll_timer.out \in BOOLEAN
      BY DEF TimerType
    <3>4. CASE start_play_reg
      BY <2>1, <3>2, <3>4 DEF PollReg, States
    <3>5. CASE ~start_play_reg
      BY <2>1, <3>2, <3>3, <3>5 DEF PollReg, States
    <3>6. QED
      BY <3>4, <3>5
  <2>2. CASE IssueCmd
    BY <2>2 DEF IssueCmd, States, FetchState
  <2>3. ASSUME NEW s \in Sources, Fetch(s)
        PROVE  MachineTyped
    BY <2>3 DEF Fetch, States
  <2>4. CASE UpdateReg
    BY <2>4 DEF UpdateReg, States, Sources, AnyArgs
  <2>5. QED
    BY <2>1, <2>2, <2>3, <2>4 DEF Clock, Machine
<1>2. poll_timer' \in TimerType(PollPeriod)
  BY TickType, PollAssumption DEF TypeOK, Clock, Surroundings, PollTimer
<1>3. read_pipe' \in [1 .. 2 -> [valid : BOOLEAN, word : Word]]
  BY PipeStep DEF Clock, Surroundings
<1>4. engine' \in [Sources -> {"idle", "running"}] /\ read_done' \in [Sources -> BOOLEAN]
  BY DEF Clock, Surroundings, Engines
<1>5. HostTyped
  <2>1. Written(mem) \in Word
    BY WrittenType
  <2>2. ASSUME NEW args \in Args, WriteArgs(args) PROVE HostTyped
    BY <2>1, <2>2 DEF WriteArgs, TypeOK, Command, Word, AnyArgs
  <2>3. ASSUME NEW s \in Sources, WriteStart(s) PROVE HostTyped
    BY <2>1, <2>3 DEF WriteStart, TypeOK, Command, Word
  <2>4. CASE SeeDone
    BY <2>1, <2>4 DEF SeeDone, TypeOK
  <2>5. CASE HostRests
    BY <2>1, <2>5 DEF HostRests, hostVars, TypeOK
  <2>6. QED
    BY <2>2, <2>3, <2>4, <2>5 DEF Clock
<1>6. resets' \in 0 .. MaxResets
  BY DEF Clock, TypeOK
<1>7. QED
  BY <1>1, <1>2, <1>3, <1>4, <1>5, <1>6 DEF TypeOK

LEMMA TypeReset == TypeOK /\ Reset => TypeOK'
<1> SUFFICES ASSUME TypeOK, Reset PROVE TypeOK'
  OBVIOUS
<1>1. Written(mem) \in Word
  BY WrittenType
<1>2. read_pipe' \in [1 .. 2 -> [valid : BOOLEAN, word : Word]]
  BY PipeStep DEF Reset
<1>3. poll_timer' \in TimerType(PollPeriod)
  BY PollAssumption DEF Reset, Stopped, TimerType
<1>4. read_start' \in [Sources -> BOOLEAN]
  BY DEF Reset, TypeOK
<1>5. resets' \in 0 .. MaxResets
  BY ResetsAssumption DEF Reset, TypeOK
<1>6. QED
  BY <1>1, <1>2, <1>3, <1>4, <1>5 DEF Reset, NoWrite, hostVars, TypeOK, States, AnyArgs

(* Every register keeps to its width, for every set of commands, period of *)
(* the poll timer and behaviour of the host, the engines and the reset.    *)
THEOREM TypeCorrect == Spec => []TypeOK
<1>1. TypeOK /\ UNCHANGED vars => TypeOK'
  BY DEF vars, machineVars, memoryVars, engineVars, hostVars, TypeOK
<1>2. TypeOK /\ [Next]_vars => TypeOK'
  BY <1>1, TypeClock, TypeReset DEF Next
<1>3. QED
  BY <1>2, TypeInit, PTL DEF Spec

-----------------------------------------------------------------------------
(* The invariant is inductive.                                             *)

Safe == StartsAreWanted /\ PortFollowsState /\ EnginesFollowState /\ ReportsAreEarned

LEMMA InvInit == Init => Safe
<1> SUFFICES ASSUME Init PROVE Safe
  OBVIOUS
<1>1. ~StartWord(1) /\ ~StartWord(2) /\ ~mem.start /\ ~mem.done
  BY DEF Init, StartWord, NoWord
<1>2. mem.args = wanted.args
  BY DEF Init, NoWord
<1>3. \A s \in Sources : engine[s] = "idle" /\ ~read_done[s] /\ ~read_start[s]
  BY DEF Init
<1>4. /\ state = "POLL_REG" /\ ~start_play_reg /\ ~mem_wr /\ host = "idle"
  BY DEF Init
<1>5. \A i \in 1 .. 2 : i = 1 \/ i = 2
  OBVIOUS
<1>6. QED
  BY <1>1, <1>2, <1>3, <1>4, <1>5
     DEF Safe, StartsAreWanted, PortFollowsState, EnginesFollowState, ReportsAreEarned, Quiet

(* While a command is in the registers the host can only wait for it.      *)
LEMMA HostWaits ==
  ASSUME IInv, start_play_reg, Clock
  PROVE  /\ host = "waiting" /\ ~mem.done
         /\ HostRests
         /\ mem' = Written(mem) /\ host' = host /\ wanted' = wanted
<1>1. host = "waiting" /\ ~mem.done
  BY DEF IInv, StartsAreWanted
<1>2. HostRests
  BY <1>1 DEF Clock, WriteArgs, WriteStart, SeeDone
<1>3. QED
  BY <1>1, <1>2 DEF HostRests, hostVars

(* The engines after an edge: one that runs has run before or has had its  *)
(* start, one that is done has run before and runs no more.                *)
LEMMA EngineStep ==
  ASSUME TypeOK, Clock, NEW s \in Sources
  PROVE  /\ engine'[s] = "running" => /\ engine[s] = "running" \/ read_start[s]
                                      /\ ~read_done'[s]
         /\ read_done'[s] => engine[s] = "running" /\ engine'[s] = "idle"
         /\ engine'[s] \in {"idle", "running"}
BY DEF TypeOK, Clock, Surroundings, Engines

(* POLL_REG without a command: the host may do anything.                   *)
LEMMA InvPollIdle ==
  ASSUME HostClearsDone, IInv, Clock, PollReg, ~start_play_reg
  PROVE  Safe'
<1> USE DEF IInv
<1>1. /\ state' = "POLL_REG" /\ state = "POLL_REG" /\ ~mem_wr' /\ Capture
      /\ \A s \in Sources : ~read_start'[s]
  BY DEF PollReg, NoStart, NoWrite
<1>2. /\ read_pipe'[1] = [valid |-> mem_rd, word |-> mem]
      /\ read_pipe'[2] = read_pipe[1]
  BY PipeStep DEF Clock, Surroundings
<1>3. \A s \in Sources : engine[s] = "idle" /\ ~read_done[s] /\ ~read_start[s]
  BY <1>1 DEF EnginesFollowState, FetchState, TypeOK
<1>4. \A s \in Sources : engine'[s] = "idle" /\ ~read_done'[s]
  BY <1>3, EngineStep
<1>5. EnginesFollowState'
  BY <1>1, <1>4 DEF EnginesFollowState
<1>6. PortFollowsState'
  BY <1>1 DEF PortFollowsState
<1>7. /\ start_play_reg' <=> StartWord(2)
      /\ StartWord(2) => /\ source_reg' = read_pipe[2].word.source
                         /\ args_reg' = read_pipe[2].word.args
  BY <1>1 DEF Capture, StartWord
<1>8. /\ (StartWord(1))' <=> mem_rd /\ mem.start
      /\ (StartWord(2))' <=> StartWord(1)
  BY <1>2 DEF StartWord
<1> DEFINE now == Written(mem)
<1>9. /\ now.args = mem.args
      /\ now.start <=> mem.start /\ ~(mem_wr /\ 3 \in byte_enable)
      /\ now.done <=> mem.done \/ (mem_wr /\ 2 \in byte_enable)
      /\ now.start => now.source = mem.source
      /\ now \in Word
  BY WrittenType
(* With a report on its way, the report comes in.                          *)
<1>10. CASE mem_wr
  <2>1. Reporting /\ byte_enable = {2, 3}
    BY <1>1, <1>10 DEF PortFollowsState
  <2>2. ~StartWord(1) /\ ~StartWord(2) /\ ~mem_rd /\ ~mem.start /\ host = "waiting" /\ fetched
    BY <2>1 DEF Reporting, PipeEmpty, StartWord
  <2>3. ~mem.done
    BY <1>10, <2>2 DEF ReportsAreEarned, Quiet
  <2>4. mem' = now /\ host' = host /\ wanted' = wanted /\ fetched'
    BY <2>2, <2>3 DEF Clock, WriteArgs, WriteStart, SeeDone, HostRests, hostVars
  <2>5. ~(StartWord(1))' /\ ~(StartWord(2))' /\ ~start_play_reg' /\ ~mem'.start
    BY <1>7, <1>8, <1>9, <2>2, <2>4
  <2>6. StartsAreWanted'
    BY <1>9, <2>4, <2>5 DEF StartsAreWanted, StartWord
  <2>7. ReportsAreEarned'
    BY <1>1, <2>4, <2>5 DEF ReportsAreEarned, Quiet
  <2>8. QED
    BY <1>5, <1>6, <2>6, <2>7 DEF Safe
(* Otherwise the memory is as the host leaves it.                          *)
<1>11. CASE ~mem_wr
  <2>1. now.start <=> mem.start
    BY <1>9, <1>11
  <2>2. now.done <=> mem.done
    BY <1>9, <1>11
  <2>3. CASE host # "waiting" \/ mem.done
    <3>1. ~StartWord(1) /\ ~StartWord(2) /\ ~mem.start
      BY <2>3 DEF ReportsAreEarned, Quiet
    <3>2. ~(StartWord(1))' /\ ~(StartWord(2))' /\ ~start_play_reg'
      BY <1>7, <1>8, <3>1
    <3>3. ASSUME NEW args \in Args, WriteArgs(args) PROVE StartsAreWanted' /\ ReportsAreEarned'
      <4>1. host' = "armed" /\ wanted'.args = args /\ mem'.args = args /\ ~mem'.start
        BY <1>9, <2>1, <3>1, <3>3 DEF WriteArgs, Word, TypeOK, Command
      <4>2. QED
        BY <1>1, <3>2, <4>1 DEF StartsAreWanted, StartWord, ReportsAreEarned, Quiet
    <3>4. ASSUME NEW s \in Sources, WriteStart(s) PROVE StartsAreWanted' /\ ReportsAreEarned'
      <4>1. /\ host' = "waiting" /\ wanted' = [wanted EXCEPT !.source = s]
            /\ mem' = [now EXCEPT !.start = TRUE, !.source = s, !.done = FALSE]
        BY <3>4 DEF WriteStart
      <4>2. /\ wanted'.args = wanted.args /\ wanted'.source = s
            /\ mem'.args = mem.args /\ mem'.source = s /\ ~mem'.done
        BY <1>9, <4>1 DEF Word, TypeOK, Command
      <4>3. QED
        BY <1>1, <3>2, <4>1, <4>2 DEF StartsAreWanted, StartWord, ReportsAreEarned
    <3>5. ASSUME SeeDone \/ HostRests PROVE StartsAreWanted' /\ ReportsAreEarned'
      <4>1. /\ mem' = now /\ wanted' = wanted
            /\ host' = "waiting" => host = "waiting" /\ (fetched => fetched')
        BY <3>5 DEF SeeDone, HostRests, hostVars
      <4>2. host' = "waiting" /\ mem'.done => fetched'
        BY <2>2, <4>1 DEF ReportsAreEarned
      <4>3. ~mem'.start /\ mem'.args = wanted'.args
        BY <1>9, <2>1, <3>1, <4>1 DEF StartsAreWanted
      <4>4. QED
        BY <1>1, <3>2, <4>2, <4>3 DEF StartsAreWanted, StartWord, ReportsAreEarned, Quiet
    <3>6. QED
      BY <1>5, <1>6, <3>3, <3>4, <3>5 DEF Clock, Safe
  <2>4. CASE host = "waiting" /\ ~mem.done
    <3>1. mem' = now /\ wanted' = wanted /\ host' = "waiting"
      BY <2>4 DEF Clock, WriteArgs, WriteStart, SeeDone, HostRests, hostVars
    <3>2. ~mem'.done
      BY <2>2, <2>4, <3>1
    <3>3. wanted \in Command /\ mem \in Word
      BY DEF TypeOK
    <3>4. StartsAreWanted'
      <4>1. mem'.args = wanted'.args /\ (mem'.start => mem'.source = wanted'.source)
        BY <1>9, <2>1, <3>1 DEF StartsAreWanted
      <4>2. (StartWord(1))' => wanted' = [source |-> read_pipe'[1].word.source,
                                          args |-> read_pipe'[1].word.args]
        BY <1>2, <1>8, <3>1, <3>3 DEF StartsAreWanted, Command
      <4>3. (StartWord(2))' => wanted' = [source |-> read_pipe'[2].word.source,
                                          args |-> read_pipe'[2].word.args]
        BY <1>2, <1>8, <3>1 DEF StartsAreWanted
      <4>4. start_play_reg' => wanted' = [source |-> source_reg', args |-> args_reg']
        BY <1>7, <3>1 DEF StartsAreWanted
      <4>5. \A i \in 1 .. 2 : i = 1 \/ i = 2
        OBVIOUS
      <4>6. QED
        BY <3>1, <3>2, <4>1, <4>2, <4>3, <4>4, <4>5 DEF StartsAreWanted
    <3>5. QED
      BY <1>5, <1>6, <3>1, <3>2, <3>4 DEF ReportsAreEarned, Safe
  <2>5. QED
    BY <2>3, <2>4
<1>12. QED
  BY <1>10, <1>11

(* What a step keeps while a command is in the registers: the words in the *)
(* pipeline and in the memory are those of the command, if it does not     *)
(* report.                                                                 *)
LEMMA CommandStays ==
  ASSUME IInv, start_play_reg, Clock, ~(mem_wr /\ 2 \in byte_enable),
         start_play_reg' => wanted = [source |-> source_reg', args |-> args_reg']
  PROVE  /\ StartsAreWanted'
         /\ ReportsAreEarned'
         /\ host' = "waiting" /\ ~mem'.done
<1> USE DEF IInv
<1>1. /\ host = "waiting" /\ ~mem.done /\ HostRests
      /\ mem' = Written(mem) /\ host' = host /\ wanted' = wanted
  BY HostWaits
<1>2. /\ read_pipe'[1] = [valid |-> mem_rd, word |-> mem]
      /\ read_pipe'[2] = read_pipe[1]
  BY PipeStep DEF Clock, Surroundings
<1>3. /\ Written(mem).args = mem.args
      /\ Written(mem).start => mem.start /\ Written(mem).source = mem.source
      /\ ~Written(mem).done
  BY <1>1, WrittenType
<1>4. wanted \in Command /\ mem \in Word
  BY DEF TypeOK
<1>5. mem'.args = wanted'.args /\ (mem'.start => mem'.source = wanted'.source)
  BY <1>1, <1>3 DEF StartsAreWanted
<1>6. (StartWord(1))' => wanted' = [source |-> read_pipe'[1].word.source,
                                    args |-> read_pipe'[1].word.args]
  BY <1>1, <1>2, <1>4 DEF StartsAreWanted, StartWord, Command
<1>7. (StartWord(2))' => wanted' = [source |-> read_pipe'[2].word.source,
                                    args |-> read_pipe'[2].word.args]
  BY <1>1, <1>2 DEF StartsAreWanted, StartWord
<1>8. \A i \in 1 .. 2 : i = 1 \/ i = 2
  OBVIOUS
<1>9. StartsAreWanted'
  BY <1>1, <1>3, <1>5, <1>6, <1>7, <1>8 DEF StartsAreWanted
<1>10. QED
  BY <1>1, <1>3, <1>9 DEF ReportsAreEarned

(* POLL_REG with a command: it is issued next.                             *)
LEMMA InvPollCommand ==
  ASSUME IInv, Clock, PollReg, start_play_reg
  PROVE  Safe'
<1> USE DEF IInv
<1>1. /\ state = "POLL_REG" /\ state' = "ISSUE_CMD"
      /\ ~mem_rd' /\ mem_wr' /\ byte_enable' = {3} /\ Capture
      /\ \A s \in Sources : ~read_start'[s]
  BY DEF PollReg, NoStart
<1>2. start_play_reg' /\ wanted = [source |-> source_reg', args |-> args_reg']
  <2>1. CASE StartWord(2)
    <3>1. start_play_reg' /\ source_reg' = read_pipe[2].word.source
          /\ args_reg' = read_pipe[2].word.args
      BY <1>1, <2>1 DEF Capture, StartWord
    <3>2. wanted = [source |-> read_pipe[2].word.source, args |-> read_pipe[2].word.args]
      BY <2>1 DEF StartsAreWanted
    <3>3. QED
      BY <2>1, <3>1, <3>2
  <2>2. CASE ~StartWord(2)
    BY <1>1, <2>2 DEF Capture, StartWord, StartsAreWanted
  <2>3. QED
    BY <2>1, <2>2
<1>3. ~mem_wr
  BY DEF PortFollowsState, Reporting, PollReg
<1>4. StartsAreWanted' /\ ReportsAreEarned'
  BY <1>2, <1>3, CommandStays
<1>5. \A s \in Sources : engine'[s] = "idle" /\ ~read_done'[s]
  BY <1>1, EngineStep DEF EnginesFollowState, FetchState, TypeOK
<1>6. EnginesFollowState'
  BY <1>1, <1>5 DEF EnginesFollowState
<1>7. PortFollowsState'
  BY <1>1, <1>2 DEF PortFollowsState
<1>8. QED
  BY <1>4, <1>6, <1>7 DEF Safe

(* ISSUE_CMD: the start bit leaves the memory, an engine gets its start.   *)
LEMMA InvIssueCmd ==
  ASSUME IInv, Clock, IssueCmd
  PROVE  Safe'
<1> USE DEF IInv
<1>1. /\ state = "ISSUE_CMD" /\ state' = FetchState(source_reg)
      /\ args_out' = args_reg /\ args_reg' = args_reg /\ source_reg' = source_reg
      /\ start_play_reg' = start_play_reg
      /\ read_start' = [s \in Sources |-> s = source_reg]
      /\ ~mem_rd' /\ ~mem_wr'
  BY DEF IssueCmd, NoWrite
<1>2. start_play_reg /\ ~mem_rd
  BY <1>1 DEF PortFollowsState
<1>3. mem_wr => byte_enable = {3}
  BY <1>1 DEF PortFollowsState, Reporting
<1>4. wanted = [source |-> source_reg, args |-> args_reg]
  BY <1>2 DEF StartsAreWanted
<1>5. StartsAreWanted' /\ ReportsAreEarned'
  BY <1>1, <1>2, <1>3, <1>4, CommandStays
<1>6. \A s \in Sources : engine'[s] = "idle" /\ ~read_done'[s]
  BY <1>1, EngineStep DEF EnginesFollowState, FetchState, TypeOK
<1>7. ~read_pipe'[1].valid
  BY <1>2, PipeStep DEF Clock, Surroundings
<1>8. EnginesFollowState'
  <2>1. \A s \in Sources : read_start'[s] => s = source_reg
    BY <1>1
  <2>2. \A s \in Sources : read_start'[s] => state' = FetchState(s)
    BY <1>1, <2>1
  <2>3. state' # "UPDATE_REG"
    BY <1>1 DEF FetchState
  <2>4. QED
    BY <1>1, <1>6, <1>7, <2>2, <2>3 DEF EnginesFollowState
<1>9. PortFollowsState'
  <2>1. ~mem'.start
    <3>1. mem_wr /\ 3 \in byte_enable
      BY <1>1, <1>3 DEF PortFollowsState
    <3>2. mem' = Written(mem)
      BY <1>2, HostWaits
    <3>3. QED
      BY <3>1, <3>2, WrittenType
  <2>2. state' \in {"FETCH_DDR3", "FETCH_ONCHIP_MEM"}
    BY <1>1 DEF FetchState
  <2>3. QED
    BY <1>1, <1>2, <2>1, <2>2 DEF PortFollowsState
<1>10. QED
  BY <1>5, <1>8, <1>9 DEF Safe

(* The states that wait for an engine: the engine ends with the command    *)
(* that the host wants, and nothing else is on the port.                   *)
LEMMA InvFetch ==
  ASSUME IInv, Clock, NEW s \in Sources, Fetch(s)
  PROVE  Safe'
<1> USE DEF IInv
<1>1. /\ state = FetchState(s)
      /\ state' = IF read_done[s] THEN "UPDATE_REG" ELSE state
      /\ ~mem_rd' /\ ~mem_wr' /\ \A t \in Sources : ~read_start'[t]
      /\ UNCHANGED <<start_play_reg, source_reg, args_reg, args_out>>
  BY DEF Fetch, NoStart, NoWrite
<1>2. state \in {"FETCH_DDR3", "FETCH_ONCHIP_MEM"} /\ state # "POLL_REG"
  BY <1>1 DEF FetchState
<1>3. /\ start_play_reg /\ ~mem_rd /\ ~mem.start
      /\ ~mem_wr
  BY <1>2 DEF PortFollowsState, Reporting
<1>4. source_reg = s /\ args_out = args_reg
  BY <1>1, <1>2 DEF EnginesFollowState, FetchState, Sources, TypeOK
<1>5. wanted = [source |-> s, args |-> args_out]
  BY <1>3, <1>4 DEF StartsAreWanted
<1>6. StartsAreWanted' /\ ReportsAreEarned'
  BY <1>1, <1>3, CommandStays DEF StartsAreWanted
<1>7. PortFollowsState'
  <2>1. mem' = Written(mem) /\ ~mem'.start
    BY <1>3, HostWaits, WrittenType
  <2>2. QED
    BY <1>1, <1>3, <2>1 DEF PortFollowsState
<1>8. PipeEmpty' <=> ~read_pipe[1].valid
  BY <1>3, PipeStep DEF Clock, Surroundings, PipeEmpty
<1>9. fetched' <=> fetched \/ \E t \in Sources :
                     /\ read_done[t] /\ state = FetchState(t)
                     /\ wanted = [source |-> t, args |-> args_out]
  BY <1>3, HostWaits DEF HostRests
<1>10. EnginesFollowState'
  <2>1. state' \in {"FETCH_DDR3", "FETCH_ONCHIP_MEM"} =>
          state' = FetchState(source_reg') /\ args_out' = args_reg'
    BY <1>1, <1>4
  <2>2. ASSUME NEW t \in Sources, engine'[t] = "running" \/ read_done'[t]
        PROVE  /\ state' = FetchState(t) /\ PipeEmpty'
               /\ engine'[t] = "running" => ~read_done'[t]
    <3>1. engine[t] = "running" \/ read_start[t]
      BY <2>2, EngineStep
    <3>2. state = FetchState(t) /\ ~read_pipe[1].valid
      BY <3>1 DEF EnginesFollowState, PipeEmpty
    <3>3. t = s
      BY <1>1, <3>2 DEF FetchState, Sources
    <3>4. ~read_done[s]
      BY <3>1, <3>3 DEF EnginesFollowState
    <3>5. QED
      BY <1>1, <1>8, <3>2, <3>4, EngineStep
  <2>3. state' = "UPDATE_REG" => fetched' /\ PipeEmpty'
    <3>1. SUFFICES ASSUME read_done[s] PROVE fetched' /\ PipeEmpty'
      BY <1>1, <1>2
    <3>2. fetched'
      BY <1>1, <1>5, <1>9, <3>1
    <3>3. PipeEmpty'
      BY <1>8, <3>1 DEF EnginesFollowState, PipeEmpty
    <3>4. QED
      BY <3>2, <3>3
  <2>4. QED
    BY <1>1, <2>1, <2>2, <2>3 DEF EnginesFollowState
<1>11. QED
  BY <1>6, <1>7, <1>10 DEF Safe

(* UPDATE_REG: the report goes out.                                        *)
LEMMA InvUpdateReg ==
  ASSUME IInv, Clock, UpdateReg
  PROVE  Safe'
<1> USE DEF IInv
<1>1. /\ state = "UPDATE_REG" /\ state' = "POLL_REG" /\ ~start_play_reg'
      /\ ~mem_rd' /\ mem_wr' /\ byte_enable' = {2, 3}
      /\ \A t \in Sources : ~read_start'[t]
  BY DEF UpdateReg, NoStart
<1>2. start_play_reg /\ ~mem_rd /\ ~mem.start /\ ~mem_wr /\ fetched /\ PipeEmpty
  BY <1>1 DEF PortFollowsState, Reporting, EnginesFollowState
<1>3. StartsAreWanted' /\ ReportsAreEarned' /\ host' = "waiting"
  BY <1>1, <1>2, CommandStays
<1>4. mem' = Written(mem) /\ ~mem'.start /\ fetched'
  BY <1>2, HostWaits, WrittenType DEF HostRests
<1>5. PipeEmpty'
  BY <1>2, PipeStep DEF Clock, Surroundings, PipeEmpty
<1>6. PortFollowsState'
  BY <1>1, <1>3, <1>4, <1>5 DEF PortFollowsState, Reporting
<1>7. \A t \in Sources : engine'[t] = "idle" /\ ~read_done'[t]
  BY <1>1, EngineStep DEF EnginesFollowState, FetchState, TypeOK
<1>8. EnginesFollowState'
  BY <1>1, <1>7 DEF EnginesFollowState
<1>9. QED
  BY <1>3, <1>6, <1>8 DEF Safe

(* A reset: what it leaves - the pipeline, the command in the registers    *)
(* and a write on its way - is what the command still needs.               *)
LEMMA InvReset ==
  ASSUME ~ResetDuringStart, IInv, Reset
  PROVE  Safe'
<1> USE DEF IInv
<1>1. /\ state' = "POLL_REG" /\ ~mem_rd' /\ ~mem_wr'
      /\ mem' = Written(mem)
      /\ UNCHANGED <<start_play_reg, source_reg, args_reg, host, wanted, fetched>>
      /\ \A t \in Sources : engine'[t] = "idle" /\ ~read_done'[t]
  BY DEF Reset, NoWrite, hostVars
<1>2. \A t \in Sources : ~read_start'[t]
  BY DEF Reset, Sources, TypeOK
<1>3. /\ read_pipe'[1] = [valid |-> mem_rd, word |-> mem]
      /\ read_pipe'[2] = read_pipe[1]
  BY PipeStep DEF Reset
<1>4. EnginesFollowState' /\ PortFollowsState'
  BY <1>1, <1>2 DEF EnginesFollowState, PortFollowsState
<1>5. /\ Written(mem).args = mem.args
      /\ Written(mem).start => mem.start /\ Written(mem).source = mem.source
      /\ Written(mem).done <=> mem.done \/ (mem_wr /\ 2 \in byte_enable)
  BY WrittenType
<1>6. wanted \in Command /\ mem \in Word
  BY DEF TypeOK
<1>7. /\ (StartWord(1))' <=> mem_rd /\ mem.start
      /\ (StartWord(2))' <=> StartWord(1)
  BY <1>3 DEF StartWord
(* A report on its way comes in.                                           *)
<1>8. CASE mem_wr /\ 2 \in byte_enable
  <2>1. Reporting
    BY <1>8 DEF PortFollowsState
  <2>2. /\ ~StartWord(1) /\ ~mem_rd /\ ~mem.start /\ ~start_play_reg
        /\ host = "waiting" /\ fetched
    BY <2>1 DEF Reporting, PipeEmpty, StartWord
  <2>3. ~(StartWord(1))' /\ ~(StartWord(2))' /\ ~start_play_reg' /\ ~mem'.start
    BY <1>1, <1>5, <1>7, <2>2
  <2>4. StartsAreWanted'
    BY <1>1, <1>5, <2>3 DEF StartsAreWanted, StartWord
  <2>5. ReportsAreEarned'
    BY <1>1, <2>2, <2>3 DEF ReportsAreEarned, Quiet
  <2>6. QED
    BY <1>4, <2>4, <2>5 DEF Safe
<1>9. CASE ~(mem_wr /\ 2 \in byte_enable)
  <2>1. mem'.done <=> mem.done
    BY <1>1, <1>5, <1>9
  <2>2. mem'.args = wanted'.args
        /\ (mem'.start => host' = "waiting" /\ ~mem'.done /\ mem'.source = wanted'.source)
    BY <1>1, <1>5, <2>1 DEF StartsAreWanted
  <2>3. (StartWord(1))' => /\ host' = "waiting" /\ ~mem'.done
                           /\ wanted' = [source |-> read_pipe'[1].word.source,
                                         args |-> read_pipe'[1].word.args]
    BY <1>1, <1>3, <1>6, <1>7, <2>1 DEF StartsAreWanted, Command
  <2>4. (StartWord(2))' => /\ host' = "waiting" /\ ~mem'.done
                           /\ wanted' = [source |-> read_pipe'[2].word.source,
                                         args |-> read_pipe'[2].word.args]
    BY <1>1, <1>3, <1>7, <2>1 DEF StartsAreWanted
  <2>5. start_play_reg' => /\ host' = "waiting" /\ ~mem'.done
                           /\ wanted' = [source |-> source_reg', args |-> args_reg']
    BY <1>1, <2>1 DEF StartsAreWanted
  <2>6. \A i \in 1 .. 2 : i = 1 \/ i = 2
    OBVIOUS
  <2>7. StartsAreWanted'
    BY <2>2, <2>3, <2>4, <2>5, <2>6 DEF StartsAreWanted
  <2>8. ReportsAreEarned'
    <3>1. host # "waiting" \/ mem.done => Quiet'
      BY <1>1, <1>5, <1>7 DEF ReportsAreEarned, Quiet
    <3>2. QED
      BY <1>1, <2>1, <3>1 DEF ReportsAreEarned
  <2>9. QED
    BY <1>4, <2>7, <2>8 DEF Safe
<1>10. QED
  BY <1>8, <1>9

LEMMA InvStep ==
  ASSUME HostClearsDone, ~ResetDuringStart, IInv, [Next]_vars
  PROVE  IInv'
<1>1. CASE Clock
  <2>1. TypeOK'
    BY <1>1, TypeClock DEF IInv
  <2>2. Safe'
    BY <1>1, InvPollIdle, InvPollCommand, InvIssueCmd, InvFetch, InvUpdateReg
       DEF Clock, Machine
  <2>3. QED
    BY <2>1, <2>2 DEF IInv, Safe
<1>2. CASE Reset
  BY <1>2, TypeReset, InvReset DEF IInv, Safe
<1>3. CASE UNCHANGED vars
  BY <1>3 DEF vars, machineVars, memoryVars, engineVars, hostVars, IInv, TypeOK,
     StartsAreWanted, PortFollowsState, EnginesFollowState, ReportsAreEarned,
     StartWord, PipeEmpty, Quiet, Reporting
<1>4. QED
  BY <1>1, <1>2, <1>3 DEF Next

(* The inductive invariant of the controller: in which states a start bit  *)
(* can be in memory or on its way from it, what the port drives, which     *)
(* engine can run, and what a done bit says.  It needs a host that clears  *)
(* done and no reset in the cycle of an on-chip start.                     *)
THEOREM Invariant ==
  ASSUME HostClearsDone, ~ResetDuringStart
  PROVE  Spec => []IInv
<1>1. Init => IInv
  BY TypeInit, InvInit DEF IInv, Safe
<1>2. IInv /\ [Next]_vars => IInv'
  BY InvStep
<1>3. QED
  BY <1>1, <1>2, PTL DEF Spec

-----------------------------------------------------------------------------
(* A command is issued only while the host waits for it, and with what the *)
(* host wrote.                                                             *)
THEOREM IssuesOnlyWhatIsWanted ==
  ASSUME HostClearsDone, ~ResetDuringStart
  PROVE  Spec => []IssuesWhatIsWanted
<1>1. IInv => IssuesWhatIsWanted
  BY DEF IInv, StartsAreWanted, PortFollowsState, IssuesWhatIsWanted
<1>2. QED
  BY <1>1, Invariant, PTL

(* The host sees the done bit only when its command has been fetched.      *)
THEOREM DoneIsAlwaysEarned ==
  ASSUME HostClearsDone, ~ResetDuringStart
  PROVE  Spec => []DoneIsEarned
<1>1. IInv => DoneIsEarned
  BY DEF IInv, ReportsAreEarned, DoneIsEarned
<1>2. QED
  BY <1>1, Invariant, PTL

(* An engine runs only while the controller waits for it.                  *)
THEOREM EnginesRunWhenScheduled ==
  ASSUME HostClearsDone, ~ResetDuringStart
  PROVE  Spec => []EnginesAreScheduled
<1>1. IInv => EnginesAreScheduled
  BY DEF IInv, EnginesFollowState, EnginesAreScheduled
<1>2. QED
  BY <1>1, Invariant, PTL

(* The controller keeps off the port of the on-chip memory while the       *)
(* on-chip engine may be reading.                                          *)
THEOREM PortIsAlwaysFree ==
  ASSUME HostClearsDone, ~ResetDuringStart
  PROVE  Spec => []PortIsFree
<1>1. IInv => PortIsFree
  <2> SUFFICES ASSUME IInv, engine["ONCHIP_MEM"] = "running" PROVE ~mem_rd /\ ~mem_wr
    BY DEF PortIsFree
  <2>1. state = "FETCH_ONCHIP_MEM"
    BY DEF IInv, EnginesFollowState, FetchState, Sources
  <2>2. QED
    BY <2>1 DEF IInv, PortFollowsState, Reporting
<1>2. QED
  BY <1>1, Invariant, PTL
=============================================================================
