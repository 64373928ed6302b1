---------------------------- MODULE WpsTopProofs ----------------------------
(***************************************************************************)
(* Proofs about the data path of wps_top.v.                                *)
(*                                                                         *)
(* The first half is about WpsTop: every register keeps to its width, and  *)
(* the path never overflows, whatever the host does and however the two    *)
(* clocks and the multiplexer fall together.                               *)
(*                                                                         *)
(* The second half looks inside that path, at PatternPath: it is a queue   *)
(* of the whole words of its beats, and one that the reader never finds    *)
(* empty while there is a pattern to be read.                              *)
(***************************************************************************)
EXTENDS WpsTop, PatternPath, Integers, TLAPS, FiniteSetTheorems,
        SequenceTheorems, WellFoundedInduction

-----------------------------------------------------------------------------
(* Type correctness.                                                       *)

(* The sender stops counting at the last word, so the count it leaves SEND *)
(* with is the largest one.                                                *)
TypeInv ==
  /\ TypeOK
  /\ sender.state \in {"WAIT_DATA", "SEND"} => sender.taken < Beats

LEMMA TypeInit == Init => TypeInv
<1> SUFFICES ASSUME Init PROVE TypeInv
  OBVIOUS
<1> USE BeatsAssumption, EngineAssumption, TicksAssumption
<1>1. cmd \in Command /\ issued \in Command
  BY DEF Init, Command, Ids
<1>2. send_start \in [1 .. 3 -> BOOLEAN] /\ start_r \in [1 .. 2 -> BOOLEAN]
  BY DEF Init
<1>3. \A s \in Sources : engine_fifo[s] \in Seq(Ids) /\ Len(engine_fifo[s]) <= EngineDepth
  BY DEF Init
<1>4. read_start \in [Sources -> BOOLEAN] /\ read_done \in [Sources -> BOOLEAN]
      /\ read_req \in [Sources -> BOOLEAN] /\ data_mux \in Sources
  BY DEF Init, NoPulse, Sources
<1>5. left \in [Sources -> 0 .. Beats]
  BY DEF Init
<1>6. Empty \in Slot
  BY DEF Empty, Slot, Ids
<1>7. dout \in [Sources -> Slot] /\ rx \in Slot
  BY <1>6 DEF Init
<1>8. sender \in [state : {"IDLE", "WAIT_DATA", "SEND", "GEN_PULSE"}, id : Ids, taken : 0 .. Beats]
      /\ sender.state = "IDLE"
  BY DEF Init, Ids
<1>9. host \in {"rest", "start", "waits"}
      /\ ctrl \in {"POLL_REG", "ISSUE_CMD", "FETCH", "UPDATE_REG"}
      /\ wps_send_done \in BOOLEAN /\ wps_send_done_r \in BOOLEAN /\ sent \in BOOLEAN
  BY DEF Init
<1>10. path \in Seq(Ids) /\ mem_ticks \in 0 .. MaxMemTicks
  BY DEF Init
<1>11. QED
  BY <1>10, <1>1, <1>2, <1>3, <1>4, <1>5, <1>7, <1>8, <1>9 DEF TypeInv, TypeOK

(* The controller and the host.                                            *)
LEMMA TypeController ==
  ASSUME TypeInv, Controller, ExtendStart
  PROVE  /\ host' \in {"rest", "start", "waits"}
         /\ cmd' \in Command /\ issued' \in Command
         /\ ctrl' \in {"POLL_REG", "ISSUE_CMD", "FETCH", "UPDATE_REG"}
         /\ read_start' \in [Sources -> BOOLEAN]
         /\ send_start' \in [1 .. 3 -> BOOLEAN]
         /\ sent' \in BOOLEAN
<1> USE DEF TypeInv, TypeOK
<1>1. send_start' \in [1 .. 3 -> BOOLEAN]
  <2> DEFINE a == (ctrl = "ISSUE_CMD")
             b == send_start[1]
             c == send_start[1] \/ send_start[2]
  <2>1. a \in BOOLEAN /\ b \in BOOLEAN /\ c \in BOOLEAN
    OBVIOUS
  <2>2. send_start' = <<a, b, c>>
    BY DEF ExtendStart
  <2> HIDE DEF a, b, c
  <2>3. QED
    BY <2>1, <2>2
<1>2. CASE Polling
  <2>1. CASE HostStarts
    <3>1. cmd' \in Command
      <4>1. cmd.id \in Ids /\ 1 - cmd.id \in Ids
        BY DEF Command, Ids
      <4>2. QED
        BY <2>1, <4>1 DEF HostStarts, Command
    <3>2. read_start' \in [Sources -> BOOLEAN] /\ UNCHANGED <<ctrl, issued>>
      BY <1>2 DEF Polling, NoPulse
    <3>3. QED
      BY <1>1, <2>1, <3>1, <3>2 DEF HostStarts
  <2>2. CASE HostRests
    BY <1>1, <1>2, <2>2 DEF Polling, HostRests, NoPulse
  <2>3. QED
    BY <1>2, <2>1, <2>2 DEF Polling
<1>3. CASE PollReg
  BY <1>1, <1>3 DEF PollReg, NoPulse
<1>4. CASE IssueCmd
  BY <1>1, <1>4 DEF IssueCmd, HostRests
<1>5. CASE Fetch
  BY <1>1, <1>5 DEF Fetch, HostRests, NoPulse
<1>6. CASE UpdateReg
  BY <1>1, <1>6 DEF UpdateReg, NoPulse
<1>7. QED
  BY <1>2, <1>3, <1>4, <1>5, <1>6 DEF Controller

(* The engines: a beat goes into a FIFO only below its depth.              *)
LEMMA TypeEngines ==
  ASSUME TypeInv, NEW fetching \in SUBSET CanFetch, Engines(fetching)
  PROVE  /\ read_done' \in [Sources -> BOOLEAN]
         /\ left' \in [Sources -> 0 .. Beats]
         /\ \A s \in Sources :
              engine_fifo'[s] \in Seq(Ids) /\ Len(engine_fifo'[s]) <= EngineDepth
         /\ dout' \in [Sources -> Slot]
         /\ \A s \in Sources : dout'[s].valid => read_req[s]
<1> USE BeatsAssumption, EngineAssumption DEF TypeInv, TypeOK
<1>1. \A s \in fetching : s \in Sources /\ left[s] > 0 /\ Len(engine_fifo[s]) < EngineDepth
  BY DEF CanFetch
<1>2. read_done' \in [Sources -> BOOLEAN]
  BY DEF Engines
<1>3. left' \in [Sources -> 0 .. Beats]
  BY <1>1 DEF Engines
<1>4. ASSUME NEW s \in Sources
      PROVE  engine_fifo'[s] \in Seq(Ids) /\ Len(engine_fifo'[s]) <= EngineDepth
  <2> DEFINE kept == IF read_req[s] /\ engine_fifo[s] # << >> THEN Tail(engine_fifo[s])
                     ELSE engine_fifo[s]
  <2>1. kept \in Seq(Ids) /\ Len(kept) <= Len(engine_fifo[s])
    OBVIOUS
  <2>2. engine_fifo'[s] = IF s \in fetching THEN Append(kept, issued.id) ELSE kept
    BY DEF Engines
  <2>3. issued.id \in Ids
    BY DEF Command
  <2>4. QED
    BY <1>1, <2>1, <2>2, <2>3
<1>5. \A s \in Sources : dout'[s] \in Slot /\ (dout'[s].valid => read_req[s])
  <2> SUFFICES ASSUME NEW s \in Sources
               PROVE  dout'[s] \in Slot /\ (dout'[s].valid => read_req[s])
    OBVIOUS
  <2>1. dout'[s] = IF read_req[s] /\ engine_fifo[s] # << >>
                   THEN [valid |-> TRUE, id |-> Head(engine_fifo[s])] ELSE Empty
    BY DEF Engines
  <2>2. engine_fifo[s] # << >> => Head(engine_fifo[s]) \in Ids
    OBVIOUS
  <2>3. QED
    BY <2>1, <2>2 DEF Slot, Empty, Ids
<1>6. dout' \in [Sources -> Slot]
  BY <1>5 DEF Engines
<1>7. QED
  BY <1>2, <1>3, <1>4, <1>5, <1>6

(* The multiplexer.                                                        *)
LEMMA TypeMux ==
  ASSUME TypeInv, Mux
  PROVE  /\ data_mux' \in Sources
         /\ wps_send_done_r' \in BOOLEAN
         /\ read_req' \in [Sources -> BOOLEAN]
         /\ rx' \in Slot
BY DEF TypeInv, TypeOK, Mux, NextMux, Sources, interface_rx_ready

LEMMA TypeMemTick == TypeInv /\ MemTick => TypeInv'
<1> SUFFICES ASSUME TypeInv, MemTick PROVE TypeInv'
  OBVIOUS
<1>1. Controller /\ ExtendStart /\ Mux /\ UNCHANGED pixVars
      /\ mem_ticks' \in 0 .. MaxMemTicks
  BY TicksAssumption DEF MemTick, MemClock, TypeInv, TypeOK
<1>2. PICK fetching \in SUBSET CanFetch : Engines(fetching)
  BY DEF MemTick
<1>3. path' \in Seq(Ids)
  BY DEF MemTick, TypeInv, TypeOK, Slot
<1>4. UNCHANGED <<start_r, sender, wps_send_done>>
  BY <1>1 DEF pixVars
<1>5. TypeOK'
  BY <1>1, <1>2, <1>3, <1>4, TypeController, TypeEngines, TypeMux, TicksAssumption
     DEF TypeInv, TypeOK
<1>6. QED
  BY <1>4, <1>5 DEF TypeInv

(* The sender.                                                             *)
LEMMA TypePixTick == TypeInv /\ PixTick => TypeInv'
<1> SUFFICES ASSUME TypeInv, PixTick PROVE TypeInv'
  OBVIOUS
<1> USE BeatsAssumption, TicksAssumption
<1> DEFINE Senders == [state : {"IDLE", "WAIT_DATA", "SEND", "GEN_PULSE"}, id : Ids,
                       taken : 0 .. Beats]
           Good == /\ path' \in Seq(Ids)
                   /\ sender' \in Senders
                   /\ sender'.state \in {"WAIT_DATA", "SEND"} => sender'.taken < Beats
                   /\ wps_send_done' \in BOOLEAN
                   /\ sent' \in BOOLEAN
<1>1. path \in Seq(Ids) /\ sender \in Senders /\ sent \in BOOLEAN /\ issued.id \in Ids
      /\ (sender.state \in {"WAIT_DATA", "SEND"} => sender.taken < Beats)
  BY DEF TypeInv, TypeOK, Command
<1>2. Idle => Good
  <2> SUFFICES ASSUME Idle PROVE Good
    OBVIOUS
  <2>1. CASE start_r[2]
    <3>1. sender' = [state |-> "WAIT_DATA", id |-> issued.id, taken |-> 0]
          /\ UNCHANGED <<path, sent>> /\ wps_send_done' = FALSE
      BY <2>1 DEF Idle
    <3>2. 0 \in 0 .. Beats
      OBVIOUS
    <3>3. sender' \in Senders /\ sender'.taken = 0
      BY <1>1, <3>1, <3>2
    <3>4. path' \in Seq(Ids) /\ sent' \in BOOLEAN /\ wps_send_done' \in BOOLEAN
      BY <1>1, <3>1, Zenon
    <3>5. QED
      BY <3>3, <3>4, BeatsAssumption
  <2>2. CASE ~start_r[2]
    BY <1>1, <2>2 DEF Idle
  <2>3. QED
    BY <2>1, <2>2
<1>3. WaitData => Good
  BY <1>1 DEF WaitData
<1>4. Send => Good
  <2> SUFFICES ASSUME Send PROVE Good
    OBVIOUS
  <2>1. path # << >> /\ path' = Tail(path) /\ wps_send_done' = FALSE /\ sent' = sent
    BY DEF Send
  <2>2. path' \in Seq(Ids) /\ wps_send_done' \in BOOLEAN /\ sent' \in BOOLEAN
    <3>1. path' \in Seq(Ids)
      BY <1>1, <2>1
    <3>2. QED
      BY <1>1, <2>1, <3>1, Zenon
  <2>3. sender.taken + 1 \in 0 .. Beats
    BY <1>1 DEF Send
  <2>4. PICK next \in {"SEND", "GEN_PULSE"} :
          /\ sender' = [sender EXCEPT !.taken = sender.taken + 1, !.state = next]
          /\ next = "SEND" => sender.taken + 1 # Beats
    BY DEF Send, IsLast
  <2>5. sender' \in Senders /\ sender'.taken = sender.taken + 1 /\ sender'.state = next
    BY <1>1, <2>3, <2>4
  <2>6. QED
    BY <2>2, <2>3, <2>4, <2>5
<1>5. GenPulse => Good
  <2> SUFFICES ASSUME GenPulse PROVE Good
    OBVIOUS
  <2>1. sent' \in BOOLEAN /\ wps_send_done' \in BOOLEAN /\ path' \in Seq(Ids)
    BY <1>1, Zenon DEF GenPulse
  <2>2. sender' \in Senders /\ sender'.state = "IDLE"
    <3>1. sender' = [sender EXCEPT !.state = "IDLE", !.taken = 0]
      BY Zenon DEF GenPulse
    <3>2. 0 \in 0 .. Beats
      OBVIOUS
    <3>3. QED
      BY <1>1, <3>1, <3>2
  <2>3. QED
    BY <2>1, <2>2
<1>6. Busy => Good
  BY <1>1 DEF Busy
<1>7. Good
  BY <1>2, <1>3, <1>4, <1>5, <1>6 DEF PixTick, SenderWorks
<1>8. start_r' \in [1 .. 2 -> BOOLEAN] /\ mem_ticks' \in 0 .. MaxMemTicks
  BY TicksAssumption DEF PixTick, PixClock, TypeInv, TypeOK
<1>9. UNCHANGED memVars
  BY DEF PixTick
<1>10. QED
  BY <1>7, <1>8, <1>9 DEF memVars, engineVars, muxVars, TypeInv, TypeOK

LEMMA InductiveType == Spec => []TypeInv
<1>1. TypeInv /\ [Next]_vars => TypeInv'
  <2>1. TypeInv /\ UNCHANGED vars => TypeInv'
    BY DEF vars, memVars, engineVars, muxVars, pixVars, TypeInv, TypeOK
  <2>2. QED
    BY <2>1, TypeMemTick, TypePixTick DEF Next
<1>2. QED
  BY <1>1, TypeInit, PTL DEF Spec

(* Every register keeps to its width and every FIFO of an engine to its    *)
(* depth: wps_top.v and what it connects, for every depth, length of a     *)
(* command, ratio of the clocks and behaviour of the host.                 *)
THEOREM TypeCorrect == Spec => []TypeOK
<1>1. TypeInv => TypeOK
  BY DEF TypeInv
<1>2. QED
  BY <1>1, InductiveType, PTL

-----------------------------------------------------------------------------
(* The path.  What can still reach it without another look at the          *)
(* threshold: the beats in the registers of the selected engine, and of    *)
(* the other one up to two if its request was left standing, since a       *)
(* change of the multiplexer lets through the beat on its output and the   *)
(* one behind it.                                                          *)

One(b) == IF b THEN 1 ELSE 0
Other == IF data_mux = "DDR3" THEN "ONCHIP_MEM" ELSE "DDR3"

Standing(s) == IF read_req[s] THEN 2 ELSE One(dout[s].valid)

OnTheWay ==
  One(rx.valid) + One(dout[data_mux].valid) + One(read_req[data_mux]) + Standing(Other)

PathInv == Len(path) + OnTheWay <= PathStop + 5

LEMMA PathMemTick == TypeInv /\ PathInv /\ MemTick => PathInv'
<1> SUFFICES ASSUME TypeInv, PathInv, MemTick PROVE PathInv'
  OBVIOUS
<1> USE PathAssumption
<1>1. PICK fetching \in SUBSET CanFetch : Engines(fetching)
  BY DEF MemTick
<1>2. Mux
  BY DEF MemTick
<1>3. \A s \in Sources : dout'[s].valid => read_req[s]
  BY <1>1, TypeEngines
<1>4. data_mux \in Sources /\ data_mux' \in Sources
  BY <1>2, TypeMux DEF TypeInv, TypeOK
<1>5. PICK sel \in Sources, oth \in Sources : sel = data_mux /\ oth = Other /\ sel # oth
  BY <1>4 DEF Other, Sources
<1>6. rx'.valid = dout[sel].valid
  BY <1>2, <1>5 DEF Mux
<1>7. read_req'[oth] = read_req[oth]
  BY <1>2, <1>5 DEF Mux, TypeInv, TypeOK
<1>8. read_req'[sel] => Len(path) < PathStop
  BY <1>2, <1>5 DEF Mux, interface_rx_ready, TypeInv, TypeOK
<1>9. Len(path) \in Nat /\ Len(path') = Len(path) + One(rx.valid)
  <2>1. path \in Seq(Ids) /\ rx.id \in Ids
    BY DEF TypeInv, TypeOK, Slot
  <2>2. path' = IF rx.valid THEN Append(path, rx.id) ELSE path
    BY DEF MemTick
  <2>3. QED
    BY <2>1, <2>2 DEF One
<1> DEFINE len == Len(path)
           x == One(rx.valid)
           dSel == One(dout[sel].valid)
           rSel == One(read_req[sel])
           rOth == One(read_req[oth])
           wOth == Standing(oth)
           dSelNext == One(dout'[sel].valid)
           dOthNext == One(dout'[oth].valid)
           rSelNext == One(read_req'[sel])
           wSelNext == IF read_req'[sel] THEN 2 ELSE One(dout'[sel].valid)
           wOthNext == IF read_req'[oth] THEN 2 ELSE One(dout'[oth].valid)
<1>10. x \in 0 .. 1 /\ dSel \in 0 .. 1 /\ rSel \in 0 .. 1 /\ rOth \in 0 .. 1
  BY DEF One
<1>11. wOth \in 0 .. 2 /\ wOth >= 2 * rOth
  BY DEF One, Standing
<1>12. /\ dSelNext \in 0 .. 1 /\ dSelNext <= rSel
       /\ dOthNext \in 0 .. 1 /\ dOthNext <= rOth
  BY <1>3, <1>5 DEF One
<1>13. rSelNext \in 0 .. 1 /\ wSelNext \in 0 .. 2 /\ wSelNext <= rSel + 2 * rSelNext
  BY <1>3, <1>5 DEF One
<1>14. wOthNext \in 0 .. 2 /\ wOthNext <= 2 * rOth
  BY <1>3, <1>5, <1>7 DEF One
<1>15. len < PathStop \/ rSelNext = 0
  BY <1>8 DEF One
<1>16. len + x + dSel + rSel + wOth <= PathStop + 5
  <2>1. OnTheWay = x + dSel + rSel + wOth
    BY <1>5 DEF OnTheWay
  <2> HIDE DEF len, x, dSel, rSel, wOth
  <2>2. Len(path) = len /\ len \in Nat
    BY <1>9 DEF len
  <2>3. QED
    BY <1>10, <1>11, <2>1, <2>2 DEF PathInv
<1>17. len \in Nat /\ Len(path') = len + x
  BY <1>9
(* The multiplexer stays, or it changes over.                              *)
<1>18. CASE data_mux' = data_mux
  <2>1. OnTheWay' = dSel + dSelNext + rSelNext + wOthNext
    <3>1. data_mux' = sel /\ Other' = oth
      BY <1>5, <1>18 DEF Other
    <3>2. QED
      BY <1>6, <3>1 DEF OnTheWay, Standing
  <2> HIDE DEF len, x, dSel, rSel, rOth, wOth, dSelNext, dOthNext, rSelNext, wSelNext, wOthNext
  <2>2. len + x + dSel + dSelNext + rSelNext + wOthNext <= PathStop + 5
    BY <1>10, <1>11, <1>12, <1>13, <1>14, <1>15, <1>16, <1>17
  <2>3. QED
    BY <1>10, <1>12, <1>13, <1>14, <1>17, <2>1, <2>2 DEF PathInv
<1>19. CASE data_mux' # data_mux
  <2>1. OnTheWay' = dSel + dOthNext + rOth + wSelNext
    <3>1. data_mux' = oth /\ Other' = sel
      BY <1>4, <1>5, <1>19 DEF Other, Sources
    <3>2. QED
      BY <1>6, <1>7, <3>1 DEF OnTheWay, Standing
  <2> HIDE DEF len, x, dSel, rSel, rOth, wOth, dSelNext, dOthNext, rSelNext, wSelNext, wOthNext
  <2>2. len + x + dSel + dOthNext + rOth + wSelNext <= PathStop + 5
    BY <1>10, <1>11, <1>12, <1>13, <1>14, <1>15, <1>16, <1>17
  <2>3. QED
    BY <1>10, <1>12, <1>13, <1>14, <1>17, <2>1, <2>2 DEF PathInv
<1>20. QED
  BY <1>18, <1>19

LEMMA PathPixTick == TypeInv /\ PathInv /\ PixTick => PathInv'
<1> SUFFICES ASSUME TypeInv, PathInv, PixTick PROVE PathInv'
  OBVIOUS
<1>1. path \in Seq(Ids)
  BY DEF TypeInv, TypeOK
<1>2. path' = path \/ (path # << >> /\ path' = Tail(path))
  BY DEF PixTick, SenderWorks, Idle, WaitData, Send, GenPulse, Busy
<1>3. Len(path') <= Len(path) /\ Len(path) \in Nat /\ Len(path') \in Nat
  BY <1>1, <1>2
<1>4. UNCHANGED <<rx, dout, read_req, data_mux>>
  BY DEF PixTick, memVars, engineVars, muxVars
<1>5. OnTheWay' = OnTheWay /\ OnTheWay \in Nat
  BY <1>4 DEF OnTheWay, Standing, Other, One
<1>6. QED
  BY <1>3, <1>5, PathAssumption DEF PathInv

(* A beat is never written to a full path: the margin of 8 beats behind    *)
(* the threshold of interface_256in_24out_gb.v:42 is enough, and 5 would   *)
(* do, for every host and every moment at which the multiplexer changes.   *)
THEOREM PathNeverOverflows == Spec => []PathNoOverflow
<1>1. Init => PathInv
  BY PathAssumption DEF Init, PathInv, OnTheWay, Standing, Other, One, Empty, NoPulse, Sources
<1>2. TypeInv /\ PathInv /\ [Next]_vars => TypeInv' /\ PathInv'
  <2>1. TypeInv /\ UNCHANGED vars => TypeInv'
    BY DEF vars, memVars, engineVars, muxVars, pixVars, TypeInv, TypeOK
  <2>2. PathInv /\ UNCHANGED vars => PathInv'
    BY DEF vars, memVars, engineVars, muxVars, PathInv, OnTheWay, Standing, Other, One
  <2>3. QED
    BY <2>1, <2>2, TypeMemTick, TypePixTick, PathMemTick, PathPixTick DEF Next
<1>3. TypeInv /\ PathInv => PathNoOverflow
  BY PathAssumption DEF TypeInv, TypeOK, PathInv, OnTheWay, Standing, One, PathNoOverflow
<1>4. QED
  BY <1>1, <1>2, <1>3, TypeInit, PTL DEF Spec
-----------------------------------------------------------------------------
(* One command at a time.  A host that starts a command only when the last *)
(* one has been sent, and a mem_clk that ticks at most twice in a cycle of *)
(* the pixel clock, which is less than the controller takes from a start   *)
(* to its issue: then the multiplexer has been given back in time.         *)
Paced == HostWaitsFor = "sent" /\ MaxMemTicks <= 2

(* No beat of a command is under way: the last one has been sent, and the  *)
(* next one is not issued yet.                                             *)
Between == sent \/ host = "start" \/ ctrl = "ISSUE_CMD"

EngineIdle(s) == left[s] = 0 /\ engine_fifo[s] = << >> /\ ~dout[s].valid
AllIdle == (\A s \in Sources : EngineIdle(s)) /\ ~rx.valid /\ path = << >>

HostInv ==
  /\ host = "start" => ctrl = "POLL_REG" /\ ~sent
  /\ ctrl = "ISSUE_CMD" => host = "waits" /\ ~sent

(* The start on its way through the five registers to the sender: it has   *)
(* left them before the sender is through with the first word.             *)
StartGone == ~send_start[1] /\ ~send_start[2] /\ ~send_start[3] /\ ~start_r[1]
StartInv ==
  /\ send_start[1] => ~send_start[2] /\ ~send_start[3] /\ ~start_r[1] /\ ~start_r[2]
  /\ send_start[2] => ~start_r[2] /\ send_start[3] /\ (start_r[1] => mem_ticks = 0)
  /\ send_start[3] /\ start_r[2] => mem_ticks = 0
  /\ sender.state # "IDLE" => StartGone
  /\ sender.state \in {"SEND", "GEN_PULSE"} => ~start_r[2]

BetweenInv ==
  Between => /\ AllIdle /\ read_start = NoPulse
             /\ sender.state = "IDLE" /\ sender.taken = 0 /\ StartGone /\ ~start_r[2]

(* The multiplexer goes back to the DDR3 engine between two commands.      *)
DoneInv ==
  /\ wps_send_done => /\ Between
                      /\ mem_ticks = 0 => host # "start"
                      /\ mem_ticks <= 1 => ctrl # "ISSUE_CMD"
  /\ wps_send_done_r => Between
  /\ Between /\ data_mux # "DDR3" => \/ wps_send_done /\ mem_ticks = 0
                                     \/ wps_send_done_r /\ ctrl # "ISSUE_CMD"

(* From its issue on, every beat of the command is somewhere: to be        *)
(* fetched, in the engine, in a register, in the path, or taken.           *)
Issued ==
  /\ read_start = [s \in Sources |-> s = cmd.source]
  /\ AllIdle /\ data_mux = "DDR3"
  /\ sender.state = "IDLE" /\ send_start[1]
Under(s) == left[s] + Len(engine_fifo[s]) + One(dout[s].valid) + One(rx.valid) + Len(path)
Flowing ==
  /\ read_start = NoPulse
  /\ data_mux = cmd.source
  /\ \A s \in Sources : s # cmd.source => EngineIdle(s)
  /\ Under(cmd.source) + sender.taken = Beats
FlowInv ==
  ~Between =>
    /\ issued = cmd
    /\ sender.state = "IDLE" => sender.taken = 0
    /\ sender.state = "GEN_PULSE" => sender.taken = Beats
    /\ sender.state # "IDLE" => sender.id = cmd.id
    /\ \A s \in Sources : /\ engine_fifo[s] \in Seq({cmd.id})
                          /\ dout[s].valid => dout[s].id = cmd.id
    /\ rx.valid => rx.id = cmd.id
    /\ path \in Seq({cmd.id})
    /\ Issued \/ Flowing

CommandInv == HostInv /\ StartInv /\ BetweenInv /\ DoneInv /\ FlowInv

LEMMA CommandInit == Init => CommandInv
<1> SUFFICES ASSUME Init PROVE CommandInv
  OBVIOUS
<1>1. HostInv /\ StartInv /\ DoneInv
  BY DEF Init, HostInv, StartInv, DoneInv
<1>2. AllIdle
  BY DEF Init, AllIdle, EngineIdle, Empty
<1>3. BetweenInv
  BY <1>2 DEF Init, BetweenInv, StartGone
<1>4. FlowInv
  BY DEF Init, FlowInv, Between
<1> QED
  BY <1>1, <1>3, <1>4 DEF CommandInv

(* What the controller and the host do to the time between two commands.   *)
LEMMA HostStep ==
  ASSUME TypeInv, HostInv, Paced, Controller
  PROVE  /\ HostInv'
         /\ Between' => Between /\ ctrl # "ISSUE_CMD"
         /\ Between /\ ctrl # "ISSUE_CMD" => Between'
         /\ ctrl # "ISSUE_CMD" => read_start' = NoPulse /\ issued' = issued
         /\ ctrl = "ISSUE_CMD" => /\ cmd' = cmd /\ issued' = cmd /\ Between
                                  /\ read_start' = [s \in Sources |-> s = cmd.source]
         /\ ~Between => cmd' = cmd /\ ~Between'
         /\ host # "start" => ctrl' # "ISSUE_CMD"
<1> USE DEF HostInv, Between
<1>0. sent \in BOOLEAN
  BY DEF TypeInv, TypeOK
<1>1. CASE Polling
  <2>1. CASE HostStarts
    BY <1>0, <1>1, <2>1 DEF Polling, HostStarts, Paced
  <2>2. CASE HostRests
    BY <1>0, <1>1, <2>2 DEF Polling, HostRests
  <2> QED
    BY <1>1, <2>1, <2>2 DEF Polling
<1>2. CASE PollReg
  BY <1>0, <1>2 DEF PollReg
<1>3. CASE IssueCmd
  BY <1>0, <1>3 DEF IssueCmd, HostRests
<1>4. CASE Fetch
  BY <1>0, <1>4 DEF Fetch, HostRests
<1>5. CASE UpdateReg
  BY <1>0, <1>5 DEF UpdateReg
<1> QED
  BY <1>1, <1>2, <1>3, <1>4, <1>5 DEF Controller

(* An engine with nothing to do, and one that is started, say nothing.     *)
LEMMA IdleStep ==
  ASSUME TypeInv, NEW fetching \in SUBSET CanFetch, Engines(fetching),
         NEW s \in Sources, EngineIdle(s)
  PROVE  /\ left'[s] = IF read_start[s] THEN Beats ELSE 0
         /\ engine_fifo'[s] = << >> /\ ~dout'[s].valid
<1>1. s \notin fetching /\ left[s] = 0 /\ engine_fifo[s] = << >>
  BY DEF CanFetch, EngineIdle, TypeInv, TypeOK
<1> QED
  BY <1>1 DEF Engines, Empty

(* The start of the sender.                                                *)
LEMMA StartMemStep ==
  ASSUME TypeInv, CommandInv, MemTick
  PROVE  StartInv'
<1>1. /\ start_r' = start_r /\ sender' = sender
      /\ send_start' = <<ctrl = "ISSUE_CMD", send_start[1], send_start[1] \/ send_start[2]>>
      /\ mem_ticks' = mem_ticks + 1 /\ mem_ticks \in Nat
  BY DEF MemTick, MemClock, pixVars, ExtendStart, TypeInv, TypeOK
<1>2. /\ start_r[1] \in BOOLEAN /\ start_r[2] \in BOOLEAN
      /\ send_start[1] \in BOOLEAN /\ send_start[2] \in BOOLEAN /\ send_start[3] \in BOOLEAN
  BY DEF TypeInv, TypeOK
<1>3. /\ send_start'[1] <=> ctrl = "ISSUE_CMD"
      /\ send_start'[2] <=> send_start[1]
      /\ send_start'[3] <=> send_start[1] \/ send_start[2]
  BY <1>1, <1>2
<1>4. ctrl = "ISSUE_CMD" => sender.state = "IDLE" /\ StartGone /\ ~start_r[2]
  BY DEF CommandInv, BetweenInv, Between
<1>5. StartInv
  BY DEF CommandInv
<1> QED
  BY <1>1, <1>2, <1>3, <1>4, <1>5 DEF StartInv, StartGone

LEMMA StartPixStep ==
  ASSUME TypeInv, CommandInv, PixTick
  PROVE  StartInv'
<1>1. /\ start_r' = <<send_start[3], start_r[1]>>
      /\ send_start' = send_start /\ mem_ticks' = 0 /\ mem_ticks > 0
  BY DEF PixTick, PixClock, memVars
<1>2. /\ start_r[1] \in BOOLEAN /\ start_r[2] \in BOOLEAN
      /\ send_start[1] \in BOOLEAN /\ send_start[2] \in BOOLEAN /\ send_start[3] \in BOOLEAN
  BY DEF TypeInv, TypeOK
<1>3. start_r'[1] = send_start[3] /\ start_r'[2] = start_r[1]
  BY <1>1
<1>4. StartInv
  BY DEF CommandInv
<1>5. sender \in [state : {"IDLE", "WAIT_DATA", "SEND", "GEN_PULSE"}, id : Ids,
                  taken : 0 .. Beats]
  BY DEF TypeInv, TypeOK
<1>6. /\ sender'.state # "IDLE" => sender.state # "IDLE" \/ start_r[2]
      /\ sender'.state \in {"SEND", "GEN_PULSE"} => sender.state # "IDLE"
  <2>1. CASE Idle
    BY <2>1 DEF Idle
  <2>2. CASE WaitData
    BY <2>2 DEF WaitData
  <2>3. CASE Send
    BY <2>3 DEF Send
  <2>4. CASE GenPulse
    BY <2>4 DEF GenPulse
  <2>5. CASE Busy
    BY <2>5 DEF Busy
  <2> QED
    BY <2>1, <2>2, <2>3, <2>4, <2>5 DEF PixTick, SenderWorks
<1>7. sender.state # "IDLE" \/ start_r[2] => ~send_start[1] /\ ~send_start[2] /\ ~send_start[3]
  BY <1>1, <1>2, <1>4 DEF StartInv, StartGone
<1> QED
  BY <1>1, <1>2, <1>3, <1>4, <1>6, <1>7 DEF StartInv, StartGone

(* Between two commands nothing moves.                                     *)
LEMMA BetweenMemStep ==
  ASSUME TypeInv, CommandInv, Paced, MemTick, Between, AllIdle, read_start = NoPulse
  PROVE  AllIdle'
<1>1. PICK fetching \in SUBSET CanFetch : Engines(fetching)
  BY DEF MemTick
<1>2. ASSUME NEW s \in Sources
      PROVE  EngineIdle(s)'
  <2>1. EngineIdle(s) /\ ~read_start[s]
    BY DEF AllIdle, NoPulse
  <2> QED
    BY <1>1, <2>1, IdleStep DEF EngineIdle
<1>3. ~rx'.valid
  BY DEF MemTick, Mux, AllIdle, EngineIdle, TypeInv, TypeOK
<1>4. path' = << >>
  BY DEF MemTick, AllIdle
<1> QED
  BY <1>2, <1>3, <1>4 DEF AllIdle

LEMMA BetweenMem ==
  ASSUME TypeInv, CommandInv, Paced, MemTick
  PROVE  BetweenInv'
<1> SUFFICES ASSUME Between'
             PROVE  /\ AllIdle' /\ read_start' = NoPulse
                    /\ sender'.state = "IDLE" /\ sender'.taken = 0
                    /\ StartGone' /\ ~start_r'[2]
  BY DEF BetweenInv, NoPulse
<1>1. Between /\ ctrl # "ISSUE_CMD" /\ read_start' = NoPulse
  BY HostStep DEF MemTick, CommandInv
<1>2. /\ AllIdle /\ read_start = NoPulse
      /\ sender.state = "IDLE" /\ sender.taken = 0 /\ StartGone /\ ~start_r[2]
  BY <1>1 DEF CommandInv, BetweenInv
<1>3. AllIdle'
  BY <1>1, <1>2, BetweenMemStep
<1>4. sender' = sender /\ start_r' = start_r
  BY DEF MemTick, pixVars
<1>5. StartGone'
  <2>1. send_start' = <<ctrl = "ISSUE_CMD", send_start[1], send_start[1] \/ send_start[2]>>
    BY DEF MemTick, ExtendStart
  <2> QED
    BY <1>1, <1>2, <1>4, <2>1 DEF StartGone
<1> QED
  BY <1>1, <1>2, <1>3, <1>4, <1>5

(* The sender hands over to the next command when it has taken every beat. *)
LEMMA FlowEnds ==
  ASSUME TypeInv, CommandInv, ~Between, sender.state = "GEN_PULSE"
  PROVE  AllIdle /\ read_start = NoPulse /\ sender.id = cmd.id
<1>1. /\ sender.taken = Beats /\ sender.id = cmd.id /\ Flowing
  BY DEF CommandInv, FlowInv, Issued
<1>2. cmd.source \in Sources
  BY DEF TypeInv, TypeOK, Command
<1>3. PICK s \in Sources : s = cmd.source
  BY <1>2
<1>4. /\ left[s] \in Nat /\ Len(engine_fifo[s]) \in Nat /\ Len(path) \in Nat
      /\ One(dout[s].valid) \in Nat /\ One(rx.valid) \in Nat
  <2>1. left[s] \in Nat
    BY BeatsAssumption DEF TypeInv, TypeOK
  <2>2. Len(engine_fifo[s]) \in Nat /\ Len(path) \in Nat
    BY DEF TypeInv, TypeOK
  <2> QED
    BY <2>1, <2>2 DEF One
<1>5. left[s] + Len(engine_fifo[s]) + One(dout[s].valid) + One(rx.valid) + Len(path) + Beats
        = Beats
  BY <1>1, <1>3 DEF Flowing, Under
<1>6. /\ left[s] = 0 /\ Len(engine_fifo[s]) = 0 /\ Len(path) = 0
      /\ One(dout[s].valid) = 0 /\ One(rx.valid) = 0
  BY <1>4, <1>5, BeatsAssumption
<1>7. /\ engine_fifo[s] = << >> /\ path = << >>
  BY <1>6 DEF TypeInv, TypeOK
<1>8. EngineIdle(s) /\ ~rx.valid
  BY <1>6, <1>7 DEF One, EngineIdle
<1> QED
  BY <1>1, <1>3, <1>7, <1>8 DEF Flowing, AllIdle

LEMMA SentStep ==
  ASSUME TypeInv, PixTick, Between', ~Between
  PROVE  sender.state = "GEN_PULSE" /\ wps_send_done' /\ GenPulse
  BY DEF PixTick, SenderWorks, Idle, WaitData, Send, GenPulse, Busy, Between, memVars

LEMMA BetweenPix ==
  ASSUME TypeInv, CommandInv, PixTick
  PROVE  BetweenInv'
<1> SUFFICES ASSUME Between'
             PROVE  /\ AllIdle' /\ read_start' = NoPulse
                    /\ sender'.state = "IDLE" /\ sender'.taken = 0
                    /\ StartGone' /\ ~start_r'[2]
  BY DEF BetweenInv, NoPulse
<1>1. /\ UNCHANGED <<left, engine_fifo, dout, rx, read_start, send_start>>
      /\ start_r' = <<send_start[3], start_r[1]>>
  BY DEF PixTick, memVars, engineVars, muxVars
<1>2. sender \in [state : {"IDLE", "WAIT_DATA", "SEND", "GEN_PULSE"}, id : Ids,
                  taken : 0 .. Beats]
  BY DEF TypeInv, TypeOK
<1>3. CASE Between
  <2>1. /\ AllIdle /\ read_start = NoPulse
        /\ sender.state = "IDLE" /\ sender.taken = 0 /\ StartGone /\ ~start_r[2]
    BY <1>3 DEF CommandInv, BetweenInv
  <2>2. sender' = sender /\ path' = path
    BY <2>1 DEF PixTick, SenderWorks, Idle, WaitData, Send, GenPulse, Busy
  <2> QED
    BY <1>1, <2>1, <2>2 DEF AllIdle, EngineIdle, StartGone
<1>4. CASE ~Between
  <2>1. GenPulse /\ sender.state = "GEN_PULSE"
    BY <1>4, SentStep
  <2>2. AllIdle /\ read_start = NoPulse
    BY <1>4, <2>1, FlowEnds
  <2>3. StartGone /\ ~start_r[2]
    BY <2>1 DEF CommandInv, StartInv
  <2>4. sender'.state = "IDLE" /\ sender'.taken = 0 /\ path' = path
    BY <1>2, <2>1 DEF GenPulse
  <2> QED
    BY <1>1, <2>2, <2>3, <2>4 DEF AllIdle, EngineIdle, StartGone
<1> QED
  BY <1>3, <1>4

(* The multiplexer.                                                        *)
LEMMA DoneMem ==
  ASSUME TypeInv, CommandInv, Paced, MemTick
  PROVE  DoneInv'
<1>0. /\ DoneInv /\ HostInv /\ BetweenInv /\ Controller /\ Mux
      /\ wps_send_done' = wps_send_done /\ wps_send_done_r' = wps_send_done
      /\ mem_ticks' = mem_ticks + 1 /\ mem_ticks < MaxMemTicks
      /\ mem_ticks \in Nat /\ wps_send_done \in BOOLEAN
  BY DEF CommandInv, MemTick, MemClock, Mux, pixVars, TypeInv, TypeOK
<1>1. mem_ticks <= 1
  BY <1>0, TicksAssumption DEF Paced
<1>2. /\ Between /\ ctrl # "ISSUE_CMD" => Between'
      /\ Between' => Between /\ ctrl # "ISSUE_CMD"
      /\ host # "start" => ctrl' # "ISSUE_CMD"
  BY <1>0, HostStep
<1>3. wps_send_done => Between' /\ (mem_ticks = 0 => ctrl' # "ISSUE_CMD")
  BY <1>0, <1>1, <1>2 DEF DoneInv
<1>4. Between' /\ data_mux' # "DDR3" => wps_send_done_r' /\ ctrl' # "ISSUE_CMD"
  <2> SUFFICES ASSUME Between', data_mux' # "DDR3"
               PROVE  wps_send_done_r' /\ ctrl' # "ISSUE_CMD"
    OBVIOUS
  <2>1. Between /\ read_start = NoPulse
    BY <1>0, <1>2 DEF BetweenInv
  <2>2. ~read_start["ONCHIP_MEM"]
    BY <2>1 DEF NoPulse, Sources
  <2>3. data_mux # "DDR3" /\ ~wps_send_done_r
    BY <1>0, <2>2 DEF Mux, NextMux
  <2>4. wps_send_done /\ mem_ticks = 0
    BY <1>0, <2>1, <2>3 DEF DoneInv
  <2> QED
    BY <1>0, <1>3, <2>4
<1> QED
  BY <1>0, <1>1, <1>3, <1>4 DEF DoneInv

LEMMA DonePix ==
  ASSUME TypeInv, CommandInv, PixTick
  PROVE  DoneInv'
<1>0. /\ DoneInv /\ BetweenInv /\ FlowInv
      /\ mem_ticks' = 0 /\ mem_ticks > 0
      /\ UNCHANGED <<host, ctrl, cmd, wps_send_done_r, data_mux>>
      /\ sent \in BOOLEAN
  BY DEF CommandInv, PixTick, PixClock, memVars, muxVars, TypeInv, TypeOK
<1>1. sent => sent'
  BY DEF PixTick, SenderWorks, Idle, WaitData, Send, GenPulse, Busy
<1>2. Between => Between'
  BY <1>0, <1>1 DEF Between
<1>3. wps_send_done' => ~Between /\ Between'
  <2>1. HAVE wps_send_done'
  <2>2. GenPulse /\ sender.state = "GEN_PULSE"
    BY <2>1 DEF PixTick, SenderWorks, Idle, WaitData, Send, GenPulse, Busy
  <2>3. ~Between
    BY <1>0, <2>2 DEF BetweenInv
  <2>4. sender.id = cmd.id
    BY <2>2, <2>3, FlowEnds
  <2> QED
    BY <2>2, <2>3, <2>4 DEF GenPulse, Between
<1>4. Between' /\ data_mux' # "DDR3" =>
        \/ wps_send_done' /\ mem_ticks' = 0
        \/ wps_send_done_r' /\ ctrl' # "ISSUE_CMD"
  BY <1>0, SentStep DEF DoneInv
<1> QED
  BY <1>0, <1>2, <1>3, <1>4 DEF DoneInv, Between

(* Every beat that moves carries the id of the command.                    *)
Own == /\ \A s \in Sources : /\ engine_fifo[s] \in Seq({cmd.id})
                             /\ dout[s].valid => dout[s].id = cmd.id
       /\ rx.valid => rx.id = cmd.id
       /\ path \in Seq({cmd.id})

(* The command is issued to an engine that is idle and selected.           *)
LEMMA IssueStep ==
  ASSUME TypeInv, CommandInv, Paced, MemTick, ctrl = "ISSUE_CMD"
  PROVE  FlowInv'
<1>1. /\ cmd' = cmd /\ issued' = cmd /\ Between
      /\ read_start' = [s \in Sources |-> s = cmd.source]
  BY HostStep DEF MemTick, CommandInv
<1>2. /\ AllIdle /\ read_start = NoPulse
      /\ sender.state = "IDLE" /\ sender.taken = 0
  BY <1>1 DEF CommandInv, BetweenInv
<1>3. AllIdle'
  BY <1>1, <1>2, BetweenMemStep
<1>4. data_mux = "DDR3"
  BY <1>1 DEF CommandInv, DoneInv
<1>5. data_mux' = "DDR3"
  BY <1>2, <1>4 DEF MemTick, Mux, NextMux, NoPulse, Sources
<1>6. send_start'[1]
  BY DEF MemTick, ExtendStart
<1>7. sender' = sender
  BY DEF MemTick, pixVars
<1>8. Issued'
  BY <1>1, <1>2, <1>3, <1>5, <1>6, <1>7 DEF Issued
<1>9. \A s \in Sources : engine_fifo'[s] = << >> /\ ~dout'[s].valid
  BY <1>3 DEF AllIdle, EngineIdle
<1>10. ~rx'.valid /\ path' = << >>
  BY <1>3 DEF AllIdle
<1>11. Own'
  <2>1. << >> \in Seq({cmd'.id})
    OBVIOUS
  <2>2. \A s \in Sources : /\ engine_fifo'[s] \in Seq({cmd'.id})
                           /\ dout'[s].valid => dout'[s].id = cmd'.id
    BY <1>9, <2>1
  <2>3. /\ rx'.valid => rx'.id = cmd'.id
        /\ path' \in Seq({cmd'.id})
    BY <1>10, <2>1
  <2> QED
    BY <2>2, <2>3 DEF Own
<1> QED
  BY <1>1, <1>2, <1>7, <1>8, <1>11 DEF FlowInv, Own

LEMMA OwnStep ==
  ASSUME TypeInv, MemTick, Own, issued = cmd, cmd' = cmd
  PROVE  Own'
<1>1. PICK fetching \in SUBSET CanFetch : Engines(fetching)
  BY DEF MemTick
<1>2. ASSUME NEW s \in Sources
      PROVE  engine_fifo'[s] \in Seq({cmd.id}) /\ (dout'[s].valid => dout'[s].id = cmd.id)
  <2> DEFINE kept == IF read_req[s] /\ engine_fifo[s] # << >> THEN Tail(engine_fifo[s])
                     ELSE engine_fifo[s]
  <2>1. engine_fifo[s] \in Seq({cmd.id})
    BY DEF Own
  <2>2. kept \in Seq({cmd.id})
    BY <2>1
  <2>3. engine_fifo'[s] = IF s \in fetching THEN Append(kept, cmd.id) ELSE kept
    BY <1>1 DEF Engines
  <2>4. dout'[s] = IF read_req[s] /\ engine_fifo[s] # << >>
                   THEN [valid |-> TRUE, id |-> Head(engine_fifo[s])] ELSE Empty
    BY <1>1 DEF Engines
  <2>5. engine_fifo[s] # << >> => Head(engine_fifo[s]) = cmd.id
    BY <2>1
  <2> HIDE DEF kept
  <2>6. engine_fifo'[s] \in Seq({cmd.id})
    BY <2>2, <2>3
  <2>7. dout'[s].valid => dout'[s].id = cmd.id
    BY <2>4, <2>5 DEF Empty
  <2> QED
    BY <2>6, <2>7
<1>3. rx'.valid => rx'.id = cmd.id
  BY DEF MemTick, Mux, Own, TypeInv, TypeOK
<1>4. path' \in Seq({cmd.id})
  <2>1. path \in Seq({cmd.id}) /\ (rx.valid => rx.id = cmd.id)
    BY DEF Own
  <2>2. path' = IF rx.valid THEN Append(path, rx.id) ELSE path
    BY DEF MemTick
  <2> QED
    BY <2>1, <2>2
<1> QED
  BY <1>2, <1>3, <1>4 DEF Own

(* A cycle of mem_clk moves beats, and loses none of the selected engine.  *)
LEMMA UnderStep ==
  ASSUME TypeInv, MemTick, NEW s \in Sources, data_mux = s, ~read_start[s]
  PROVE  Under(s)' = Under(s)
<1>1. PICK fetching \in SUBSET CanFetch : Engines(fetching)
  BY DEF MemTick
<1> DEFINE out == read_req[s] /\ engine_fifo[s] # << >>
           in == s \in fetching
           kept == IF out THEN Tail(engine_fifo[s]) ELSE engine_fifo[s]
<1>2. /\ left[s] \in Nat /\ (in => left[s] > 0)
      /\ engine_fifo[s] \in Seq(Ids) /\ path \in Seq(Ids) /\ rx.id \in Ids
      /\ issued.id \in Ids
  BY BeatsAssumption DEF CanFetch, TypeInv, TypeOK, Slot, Command
<1>3. left'[s] = left[s] - One(in) /\ left'[s] \in Int
  BY <1>1, <1>2 DEF Engines, One
<1>4. Len(engine_fifo'[s]) = Len(engine_fifo[s]) - One(out) + One(in)
  <2>1. engine_fifo'[s] = IF in THEN Append(kept, issued.id) ELSE kept
    BY <1>1 DEF Engines
  <2>2. kept \in Seq(Ids) /\ Len(kept) = Len(engine_fifo[s]) - One(out)
    BY <1>2 DEF One
  <2> HIDE DEF kept, out, in
  <2>3. Len(engine_fifo'[s]) = Len(kept) + One(in)
    <3>1. CASE in
      <4>1. Len(Append(kept, issued.id)) = Len(kept) + 1
        BY <1>2, <2>2
      <4> QED
        BY <2>1, <3>1, <4>1 DEF One
    <3>2. CASE ~in
      <4>1. Len(kept) \in Nat
        BY <2>2
      <4> QED
        BY <2>1, <3>2, <4>1 DEF One
    <3> QED
      BY <3>1, <3>2
  <2>4. Len(engine_fifo[s]) \in Nat /\ One(out) \in Nat /\ One(in) \in Nat
    BY <1>2 DEF One
  <2> QED
    BY <2>2, <2>3, <2>4
<1>5. One(dout'[s].valid) = One(out)
  <2>1. dout'[s] = IF out THEN [valid |-> TRUE, id |-> Head(engine_fifo[s])] ELSE Empty
    BY <1>1 DEF Engines
  <2> QED
    BY <2>1 DEF One, Empty
<1>6. One(rx'.valid) = One(dout[s].valid)
  BY DEF MemTick, Mux, One
<1>7. Len(path') = Len(path) + One(rx.valid)
  <2>1. path' = IF rx.valid THEN Append(path, rx.id) ELSE path
    BY DEF MemTick
  <2> QED
    BY <1>2, <2>1 DEF One
<1>8. /\ One(out) \in Int /\ One(in) \in Int /\ One(rx.valid) \in Int
      /\ One(dout[s].valid) \in Int
      /\ Len(path) \in Int /\ Len(engine_fifo[s]) \in Int /\ left[s] \in Int
  BY <1>2 DEF One
<1> HIDE DEF kept, out, in
<1>9. Under(s)' = left'[s] + Len(engine_fifo'[s]) + One(dout'[s].valid) + One(rx'.valid)
                    + Len(path')
  BY DEF Under
<1>10. Under(s) = left[s] + Len(engine_fifo[s]) + One(dout[s].valid) + One(rx.valid) + Len(path)
  BY DEF Under
<1> DEFINE l == left[s]
           e == Len(engine_fifo[s])
           d == One(dout[s].valid)
           x == One(rx.valid)
           p == Len(path)
           o == One(out)
           i == One(in)
<1>11. Under(s)' = (l - i) + (e - o + i) + o + d + (p + x)
  BY <1>3, <1>4, <1>5, <1>6, <1>7, <1>9, Zenon
<1>12. Under(s) = l + e + d + x + p
  BY <1>10
<1>13. l \in Int /\ e \in Int /\ d \in Int /\ x \in Int /\ p \in Int /\ o \in Int /\ i \in Int
  BY <1>8
<1> HIDE DEF l, e, d, x, p, o, i
<1> QED
  BY <1>11, <1>12, <1>13

LEMMA FlowMem ==
  ASSUME TypeInv, CommandInv, Paced, MemTick
  PROVE  FlowInv'
<1>1. CASE ctrl = "ISSUE_CMD"
  BY <1>1, IssueStep
<1>2. CASE ctrl # "ISSUE_CMD" /\ Between
  <2>1. Between'
    BY <1>2, HostStep DEF MemTick, CommandInv
  <2> QED
    BY <2>1 DEF FlowInv
<1>3. CASE ctrl # "ISSUE_CMD" /\ ~Between
  <2>1. /\ cmd' = cmd /\ read_start' = NoPulse /\ issued' = issued
    BY <1>3, HostStep DEF MemTick, CommandInv
  <2>2. /\ issued = cmd /\ Own /\ (Issued \/ Flowing)
        /\ sender.state = "IDLE" => sender.taken = 0
        /\ sender.state = "GEN_PULSE" => sender.taken = Beats
        /\ sender.state # "IDLE" => sender.id = cmd.id
    BY <1>3 DEF CommandInv, FlowInv, Own
  <2>3. Own'
    BY <2>1, <2>2, OwnStep
  <2>4. sender' = sender
    BY DEF MemTick, pixVars
  <2>5. PICK fetching \in SUBSET CanFetch : Engines(fetching)
    BY DEF MemTick
  <2>6. ~wps_send_done_r /\ cmd.source \in Sources
    BY <1>3 DEF CommandInv, DoneInv, TypeInv, TypeOK, Command
  <2>7. CASE Issued
    <3>1. data_mux' = cmd.source
      BY <2>6, <2>7 DEF Issued, MemTick, Mux, NextMux, Sources
    <3>2. ASSUME NEW s \in Sources
          PROVE  /\ left'[s] = IF s = cmd.source THEN Beats ELSE 0
                 /\ engine_fifo'[s] = << >> /\ ~dout'[s].valid
      <4>1. EngineIdle(s) /\ (read_start[s] <=> s = cmd.source)
        BY <2>7 DEF Issued, AllIdle
      <4> QED
        BY <2>5, <4>1, IdleStep
    <3>3. ~rx'.valid /\ path' = << >>
      BY <2>7 DEF Issued, AllIdle, EngineIdle, MemTick, Mux, TypeInv, TypeOK
    <3>4. sender.taken = 0
      BY <2>2, <2>7 DEF Issued
    <3>5. Under(cmd.source)' = Beats
      <4>1. PICK s \in Sources : s = cmd.source
        BY <2>6
      <4>2. left'[s] = Beats /\ engine_fifo'[s] = << >> /\ ~dout'[s].valid
        BY <3>2, <4>1
      <4>3. Under(s)' = Beats
        BY <3>3, <4>2, BeatsAssumption DEF Under, One
      <4> QED
        BY <2>1, <4>1, <4>3 DEF Under
    <3>6. \A s \in Sources : s # cmd.source => EngineIdle(s)'
      BY <3>2 DEF EngineIdle
    <3>7. Flowing'
      BY <2>1, <2>4, <3>1, <3>4, <3>5, <3>6, BeatsAssumption DEF Flowing, NoPulse
    <3> QED
      BY <2>1, <2>2, <2>3, <2>4, <3>7 DEF FlowInv, Own
  <2>8. CASE Flowing
    <3>1. data_mux = cmd.source /\ \A s \in Sources : ~read_start[s]
      BY <2>8 DEF Flowing, NoPulse
    <3>2. data_mux' = cmd.source
      BY <2>6, <3>1 DEF MemTick, Mux, NextMux, Sources
    <3>3. ASSUME NEW s \in Sources, s # cmd.source
          PROVE  EngineIdle(s)'
      <4>1. EngineIdle(s) /\ ~read_start[s]
        BY <2>8, <3>1, <3>3 DEF Flowing
      <4> QED
        BY <2>5, <4>1, IdleStep DEF EngineIdle
    <3>4. Under(cmd.source)' = Under(cmd.source)
      <4>1. PICK s \in Sources : s = cmd.source
        BY <2>6
      <4>2. Under(s)' = Under(s)
        BY <3>1, <4>1, UnderStep
      <4> QED
        BY <2>1, <4>1, <4>2 DEF Under
    <3>5. Flowing'
      BY <2>1, <2>4, <2>8, <3>2, <3>3, <3>4 DEF Flowing, NoPulse
    <3> QED
      BY <2>1, <2>2, <2>3, <2>4, <3>5 DEF FlowInv, Own
  <2> QED
    BY <2>2, <2>7, <2>8
<1> QED
  BY <1>1, <1>2, <1>3

(* A cycle of the pixel clock takes one beat or none.                      *)
LEMMA FlowPix ==
  ASSUME TypeInv, CommandInv, PixTick
  PROVE  FlowInv'
<1> SUFFICES ASSUME ~Between' PROVE FlowInv'
  BY DEF FlowInv
<1>0. /\ UNCHANGED <<host, ctrl, cmd, issued, read_start, send_start, left, engine_fifo,
                     dout, data_mux, rx>>
      /\ sender \in [state : {"IDLE", "WAIT_DATA", "SEND", "GEN_PULSE"}, id : Ids,
                     taken : 0 .. Beats]
      /\ path \in Seq(Ids) /\ Beats \in Nat \ {0}
  BY BeatsAssumption DEF PixTick, memVars, engineVars, muxVars, TypeInv, TypeOK
<1>1. ~Between
  <2>1. sent => sent'
    BY DEF PixTick, SenderWorks, Idle, WaitData, Send, GenPulse, Busy
  <2> QED
    BY <1>0, <2>1 DEF Between
<1>2. /\ issued = cmd /\ Own /\ (Issued \/ Flowing)
      /\ sender.state = "IDLE" => sender.taken = 0
      /\ sender.state = "GEN_PULSE" => sender.taken = Beats
      /\ sender.state # "IDLE" => sender.id = cmd.id
  BY <1>1 DEF CommandInv, FlowInv, Own
<1>3. ASSUME sender'.taken = sender.taken, path' = path,
             sender'.state = "IDLE" <=> sender.state = "IDLE",
             sender'.state = "GEN_PULSE" <=> sender.state = "GEN_PULSE",
             sender'.id = sender.id
      PROVE  FlowInv'
  <2>1. Issued => Issued'
    BY <1>0, <1>3 DEF Issued, AllIdle, EngineIdle
  <2>2. Flowing => Flowing'
    BY <1>0, <1>3 DEF Flowing, EngineIdle, Under, NoPulse
  <2> QED
    BY <1>0, <1>2, <1>3, <2>1, <2>2 DEF FlowInv, Own
<1>4. CASE Idle
  <2>1. CASE start_r[2]
    <3>1. sender' = [state |-> "WAIT_DATA", id |-> issued.id, taken |-> 0] /\ path' = path
      BY <1>4, <2>1 DEF Idle
    <3>2. sender.taken = 0 /\ Flowing
      BY <1>2, <1>4, <2>1 DEF Idle, Issued, CommandInv, StartInv
    <3>3. Flowing'
      BY <1>0, <3>1, <3>2 DEF Flowing, EngineIdle, Under, NoPulse
    <3> QED
      BY <1>0, <1>2, <3>1, <3>3 DEF FlowInv, Own
  <2>2. CASE ~start_r[2]
    BY <1>3, <1>4, <2>2 DEF Idle
  <2> QED
    BY <2>1, <2>2
<1>5. CASE WaitData
  BY <1>0, <1>3, <1>5 DEF WaitData
<1>6. CASE Send
  <2>1. /\ sender.state = "SEND" /\ path # << >> /\ path' = Tail(path)
        /\ sender' = [sender EXCEPT !.taken = sender.taken + 1,
                                    !.state = IF sender.taken + 1 = Beats
                                              THEN "GEN_PULSE" ELSE "SEND"]
    BY <1>6 DEF Send, IsLast
  <2>2. /\ sender'.taken = sender.taken + 1 /\ sender'.id = sender.id
        /\ sender'.state \in {"SEND", "GEN_PULSE"}
        /\ sender'.state = "GEN_PULSE" => sender.taken + 1 = Beats
    BY <1>0, <2>1
  <2>3. path' \in Seq({cmd.id}) /\ Len(path') = Len(path) - 1
    <3>1. path \in Seq({cmd.id})
      BY <1>2 DEF Own
    <3> QED
      BY <2>1, <3>1
  <2>4. Flowing
    BY <1>2, <2>1 DEF Issued
  <2>5. Under(cmd.source)' = Under(cmd.source) - 1 /\ Under(cmd.source) \in Int
    <3>1. PICK s \in Sources : s = cmd.source
      BY DEF TypeInv, TypeOK, Command
    <3>2. /\ left[s] \in Int /\ Len(engine_fifo[s]) \in Int /\ Len(path) \in Int
          /\ One(dout[s].valid) \in Int /\ One(rx.valid) \in Int
      <4>1. left[s] \in Int
        BY <1>0 DEF TypeInv, TypeOK
      <4>2. Len(engine_fifo[s]) \in Int /\ Len(path) \in Int
        BY DEF TypeInv, TypeOK
      <4> QED
        BY <4>1, <4>2 DEF One
    <3>3. Under(s) = left[s] + Len(engine_fifo[s]) + One(dout[s].valid) + One(rx.valid)
                       + Len(path)
      BY DEF Under
    <3>4. Under(s)' = left[s] + Len(engine_fifo[s]) + One(dout[s].valid) + One(rx.valid)
                        + Len(path')
      BY <1>0 DEF Under, One
    <3> DEFINE rest == left[s] + Len(engine_fifo[s]) + One(dout[s].valid) + One(rx.valid)
               p == Len(path)
    <3>5. Under(s) = rest + p /\ Under(s)' = rest + (p - 1)
      BY <2>3, <3>3, <3>4, Zenon
    <3>6. rest \in Int /\ p \in Int
      BY <3>2
    <3> HIDE DEF rest, p
    <3>7. Under(s)' = Under(s) - 1 /\ Under(s) \in Int
      BY <3>5, <3>6
    <3> QED
      BY <1>0, <3>1, <3>7 DEF Under
  <2>6. Flowing'
    BY <1>0, <2>2, <2>4, <2>5 DEF Flowing, EngineIdle, NoPulse
  <2> QED
    BY <1>0, <1>2, <2>1, <2>2, <2>3, <2>6 DEF FlowInv, Own
<1>7. CASE GenPulse
  <2>1. sender.id = cmd.id
    BY <1>2, <1>7 DEF GenPulse
  <2>2. sent'
    BY <1>7, <2>1 DEF GenPulse
  <2> QED
    BY <2>2 DEF Between
<1>8. CASE Busy
  BY <1>0, <1>3, <1>8 DEF Busy
<1> QED
  BY <1>4, <1>5, <1>6, <1>7, <1>8 DEF PixTick, SenderWorks

LEMMA HostPix ==
  ASSUME TypeInv, CommandInv, PixTick
  PROVE  HostInv'
<1>1. UNCHANGED <<host, ctrl>> /\ HostInv
  BY DEF PixTick, memVars, CommandInv
<1>2. host = "start" \/ ctrl = "ISSUE_CMD" => sender.state = "IDLE"
  BY DEF CommandInv, BetweenInv, Between
<1>3. sender.state = "IDLE" => sent' = sent
  BY DEF PixTick, SenderWorks, Idle, WaitData, Send, GenPulse, Busy
<1> QED
  BY <1>1, <1>2, <1>3 DEF HostInv

(* Together: one command at a time, at every pace of the two clocks that   *)
(* is allowed.                                                             *)
LEMMA CommandStep == Paced /\ TypeInv /\ CommandInv /\ [Next]_vars => CommandInv'
<1> SUFFICES ASSUME Paced, TypeInv, CommandInv, [Next]_vars PROVE CommandInv'
  OBVIOUS
<1>1. CASE MemTick
  <2>1. HostInv'
    BY <1>1, HostStep DEF MemTick, CommandInv
  <2> QED
    BY <1>1, <2>1, StartMemStep, BetweenMem, DoneMem, FlowMem DEF CommandInv
<1>2. CASE PixTick
  BY <1>2, HostPix, StartPixStep, BetweenPix, DonePix, FlowPix DEF CommandInv
<1>3. CASE UNCHANGED vars
  BY <1>3 DEF vars, memVars, engineVars, muxVars, pixVars, CommandInv, HostInv, StartInv,
              StartGone, BetweenInv, Between, AllIdle, EngineIdle, DoneInv, FlowInv, Issued,
              Flowing, Under, One
<1> QED
  BY <1>1, <1>2, <1>3 DEF Next

LEMMA CommandSafe == TypeInv /\ CommandInv => NoBeatDropped /\ SendsOwnWords
<1> SUFFICES ASSUME TypeInv, CommandInv PROVE NoBeatDropped /\ SendsOwnWords
  OBVIOUS
<1>1. CASE Between
  BY <1>1 DEF CommandInv, BetweenInv, AllIdle, EngineIdle, NoBeatDropped, SendsOwnWords
<1>2. CASE ~Between
  <2>1. /\ Issued \/ Flowing
        /\ path \in Seq({cmd.id}) /\ (sender.state # "IDLE" => sender.id = cmd.id)
    BY <1>2 DEF CommandInv, FlowInv
  <2>2. NoBeatDropped
    BY <2>1 DEF Issued, Flowing, AllIdle, EngineIdle, NoBeatDropped
  <2>3. path # << >> => Head(path) = cmd.id
    BY <2>1
  <2> QED
    BY <2>1, <2>2, <2>3 DEF SendsOwnWords
<1> QED
  BY <1>1, <1>2

LEMMA CommandCorrect == Spec => [](Paced => CommandInv)
<1>1. Init => (Paced => CommandInv)
  BY CommandInit
<1>2. TypeInv /\ (Paced => CommandInv) /\ [Next]_vars => TypeInv' /\ (Paced => CommandInv)'
  <2>1. TypeInv /\ UNCHANGED vars => TypeInv'
    BY DEF vars, memVars, engineVars, muxVars, pixVars, TypeInv, TypeOK
  <2>2. TypeInv /\ [Next]_vars => TypeInv'
    BY <2>1, TypeMemTick, TypePixTick DEF Next
  <2>3. Paced' <=> Paced
    BY DEF Paced
  <2> QED
    BY <2>2, <2>3, CommandStep
<1> QED
  BY <1>1, <1>2, TypeInit, PTL DEF Spec

(* A beat that an engine hands over is never lost to the multiplexer, when *)
(* the host starts a command only after the last one has been sent and the *)
(* pixel clock is at least half as fast as mem_clk (148.5 and 250 MHz):    *)
(* for every length of a command and every depth of the FIFOs.             *)
THEOREM NothingDropped == Spec => [](Paced => NoBeatDropped)
<1>1. TypeInv /\ (Paced => CommandInv) => (Paced => NoBeatDropped)
  BY CommandSafe
<1>2. Spec => []TypeInv
  BY InductiveType
<1> QED
  BY <1>1, <1>2, CommandCorrect, PTL

(* Under the same conditions the sender finds the words of its own command *)
(* in front, and none that another command left behind.                    *)
THEOREM OwnWordsSent == Spec => [](Paced => SendsOwnWords)
<1>1. TypeInv /\ (Paced => CommandInv) => (Paced => SendsOwnWords)
  BY CommandSafe
<1>2. Spec => []TypeInv
  BY InductiveType
<1> QED
  BY <1>1, <1>2, CommandCorrect, PTL

-----------------------------------------------------------------------------
(* Induction, as a fact about sets.                                        *)

(* A set of naturals that holds 0, and with each number the next one, holds *)
(* all of them.                                                            *)
LEMMA AllNaturals ==
  ASSUME NEW T \in SUBSET Nat, 0 \in T, \A n \in T : n + 1 \in T
  PROVE  T = Nat
<1> DEFINE R == OpToRel(<, Nat)
           U == Nat \ T
<1>1. SUFFICES ASSUME U # {} PROVE FALSE
  OBVIOUS
<1>2. IsWellFoundedOn(R, Nat)
  BY NatLessThanWellFounded
<1>3. PICK x \in U : \A y \in U : ~ (<<y, x>> \in R)
  <2> HIDE DEF R
  <2> QED
    BY <1>1, <1>2, WFMin, Zenon
<1>4. x \in Nat /\ x # 0 /\ x - 1 \in Nat /\ x - 1 \notin T
  OBVIOUS
<1>5. <<x - 1, x>> \in R
  BY <1>4 DEF OpToRel
<1> QED
  BY <1>3, <1>4, <1>5

-----------------------------------------------------------------------------
(* The whole words of a sequence.                                          *)

WholeStep(x, before) == IF Whole(x) THEN Append(before, x.word) ELSE before

LEMMA WholeStepType ==
  ASSUME NEW x \in Word, NEW before \in Seq(WordIds)
  PROVE  WholeStep(x, before) \in Seq(WordIds)
BY DEF WholeStep, Word

(* WholeWords is what its recursive definition says: the last of a row of  *)
(* sequences, each one step of a word after the one before.                *)
LEMMA WholeWordsDef ==
  ASSUME NEW s \in Seq(Word)
  PROVE  \E f \in [0 .. Len(s) -> Seq(WordIds)] :
           /\ f[0] = << >>
           /\ \A n \in 1 .. Len(s) : f[n] = WholeStep(s[n], f[n - 1])
           /\ WholeWords(s) = f[Len(s)]
<1> DEFINE Row(f, n) == /\ f \in [0 .. n -> Seq(WordIds)]
                        /\ f[0] = << >>
                        /\ \A k \in 1 .. n : f[k] = WholeStep(s[k], f[k - 1])
           T == {n \in Nat : n <= Len(s) => \E f : Row(f, n)}
<1>1. 0 \in T
  <2> DEFINE g == [k \in 0 .. 0 |-> << >>]
  <2>1. << >> \in Seq(WordIds)
    BY EmptySeq
  <2>2. g \in [0 .. 0 -> Seq(WordIds)]
    BY <2>1
  <2>3. g[0] = << >>
    OBVIOUS
  <2>4. ASSUME NEW k \in 1 .. 0 PROVE g[k] = WholeStep(s[k], g[k - 1])
    <3>1. k \in Int /\ 1 <= k /\ k <= 0
      BY <2>4
    <3> QED
      BY <3>1
  <2>5. Row(g, 0)
    BY <2>2, <2>3, <2>4, Zenon
  <2> HIDE DEF g, Row
  <2> QED
    BY <2>5
<1>2. ASSUME NEW n \in T PROVE n + 1 \in T
  <2>1. SUFFICES ASSUME n + 1 <= Len(s) PROVE \E f : Row(f, n + 1)
    <3> HIDE DEF Row
    <3> QED
      OBVIOUS
  <2>2. n \in Nat /\ n <= Len(s)
    BY <2>1
  <2>3. PICK f : Row(f, n)
    <3> HIDE DEF Row
    <3> QED
      BY <1>2, <2>2
  <2> DEFINE w == WholeStep(s[n + 1], f[n])
             g == [k \in 0 .. n + 1 |-> IF k = n + 1 THEN w ELSE f[k]]
  <2>4. w \in Seq(WordIds)
    <3>1. s[n + 1] \in Word /\ f[n] \in Seq(WordIds)
      BY <2>1, <2>2, <2>3
    <3> QED
      BY <3>1, WholeStepType
  <2>5. ASSUME NEW k \in 0 .. n PROVE g[k] = f[k]
    BY <2>2
  <2>6. g[n + 1] = w
    BY <2>2
  <2>7. g \in [0 .. n + 1 -> Seq(WordIds)]
    <3> HIDE DEF w
    <3> QED
      BY <2>2, <2>3, <2>4
  <2> HIDE DEF g
  <2>8. ASSUME NEW k \in 1 .. n + 1 PROVE g[k] = WholeStep(s[k], g[k - 1])
    <3>1. CASE k = n + 1
      <4>1. g[k - 1] = f[n]
        BY <2>2, <2>5, <3>1
      <4> QED
        BY <2>6, <3>1, <4>1
    <3>2. CASE k \in 1 .. n
      <4>1. g[k] = f[k] /\ g[k - 1] = f[k - 1]
        BY <2>2, <2>5, <3>2
      <4> QED
        BY <2>3, <3>2, <4>1
    <3> QED
      BY <2>2, <3>1, <3>2
  <2>9. g[0] = << >>
    BY <2>2, <2>3, <2>5
  <2>10. Row(g, n + 1)
    BY <2>7, <2>8, <2>9, Zenon
  <2> HIDE DEF Row
  <2> QED
    BY <2>10
<1>3. T = Nat
  <2> HIDE DEF T
  <2>1. T \in SUBSET Nat
    BY DEF T
  <2> QED
    BY <1>1, <1>2, <2>1, AllNaturals
<1>4. Len(s) \in Nat
  OBVIOUS
<1>5. PICK f : Row(f, Len(s))
  <2> HIDE DEF Row
  <2>1. Len(s) \in T
    BY <1>3, <1>4
  <2> QED
    BY <2>1, <1>4
<1> DEFINE D(g) == [n \in 0 .. Len(s) |->
                      IF n = 0 THEN << >>
                      ELSE IF Whole(s[n]) THEN Append(g[n - 1], s[n].word) ELSE g[n - 1]]
           c == CHOOSE g : g = D(g)
<1>6. f = D(f)
  <2>1. \A n \in 1 .. Len(s) : f[n] = IF Whole(s[n]) THEN Append(f[n - 1], s[n].word)
                                                     ELSE f[n - 1]
    BY <1>5 DEF WholeStep
  <2>2. f[0] = << >>
    BY <1>5
  <2>3. ASSUME NEW n \in 0 .. Len(s) PROVE f[n] = D(f)[n]
    <3>1. n = 0 \/ n \in 1 .. Len(s)
      BY <1>4
    <3> QED
      BY <2>1, <2>2, <3>1
  <2>4. f = [n \in 0 .. Len(s) |-> f[n]]
    BY <1>5
  <2> QED
    BY <2>3, <2>4
<1>7. c = D(c)
  <2> HIDE DEF D
  <2> QED
    BY <1>6, Zenon
<1>8. WholeWords(s) = c[Len(s)]
  BY DEF WholeWords
<1> HIDE DEF c
<1>9. ASSUME NEW n \in 1 .. Len(s) PROVE c[n] = WholeStep(s[n], c[n - 1])
  <2>1. n \in 0 .. Len(s) /\ n # 0
    BY <1>4
  <2>2. D(c)[n] = WholeStep(s[n], c[n - 1])
    BY <2>1 DEF WholeStep
  <2> HIDE DEF D
  <2> QED
    BY <1>7, <2>2
<1>10. c[0] = << >>
  <2>1. D(c)[0] = << >>
    BY <1>4
  <2> HIDE DEF D
  <2> QED
    BY <1>7, <2>1
<1>11. c \in [0 .. Len(s) -> Seq(WordIds)]
  <2> DEFINE V == {n \in Nat : n <= Len(s) => c[n] \in Seq(WordIds)}
  <2>1. 0 \in V
    BY <1>10, EmptySeq
  <2>2. ASSUME NEW n \in V PROVE n + 1 \in V
    <3>1. SUFFICES ASSUME n + 1 <= Len(s) PROVE c[n + 1] \in Seq(WordIds)
      OBVIOUS
    <3>2. c[n] \in Seq(WordIds) /\ n + 1 \in 1 .. Len(s) /\ s[n + 1] \in Word
      BY <1>4, <2>2, <3>1
    <3>3. c[n + 1] = WholeStep(s[n + 1], c[n])
      BY <1>9, <3>2
    <3> QED
      BY <3>2, <3>3, WholeStepType
  <2>3. V = Nat
    <3> HIDE DEF V
    <3>1. V \in SUBSET Nat
      BY DEF V
    <3> QED
      BY <2>1, <2>2, <3>1, AllNaturals
  <2>4. \A n \in 0 .. Len(s) : c[n] \in Seq(WordIds)
    BY <1>4, <2>3
  <2>5. c = [n \in 0 .. Len(s) |-> c[n]]
    <3>1. D(c) = [n \in 0 .. Len(s) |-> D(c)[n]]
      OBVIOUS
    <3> HIDE DEF D
    <3> QED
      BY <1>7, <3>1
  <2> QED
    BY <2>4, <2>5
<1> QED
  BY <1>8, <1>9, <1>10, <1>11

(* One more word at the end, or none of any.                               *)
LEMMA WholeWordsAppend ==
  ASSUME NEW s \in Seq(Word), NEW x \in Word
  PROVE  /\ WholeWords(s) \in Seq(WordIds)
         /\ WholeWords(Append(s, x)) = WholeStep(x, WholeWords(s))
<1> DEFINE t == Append(s, x)
           m == Len(s)
<1>1. /\ t \in Seq(Word) /\ Len(t) = m + 1 /\ m \in Nat
      /\ \A i \in 1 .. m : t[i] = s[i]
      /\ t[m + 1] = x
  BY AppendProperties
<1>2. PICK f \in [0 .. m -> Seq(WordIds)] :
        /\ f[0] = << >>
        /\ \A n \in 1 .. m : f[n] = WholeStep(s[n], f[n - 1])
        /\ WholeWords(s) = f[m]
  BY WholeWordsDef
<1> HIDE DEF t
<1>3. PICK g \in [0 .. m + 1 -> Seq(WordIds)] :
        /\ g[0] = << >>
        /\ \A n \in 1 .. m + 1 : g[n] = WholeStep(t[n], g[n - 1])
        /\ WholeWords(t) = g[m + 1]
  BY <1>1, WholeWordsDef
<1> DEFINE T == {n \in Nat : n <= m => g[n] = f[n]}
<1>4. 0 \in T
  BY <1>2, <1>3
<1>5. ASSUME NEW n \in T PROVE n + 1 \in T
  <2>1. SUFFICES ASSUME n + 1 <= m PROVE g[n + 1] = f[n + 1]
    OBVIOUS
  <2>2. n + 1 \in 1 .. m /\ n + 1 \in 1 .. m + 1 /\ (n + 1) - 1 = n /\ g[n] = f[n]
    BY <1>1, <1>5, <2>1
  <2>3. f[n + 1] = WholeStep(s[n + 1], f[n])
    BY <1>2, <2>2
  <2>4. g[n + 1] = WholeStep(t[n + 1], g[n])
    BY <1>3, <2>2
  <2> QED
    BY <1>1, <2>2, <2>3, <2>4
<1>6. T = Nat
  <2>1. T \in SUBSET Nat
    BY DEF T
  <2> HIDE DEF T
  <2> QED
    BY <1>4, <1>5, <2>1, AllNaturals
<1>7. g[m] = f[m]
  BY <1>1, <1>6
<1>8. m + 1 \in 1 .. m + 1 /\ (m + 1) - 1 = m /\ m \in 0 .. m
  BY <1>1
<1>9. g[m + 1] = WholeStep(t[m + 1], g[m])
  BY <1>3, <1>8
<1>10. f[m] \in Seq(WordIds)
  BY <1>2, <1>8
<1> QED
  BY <1>1, <1>2, <1>3, <1>7, <1>9, <1>10 DEF t

LEMMA WholeWordsEmpty == WholeWords(<< >>) = << >>
<1>1. << >> \in Seq(Word) /\ Len(<< >>) = 0
  BY EmptySeq
<1>2. PICK f : f[0] = << >> /\ WholeWords(<< >>) = f[0]
  BY <1>1, WholeWordsDef
<1> QED
  BY <1>2

LEMMA WholeWordsOne ==
  ASSUME NEW x \in Word
  PROVE  WholeWords(<<x>>) = IF Whole(x) THEN <<x.word>> ELSE << >>
<1>1. << >> \in Seq(Word)
  BY EmptySeq
<1>2. <<x>> = Append(<< >>, x)
  OBVIOUS
<1>3. WholeWords(<<x>>) = WholeStep(x, << >>)
  BY <1>1, <1>2, WholeWordsAppend, WholeWordsEmpty
<1>4. Append(<< >>, x.word) = <<x.word>>
  OBVIOUS
<1> QED
  BY <1>3, <1>4 DEF WholeStep

(* A word behind two sequences is a word behind the second.               *)
LEMMA AppendToConcat ==
  ASSUME NEW a \in Seq(WordIds), NEW b \in Seq(WordIds), NEW e \in WordIds
  PROVE  Append(a \o b, e) = a \o Append(b, e)
<1>1. Append(b, e) \in Seq(WordIds) /\ a \o b \in Seq(WordIds)
  BY AppendProperties, ConcatProperties
<1> DEFINE l == Append(a \o b, e)
           r == a \o Append(b, e)
<1>2. l \in Seq(WordIds) /\ r \in Seq(WordIds)
  BY <1>1, AppendProperties, ConcatProperties
<1>3. Len(l) = Len(a) + Len(b) + 1 /\ Len(r) = Len(l)
  BY <1>1, AppendProperties, ConcatProperties
<1>4. ASSUME NEW i \in 1 .. Len(l) PROVE l[i] = r[i]
  <2>1. /\ Len(a) \in Nat /\ Len(b) \in Nat /\ Len(a \o b) = Len(a) + Len(b)
        /\ Len(Append(b, e)) = Len(b) + 1
    BY ConcatProperties, AppendProperties
  <2>2. /\ i \in Nat /\ 1 <= i /\ i <= Len(a) + Len(b) + 1
        /\ i <= Len(a) + Len(b) => i \in 1 .. Len(a) + Len(b) /\ i \in 1 .. Len(a \o b)
        /\ i \in 1 .. Len(a) + Len(Append(b, e))
    BY <1>3, <2>1
  <2>3. r[i] = IF i <= Len(a) THEN a[i] ELSE Append(b, e)[i - Len(a)]
    BY <1>1, <2>1, <2>2, ConcatProperties
  <2>4. CASE i <= Len(a) + Len(b)
    <3>1. l[i] = (a \o b)[i]
      BY <1>1, <2>1, <2>2, <2>4, AppendProperties
    <3>2. (a \o b)[i] = IF i <= Len(a) THEN a[i] ELSE b[i - Len(a)]
      BY <2>1, <2>2, <2>4, ConcatProperties
    <3>3. i > Len(a) => Append(b, e)[i - Len(a)] = b[i - Len(a)]
      BY <2>1, <2>2, <2>4, AppendProperties
    <3> QED
      BY <2>3, <3>1, <3>2, <3>3
  <2>5. CASE i = Len(a) + Len(b) + 1
    <3>1. l[i] = e
      BY <1>1, <2>1, <2>5, AppendProperties
    <3>2. i - Len(a) = Len(b) + 1 /\ ~(i <= Len(a))
      BY <2>1, <2>5
    <3> QED
      BY <2>3, <3>1, <3>2, AppendProperties
  <2> QED
    BY <2>1, <2>2, <2>4, <2>5
<1> HIDE DEF l, r
<1>5. l = r
  BY <1>2, <1>3, <1>4, SeqEqual
<1> QED
  BY <1>5 DEF l, r

LEMMA WholeStepConcat ==
  ASSUME NEW a \in Seq(WordIds), NEW b \in Seq(WordIds), NEW x \in Word
  PROVE  WholeStep(x, a \o b) = a \o WholeStep(x, b)
<1>1. x.word \in WordIds
  BY DEF Word
<1> DEFINE e == x.word
<1> HIDE DEF e
<1>2. Append(a \o b, e) = a \o Append(b, e)
  BY <1>1, AppendToConcat DEF e
<1> QED
  BY <1>2 DEF WholeStep, e

LEMMA NoWordType == NoWord \in Word /\ 0 \in WordIds
BY PatternAssumption DEF NoWord, Word, WordIds

(* The whole words of two sequences, one behind the other.                 *)
LEMMA WholeWordsConcat ==
  ASSUME NEW s \in Seq(Word), NEW t \in Seq(Word)
  PROVE  WholeWords(s \o t) = WholeWords(s) \o WholeWords(t)
<1> DEFINE Q(u) == WholeWords(s \o u) = WholeWords(s) \o WholeWords(u)
           T == {n \in Nat : \A u \in Seq(Word) : Len(u) = n => Q(u)}
<1>1. << >> \in Seq(WordIds) /\ << >> \in Seq(Word) /\ WholeWords(s) \in Seq(WordIds)
  <2>1. NoWord \in Word
    BY NoWordType
  <2> QED
    BY <2>1, WholeWordsAppend, EmptySeq
<1>2. 0 \in T
  <2> SUFFICES ASSUME NEW u \in Seq(Word), Len(u) = 0 PROVE Q(u)
    OBVIOUS
  <2>1. u = << >>
    BY EmptySeq
  <2>2. s \o u = s /\ WholeWords(s) \o << >> = WholeWords(s)
    BY <1>1, <2>1, ConcatEmptySeq
  <2> QED
    BY <2>1, <2>2, WholeWordsEmpty
<1>3. ASSUME NEW n \in T PROVE n + 1 \in T
  <2> SUFFICES ASSUME NEW u \in Seq(Word), Len(u) = n + 1 PROVE Q(u)
    OBVIOUS
  <2>1. u # << >>
    OBVIOUS
  <2>2. PICK v \in Seq(Word), x \in Word : u = Append(v, x)
    BY <2>1, SequenceEmptyOrAppend
  <2>3. Len(v) = n
    BY <2>2, AppendProperties
  <2>4. Q(v)
    BY <1>3, <2>3
  <2>5. s \o u = Append(s \o v, x) /\ s \o v \in Seq(Word)
    BY <2>2, ConcatProperties
  <2>6. WholeWords(s \o u) = WholeStep(x, WholeWords(s) \o WholeWords(v))
    BY <2>4, <2>5, WholeWordsAppend
  <2>7. WholeWords(u) = WholeStep(x, WholeWords(v)) /\ WholeWords(v) \in Seq(WordIds)
    BY <2>2, WholeWordsAppend
  <2>8. WholeStep(x, WholeWords(s) \o WholeWords(v)) = WholeWords(s) \o WholeStep(x, WholeWords(v))
    <3> HIDE DEF T
    <3> QED
      BY <1>1, <2>7, WholeStepConcat
  <2> QED
    BY <2>6, <2>7, <2>8
<1>4. T = Nat
  <2>1. T \in SUBSET Nat
    BY DEF T
  <2> HIDE DEF T
  <2> QED
    BY <1>2, <1>3, <2>1, AllNaturals
<1>5. Len(t) \in T
  BY <1>4
<1> QED
  BY <1>5

(* The words of a beat, and the numbers of its whole ones.                 *)
LEMMA WordsOfType ==
  ASSUME next_word \in WordIds, NEW valid \in ByteValids
  PROVE  /\ WordsOf(valid) \in Seq(Word)
         /\ Len(WordsOf(valid)) = WordsPerBeat
<1> DEFINE W == WordsOf(valid)
<1>1. WordsPerBeat \in Nat /\ WordMod \in Nat /\ WordMod > 0
      /\ valid \in [1 .. 2 * WordsPerBeat -> BOOLEAN]
  BY PatternAssumption
<1>2. ASSUME NEW i \in 1 .. WordsPerBeat PROVE W[i] \in Word
  <2> DEFINE c == Cardinality({j \in 1 .. i - 1 : valid[2 * j - 1] /\ valid[2 * j]})
  <2>1. c \in Nat
    <3> DEFINE U == {j \in 1 .. i - 1 : valid[2 * j - 1] /\ valid[2 * j]}
    <3>1. U \in SUBSET (1 .. i - 1) /\ IsFiniteSet(1 .. i - 1)
      BY FS_Interval
    <3> QED
      BY <3>1, FS_Subset, FS_CardinalityType
  <2>2. valid[2 * i - 1] \in BOOLEAN /\ valid[2 * i] \in BOOLEAN
    <3>1. 2 * i - 1 \in 1 .. 2 * WordsPerBeat /\ 2 * i \in 1 .. 2 * WordsPerBeat
      BY <1>1
    <3> QED
      BY <1>1, <3>1
  <2>3. W[i] = [hi |-> valid[2 * i - 1], lo |-> valid[2 * i],
                word |-> IF valid[2 * i - 1] /\ valid[2 * i]
                         THEN (next_word + c) % WordMod ELSE 0]
    BY Zenon DEF WordsOf
  <2> HIDE DEF W, c
  <2>4. (next_word + c) % WordMod \in WordIds /\ 0 \in WordIds
    BY <1>1, <2>1 DEF WordIds
  <2> QED
    BY <2>2, <2>3, <2>4 DEF Word
<1>3. W = [i \in 1 .. WordsPerBeat |-> W[i]]
  BY DEF WordsOf
<1> HIDE DEF W
<1>4. W \in [1 .. WordsPerBeat -> Word]
  BY <1>2, <1>3
<1> QED
  BY <1>1, <1>4 DEF W

LEMMA WholeOfBeat ==
  ASSUME next_word \in WordIds, NEW valid \in ByteValids
  PROVE  /\ WholeOf(valid) \in Nat
         /\ WholeWords(WordsOf(valid)) = Promise!Numbers(WholeOf(valid))
<1> DEFINE W == WordsOf(valid)
           U(n) == {j \in 1 .. n : valid[2 * j - 1] /\ valid[2 * j]}
           C(n) == Cardinality(U(n))
           N(c) == Promise!Numbers(c)
<1>1. WordsPerBeat \in Nat /\ WordMod \in Nat /\ WordMod > 0 /\ next_word \in Nat
  BY PatternAssumption DEF WordIds
<1>2. W \in Seq(Word) /\ Len(W) = WordsPerBeat
  BY WordsOfType
<1>3. PICK f \in [0 .. Len(W) -> Seq(WordIds)] :
        /\ f[0] = << >>
        /\ \A n \in 1 .. Len(W) : f[n] = WholeStep(W[n], f[n - 1])
        /\ WholeWords(W) = f[Len(W)]
  <2> HIDE DEF W
  <2> QED
    BY <1>2, WholeWordsDef
<1>4. ASSUME NEW n \in Nat
      PROVE  /\ C(n) \in Nat
             /\ C(n + 1) = IF valid[2 * (n + 1) - 1] /\ valid[2 * (n + 1)]
                           THEN C(n) + 1 ELSE C(n)
  <2>1. IsFiniteSet(1 .. n) /\ U(n) \in SUBSET (1 .. n)
    BY FS_Interval
  <2>2. IsFiniteSet(U(n)) /\ C(n) \in Nat
    BY <2>1, FS_Subset, FS_CardinalityType
  <2>3. n + 1 \notin U(n)
    OBVIOUS
  <2>4. U(n + 1) = IF valid[2 * (n + 1) - 1] /\ valid[2 * (n + 1)]
                   THEN U(n) \cup {n + 1} ELSE U(n)
    <3>1. 1 .. n + 1 = (1 .. n) \cup {n + 1}
      OBVIOUS
    <3> QED
      BY <3>1, Zenon
  <2> HIDE DEF U
  <2> QED
    BY <2>2, <2>3, <2>4, FS_AddElement
<1>5. C(0) = 0
  <2>1. U(0) = {}
    OBVIOUS
  <2> QED
    BY <2>1, FS_EmptySet
<1>6. ASSUME NEW i \in 1 .. WordsPerBeat
      PROVE  /\ Whole(W[i]) <=> valid[2 * i - 1] /\ valid[2 * i]
             /\ Whole(W[i]) => W[i].word = (next_word + C(i - 1)) % WordMod
  <2>1. W[i] = [hi |-> valid[2 * i - 1], lo |-> valid[2 * i],
                word |-> IF valid[2 * i - 1] /\ valid[2 * i]
                         THEN (next_word + C(i - 1)) % WordMod ELSE 0]
    BY Zenon DEF WordsOf
  <2> HIDE DEF W, C
  <2> QED
    BY <2>1 DEF Whole
<1> HIDE DEF W, C
<1>7. ASSUME NEW c \in Nat
      PROVE  /\ N(c) \in Seq(WordIds)
             /\ Append(N(c), (next_word + c) % WordMod) = N(c + 1)
  <2>1. \A k \in Nat : (next_word + k) % WordMod \in WordIds
    BY <1>1 DEF WordIds
  <2>2. N(c) = [i \in 1 .. c |-> (next_word + i - 1) % WordMod]
        /\ N(c + 1) = [i \in 1 .. c + 1 |-> (next_word + i - 1) % WordMod]
    BY DEF Promise!Numbers
  <2>3. \A i \in Nat \ {0} : (next_word + i - 1) % WordMod \in WordIds
    <3> SUFFICES ASSUME NEW i \in Nat \ {0} PROVE (next_word + i - 1) % WordMod \in WordIds
      OBVIOUS
    <3>1. i - 1 \in Nat /\ next_word + (i - 1) = next_word + i - 1
      BY <1>1
    <3> QED
      BY <2>1, <3>1
  <2>4. N(c) \in Seq(WordIds) /\ Len(N(c)) = c
        /\ N(c + 1) \in Seq(WordIds) /\ Len(N(c + 1)) = c + 1
    <3> HIDE DEF N
    <3>1. N(c) \in [1 .. c -> WordIds] /\ N(c + 1) \in [1 .. c + 1 -> WordIds]
      BY <2>2, <2>3
    <3> QED
      BY <3>1
  <2> DEFINE e == (next_word + c) % WordMod
  <2>5. e \in WordIds
    BY <2>1
  <2>6. next_word + (c + 1) - 1 = next_word + c
    BY <1>1
  <2>7. N(c + 1)[c + 1] = e /\ \A i \in 1 .. c : N(c + 1)[i] = N(c)[i]
    BY <2>2, <2>6
  <2> HIDE DEF N, e
  <2>8. /\ Append(N(c), e) \in Seq(WordIds) /\ Len(Append(N(c), e)) = c + 1
        /\ \A i \in 1 .. c : Append(N(c), e)[i] = N(c)[i]
        /\ Append(N(c), e)[c + 1] = e
    BY <2>4, <2>5, AppendProperties
  <2>9. ASSUME NEW i \in 1 .. c + 1 PROVE Append(N(c), e)[i] = N(c + 1)[i]
    <3>1. i \in 1 .. c \/ i = c + 1
      OBVIOUS
    <3> QED
      BY <2>7, <2>8, <3>1
  <2>10. Append(N(c), e) = N(c + 1)
    BY <2>4, <2>8, <2>9, SeqEqual
  <2> QED
    BY <2>4, <2>10 DEF e
<1> DEFINE T == {n \in Nat : n <= WordsPerBeat => f[n] = N(C(n))}
<1>8. 0 \in T
  <2>1. N(0) = << >>
    BY DEF Promise!Numbers
  <2> HIDE DEF N
  <2> QED
    BY <1>3, <1>5, <2>1
<1> HIDE DEF N
<1>9. ASSUME NEW n \in T PROVE n + 1 \in T
  <2>1. SUFFICES ASSUME n + 1 <= WordsPerBeat PROVE f[n + 1] = N(C(n + 1))
    OBVIOUS
  <2>2. n \in Nat /\ n + 1 \in 1 .. WordsPerBeat /\ (n + 1) - 1 = n /\ f[n] = N(C(n))
    BY <1>1, <2>1
  <2>3. f[n + 1] = WholeStep(W[n + 1], f[n])
    BY <1>2, <1>3, <2>2
  <2>4. C(n) \in Nat
    BY <1>4, <2>2
  <2>5. CASE Whole(W[n + 1])
    <3>1. f[n + 1] = Append(f[n], (next_word + C(n)) % WordMod)
      BY <1>6, <2>2, <2>3, <2>5 DEF WholeStep
    <3>2. C(n + 1) = C(n) + 1
      BY <1>4, <1>6, <2>2, <2>5
    <3> QED
      BY <1>7, <2>2, <2>4, <3>1, <3>2
  <2>6. CASE ~Whole(W[n + 1])
    <3>1. f[n + 1] = f[n]
      BY <2>3, <2>6 DEF WholeStep
    <3>2. C(n + 1) = C(n)
      BY <1>4, <1>6, <2>2, <2>6
    <3> QED
      BY <2>2, <3>1, <3>2
  <2> QED
    BY <2>5, <2>6
<1>10. T = Nat
  <2>1. T \in SUBSET Nat
    BY DEF T
  <2> HIDE DEF T
  <2> QED
    BY <1>8, <1>9, <2>1, AllNaturals
<1>11. f[WordsPerBeat] = N(C(WordsPerBeat))
  BY <1>1, <1>10
<1>12. WholeOf(valid) = C(WordsPerBeat)
  BY DEF WholeOf, C
<1> QED
  BY <1>1, <1>2, <1>3, <1>4, <1>11, <1>12 DEF W, N

-----------------------------------------------------------------------------
(* Type correctness of the path.                                           *)

LEMMA PathTypeInit == PathInit => PathTypeOK
<1> SUFFICES ASSUME PathInit PROVE PathTypeOK
  OBVIOUS
<1> USE PatternAssumption, TicksAssumption DEF PathInit
<1>1. 0 \in WordIds /\ WordMod - 1 \in WordIds /\ NoWord \in Word
  BY NoWordType DEF WordIds
<1>2. << >> \in Seq(Word) /\ << >> \in Seq(WordIds) /\ Len(<< >>) = 0
  BY EmptySeq
<1>3. WordsPerBeat * BeatDepth \in Nat
  OBVIOUS
<1>4. /\ next_word \in WordIds /\ l1_fifo \in Seq(Word)
      /\ Len(l1_fifo) <= WordsPerBeat * BeatDepth
      /\ l1_fifo_dout \in Word /\ l1_fifo_rd_valid \in BOOLEAN
      /\ ping_fifo \in Seq(WordIds) /\ Len(ping_fifo) <= PingDepth
  <2> DEFINE room == WordsPerBeat * BeatDepth
  <2>1. room \in Nat /\ PingDepth \in Nat
    BY <1>3
  <2>2. /\ next_word = 0 /\ l1_fifo = << >> /\ l1_fifo_dout = NoWord
        /\ l1_fifo_rd_valid = FALSE /\ ping_fifo = << >>
    OBVIOUS
  <2> HIDE DEF room, PathInit
  <2>3. Len(l1_fifo) <= room /\ Len(ping_fifo) <= PingDepth
    BY <1>2, <2>1, <2>2
  <2> QED
    BY <1>1, <1>2, <2>2, <2>3 DEF room
<1>5. tx \in [valid : BOOLEAN, word : WordIds]
      /\ q \in [valid : BOOLEAN, word : WordIds]
  BY <1>1
<1>6. wr_used \in 0 .. PingDepth /\ rx_ready_out \in BOOLEAN
      /\ mem_ticks \in 0 .. MaxMemTicks /\ fed \in 0 .. Latency
  BY DEF Latency
<1> QED
  BY <1>4, <1>5, <1>6 DEF PathTypeOK

(* The gearbox: a beat goes into the first FIFO only when it has room.     *)
LEMMA PathTypeGearbox ==
  ASSUME PathTypeOK, Gearbox
  PROVE  /\ next_word' \in WordIds
         /\ l1_fifo' \in Seq(Word) /\ Len(l1_fifo') <= WordsPerBeat * BeatDepth
         /\ l1_fifo_dout' \in Word /\ l1_fifo_rd_valid' \in BOOLEAN
         /\ tx' \in [valid : BOOLEAN, word : WordIds]
<1> DEFINE ena == l1_fifo_rd_ena
           kept == IF ena THEN Tail(l1_fifo) ELSE l1_fifo
<1>1. /\ next_word \in WordIds /\ l1_fifo_dout \in Word
      /\ l1_fifo \in Seq(Word) /\ Len(l1_fifo) <= WordsPerBeat * BeatDepth
      /\ l1_fifo_rd_valid \in BOOLEAN /\ rx_ready_out \in BOOLEAN
  BY DEF PathTypeOK
<1>2. ena \in BOOLEAN /\ (ena => l1_fifo # << >>)
  BY <1>1 DEF l1_fifo_rd_ena
<1>3. kept \in Seq(Word) /\ Len(kept) <= Len(l1_fifo) /\ Len(kept) \in Nat
  BY <1>1, <1>2
<1>4. l1_fifo_dout' \in Word /\ l1_fifo_rd_valid' \in BOOLEAN
  BY <1>1, <1>2 DEF Gearbox
<1>5. tx' \in [valid : BOOLEAN, word : WordIds]
  <2> DEFINE v == l1_fifo_rd_valid /\ Whole(l1_fifo_dout)
  <2>1. v \in BOOLEAN /\ l1_fifo_dout.word \in WordIds
    BY <1>1 DEF Whole, Word
  <2>2. tx' = [valid |-> v, word |-> l1_fifo_dout.word]
    BY DEF Gearbox
  <2> HIDE DEF v
  <2> QED
    BY <2>1, <2>2
<1>6. WriteBeat(kept)
  BY DEF Gearbox
<1> HIDE DEF kept
<1>7. /\ next_word' \in WordIds
      /\ l1_fifo' \in Seq(Word) /\ Len(l1_fifo') <= WordsPerBeat * BeatDepth
  <2>1. CASE l1_fifo' = kept /\ UNCHANGED next_word
    BY <1>1, <1>3, <2>1, PatternAssumption
  <2>2. CASE /\ Len(l1_fifo) <= WordsPerBeat * (BeatDepth - 1)
             /\ \E valid \in ByteValids :
                  /\ l1_fifo' = kept \o WordsOf(valid)
                  /\ next_word' = (next_word + WholeOf(valid)) % WordMod
    <3>1. PICK valid \in ByteValids :
            /\ l1_fifo' = kept \o WordsOf(valid)
            /\ next_word' = (next_word + WholeOf(valid)) % WordMod
      BY <2>2
    <3>2. WordsOf(valid) \in Seq(Word) /\ Len(WordsOf(valid)) = WordsPerBeat
      BY <1>1, WordsOfType
    <3>3. l1_fifo' \in Seq(Word) /\ Len(l1_fifo') = Len(kept) + WordsPerBeat
      BY <1>3, <3>1, <3>2, ConcatProperties
    <3>4. WordsPerBeat * (BeatDepth - 1) + WordsPerBeat = WordsPerBeat * BeatDepth
          /\ WordsPerBeat * (BeatDepth - 1) \in Nat /\ WordsPerBeat \in Nat
      BY PatternAssumption
    <3>5. Len(l1_fifo') <= WordsPerBeat * BeatDepth
      <4>1. Len(l1_fifo) \in Nat
        BY <1>1
      <4> QED
        BY <1>3, <2>2, <3>3, <3>4, <4>1
    <3>6. WholeOf(valid) \in Nat
      BY <1>1, WholeOfBeat
    <3>7. next_word' \in WordIds
      BY <1>1, <3>1, <3>6, PatternAssumption DEF WordIds
    <3> QED
      BY <3>3, <3>5, <3>7
  <2> QED
    BY <1>6, <2>1, <2>2 DEF WriteBeat
<1> QED
  BY <1>4, <1>5, <1>7

LEMMA PathTypeNext ==
  ASSUME PathTypeOK, [PathNext]_pathVars
  PROVE  PathTypeOK'
<1>1. CASE WriteTick
  <2>1. Gearbox /\ FifoWrites /\ UNCHANGED q
        /\ mem_ticks < MaxMemTicks /\ mem_ticks' = mem_ticks + 1
    BY <1>1 DEF WriteTick, MemClock
  <2>2. fed' \in 0 .. Latency
    BY <1>1 DEF WriteTick, MemClock, PathTypeOK, Latency
  <2>3. mem_ticks' \in 0 .. MaxMemTicks
    BY <2>1, PatternAssumption, TicksAssumption DEF PathTypeOK
  <2>4. rx_ready_out' \in BOOLEAN /\ wr_used' \in 0 .. PingDepth
    BY <2>1, PatternAssumption, TicksAssumption DEF FifoWrites, ping_fifo_prefull, PathTypeOK
  <2>5. ping_fifo' \in Seq(WordIds) /\ Len(ping_fifo') <= PingDepth
    <3>1. tx.word \in WordIds
      BY DEF PathTypeOK
    <3> QED
      BY <2>1, <3>1, PatternAssumption, TicksAssumption DEF FifoWrites, PathTypeOK
  <2>6. q' \in [valid : BOOLEAN, word : WordIds]
    BY <2>1 DEF PathTypeOK
  <2> QED
    BY <2>1, <2>2, <2>3, <2>4, <2>5, <2>6, PathTypeGearbox DEF PathTypeOK
<1>2. CASE ReadTick
  <2>1. ping_fifo' \in Seq(WordIds) /\ Len(ping_fifo') <= PingDepth
        /\ q' \in [valid : BOOLEAN, word : WordIds]
    <3>1. CASE Read
      <4>1. ping_fifo \in Seq(WordIds) /\ Len(ping_fifo) <= PingDepth
            /\ q \in [valid : BOOLEAN, word : WordIds] /\ PingDepth \in Nat
        BY PatternAssumption, TicksAssumption DEF PathTypeOK
      <4>2. CASE ping_fifo = << >>
        BY <3>1, <4>1, <4>2 DEF Read
      <4>3. CASE ping_fifo # << >>
        <5>1. Head(ping_fifo) \in WordIds /\ Tail(ping_fifo) \in Seq(WordIds)
              /\ Len(Tail(ping_fifo)) = Len(ping_fifo) - 1
          BY <4>1, <4>3
        <5>2. q' = [valid |-> TRUE, word |-> Head(ping_fifo)]
              /\ ping_fifo' = Tail(ping_fifo)
          BY <3>1, <4>3 DEF Read
        <5> QED
          BY <4>1, <5>1, <5>2
      <4> QED
        BY <4>2, <4>3
    <3>2. CASE NoRead
      BY <3>2, PatternAssumption, TicksAssumption DEF NoRead, PathTypeOK
    <3> QED
      BY <1>2, <3>1, <3>2 DEF ReadTick, PixClock
  <2>2. mem_ticks' \in 0 .. MaxMemTicks
    BY <1>2, PatternAssumption, TicksAssumption DEF ReadTick, PixClock
  <2> QED
    BY <1>2, <2>1, <2>2 DEF ReadTick, PixClock, gearVars, PathTypeOK
<1>3. CASE PathReset
  <2>1. << >> \in Seq(Word) /\ << >> \in Seq(WordIds) /\ Len(<< >>) = 0
    BY EmptySeq
  <2>2. WordsPerBeat * BeatDepth \in Nat /\ PingDepth \in Nat
    BY PatternAssumption
  <2>3. /\ l1_fifo' \in Seq(Word) /\ Len(l1_fifo') <= WordsPerBeat * BeatDepth
        /\ ping_fifo' \in Seq(WordIds) /\ Len(ping_fifo') <= PingDepth
    BY <1>3, <2>1, <2>2 DEF PathReset
  <2>4. tx' \in [valid : BOOLEAN, word : WordIds]
    BY <1>3 DEF PathReset, PathTypeOK
  <2>5. /\ l1_fifo_rd_valid' \in BOOLEAN /\ rx_ready_out' \in BOOLEAN
        /\ wr_used' \in 0 .. PingDepth /\ fed' \in 0 .. Latency
    <3>1. l1_fifo_rd_valid' = FALSE /\ rx_ready_out' = TRUE /\ wr_used' = 0 /\ fed' = 0
      BY <1>3 DEF PathReset
    <3>2. wr_used' \in 0 .. PingDepth /\ fed' \in 0 .. 3
      BY <2>2, <3>1
    <3> QED
      BY <3>1, <3>2 DEF Latency
  <2> QED
    BY <1>3, <2>3, <2>4, <2>5 DEF PathReset, PathTypeOK
<1>4. CASE UNCHANGED pathVars
  BY <1>4 DEF pathVars, gearVars, PathTypeOK
<1> QED
  BY <1>1, <1>2, <1>3, <1>4 DEF PathNext

(* Every register of the path keeps to its width and both FIFOs to their   *)
(* depth, for every beat, depth, threshold and ratio of the two clocks.    *)
THEOREM PathTypeCorrect == PathSpec => []PathTypeOK
<1>1. PathInit => PathTypeOK
  BY PathTypeInit
<1>2. PathTypeOK /\ [PathNext]_pathVars => PathTypeOK'
  BY PathTypeNext
<1> QED
  BY <1>1, <1>2, PTL DEF PathSpec

-----------------------------------------------------------------------------
(* The threshold: what is on its way when it is reached still fits in.     *)

(* The threshold is looked at with a counter a cycle old, and two more     *)
(* registers lie between it and the first FIFO: with each of them that has *)
(* not seen it yet, a word less may be in the second FIFO.                 *)
OnItsWay ==
  Len(ping_fifo) + One(tx.valid) + One(l1_fifo_rd_valid)
    + One(rx_ready_out) + One(wr_used <= PingStop) <= PingStop + 5

LEMMA OnItsWayInit == PathInit => OnItsWay
<1> SUFFICES ASSUME PathInit PROVE OnItsWay
  OBVIOUS
<1>1. Len(ping_fifo) = 0 /\ tx.valid = FALSE /\ l1_fifo_rd_valid = FALSE
      /\ PingStop \in Nat
  BY PatternAssumption DEF PathInit
<1> QED
  BY <1>1 DEF OnItsWay, One

LEMMA OnItsWayNext ==
  ASSUME PathTypeOK, OnItsWay, [PathNext]_pathVars
  PROVE  OnItsWay'
<1>1. PingStop \in Nat /\ Len(ping_fifo) \in Nat /\ wr_used \in Nat
      /\ l1_fifo_rd_valid \in BOOLEAN /\ rx_ready_out \in BOOLEAN
      /\ tx.valid \in BOOLEAN
  BY PatternAssumption, TicksAssumption DEF PathTypeOK
<1>2. CASE WriteTick
  <2>1. Len(ping_fifo') <= Len(ping_fifo) + One(tx.valid) /\ Len(ping_fifo') \in Nat
    <3>1. tx.word \in WordIds /\ ping_fifo \in Seq(WordIds)
      BY DEF PathTypeOK
    <3> QED
      BY <1>1, <1>2, <3>1 DEF WriteTick, MemClock, FifoWrites, One
  <2>2. /\ tx'.valid => l1_fifo_rd_valid
        /\ l1_fifo_rd_valid' => rx_ready_out
        /\ rx_ready_out' = ~(wr_used > PingStop)
        /\ wr_used' = Len(ping_fifo)
    BY <1>2 DEF WriteTick, MemClock, Gearbox, l1_fifo_rd_ena, FifoWrites,
                ping_fifo_prefull
  <2>3. /\ One(tx'.valid) <= One(l1_fifo_rd_valid)
        /\ One(l1_fifo_rd_valid') <= One(rx_ready_out)
        /\ One(rx_ready_out') = One(wr_used <= PingStop)
        /\ One(wr_used' <= PingStop) = One(Len(ping_fifo) <= PingStop)
    <3>1. One(tx'.valid) <= One(l1_fifo_rd_valid)
          /\ One(l1_fifo_rd_valid') <= One(rx_ready_out)
      BY <1>1, <2>2 DEF One
    <3>2. rx_ready_out' <=> (wr_used <= PingStop)
      <4>1. (wr_used > PingStop) <=> ~(wr_used <= PingStop)
        BY <1>1
      <4> QED
        BY <2>2, <4>1, Zenon
    <3> QED
      BY <2>2, <3>1, <3>2 DEF One
  <2>4. \A b : One(b) \in 0 .. 1
    BY DEF One
  <2>5. Len(ping_fifo) > PingStop => One(Len(ping_fifo) <= PingStop) = 0
    BY <1>1 DEF One
  <2> HIDE DEF One
  <2> QED
    BY <1>1, <2>1, <2>3, <2>4, <2>5 DEF OnItsWay
<1>3. CASE ReadTick
  <2>1. Len(ping_fifo') <= Len(ping_fifo) /\ Len(ping_fifo') \in Nat
    BY <1>3 DEF ReadTick, PixClock, Read, NoRead, PathTypeOK
  <2>2. UNCHANGED <<tx, l1_fifo_rd_valid, rx_ready_out, wr_used>>
    BY <1>3 DEF ReadTick, PixClock, gearVars
  <2> QED
    <3>1. OnItsWay' <=> Len(ping_fifo') + One(tx.valid) + One(l1_fifo_rd_valid)
                          + One(rx_ready_out) + One(wr_used <= PingStop) <= PingStop + 5
      BY <2>2 DEF OnItsWay
    <3>2. One(tx.valid) \in Nat /\ One(l1_fifo_rd_valid) \in Nat
          /\ One(rx_ready_out) \in Nat /\ One(wr_used <= PingStop) \in Nat
      BY DEF One
    <3> DEFINE a == One(tx.valid)
               b == One(l1_fifo_rd_valid)
               c == One(rx_ready_out)
               d == One(wr_used <= PingStop)
    <3>3. /\ OnItsWay <=> Len(ping_fifo) + a + b + c + d <= PingStop + 5
          /\ OnItsWay' <=> Len(ping_fifo') + a + b + c + d <= PingStop + 5
      <4> HIDE DEF One
      <4> QED
        BY <3>1 DEF OnItsWay
    <3> HIDE DEF a, b, c, d
    <3>4. a \in Nat /\ b \in Nat /\ c \in Nat /\ d \in Nat
      BY <3>2 DEF a, b, c, d
    <3> QED
      BY <1>1, <2>1, <3>3, <3>4
<1>4. CASE PathReset
  <2>1. Len(ping_fifo') = 0 /\ tx'.valid = FALSE /\ l1_fifo_rd_valid' = FALSE
        /\ rx_ready_out' = TRUE
    BY <1>4 DEF PathReset, PathTypeOK
  <2> QED
    BY <1>1, <2>1 DEF OnItsWay, One
<1>5. CASE UNCHANGED pathVars
  BY <1>5 DEF pathVars, gearVars, OnItsWay
<1> QED
  BY <1>2, <1>3, <1>4, <1>5 DEF PathNext

LEMMA RoomForWord ==
  ASSUME PingDepth >= PingStop + 5, PathTypeOK, OnItsWay, tx.valid
  PROVE  Len(ping_fifo) < PingDepth
<1>1. PingStop \in Nat /\ PingDepth \in Nat /\ Len(ping_fifo) \in Nat /\ wr_used \in Nat
      /\ l1_fifo_rd_valid \in BOOLEAN /\ rx_ready_out \in BOOLEAN
  BY PatternAssumption, TicksAssumption DEF PathTypeOK
<1> QED
  BY <1>1 DEF OnItsWay, One

(* No word reaches the second FIFO when it is full, if the threshold lies  *)
(* five words below its depth (500 of 512 in single_fifo.v).               *)
THEOREM PathThresholdHolds ==
  ASSUME PingDepth >= PingStop + 5
  PROVE  PathSpec => [](tx.valid => Len(ping_fifo) < PingDepth)
<1>1. PathInit => OnItsWay
  BY OnItsWayInit
<1>2. PathTypeOK /\ OnItsWay /\ [PathNext]_pathVars => OnItsWay'
  BY OnItsWayNext
<1>3. PathTypeOK /\ OnItsWay => (tx.valid => Len(ping_fifo) < PingDepth)
  BY RoomForWord
<1> QED
  BY <1>1, <1>2, <1>3, PathTypeCorrect, PTL DEF PathSpec

-----------------------------------------------------------------------------
(* A reader who does not look.                                             *)

(* Within a cycle of the pixel clock the reader may have taken a word that *)
(* the counter still has.                                                  *)
Held == Len(ping_fifo) + One(mem_ticks = 0)

(* What the reader can count on, the longer the first FIFO has had whole   *)
(* words in front: a register on the way that holds none is one that the   *)
(* threshold held back, and then the second FIFO was near it.              *)
Supplied ==
  /\ wr_used <= Held
  /\ ~rx_ready_out => Held >= PingStop
  /\ fed >= 1 /\ l1_fifo_rd_valid => Whole(l1_fifo_dout)
  /\ fed >= 1 /\ ~l1_fifo_rd_valid => Held >= PingStop - 1
  /\ fed >= 2 /\ ~tx.valid => Held >= PingStop - 2
  /\ fed >= 3 => Held >= 1

LEMMA SuppliedInit == PathInit => Supplied
<1> SUFFICES ASSUME PathInit PROVE Supplied
  OBVIOUS
<1>1. Len(ping_fifo) = 0 /\ wr_used = 0 /\ rx_ready_out = TRUE /\ fed = 0
      /\ mem_ticks = 0
  BY PatternAssumption DEF PathInit
<1> QED
  BY <1>1 DEF Supplied, Held, One

LEMMA SuppliedNext ==
  ASSUME PingStop >= 4, PingDepth > 0,
         PathTypeOK, Supplied, [PathNext]_pathVars
  PROVE  Supplied'
<1>1. PingStop \in Nat /\ PingDepth \in Nat /\ Len(ping_fifo) \in Nat /\ wr_used \in Nat
      /\ l1_fifo_rd_valid \in BOOLEAN /\ rx_ready_out \in BOOLEAN
      /\ tx.valid \in BOOLEAN /\ mem_ticks \in Nat /\ fed \in Nat
  BY PatternAssumption, TicksAssumption DEF PathTypeOK
<1>2. CASE WriteTick
  <2>1. /\ Len(ping_fifo') \in Nat /\ Len(ping_fifo') >= Len(ping_fifo)
        /\ tx.valid => Len(ping_fifo') >= 1
    <3>1. tx.word \in WordIds /\ ping_fifo \in Seq(WordIds)
      BY DEF PathTypeOK
    <3> QED
      BY <1>1, <1>2, <3>1 DEF WriteTick, MemClock, FifoWrites
  <2>2. Held' = Len(ping_fifo') /\ Held \in Nat /\ Held <= Len(ping_fifo) + 1
    BY <1>1, <1>2, <2>1 DEF WriteTick, MemClock, Held, One
  <2>3. /\ tx'.valid <=> l1_fifo_rd_valid /\ Whole(l1_fifo_dout)
        /\ l1_fifo_rd_valid' <=> l1_fifo # << >> /\ rx_ready_out
        /\ l1_fifo_rd_valid' => l1_fifo_dout' = Head(l1_fifo)
        /\ rx_ready_out' <=> wr_used <= PingStop
        /\ wr_used' = Len(ping_fifo)
    <3>1. /\ tx' = [valid |-> l1_fifo_rd_valid /\ Whole(l1_fifo_dout),
                         word |-> l1_fifo_dout.word]
          /\ l1_fifo_rd_valid' = (l1_fifo # << >> /\ rx_ready_out)
          /\ l1_fifo_dout' = IF l1_fifo # << >> /\ rx_ready_out THEN Head(l1_fifo)
                             ELSE l1_fifo_dout
      BY <1>2 DEF WriteTick, MemClock, Gearbox, l1_fifo_rd_ena
    <3>2. rx_ready_out' = ~(wr_used > PingStop) /\ wr_used' = Len(ping_fifo)
      BY <1>2 DEF WriteTick, MemClock, FifoWrites, ping_fifo_prefull
    <3>3. rx_ready_out' <=> (wr_used <= PingStop)
      <4>1. (wr_used > PingStop) <=> ~(wr_used <= PingStop)
        BY <1>1
      <4> QED
        BY <3>2, <4>1, Zenon
    <3> QED
      BY <3>1, <3>2, <3>3
  <2>4. /\ fed' >= 1 => l1_fifo # << >> /\ Whole(Head(l1_fifo))
        /\ fed' >= 2 => fed >= 1
        /\ fed' >= 3 => fed >= 2
    BY <1>1, <1>2 DEF WriteTick, MemClock, Latency
  <2>5. /\ wr_used <= Held
        /\ ~rx_ready_out => Held >= PingStop
        /\ fed >= 1 /\ l1_fifo_rd_valid => Whole(l1_fifo_dout)
        /\ fed >= 1 /\ ~l1_fifo_rd_valid => Held >= PingStop - 1
        /\ fed >= 2 /\ ~tx.valid => Held >= PingStop - 2
    BY DEF Supplied
  <2> HIDE DEF Held
  <2>6. wr_used' <= Held' /\ (~rx_ready_out' => Held' >= PingStop)
    BY <1>1, <2>1, <2>2, <2>3, <2>5
  <2>7. fed' >= 1 /\ l1_fifo_rd_valid' => Whole(l1_fifo_dout')
    BY <2>3, <2>4
  <2>8. fed' >= 1 /\ ~l1_fifo_rd_valid' => Held' >= PingStop - 1
    BY <1>1, <2>1, <2>2, <2>3, <2>4, <2>5
  <2>9. fed' >= 2 /\ ~tx'.valid => Held' >= PingStop - 2
    BY <1>1, <2>1, <2>2, <2>3, <2>4, <2>5
  <2>10. fed' >= 3 => Held' >= 1
    BY <1>1, <2>1, <2>2, <2>4, <2>5
  <2>11. Whole(l1_fifo_dout') <=> Whole(l1_fifo_dout)'
    BY DEF Whole
  <2> QED
    BY <2>6, <2>7, <2>8, <2>9, <2>10, <2>11 DEF Supplied
<1>3. CASE ReadTick
  <2>1. Len(ping_fifo') + 1 >= Len(ping_fifo) /\ Len(ping_fifo') \in Nat
    BY <1>3 DEF ReadTick, PixClock, Read, NoRead, PathTypeOK
  <2>2. UNCHANGED <<tx, l1_fifo_rd_valid, l1_fifo_dout, rx_ready_out, wr_used, fed>>
        /\ mem_ticks' = 0 /\ mem_ticks # 0
    BY <1>1, <1>3 DEF ReadTick, PixClock, gearVars
  <2>3. Held' \in Nat /\ Held \in Nat /\ Held' >= Held
    BY <1>1, <2>1, <2>2 DEF Held, One
  <2> HIDE DEF Held
  <2> QED
    BY <1>1, <2>2, <2>3 DEF Supplied, Whole
<1>4. CASE PathReset
  <2>1. Len(ping_fifo') = 0 /\ wr_used' = 0 /\ rx_ready_out' = TRUE /\ fed' = 0
        /\ UNCHANGED mem_ticks
    BY <1>4 DEF PathReset
  <2> QED
    BY <1>1, <2>1 DEF Supplied, Held, One
<1>5. CASE UNCHANGED pathVars
  BY <1>5 DEF pathVars, gearVars, Supplied, Held, One, Whole
<1> QED
  BY <1>2, <1>3, <1>4, <1>5 DEF PathNext

(* The reader, who does not look, finds a word whenever the first FIFO has *)
(* had whole words in front for three ticks of mem_clk, for every depth,   *)
(* every threshold of four words or more and every ratio of the clocks.    *)
THEOREM PathHasNoGap ==
  ASSUME PingStop >= 4, PingDepth > 0
  PROVE  PathSpec => []NoGap
<1>1. PathInit => Supplied
  BY SuppliedInit
<1>2. PathTypeOK /\ Supplied /\ [PathNext]_pathVars => Supplied'
  BY SuppliedNext
<1>3. PathTypeOK /\ Supplied => NoGap
  <2> SUFFICES ASSUME PathTypeOK, Supplied, mem_ticks > 0, fed = 3
               PROVE  ping_fifo # << >>
    BY DEF NoGap, Latency
  <2>1. Len(ping_fifo) >= 1
    BY DEF Supplied, Held, One, PathTypeOK
  <2> QED
    BY <2>1
<1> QED
  BY <1>1, <1>2, <1>3, PathTypeCorrect, PTL DEF PathSpec

-----------------------------------------------------------------------------
(* The path is a queue of whole words.                                     *)

LEMMA ThreeInARow ==
  ASSUME NEW a \in Seq(WordIds), NEW b \in Seq(WordIds), NEW c \in Seq(WordIds)
  PROVE  (a \o b) \o c = a \o (b \o c)
OBVIOUS

LEMMA FrontOfTwo ==
  ASSUME NEW a \in Seq(WordIds), NEW b \in Seq(WordIds), a # << >>
  PROVE  /\ a \o b # << >> /\ Head(a \o b) = Head(a)
         /\ Tail(a \o b) = Tail(a) \o b
OBVIOUS

(* What lies between the two FIFOs, and in front of it.                    *)
InTx == IF tx.valid THEN <<tx.word>> ELSE << >>
InDout == IF l1_fifo_rd_valid THEN <<l1_fifo_dout>> ELSE << >>

Parts ==
  /\ InTx \in Seq(WordIds) /\ InDout \in Seq(Word)
  /\ ping_fifo \in Seq(WordIds) /\ l1_fifo \in Seq(Word)
  /\ WholeWords(InDout) \in Seq(WordIds)
  /\ WholeWords(l1_fifo) \in Seq(WordIds)
  /\ InPath = (ping_fifo \o InTx)
                     \o (WholeWords(InDout) \o WholeWords(l1_fifo))

LEMMA InPathParts == PathTypeOK => Parts
<1> SUFFICES ASSUME PathTypeOK PROVE Parts
  OBVIOUS
<1>1. ping_fifo \in Seq(WordIds) /\ l1_fifo \in Seq(Word)
      /\ tx.word \in WordIds /\ l1_fifo_dout \in Word
  BY DEF PathTypeOK
<1>2. InTx \in Seq(WordIds)
  BY <1>1 DEF InTx
<1>3. InDout \in Seq(Word)
  BY <1>1 DEF InDout
<1>4. NoWord \in Word
  BY NoWordType
<1>5. WholeWords(InDout) \in Seq(WordIds)
      /\ WholeWords(l1_fifo) \in Seq(WordIds)
  BY <1>1, <1>3, <1>4, WholeWordsAppend
<1>6. WholeWords(InDout \o l1_fifo)
        = WholeWords(InDout) \o WholeWords(l1_fifo)
  BY <1>1, <1>3, WholeWordsConcat
<1>7. InPath = ping_fifo \o InTx \o WholeWords(InDout \o l1_fifo)
  BY DEF InPath, InTx, InDout
<1> QED
  BY <1>1, <1>2, <1>3, <1>5, <1>6, <1>7 DEF Parts

LEMMA InPathEmpty ==
  ASSUME ping_fifo = << >>, ~tx.valid, ~l1_fifo_rd_valid, l1_fifo = << >>
  PROVE  InPath = << >>
<1>1. << >> \o << >> = << >>
  OBVIOUS
<1> QED
  BY <1>1, WholeWordsEmpty DEF InPath

LEMMA PathQueueInit == PathInit => Promise!Init
<1> SUFFICES ASSUME PathInit PROVE Promise!Init
  OBVIOUS
<1>1. InPath = << >>
  BY InPathEmpty DEF PathInit
<1> QED
  BY <1>1 DEF PathInit, Promise!Init

(* A tick of mem_clk writes a beat into the queue, or leaves it alone:     *)
(* every word in the path moves one place on and none is dropped.          *)
LEMMA MemTickWrites ==
  ASSUME PingDepth >= PingStop + 5,
         PathTypeOK, PathTypeOK', OnItsWay, WriteTick
  PROVE  Promise!Write \/ UNCHANGED Promise!vars
<1> DEFINE W(u) == WholeWords(u)
           kept == IF l1_fifo_rd_ena THEN Tail(l1_fifo) ELSE l1_fifo
<1>1. /\ InTx \in Seq(WordIds) /\ InDout \in Seq(Word)
      /\ ping_fifo \in Seq(WordIds) /\ l1_fifo \in Seq(Word)
      /\ W(InDout) \in Seq(WordIds) /\ W(l1_fifo) \in Seq(WordIds)
      /\ InPath = (ping_fifo \o InTx) \o (W(InDout) \o W(l1_fifo))
  BY InPathParts DEF Parts
<1>2. /\ InTx' \in Seq(WordIds) /\ InDout' \in Seq(Word)
      /\ ping_fifo' \in Seq(WordIds) /\ l1_fifo' \in Seq(Word)
      /\ W(InDout)' \in Seq(WordIds) /\ W(l1_fifo)' \in Seq(WordIds)
      /\ InPath' = (ping_fifo' \o InTx') \o (W(InDout)' \o W(l1_fifo)')
  <2>1. Parts'
    BY InPathParts, PTL
  <2> QED
    BY <2>1 DEF Parts
<1>3. Gearbox /\ FifoWrites /\ UNCHANGED q
  BY DEF WriteTick, MemClock
<1>4. ping_fifo' = ping_fifo \o InTx
  <2>1. tx.valid => Len(ping_fifo) < PingDepth
    BY RoomForWord
  <2>2. tx.word \in WordIds
    BY DEF PathTypeOK
  <2>3. ping_fifo' = IF tx.valid THEN Append(ping_fifo, tx.word) ELSE ping_fifo
    BY <1>3, <2>1 DEF FifoWrites
  <2> QED
    BY <1>1, <2>2, <2>3 DEF InTx
<1>5. InTx' = W(InDout)
  <2>1. tx' = [valid |-> l1_fifo_rd_valid /\ Whole(l1_fifo_dout),
                    word |-> l1_fifo_dout.word]
    BY <1>3 DEF Gearbox
  <2>2. InTx' = IF l1_fifo_rd_valid /\ Whole(l1_fifo_dout)
                THEN <<l1_fifo_dout.word>> ELSE << >>
    BY <2>1 DEF InTx
  <2>3. CASE l1_fifo_rd_valid
    <3>1. l1_fifo_dout \in Word
      BY DEF PathTypeOK
    <3>2. InDout = <<l1_fifo_dout>>
      BY <2>3 DEF InDout
    <3> QED
      BY <2>2, <2>3, <3>1, <3>2, WholeWordsOne
  <2>4. CASE ~l1_fifo_rd_valid
    BY <2>2, <2>4, WholeWordsEmpty DEF InDout
  <2> QED
    BY <2>3, <2>4
<1>6. kept \in Seq(Word) /\ InDout' \o kept = l1_fifo
  <2>1. CASE l1_fifo_rd_ena
    <3>1. l1_fifo # << >> /\ InDout' = <<Head(l1_fifo)>>
      BY <1>3, <2>1 DEF Gearbox, l1_fifo_rd_ena, InDout
    <3>2. <<Head(l1_fifo)>> \o Tail(l1_fifo) = l1_fifo /\ Tail(l1_fifo) \in Seq(Word)
      BY <1>1, <3>1
    <3> QED
      BY <2>1, <3>1, <3>2
  <2>2. CASE ~l1_fifo_rd_ena
    <3>1. InDout' = << >>
      BY <1>3, <2>2 DEF Gearbox, InDout
    <3> QED
      BY <1>1, <2>2, <3>1
  <2> QED
    BY <2>1, <2>2
<1>7. W(l1_fifo) = W(InDout') \o W(kept)
  <2> HIDE DEF kept
  <2> QED
    BY <1>2, <1>6, WholeWordsConcat
<1>8. W(kept) \in Seq(WordIds)
  BY <1>6, NoWordType, WholeWordsAppend
<1> DEFINE a == ping_fifo \o InTx
           b == W(InDout)
           d == W(InDout')
<1>9. a \in Seq(WordIds) /\ b \in Seq(WordIds) /\ d \in Seq(WordIds)
  BY <1>1, <1>2, ConcatProperties
<1>10. InPath = a \o (b \o (d \o W(kept)))
       /\ InPath' = (a \o b) \o (d \o W(l1_fifo'))
  BY <1>1, <1>2, <1>4, <1>5, <1>7
<1> HIDE DEF a, b, d, kept, W
<1>11. InPath \in Seq(WordIds) /\ d \o W(kept) \in Seq(WordIds)
  BY <1>8, <1>9, <1>10, ConcatProperties
<1>12. WriteBeat(kept)
  BY <1>3 DEF Gearbox, kept
<1>13. CASE l1_fifo' = kept /\ UNCHANGED next_word
  <2>1. InPath' = InPath
    BY <1>9, <1>10, <1>11, <1>13, ThreeInARow
  <2> QED
    BY <1>3, <1>13, <2>1 DEF Promise!vars
<1>14. CASE \E valid \in ByteValids :
              /\ l1_fifo' = kept \o WordsOf(valid)
              /\ next_word' = (next_word + WholeOf(valid)) % WordMod
  <2>1. PICK valid \in ByteValids :
          /\ l1_fifo' = kept \o WordsOf(valid)
          /\ next_word' = (next_word + WholeOf(valid)) % WordMod
    BY <1>14
  <2>2. next_word \in WordIds
    BY DEF PathTypeOK
  <2> DEFINE n == Promise!Numbers(WholeOf(valid))
  <2>3. W(WordsOf(valid)) = n /\ WordsOf(valid) \in Seq(Word)
    BY <2>2, WholeOfBeat, WordsOfType DEF W
  <2>4. n \in Seq(WordIds)
    BY <2>3, NoWordType, WholeWordsAppend DEF W
  <2> HIDE DEF n
  <2>5. W(l1_fifo') = W(kept) \o n
    BY <1>6, <2>1, <2>3, WholeWordsConcat DEF W
  <2> DEFINE k == W(kept)
             c == d \o k
  <2>6. k \in Seq(WordIds) /\ c \in Seq(WordIds)
    BY <1>8, <1>11
  <2>7. InPath = a \o (b \o c) /\ InPath' = (a \o b) \o (d \o (k \o n))
    BY <1>10, <2>5
  <2> HIDE DEF k
  <2>8. d \o (k \o n) = c \o n
    BY <1>9, <2>4, <2>6, ThreeInARow
  <2> HIDE DEF c
  <2>9. (a \o b) \o (c \o n) = (a \o (b \o c)) \o n
    <3>1. a \o b \in Seq(WordIds)
      BY <1>9, ConcatProperties
    <3>2. (a \o b) \o (c \o n) = ((a \o b) \o c) \o n
      BY <2>4, <2>6, <3>1, ThreeInARow
    <3>3. (a \o b) \o c = a \o (b \o c)
      BY <1>9, <2>6, ThreeInARow
    <3> QED
      BY <3>2, <3>3
  <2>10. InPath' = InPath \o n
    BY <2>7, <2>8, <2>9
  <2> QED
    BY <1>3, <2>1, <2>10 DEF Promise!Write, n
<1> QED
  BY <1>12, <1>13, <1>14 DEF WriteBeat

(* A tick of the pixel clock takes the first word of the queue, or repeats *)
(* the last one when there is none to be had yet.                          *)
LEMMA PixTickTakes ==
  ASSUME PathTypeOK, ReadTick
  PROVE  Promise!Take \/ Promise!Repeat \/ Promise!Rest
<1> DEFINE back == WholeWords(InDout \o l1_fifo)
           rest == InTx \o back
<1>1. /\ ping_fifo \in Seq(WordIds) /\ InTx \in Seq(WordIds)
      /\ back \in Seq(WordIds) /\ rest \in Seq(WordIds)
  <2>1. Parts
    BY InPathParts
  <2>2. InDout \o l1_fifo \in Seq(Word)
    BY <2>1, ConcatProperties DEF Parts
  <2>3. back \in Seq(WordIds)
    BY <2>2, NoWordType, WholeWordsAppend
  <2> QED
    BY <2>1, <2>3, ConcatProperties DEF Parts
<1>2. UNCHANGED <<next_word, l1_fifo, l1_fifo_dout, l1_fifo_rd_valid, tx>>
  BY DEF ReadTick, PixClock, gearVars
<1>3. /\ InPath = ping_fifo \o InTx \o back
      /\ InPath' = ping_fifo' \o InTx \o back
  BY <1>2 DEF InPath, InTx, InDout
<1> HIDE DEF back
<1>4. CASE NoRead
  <2>1. InPath' = InPath /\ q' = [q EXCEPT !.valid = FALSE]
    BY <1>3, <1>4 DEF NoRead
  <2> QED
    BY <1>2, <2>1 DEF Promise!Rest
<1>5. CASE Read /\ ping_fifo = << >>
  <2>1. InPath' = InPath /\ q' = [q EXCEPT !.valid = TRUE]
    BY <1>3, <1>5 DEF Read
  <2> QED
    BY <1>2, <2>1 DEF Promise!Repeat
<1>6. CASE Read /\ ping_fifo # << >>
  <2>1. q' = [valid |-> TRUE, word |-> Head(ping_fifo)] /\ ping_fifo' = Tail(ping_fifo)
    BY <1>6 DEF Read
  <2>2. Tail(ping_fifo) \in Seq(WordIds)
    BY <1>1, <1>6
  <2>3. /\ InPath = ping_fifo \o rest
        /\ InPath' = Tail(ping_fifo) \o rest
    BY <1>1, <1>3, <2>1, <2>2, ThreeInARow
  <2> HIDE DEF rest
  <2>4. /\ ping_fifo \o rest # << >>
        /\ Head(ping_fifo \o rest) = Head(ping_fifo)
        /\ Tail(ping_fifo \o rest) = Tail(ping_fifo) \o rest
    BY <1>1, <1>6, FrontOfTwo
  <2> QED
    BY <1>2, <2>1, <2>3, <2>4 DEF Promise!Take
<1> QED
  BY <1>4, <1>5, <1>6 DEF ReadTick, PixClock

LEMMA ResetClears ==
  ASSUME PathTypeOK, PathReset
  PROVE  Promise!Clear
<1>1. ping_fifo' = << >> /\ ~tx'.valid /\ ~l1_fifo_rd_valid' /\ l1_fifo' = << >>
  BY DEF PathReset, PathTypeOK
<1>2. InPath' = << >>
  <2>1. << >> \o << >> = << >>
    OBVIOUS
  <2> QED
    BY <1>1, <2>1, WholeWordsEmpty DEF InPath
<1> QED
  BY <1>2 DEF PathReset, Promise!Clear

(* The path is a first-in, first-out queue of the whole words of its beats *)
(* (single_fifo.v behind interface_256in_24out_gb.v): none is lost in a    *)
(* FIFO that is full, doubled or overtaken, for every beat, depth and      *)
(* ratio of the clocks, once the threshold lies five words below the depth.*)
THEOREM PathIsQueue ==
  ASSUME PingDepth >= PingStop + 5
  PROVE  PathSpec => Promise!Init /\ [][Promise!Next]_(Promise!vars)
<1>1. PathInit => Promise!Init
  BY PathQueueInit
<1>2. PathInit => OnItsWay
  BY OnItsWayInit
<1>3. PathTypeOK /\ OnItsWay /\ [PathNext]_pathVars => OnItsWay'
  BY OnItsWayNext
<1>4. PathTypeOK /\ PathTypeOK' /\ OnItsWay /\ [PathNext]_pathVars
        => [Promise!Next]_(Promise!vars)
  <2> SUFFICES ASSUME PathTypeOK, PathTypeOK', OnItsWay, [PathNext]_pathVars
               PROVE  [Promise!Next]_(Promise!vars)
    OBVIOUS
  <2>1. CASE WriteTick
    BY <2>1, MemTickWrites DEF Promise!Next
  <2>2. CASE ReadTick
    BY <2>2, PixTickTakes DEF Promise!Next
  <2>3. CASE PathReset
    BY <2>3, ResetClears DEF Promise!Next
  <2>4. CASE UNCHANGED pathVars
    BY <2>4 DEF pathVars, gearVars, Promise!vars, InPath
  <2> QED
    BY <2>1, <2>2, <2>3, <2>4 DEF PathNext
<1> QED
  BY <1>1, <1>2, <1>3, <1>4, PathTypeCorrect, PTL DEF PathSpec
=============================================================================
