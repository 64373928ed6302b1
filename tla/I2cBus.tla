------------------------------- MODULE I2cBus -------------------------------
(***************************************************************************)
(* The registers of the IT6613 over two wires (terasic_lib/I2C.c and the   *)
(* register functions of HDMI_Lib/mcu.c).  The program moves the clock and *)
(* the data line itself, one write to a port after the other; each of them *)
(* is a step here.  The chip follows the edges of the wires, and may leave *)
(* any byte without an acknowledge.                                        *)
(***************************************************************************)
EXTENDS Integers, SequencesExt

CONSTANTS Bits,        \* the width of a byte: 8 in the code
          SLAVE_ADDR,  \* HDMI_TX_I2C_SLAVE_ADDR, an even byte
          MaxLen,      \* the most bytes of a call
          Starts, Data \* the registers calls start at, the bytes they write

Bytes == 0..(2^Bits - 1)

ASSUME I2cBusAssumption ==
  /\ Bits \in Nat \ {0} /\ MaxLen \in Nat \ {0}
  /\ SLAVE_ADDR \in Bytes /\ SLAVE_ADDR % 2 = 0
  /\ Starts \subseteq Bytes /\ Data \subseteq Bytes

NoCall == [kind |-> "none"]
Untouched == -1

Requests ==
  UNION { [kind : {"write"}, reg : Starts, len : {n}, data : [1..n -> Data]]
            \cup [kind : {"read", "burst"}, reg : Starts, len : {n}] : n \in 1..MaxLen }

VARIABLES
  scl, dir, out,   \* the ports: clock, direction and value of the data line
  chip, regs,      \* the interface of the chip, its registers
  call, i,         \* the call that runs, and the byte it is at
  plan, todo,      \* what is left of the transaction, and of its current part
  bSuccess, byte,  \* locals of the transaction and of i2c_read
  array, result,   \* the caller's array, the status it gets
  moved            \* history: the bytes of the call that were moved

wires == <<scl, dir, out>>
locals == <<call, i, plan, todo, bSuccess, byte, array, result>>
busVars == <<wires, chip, regs, locals, moved>>

\* The chip pulls the data line down; a line nobody drives is high.
Sda == IF chip.drive THEN 0 ELSE IF dir = "out" THEN out ELSE 1

Idle == [phase |-> "idle", n |-> 0, in |-> 0, ptr |-> 0, drive |-> FALSE,
         got |-> "none"]

\* The clock port comes out of reset low, the data port as an input.
BusInit ==
  /\ scl = 0 /\ dir = "in" /\ out = 0
  /\ chip = Idle /\ regs = [r \in Bytes |-> 0]
  /\ call = NoCall /\ i = 0 /\ plan = <<>> /\ todo = <<>>
  /\ bSuccess = TRUE /\ byte = 0 /\ array = <<>> /\ result = "none" /\ moved = 0

-----------------------------------------------------------------------------
(* The chip                                                                *)

Bit(v, k) == (v \div 2^k) % 2

\* A bit of a register that is 0 pulls the line down.
Pulls(p, k) == Bit(regs[p], k) = 0

Send(c, p) == [c EXCEPT !.phase = "send", !.n = 0, !.ptr = p, !.drive = Pulls(p, Bits - 1)]

\* The byte that is complete is accepted or not.
Accept(c) ==
  LET take(got) == [c EXCEPT !.phase = "acking", !.drive = TRUE, !.got = got]
  IN CASE c.got = "none" /\ c.in = SLAVE_ADDR     -> take("address")
       [] c.got = "none" /\ c.in = SLAVE_ADDR + 1 -> take("reading")
       [] c.got = "address" -> [take("register") EXCEPT !.ptr = c.in]
       [] c.got = "register" -> [take("register") EXCEPT !.ptr = (c.ptr + 1) % 2^Bits]
       [] OTHER -> [Idle EXCEPT !.ptr = c.ptr]

Refuse(c) == [Idle EXCEPT !.ptr = c.ptr]

ByteIsIn(c) == c.phase = "listen" /\ c.n = Bits

OnFall(c) ==
  CASE ByteIsIn(c) -> { Accept(c), Refuse(c) }
    [] c.phase = "acking" /\ c.got = "reading" -> { Send(c, c.ptr) }
    [] c.phase = "acking" /\ c.got # "reading" ->
         { [c EXCEPT !.phase = "listen", !.n = 0, !.in = 0, !.drive = FALSE] }
    [] c.phase = "send" /\ c.n + 1 < Bits ->
         { [c EXCEPT !.n = c.n + 1, !.drive = Pulls(c.ptr, Bits - 2 - c.n)] }
    [] c.phase = "send" /\ c.n + 1 = Bits ->
         { [c EXCEPT !.phase = "sent", !.drive = FALSE] }
    [] c.phase = "more" -> { Send(c, (c.ptr + 1) % 2^Bits) }
    [] c.phase = "sent" -> { Refuse(c) }
    [] OTHER -> {c}

\* The acknowledge of a byte that was sent asks for one more.
OnRise(c) ==
  CASE c.phase = "listen" -> [c EXCEPT !.n = @ + 1, !.in = 2 * @ + Sda]
    [] c.phase = "sent" /\ Sda = 0 -> [c EXCEPT !.phase = "more"]
    [] OTHER -> c

\* The data line moves while the clock is high: a start or a stop.
OnEdge(c, sda) ==
  IF sda = 0 THEN [Idle EXCEPT !.phase = "listen", !.ptr = c.ptr]
             ELSE [Idle EXCEPT !.ptr = c.ptr]

\* A data byte that is accepted is stored.
Stored(c) == ByteIsIn(c) /\ c.got = "register" /\ chip' = Accept(c)

-----------------------------------------------------------------------------
(* The ports                                                               *)

Clock(v) ==
  /\ scl' = v
  /\ chip' \in (IF v = scl THEN {chip} ELSE IF v = 0 THEN OnFall(chip)
                ELSE {OnRise(chip)})
  /\ IF v # scl /\ v = 0 /\ Stored(chip)
     THEN regs' = [regs EXCEPT ![chip.ptr] = chip.in] /\ moved' = moved + 1
     ELSE UNCHANGED <<regs, moved>>
  /\ UNCHANGED <<dir, out, bSuccess, byte, array>>

Line(d, v) ==
  /\ dir' = d /\ out' = v
  /\ LET sda == IF chip.drive THEN 0 ELSE IF d = "out" THEN v ELSE 1
     IN chip' = IF scl = 1 /\ sda # Sda THEN OnEdge(chip, sda) ELSE chip
  /\ UNCHANGED <<scl, regs, moved, bSuccess, byte, array>>

Local == UNCHANGED <<wires, chip, regs>>

Port(op) ==
  CASE op = "SCL_HIGH"    -> Clock(1)
    [] op = "SCL_LOW"     -> Clock(0)
    [] op = "SDA_DIR_OUT" -> Line("out", out)
    [] op = "SDA_DIR_IN"  -> Line("in", out)
    [] op \in {"SDA_HIGH", "stop"} -> Line(dir, 1)
    [] op \in {"SDA_LOW", "start"} -> Line(dir, 0)
    [] op = "ack"   -> /\ bSuccess' = (Sda = 0)
                       /\ Local /\ UNCHANGED <<byte, array, moved>>
    [] op = "clear" -> byte' = 0 /\ Local /\ UNCHANGED <<bSuccess, array, moved>>
    [] op = "bit"   -> /\ byte' = 2 * byte + Sda
                       /\ Local /\ UNCHANGED <<bSuccess, array, moved>>
    [] op = "store" -> /\ array' = [array EXCEPT ![moved + 1] = byte]
                       /\ moved' = moved + 1
                       /\ Local /\ UNCHANGED <<bSuccess, byte>>

-----------------------------------------------------------------------------
(* Starts, stops and bytes, as sequences of port accesses                  *)

\* Slip: the data line is taken to be high.
i2c_start_as_is == <<"SDA_DIR_OUT", "SCL_HIGH", "start", "SCL_LOW">>

i2c_start == <<"SDA_DIR_OUT", "SDA_HIGH", "SCL_HIGH", "start", "SCL_LOW">>

\* Slip: the data line goes up before the clock.
i2c_stop_early == <<"SDA_DIR_OUT", "SDA_LOW", "SDA_HIGH", "SCL_HIGH">>

i2c_stop == <<"SDA_DIR_OUT", "SDA_LOW", "SCL_HIGH", "stop">>

Times(n, s) == FlattenSeq([k \in 1..n |-> s])

i2c_write(v) ==
  LET level(k) == IF Bit(v, Bits - k) = 1 THEN "SDA_HIGH" ELSE "SDA_LOW"
      bit(k) == <<"SCL_LOW", level(k), "SCL_HIGH", "SCL_LOW">>
  IN <<"SDA_DIR_OUT">> \o FlattenSeq([k \in 1..Bits |-> bit(k)])
       \o <<"SDA_DIR_IN", "SCL_HIGH", "ack", "SCL_LOW">>

\* The acknowledge of a byte that was read, and the line left low.
Answer(bAck) == <<"SCL_LOW", "SDA_DIR_OUT", IF bAck THEN "SDA_LOW" ELSE "SDA_HIGH",
                  "SCL_HIGH", "SCL_LOW", "SDA_LOW", "store">>

i2c_read(bAck) == <<"clear", "SDA_DIR_IN", "SCL_LOW">>
  \o Times(Bits, <<"SCL_HIGH", "bit", "SCL_LOW">>) \o Answer(bAck)

-----------------------------------------------------------------------------
(* Transactions and calls                                                  *)

Register(k) == (call.reg + k) % 2^Bits

\* The ports a part of the transaction for byte k writes.
Part(p, k) ==
  CASE p = "start"    -> i2c_start
    [] p = "restart"  -> i2c_start
    [] p = "device"   -> i2c_write(SLAVE_ADDR)
    [] p = "register" -> i2c_write(Register(k))
    [] p = "data"     -> i2c_write(call.data[k + 1])
    [] p = "again"    -> i2c_write(SLAVE_ADDR + 1)
    [] p = "more"     -> i2c_read(TRUE)
    [] p = "last"     -> i2c_read(FALSE)
    [] p = "stop"     -> i2c_stop

I2C_Write == <<"start", "device", "register", "data", "stop">>

I2C_Read == <<"start", "device", "register", "start", "again", "last", "stop">>

I2C_MultipleRead(n) == <<"start", "device", "register", "restart", "again">>
                         \o Times(n - 1, <<"more">>) \o <<"last", "stop">>

Transaction(c) == CASE c.kind = "write" -> I2C_Write
                    [] c.kind = "read"  -> I2C_Read
                    [] c.kind = "burst" -> I2C_MultipleRead(c.len)

\* HDMITX_WriteI2C_ByteN, HDMITX_ReadI2C_ByteN, or I2C_MultipleRead is called.
Call ==
  /\ call = NoCall
  /\ \E c \in Requests :
       /\ call' = c /\ plan' = Transaction(c)
       /\ array' = [k \in 1..c.len |-> Untouched]
  /\ i' = 0 /\ bSuccess' = TRUE /\ moved' = 0 /\ result' = "none"
  /\ UNCHANGED <<wires, chip, regs, todo, byte>>

\* A part after a byte that was not acknowledged is left out; a start is not,
\* except in I2C_MultipleRead, and the stop never is.
NextPart ==
  /\ todo = <<>> /\ plan # <<>>
  /\ plan' = Tail(plan)
  /\ todo' = IF bSuccess \/ Head(plan) \in {"start", "stop"} THEN Part(Head(plan), i)
             ELSE <<>>
  /\ UNCHANGED <<wires, chip, regs, call, i, bSuccess, byte, array, result, moved>>

NextPort ==
  /\ todo # <<>>
  /\ Port(Head(todo))
  /\ todo' = Tail(todo)
  /\ UNCHANGED <<call, i, plan, result>>

\* Slip: all bytes are tried, whatever became of one.
FollowingAnyway == { k \in {i + 1} : k < call.len }

\* One byte in a transaction, until one fails.
Following == { k \in {i + 1} : bSuccess /\ k < call.len /\ call.kind # "burst" }

Over == todo = <<>> /\ plan = <<>> /\ call # NoCall

NextByte ==
  /\ Over
  /\ i' \in Following
  /\ bSuccess' = TRUE /\ plan' = Transaction(call)
  /\ UNCHANGED <<wires, chip, regs, call, todo, byte, array, result, moved>>

Return ==
  /\ Over /\ Following = {}
  /\ result' = (IF bSuccess THEN "ER_SUCCESS" ELSE "ER_FAIL")
  /\ call' = NoCall
  /\ UNCHANGED <<wires, chip, regs, i, plan, todo, bSuccess, byte, array, moved>>

Program == Call \/ NextPart \/ NextPort \/ NextByte \/ Return

\* The waits of the program are delays only; the chip owes it nothing.
BusSpec == BusInit /\ [][Program]_busVars /\ WF_busVars(NextPart \/ NextPort \/ NextByte \/ Return)

-----------------------------------------------------------------------------
(* Properties                                                              *)

\* Whatever was left without an acknowledge, after a call the two wires are high
\* and the chip waits for a start.
BusIsLeftFree ==
  call = NoCall /\ result # "none" => scl = 1 /\ Sda = 1 /\ chip.phase = "idle"

\* The data line moves under a high clock where i2c_start and i2c_stop mean it to,
\* and nowhere else: the chip takes no bit for a start or a stop, and misses none.
StartsAndStopsAsMeant ==
  [][(scl = 1 /\ scl' = 1 /\ Sda # Sda')
       <=> (todo # <<>> /\ Head(todo) \in {"start", "stop"} /\ todo' # todo)]_busVars

\* What the callers see of the two wires is a sequence of bytes between their array
\* and the registers, and a status that tells whether all of them were moved;
\* every call returns, also when the chip acknowledges nothing.
Promise == INSTANCE RegisterBus

RegistersAsPromised == Promise!Spec
=============================================================================
