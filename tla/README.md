# Fast pattern streaming: specifications, checks and proofs

The repository drives a DMD (digital micromirror device) with binary patterns:
a host writes patterns into DDR3 or on-chip memory and a *command* into a word
of the on-chip memory; FPGA logic fetches the pattern, turns 256-bit words into
pixels and sends it, frame by frame, with a pulse for a camera after each frame.
A Nios processor beside it runs the program that sets up the HDMI transmitter
chip, follows the hot plug of the display and authenticates it. This directory
holds TLA+ models of both, the TLC runs that check them and TLAPS proofs of
their main properties.

Paths of Verilog files are relative to `src/software/hdmi/rtl/`, paths of C
files to `src/software/hdmi/` (`drv.c` is `HDMI_Lib/HDMI_TX/it6613_drv.c`, and
`HDMI_TX.c`, `EDID.c` and `it6613_sys.c` are in the same directory), unless they
start with `src/`. The build is the one of `wps_top.v:2` and `wps_send.v:2`, where `GB` is
defined (24-bit pixels, 8 + 8 + 8).

## 1. The system

```
 host (PCIe / Nios)                          DDR3 controller
   |  command word, play_done                      |  ready, rddata_valid
   v                                               v
 on-chip memory <--port--> wps_controller --> ddr3_usr_logic --------+
        ^                      |   |                                 |
        |                      |   +------> onchip_mem_usr_logic ----+--> data_mux
        +----------------------|------------------+                  |   (wps_top)
                               | start level (2 cycles)              v
 - - - - - - - - - - - - - - - | - - - - - - - - - - - - - -  gearbox FIFO, single_fifo
     mem_clk above, clk148_5m  v                                     |
     below                  wps_send <-- display timing              |
                               |  <---------- words -----------------+
                               +--> pixels, de ;  pulse_gen --> camera

 Nios program
   main: hot plug loop --> HDMITX_DevLoopProc --> settings (video, audio, infoframes)
                                |                     |
                          CheckHDMITX, HDCP, EDID     |
                                |  register access    v
                          mcu.c --> I2C.c --two wires--> IT6613 --DDC, HDCP--> display
```

The two halves share the display and nothing else: no register or memory word
is written by one and read by the other.

### 1.1 Inventory

| component | state it keeps | operations | interacts with | what is hard |
|---|---|---|---|---|
| `wps_controller.v` | machine of 5 states, captured command, poll timer, memory port | poll, capture, issue, wait, report | memory word (host), start/done of the engines, start of the sender | command seen two cycles after it is read; host writes meanwhile; registers that a reset leaves alone |
| `timer.v` | enable, count, pulse | count to MAX | controller, sender | enabled or cleared in the cycle it fires |
| `ddr3_usr_logic.v` | machine of 5 states, byte counter, address, mask, FIFO | read word by word, mask head and tail, skip the end of a sector | memory controller (ready, valid), reader, controller | ready and almost_full are looked at before the read, the word comes back later; wrap-around arithmetic |
| `onchip_mem_usr_logic.v` | the same for the on-chip memory, no ready | the same | memory port in `wps_top.v`, reader, controller | the answer cannot be refused; the port is shared |
| `wps_top.v` | `data_mux`, request and data registers, read pipelines | multiplex the engines and the memory port, connect the clocks | everything | the multiplexer turns while beats are under way; pulses between two clocks |
| `interface_256in_24out_gb.v` | FIFO, gearbox, byte-valid filter | 256 to 24 bits | multiplexer, `single_fifo.v` | threshold 120 of 128 |
| `single_fifo.v` | FIFO between the clocks, output registers | read on request | gearbox, sender | threshold 500 of 512; read without a look at empty |
| `wps_send.v` | machine of 6 states, synchronisers, line and frame counters, data registers | wait, trigger a frame, send, pulse, count | display timing, `single_fifo.v`, `pulse_gen.v`, controller | words and de run through registers of different depth; reads stop ahead of the end of de |
| `display_vedio_generate_DMD_specific_faster.v` | pixel and line counters, busy | one frame per trigger | sender | counts to the period inclusive |
| `pulse_gen.v` | pulse, count, end | one pulse per start | sender | lengths 0 and 1 |
| `data_verify.v`, `usr_irq.v`, `ddr3_emif_buffer.sv` | counters; one write; two FIFOs | check the output; interrupt; ADC data to DDR3 | output; PCIe bridge; DDR3 controller | writes under waitrequest; clocks |
| `pingpongFIFO.v`, `interface_256in_24out.v`, `fast_pat_fetch.v`, `pattern_fetch_send.v`, `ddr3_test.v` | - | - | - | compiled out or instantiated nowhere |
| `main.c`, `HDMI_TX.c`: hot plug loop | last plug level seen, mode, what the EDID said, place in the loop | look at the chip, take over a change, read the EDID, set up or disable the output | chip registers; display through the chip | the plug changes between any two register accesses; other interrupts share the pass; EDID reads fail half way |
| `EDID.c`, `it6613_sys.c`: ParseEDID | flags of the capabilities | parse block 0 and each extension block | hot plug loop | results of opposite polarity; what an earlier display left |
| `drv.c`: settings | ~256 + 256 chip registers in two banks, `Instance[0]`, globals of `it6613_sys.c` | one function per entry of `it6613_drv.h` | hot plug loop, mute from the HDCP part | registers shared by functions, the selected bank, values that one call leaves to a later one |
| `drv.c`: DDC and HDCP | bus master, engine and its reset, `bAuthenticated`, latched interrupts, mute | read the EDID, authenticate, resume, abort | engine of the chip, display, hot plug loop | two masters on one bus; commands refused, never answered or answered too late; interrupts that are older than what they are read for |
| `mcu.c`, `terasic_lib/I2C.c` | two wires, transaction, status | write and read registers bit by bit | chip | the data line changes hands at every acknowledge; a byte is not acknowledged |

What makes each component right:

- *controller*: issues exactly the commands the host waits for, with what the
  host wrote; reports only what was fetched; never leaves a command unreported;
  leaves the memory port to the on-chip engine while it fetches.
- *fetch engines*: every word of the command once, in order, with the right
  bytes valid; never a write to a full FIFO; done with the last byte.
- *wps_top*: no beat handed to a multiplexer that looks away, no overflow of the
  path whatever way the multiplexer turns, the sender gets its own command's words.
- *pattern path*: every word with two valid bytes once and in order; no FIFO
  overflows behind its threshold, none runs dry because of it.
- *sender*: the word on the output is the next one and lies inside de; a frame
  is whole; pulses lie between frames; as many frames as asked for.
- *hot plug loop*: a display that stays gets its picture, in the mode its EDID
  asks for, and keeps it; without a display the output ends off.
- *settings*: whatever the order of the calls, what the infoframes tell the
  display is what the converter, the depth and the audio registers do.
- *DDC and HDCP*: the engine gets the bus over no command still waited for; a display held for authentic is being
  checked by the engine; no wait and no mute is for ever.
- *I2C*: starts and stops only where they are meant; after every call the bus is
  free, the status true and the untouched bytes untouched.

The hazards behind these, each with its line and the properties that guard it,
are listed in `PROJECT.json` under `hazards`.

### 1.2 Two clocks

`mem_clk` is the half-rate user clock of the DDR3 controller, 250 MHz: the
memory clock is 500 MHz (`src/IP/pcie_de_ep_dma_g3x8_integrated.qsys:486`) at
rate "Half" (`:626`), the timing constraint has a period of 4.000 ns
(`src/constraint/fast_wps.sdc:26`), and `vpg.v:240` and `vpg.v:262` connect the same wire as `clk250m`. The comment
"125MHz" in `interface_256in_24out_gb.v:4` is out of date. The pixel clock is
148.5 MHz. This matters: the start level is stretched to two cycles of
`mem_clk` (`wps_controller.v:117-122`), enough for the slower pixel clock to
see it (`CommandIsSent`), and `wps_send_done`, one pixel-clock cycle long, is
always seen on `mem_clk`.

## 2. The modules

In the modules of the FPGA logic one step is one rising edge of its clock: all
registers change together, from the values before the edge, as nonblocking
assignments do. Each state of a machine is an action named after it; the
surroundings that step with it are conjuncts of `Clock`. Outputs that every
state sets to a default are helpers (`NoRead`, `NoWrite`, `NoFrame`, ...).

In the modules of the Nios program a step is as much of the program as runs
between two register accesses at which the surroundings can make a difference;
in `HdmiTxSettings`, where they cannot, a step is a whole call, and in `I2cBus`,
which is about the wires, it is one write to a port. The program has one thread
and no interrupt handler: chip and display are what interleaves with it.

| module | models | how |
|---|---|---|
| `BeatOrder` | geometry and arithmetic of both engines, and the reference a command is held to | operators, no state. Words, lanes, head and tail masks, the group swap, the next address with the sector skip, 32-bit subtraction. The reference `OwedBy` is a closed form that shares nothing with `NextWord` |
| `BeatStream` | abstract specification of a fetch engine | pending, buffered, handed-over beats; no clocks |
| `Ddr3UsrLogic` | `ddr3_usr_logic.v`, its FIFO; external: memory controller, reader, the controller's exchange | implements `BeatStream` |
| `OnchipMemUsrLogic` | `onchip_mem_usr_logic.v`, its FIFO, the read pipeline of `wps_top.v:205` | implements `BeatStream` |
| `Timer` | `timer.v` | operator on a record |
| `WpsController` | `wps_controller.v`, poll timer, memory port with byte enables; external: host, engines as pulses | state `args` stands for the registers that only pass through |
| `PulseGen`, `DisplayTiming` | `pulse_gen.v`, the display generator | variables and step predicates, composed by `WpsSend` |
| `WpsSend` | `wps_send.v` with both, the delay timers and the output registers of `single_fifo.v` | words of a frame are numbered; two history variables count taken and shown |
| `Clocks` | how `mem_clk` and the pixel clock tick beside each other | the ticks of the one in a cycle of the other, `MaxMemTicks` at most; extended by the two modules with two clocks |
| `WpsTop` | the composition: controller, engines, multiplexer, path, sender, on two clocks | `MemTick` and `PixTick`; the engines and the sender are reduced to what the modules above establish of them; multiplexer and registers of `wps_top.v` are exact, but for the reset |
| `WordQueue` | abstract specification of the pattern path | a queue of whole words, a reader that may repeat the last one |
| `PatternPath` | `interface_256in_24out_gb.v`, `single_fifo.v`; external: the writer, which has room (`PathNoOverflow`), and the reader | `WriteTick` and `ReadTick` on the two clocks, `PathReset`; implements `WordQueue`, whose queue is the words of both FIFOs and of the registers between them, the ones with a byte missing left out (`WholeWords`). What follows the second FIFO's output is in `WpsSend` |
| `It6613Regs` | register access with the two banks, addresses and bit names of `it6613_drv.h` | a chip is a record of the bank and a function of the registers written; a definition is a function from chip to chip |
| `It6613Tables` | colour matrices, DE table, N and rate tables of `drv.c` | operators |
| `It6613Video`, `It6613Audio` | the functions of `drv.c` on video and infoframes, and on audio | operators on chips |
| `HdmiTxSettings` | the interface of `it6613_drv.h`, `it6613_sys.c` and `HDMI_TX.c` for settings | one action per call, in any order; history `told` of what the caller asked for |
| `HotPlug` | `main`, `HDMITX_DevLoopProc`, `CheckHDMITX`, `ParseEDID`; external: display, video input, other interrupts | one action per access that the plug can come between; four histories say what the loop could know |
| `Hdcp` | `CheckHDMITX`, `ReadEDID`, `HDCP_Authenticate` with its repeater half, `HDCP_ResumeAuthentication`, `AbortDDC`; external: engine, bus, display | labels for the places where the program waits or looks; `ret` is where `AbortDDC` returns to, `job` who asked for the authentication |
| `RegisterBus` | abstract specification of a register access | bytes moved one by one, register numbers that wrap with the width of a byte (`Bits`), a status |
| `I2cBus` | `I2C.c` and the register functions of `mcu.c`; external: the chip's I2C interface | a transaction is a list of parts (`plan`), the part it is in a list of port accesses (`todo`); a chip that follows the edges; implements `RegisterBus` |
| `...Proofs`, `BeatOrderLemmas` | - | proofs, section 4 |
| `MC...` | - | constants for TLC |

Abstractions worth knowing:

- A beat in a FIFO is the address it was read from and its mask; no data.
- What stands on a FIFO's output while its valid flag is low is left out where
  the code does not look at it.
- The command word has only the bits that the machine tells apart; the
  controller's two byte enables are kept, because the done bit depends on them.
- `WpsTop` has one FIFO for the gearbox FIFO and `single_fifo`: as deep as the
  first, whose overflow is what `PathNoOverflow` is about. The stages behind it
  can only be slower or faster, which the sender's pace stands for.
- Resets set the registers of the reset branch and no other ones. In the
  engines, the words in flight are gone when the reset ends (it is a push
  button, held far longer than a read takes).
- The registers of the chip are bytes where a bit of theirs is masked, shared
  or read back (`HdmiTxSettings`; `&` and `|` are defined bit by bit in
  `It6613Regs`), and single flags where only one bit counts
  (`HotPlug`, `Hdcp`). Delays and retries that only wait are left out; a wait for
  a bit of the chip is a bounded number of looks.
- EDID blocks are reduced to the four facts something is decided on: CEA block or
  not, its last vendor block (HDMI's, another's or none), audio, and the depth (24,
  30 or 36 bits) an HDMI vendor block names. Every vendor block overwrites what
  the one before it said (`EDID.c:131-146`), in one extension and across them
  (`HDMIAfter`, `DepthAfter`). Checksums come out either way.
- A wait for the DDC bus that runs out writes nothing to the chip
  (`drv.c:2261-2264`, `:2312-2315`). In `Hdcp` the command stays on the bus (`ddc`),
  the driver goes on (`asked`), and whatever comes next meets it: the engine is
  fired over it, another command is given behind it, or it is answered after
  all. `givenUp` remembers that it was waited for to the end.
- `WpsTop` has no reset. The one of `data_mux` (`wps_top.v:218`) returns it to DDR3
  with everything around it; controller, engines, sender and path are reset in
  their own modules.
- Interrupts are what the mask registers leave: `InitIT6613` masks the receiver
  sense and the FIFO error, and of the others only the mask of AUTH_DONE changes
  while the program runs (`doneMask` in `Hdcp`).
- Definitions with a comment beginning "Slip:" are not part of the
  specifications. Each is the mistake that one of the properties is meant to
  catch, kept beside the definition it would replace.

## 3. The runs

Names of configurations are names of runs; each takes less than three minutes.
The type invariants are theorems (`TypeCorrect`, `PathTypeCorrect` and
`TxTypeCorrect`, and for `I2cBus` part of `BusInvHolds`, section 4); only that of
`HdmiTxSettings` is run as well, because it says that every call gives the bank
back.

| run | question | instance | states |
|---|---|---|---|
| `Ddr3Fetch` | Does the DDR3 engine implement `BeatStream`, count bytes right, keep one read in flight per wait, keep off a full FIFO, and finish? | words of 2 groups of 2 bytes, 2 sectors of 4 words with one unused, FIFO of 3, 4 commands, ready up or down in every cycle, resets at any time | 419 000 |
| `OnchipFetch` | The same for the on-chip engine | 8 words, commands past the end of the memory | 11 500 |
| `CtrlSafe` | Is what is issued what the host wants, is done earned, are engines and port scheduled, is every command reported? | 2 commands from either source, poll period 3, 2 resets, host that clears done | 2 300 |
| `SendSafe` | Do words, frames, pulses and counts fit together, and do commands end? | frames of 2 lines of 2 words, one and two frames, starts and resets at any time | 34 500 |
| `TopSafe` | Does a well-behaved host get every command sent, with its own words, no beat lost and the path never full? | 9 beats, engines of 2, path of 7 with threshold 2, up to 2 `mem_clk` ticks per pixel tick | 5 900 |
| `PatternPath` | Is the path a queue of the whole words of its beats, in spite of both thresholds, and does the reader find its words? | beats of 2 words, whole or with an odd end, FIFOs of 2 beats and 9 words, threshold 4, resets | 72 000 |
| `TxSettings` | Do infoframes, converter, depth, audio registers and DE window agree after any order of calls? | 4 calls about the picture (the other histories unbounded), 4 timings, 2 depths, every row of the DE table, every rate | 68 000 |
| `HotPlug` | Does a display that stays get and keep its picture, in its own mode, and does the output end off without one? | four displays, one for each path through the parser and one whose HDMI block has another vendor's behind it, everything else at any time | 1 418 000 |
| `Hdcp` | Does the engine get the bus over no command still waited for, is an authentic link checked, does every wait and every mute end? | receiver and repeater, one further look per wait, two loads per EDID block | 1 153 000 |
| `I2cBus` | Do the wires carry the register access that `RegisterBus` promises, with starts and stops where they are meant, and is the bus free after it? | bytes of 3 bits, calls of up to 2 bytes, any byte not acknowledged | 926 000 |
| `Ddr3Lanes`, `HdcpStaleDone` | expected violations, see section 5 | | |

Why the bounds are enough:

- *Geometry*: two groups of two bytes are the least at which the swap of groups,
  the order inside a group and head and tail masks differ; two sectors of three
  used words give a skip in mid-command and a wrap-around. The commands are
  chosen for their shapes: head only, whole words, head and tail, a rest of
  exactly one word, across the skip and across the wrap. The counters have 4 bits
  in `Ddr3Fetch` and 8 in `OnchipFetch`: no command asks for more than they hold,
  as no real one does of 32 bits. They do wrap in `Ddr3Fetch` once a falling ready
  has lost a word.
- *Engine FIFOs*: depth 3 with almost_full at 2 is the smallest margin the
  assumption allows (`AlmostFull < FifoDepth`); the theorems cover all others.
- *Controller*: a period of 3 is longer than the read pipeline, so that polls
  and captures overlap as they do with 256; two resets let a second one hit the
  replay of a command that the first one cut off.
- *Sender*: two lines and two words show first, inner and last; the porches are
  1 wide but for the front one, which `PipelineAssumption` wants above 2 (a word
  is on the output three cycles after it is asked for; 8 in the code).
- *Top*: commands longer than engine and path together hold back the engine;
  the path has the margin of 5 that `PathAssumption` asks for and the code
  exceeds (8: 120 of 128). Ids alternate, which tells a command from the one
  before it, and no more than two can be under way. `PathNoOverflow` is proved for
  a host that does not wait too (`HostWaitsFor = "play_done"`).
- *Pattern path*: 9 words behind a threshold of 4 are the tightest that work: with
  8 a word is lost, with a threshold of 3 the reader finds a gap. The code has
  512 and 500. Words are numbered modulo 3; the refinement compares the whole
  queue at every step, so a word lost, doubled or out of place shows at once.
- *Settings*: what a function leaves to another passes through registers and
  globals that two calls write and a third reads, and `told` restarts with each
  call; a history of four contains every such triple and the call that tells. A
  history is about one of three concerns (picture, sound, input): none of the
  properties relates what two of them write.
- *Hot plug, HDCP*: the programs are finite, so nothing is bounded but the number
  of looks and loads, where one more repeats the same choice.
- *I2C*: 3 bits have a first, an inner and a last one; a call of two bytes has a
  byte that is followed and one that is not. The register number wraps.

What a run leaves out on purpose. In `Ddr3Fetch` ready rises and falls in every
cycle. The properties about single words and bytes speak of behaviours in which
it was up, since the last reset, whenever a read was issued or on the bus (the
history `steady`); section 5 says what happens otherwise. `NoFifoOverflow` holds
and is proved without that condition. `HotPlug` says nothing of histories in
which another interrupt came up while the loop did not know of a change of the
plug (`crossed`), and nothing of the mode of a display that was exchanged for
another one between two looks; section 5 says why. A display's "own mode" is
what the code makes of its EDID, the last vendor block deciding. `Hdcp` excepts
the FIFO error and the bus hang from `AuthenticatedLinkIsChecked`, and commands
that were given up from `EngineTakesNoLiveCommand`. `CtrlSafe` has a host that
clears done and no reset in the cycle of an on-chip start, `SendSafe` pulses of
two and three cycles and commands of at least one frame, `TopSafe` a host that
waits until a command is sent. `MatrixAsAnnounced` is about timings set after the
colours (`told.inOrder`), and `AudioRateTold` says nothing after a format the
driver refuses (`told.rate`). The hazards these conditions leave open are listed in
`PROJECT.json` without a property.

### Fairness

- One clock: weak fairness of the clock, since it runs. In the engines also of
  the memory controller returning what it took and being ready, and of the reader
  asking; in the controller of a running engine finishing and the host looking at
  the done bit. Nothing obliges a host to write a command, and `SendSafe` needs no
  fairness but the clock's.
- `WpsTop`: weak fairness of both clocks, strong fairness of "the controller
  polls", "an engine with room fetches" and "the sender goes on". Strong,
  because each is a part of one clock's tick and is disabled while the other
  clock's tick is due; each happens again and again in the code by a timer or a
  counter that the smaller modules show to end.
- `PatternPath`: both clocks, and strong fairness of the reader asking, for the
  same reason: there are lines again and again.
- `HotPlug`, `Hdcp`, `I2cBus`: weak fairness of the program, which is one thread
  that never blocks: every wait in it is a loop with a counter. Chip, bus and
  display are never fair; an answer that never comes is one of the behaviours.
- Resets are possible at any time and never fair. Leads-to properties count a
  command that a reset cuts off as over, except `CommandIsReported`:
  `start_play_reg` survives a reset, and the command is played again.

## 4. The proofs

All obligations are checked. The theorems hold for every value of the constants
that satisfies the named assumptions and the hypotheses the theorem states. They
cover every safety property that the passing runs check, except `AudioRateTold`
and `DeWindow` of `HdmiTxSettings`.

Some of what the models compute is a fold over a sequence of any length (the
whole words of the path, the parts of a byte on the wires). The provers have no
rule of induction that takes a predicate; they do prove that a set of naturals
which holds 0 and with each number the next is `Nat` (`AllNaturals`, from the
well-foundedness of `<`, `NatLessThanWellFounded` and `WFMin`). The lemmas about
folds take for that set the lengths for which the statement is true.

**`BeatOrderLemmas`** (any width, sector and counter)
- Types of the address and mask arithmetic, and the number of bytes of a mask.
- `WordAtNext`: `NextWord`, the jump of the code over the unused end of a
  sector, walks the closed form `WordAt`. From it `OwedRun`: what is owed for n
  bytes from a word on is that word, and what is owed for the rest from
  `NextWord` on, which is how the engines take a command apart.
- `SwapCardinality`: the group swap, which undoes itself, keeps the number of
  valid bytes. `AmountsOf`: the beats of a FIFO in the terms of `BeatStream`.

**`Ddr3UsrLogicProofs`**
- `TypeCorrect`: every register keeps to its width. The word address stays in
  range across the skip because `LastWord \in 0 .. Span - 1` (`NextWordType`).
- `FifoNeverOverflows`: for *every* behaviour of ready, memory and reader. The
  invariant `Room` says that in WAIT the FIFO, counted with the write register,
  holds at most `AlmostFull` beats, so that the word that comes back has a place.
- The other three hold for every behaviour of ready too; what they say holds from
  the start, and again from each reset, up to the first time that ready falls
  while a read is issued or on the bus (`steady`). Ready may fall in IDLE, in WAIT
  and while the FIFO stalls the engine.
- `SteadyReadyLosesNoWord` (`OneReadPerWait`), without any further assumption.
- `SteadyReadyCountsBytes` (`DoneCountsBytes`): for commands that reach the end of
  their first word, done comes with exactly the bytes asked for. Invariant
  `ByteInv`: `Exchange` (a command in progress keeps the controller busy, hence
  the command registers, which FIRST_READ reads again, stable) and `Accounting`
  (bytes fetched + bytes of the word on its way + bytes on the counter = total).
- `SteadyReadyHandsOutItsWords`: the refinement of `BeatStream`, for commands that start at a word in use and reach the end of it. `WordInv`
  says that the word in flight is the one the address register holds, that the
  address registers hold words in use while they matter, and that LAST_READ has
  something left. Idle latching a start is `Accept`, a word handed over is
  `Fetch`, every other clock is `Pass`, and a reset is `Forget` (`PendingStep`,
  `FetchStep`); the reader's side of the FIFO is `Deliver` (`DeliverStep`).

**`OnchipMemUsrLogicProofs`**
- `TypeCorrect`, `FifoNeverOverflows` and `CountsBytes`, by the same
  invariants. The memory answers whether or not there is room, so the word for
  which `Room` keeps a place is on its way from the moment the read is issued;
  nothing is assumed of a ready, and `CountsBytes` needs only that commands reach
  the end of their first word.
- `HandsOutItsWords`: the refinement of `BeatStream`, under that hypothesis alone.
  `OneRead` follows the one read through the two stages of the pipeline; every
  word of this memory is in use (`FlatOrder`).

**`WpsControllerProofs`** (for a host that clears done with start, and no reset
in the cycle of an on-chip start; section 5 shows that both are needed)
- `Invariant`: `IInv == TypeOK /\ StartsAreWanted /\ PortFollowsState /\
  EnginesFollowState /\ ReportsAreEarned`. The four properties of the run are
  not inductive: a start bit can be in memory, in either stage of the read
  pipeline or in `start_play_reg`, so `StartsAreWanted` says of each of these
  places that what stands there is what the host waits for; `PortFollowsState`
  ties writes under way to the state, `EnginesFollowState` says that the
  pipeline has drained while an engine runs (no second capture of the same
  word), `ReportsAreEarned` that everything is quiet behind a report.
- From it `IssuesOnlyWhatIsWanted`, `DoneIsAlwaysEarned`, `EnginesRunWhenScheduled`,
  `PortIsAlwaysFree`. The last one is what the on-chip engine, which cannot be
  told to wait, rests on.

**`WpsTopProofs`**
- `TypeCorrect`, for any host.
- `PathNeverOverflows`, for any host. `PathInv` bounds the beats in the path and those that
  can still reach it without another look at the threshold by `PathStop + 5`:
  three in the registers of the selected engine, and two of the other engine,
  whose request is left standing when the multiplexer turns away from it
  (`wps_top.v:255-268`). The code's margin is 8.
- `NothingDropped` (`NoBeatDropped`) and `OwnWordsSent` (`SendsOwnWords`), for a
  host that waits until a command is sent and a `mem_clk` that ticks at most
  twice in a cycle of the pixel clock (`Paced`; 250 and 148.5 MHz). Neither is
  inductive: that the multiplexer looks at the right engine when the first beat
  comes depends on where the last command has been. `CommandInv` tells a
  command's life: the host (`HostInv`), the start on its way to the other clock
  (`StartInv`), nothing under way between two commands (`BetweenInv`), the done
  on its way back (`DoneInv`), and while a command flows, that its beats are in
  its own engine, in the path or sent, and add up (`FlowInv`). The second
  hypothesis is used in one place: the multiplexer is given back on the pixel
  clock before the controller has gone from a start to its issue.

The same module holds the theorems about `PatternPath`, which shares the clocks
and the beats with `WpsTop`:

- `PathTypeCorrect`, for every beat, depth and threshold.
- `PathThresholdHolds`: the second FIFO is never full when a word reaches it, if
  its threshold lies five words below its depth (12 in the code). `OnItsWay`
  adds up what is in it and what can still reach it without a look at a counter
  that has seen it: the word at its input, the one at the output of the first
  FIFO, a ready that is out of date by a register, a counter by a cycle.
- `PathHasNoGap` (`NoGap`), for a threshold of four words or more. `Supplied`
  reads the same registers the other way: one that holds no word was held back
  by the threshold, and then the second FIFO was near it. `Held` gives back the
  word that the reader may have taken in this cycle of its clock while the
  counter still has it.
- `PathIsQueue`, the safety half of the refinement of `WordQueue`, under the
  hypothesis of `PathThresholdHolds`: each step of the path is one of the queue or
  leaves it alone, so no word is lost, doubled or overtaken. It rests on
  `WholeWords` of a sequence being that of its pieces (`WholeWordsDef`,
  `WholeWordsAppend`, `WholeWordsConcat`, by induction on the length), and on
  `OnItsWay` where a word enters the second FIFO.

**`WpsSendProofs`** (any request, delay and frame format that
`PipelineAssumption` allows)
- `TypeCorrect`: the counters of sender, display generator, timers and pulse.
- `EndsOnFrameCount`: done comes after exactly the frames asked for. `CountsFrames`
  relates two registers in the one cycle of done; `FrameInv` says in which states
  the count may stand where, and that it is 0 whenever no command runs, which is
  what a reset or a second start would break.
- `ShowsWordsInOrder` (`WordsInStep`) and `SendsWholeFrames` (`FrameIsWhole`): the
  word at the output is the next one of its frame and lies inside de, and a
  frame that ends has had all its words. `PixelInv` is the timing of the
  pipeline in terms of the generator's two counters: the delayed copies of the
  timing signals are what the signals were 1 to 4 cycles ago (`SignalInv`,
  `PastInv`, `DelayInv`), edges fall at the ends of lines (`EdgeInv`), the line
  counter of the sender is that of the generator (`CountInv`), and the number
  of words taken is that of the full lines plus the place in this one
  (`WordInv`). `ClearInv` says that all of it is at rest between frames, so that
  a frame that a reset cuts off leaves nothing to the next one.
- `PulseFollowsFrame` (`PulseAfterFrame`), for every length of the pulse:
  `PulseInv` keeps pulse, trigger and end inside GEN_PULSE.

**`HdmiTxProofs`**, on `HotPlug` (any set of displays with up to four extension
blocks)
- `TypeCorrect`, for which the block number has to stay within the count the
  display announced although the display may have been exchanged since.
- `PictureIsKept` (`PictureStays`). `ServedInv`: when a display has its output,
  both copies of the level agree with the plug, and nothing the loop read
  earlier in the pass can make it take the display for a new one.
- `ModeFollowsSink` (`ModeIsSinks`): a display that was read without an error has
  the mode, the depth and the sound of its own EDID, however many displays were
  there before. `LevelInv` says when the level of the last pass can be trusted,
  `ForgottenInv` that a display that goes takes its capabilities with it;
  `ParseInv` says of each place in the parser what the blocks read so far make
  of the capabilities, `DecidedInv` and `DepthInv` what is made of the result.

and on `HdmiTxSettings` (any timings, depths, rates and formats asked for, any
number of calls in any order; of the constants only `SettingsAssumption` is used,
of the tables `TablesAreBytes`, which says that what goes into a register is a
byte, as it is in the driver's arrays, and which TLC evaluates):
- `TxInvHolds`, the inductive invariant, of which the other four follow. Besides
  the shapes of chip, instance and globals (`Shape`) it says that colorimetry and
  flags of the input mode agree if the timing came last (`Modes`), and of the
  registers that the depth is the one asked for, that every infoframe being sent
  adds up to 0, that the AVI infoframe tells the colours of the converter, and
  with the settings in order its matrix (`Picturing`). The settings may have
  changed since the last SetOutput, so none of this is said of the settings: it
  ties registers to registers.
- `TxTypeCorrect` (`TxTypeOK`), `DepthSurvivesHolds` (`DepthSurvives`),
  `FrameTellsOutputHolds` (`FrameTellsOutput`), `MatrixAsAnnouncedHolds`
  (`MatrixAsAnnounced`).

A chip has 512 registers and a call writes up to fifty of them, through a bank
register that decides what an address means. The argument is about the 43 that
the properties speak of (`Shown0`, `Shown1`): each function of the driver has a
lemma that says which of these it may change and that it ends in bank 0
(`Keeps`, `Tame`; `Quiet` when it changes none), and `SetAVMuteKeeps`,
`SetDepthKeeps`, `EnableVideoMeans`, `AVIFrameMeans` and `AUDFrameMeans` say what it
writes there. Below them, a run of writes is the last value of each register
(`WritesMeans`), and `&` and `|` are what they do to single bits (`AndBits`,
`OrBits`), from which the masks of the driver are shown to keep apart what shares
a register (`DepthAndMuteApart`, `ConverterBits`, `FlagBits`).

**`It6613Proofs`**, on `Hdcp` (any number of looks and loads)
- `TypeCorrect`. Each label must know what it relies on: `CallerKnown` (an
  authentication has a caller to go back to), `LoadOwed`, `EngineReady` (the
  engine is fired out of reset only).
- `EngineWaitsForCommands` (`EngineTakesNoLiveCommand`): the engine has the bus
  over an unanswered command only if the driver waited for that command to the
  end. `HostReads` says where the driver is while it waits, and that none of these
  places gives the bus away; `Settled` that what is left on the bus at any other
  place was given up.
- `LinkOfAuthenticIsChecked` (`AuthenticatedLinkIsChecked`): the property speaks
  of the start of a pass; between two of them the program is anywhere in an
  authentication. `AuthInv` says what an authentication owes at each place
  (nothing is held for authentic before the engine has the link), `LinkInv` what
  the pass relies on, late AUTH_DONEs included.

and on `I2cBus` (any width of a byte, even address, length and content of a
call, registers that wrap):
- `BusInvHolds`. The three properties of the run speak of the wires at one port
  access or of the end of a call; what makes them true is spread over some
  hundred accesses. `BusInv` says of every place in a transaction, named by what
  is left of it (`plan`, `todo`), what the wires, the chip and the bytes moved
  must be: between two parts of it (`Between`), in a start or a stop (`Starting`,
  `Stopping`), in a byte to the chip after its first k bits (`Writing`: the chip
  has the first k bits of it, `Prefix`), in the acknowledge, which may have been
  refused (`Answered`), and in a byte from the chip (`Reading`). A part that
  failed leaves the wires where the stop needs them and no byte counted.
  The lemmas below it are about powers of two and the first bits of a byte
  (`PowerStep`), about `FlattenSeq`, which the lists are built with (`Joined`,
  `FlattenCons`), and about register numbers that wrap (`RegFacts`).
- From it `BusIsLeftFreeHolds` (`BusIsLeftFree`), `BusEdgesMeant`
  (`StartsAndStopsAsMeant`), and `BusKeepsPromise`, the safety half of the
  refinement of `RegisterBus`: a byte is moved in the access that the invariant
  finds at the end of its last bit and nowhere else, to or from the register of
  its number, and the status is true exactly if all were.

Only model-checked:

- Liveness (`FetchCompletes`, `CommandIsReported`, `CommandEnds`, `CommandIsSent`,
  `OutputFollowsSink`, `NothingWaitsForEver`) and what needs ENABLED.
- With it the fairness of `WordQueue` (a reader that asks is answered) and of
  `RegisterBus` (a call that has begun ends), the other halves of the two
  refinements above.
- `AudioRateTold`: that the rate found from a counted CTS is the one of the source
  is arithmetic on the clocks of the timings, with divisions by what was counted,
  and true of the clocks there are, not of every number.
- `DeWindow`: it is not true of every mode of the table (section 5), so it is a
  matter of the modes asked for, row by row.

## 5. Where code and documentation disagree

With a run of its own:

1. **`Ddr3Lanes`** - the mask of a partial word is in sending order already and
   is swapped a second time with the data (`ddr3_usr_logic.v:229`). Whole words are
   not affected.
2. **`HdcpStaleDone`** - after a bus hang `CheckHDMITX` authenticates again and then
   reads the interrupts: an AUTH_DONE latched before the hang is taken for the
   success of an authentication that has failed, and `bAuthenticated` is TRUE with
   the engine in reset (`drv.c:643`, against the comment at `drv.c:2328`).

Shown by another value of a constant, or a property without its condition, in a
run of section 3:

3. `Ddr3Fetch` with `DoneCountsBytes` and `OneReadPerWait` without `steady`: the three
   states that issue a read subtract from the byte counter in every cycle they
   wait for ready (`ddr3_usr_logic.v:192`, `:221`), and drop the read a cycle after
   ready is seen, so done comes early and a wait can be for a read that was not
   taken. Unseen in the testbench, which ties ready high
   (`src/software/hdmi/tb/wps_top_tb.sv:90`); on the board it is the memory
   controller's.
4. `CtrlSafe` with `HostClearsDone = FALSE`: the write commented "de-assert play_done
   reg" enables byte 3 of the command word, and the bit is in byte 2
   (`wps_controller.v:190`); the host has to clear it itself (`DoneIsEarned`).
5. `SendSafe` with `Requests <- OneCycle`: `pulse_gen.v:35` takes a count of 0 for no
   count, so a pulse length of 1 gives a pulse without end and a sender that stays
   in GEN_PULSE (`CommandEnds`). A length of 0 gives a pulse of 2^32 cycles, any
   other one cycle more than asked.
6. `CtrlSafe` with `ResetDuringStart = TRUE`: `onchip_mem_read_start_out` is not
   reset; a reset in that one cycle starts an engine nobody waits for
   (`EnginesAreScheduled`).
7. `TopSafe` with `HostWaitsFor = "play_done"`: play_done means fetched, not sent. A
   host that takes it for the end of a command loses beats when the next one
   comes from the other memory (`NoBeatDropped`).

Seen while reading or modelling. FPGA logic:

- The guard against commands of 0 frames is commented out (`wps_send.v:149`);
  such a command would send frames until the 32-bit counter has wrapped.
- `interface_256in_24out_gb.v:4` gives 125 MHz and 250 MHz for two ports that
  `vpg.v` connects to one wire.

Hot plug loop and EDID:

- A plug change that is crossed by another interrupt can be taken over without
  being acted upon: `HDMI_TX.c:232-236` copies the level in every pass, but the
  set-up hangs on the change. The output then stays as it was.
- A display exchanged between two looks is not read again (`HDMI_TX.c:229`).
- The result of `ParseEDID` is that of its last block (`it6613_sys.c:457`), and a
  good block that is not a CEA block counts as a failure: a DVI display whose last
  extension is of another kind is driven as an HDMI display with sound.
- Every vendor block overwrites what the one before it said (`EDID.c:131-146`): a
  display whose HDMI block has another vendor's behind it, in the same extension
  or a later one, is driven as DVI, without sound and at 24 bits. `HotPlug` has such a
  display (`two`), and `ModeIsSinks` holds the driver to that reading.
- The clear in `CheckHDMITX` (`drv.c:663-669`) takes away what was latched since
  the reading; the level is compared instead. `bAudioEnable` is never cleared.

Settings:

- `HDMITX_SetColorSpace` writes the input mode without the colorimetry and range
  flags that `HDMITX_ChangeVideoTiming` put there (`HDMI_TX.c:174`): the matrix
  is right only if the timing is set afterwards.
- `it6613_sys.c:282` compares a colorimetry with the number of a video mode.
- Rates under 31 kHz are read as 44.1 kHz; two rows of the DE table have a name
  that is not their picture (848 wide, 1050 high), and are left out of `DeWindow`.
- The switch for embedded sync is spelt in two ways, so the sequence that
  programs it is compiled out of `HDMITX_SetOutput`.

DDC and HDCP:

- `bAuthenticated` is TRUE from the start (`HDMI_TX.c:29`); the results of
  `HDCP_GetBKSV` and, for a repeater, of `HDCP_GetBCaps` are not looked at
  (`drv.c:2403`, `:2926`); mute is lifted whether or not authentication succeeded
  (`:3087`); a FIFO error takes the bus from the engine (`:596-600`).
- A command whose wait ran out is left on the bus (`drv.c:2261`, `:2312`): the result
  of `HDCP_GetBCaps` is not looked at (`:2926`) and `HDCP_Auth_Fire` makes the engine
  master over it. `Hdcp` has this; what the chip then does is not known here.
- The padding of `SHA_Simple` (`:2807`) does not follow the comment above it
  (`:2775-2780`): the shift is right for one of four lengths.

I2C:

- `I2C_Read` goes on after a byte that was not acknowledged (`I2C.c:120`), and
  `HDMITX_ReadI2C_Byte` (`mcu.c:131`) returns an uninitialised byte after a failure.
- A data line stuck at 0 reads as acknowledged, and as zeros.

## 6. Not modelled

FPGA logic:

- Whether words are in time for the display (rates of memories and clocks);
  `NoGap` says it of the path alone. Metastability, multi-bit registers that cross
  clocks while they change, and the delay with which a FIFO shows one clock what
  the other has written: `PatternPath` has it as none, for both sides alike.
- `usr_irq.v`, `data_verify.v` and `ddr3_emif_buffer.sv`, which the pattern data
  does not pass; modules that are compiled out or instantiated nowhere; generated
  PCIe and Nios integration, pin assignments, test generators.
- Host software, except as the external actions of `WpsController` and `WpsTop`.

Nios program:

- The SHA-1 of a repeater's keys, whose comparison has either result in `Hdcp`;
  `dss_sha.c`, compiled out; the encryption bit, which nothing reads.
- Functions nothing calls: the SPD, MPEG, ACP and ISRC packets, pattern
  generation, `I2C_Open` and `I2C_Close`. (`I2C_MultipleRead` has no caller either
  in this build, and is modelled because the two branches of `mcu.c` promise the
  same.)
- The lists of timings, chromaticities and speakers that `EDID.c` collects and
  nothing decides on; menus, prints, register dumps, delays.
- The electrical side of the bus: clock stretching (the clock is an output
  only) and both ends driving the data line for a moment.
- `src/software/hdmi_test`, a copy of the program: its driver files are the same
  byte for byte. The board support package (`src/software/test7_bsp`, almost half of
  all C lines) is the vendor's library and generated; the program uses its port
  registers, its delay and its console.

## 7. Plan

Done: all modules above, in the order of the tables.

Left, by what it would add:
1. `UsrIrq`: a one-cycle write under waitrequest, against the bridge.
2. `Ddr3EmifBuffer`: two clocks, FIFO counts and bursts of the ADC data.
3. A composition of `HotPlug` and `Hdcp` over the one pass of `CheckHDMITX` they
   share; each has the other's interrupts as external.

Proofs: every safety property that a passing run checks is a theorem, but for
`AudioRateTold` and `DeWindow`, which speak of the numbers in the driver's tables.
