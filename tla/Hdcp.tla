-------------------------------- MODULE Hdcp --------------------------------
(***************************************************************************)
(* Authentication of the display (it6613_drv.c): the passes of CheckHDMITX *)
(* and the output functions around it, ReadEDID, HDCP_Authenticate with    *)
(* its repeater half, HDCP_ResumeAuthentication and AbortDDC.  The DDC bus *)
(* has two masters: the host, which reads the display through commands,    *)
(* and the HDCP engine of the chip, which authenticates and then checks    *)
(* the link for itself.  A driver that has waited long enough writes       *)
(* nothing: its command stays on the bus, and may be answered later.        *)
(*                                                                         *)
(* Chip and display act between any two register accesses: a read may be   *)
(* answered, refused or never answered, the engine may find the display    *)
(* authentic or not, later lose it, and the bus may hang.  What is read is *)
(* reduced to the decisions that are taken on it.                          *)
(***************************************************************************)
EXTENDS Integers

CONSTANTS Polls,      \* how often the driver looks before it gives up
          Blocks      \* FIFO loads of an EDID block

ASSUME HdcpAssumption == Polls \in Nat \ {0} /\ Blocks \in Nat \ {0}

Displays == {"none", "receiver", "repeater"}
Interrupts == {"hpd", "fifo", "hang", "done", "fail", "ksv"}
Engine == {"off", "running", "list", "done", "failed"}

\* Where the driver is: in the pass of its loop, reading the display, or
\* authenticating it; and where AbortDDC returns to.
PassLabels == {"status", "stat1", "hung", "plug", "stat2", "failed", "clear", "pass",
               "edid", "clearedid", "clearfifo", "load", "output", "abort", "resetdone"}
AuthLabels == {"authenticate", "bcaps", "bksv", "an", "bcaps2", "fire", "fire2", "await",
               "awaitlist", "fifoready", "countkeys", "ksvlist", "vr", "resumerep", "cancel",
               "cancelled", "authok", "authfail"}
AbortReturns == {"hung", "failed", "clearedid", "output", "bcaps", "cancelled", "resetdone"}

VARIABLES
  disp,              \* what is plugged in
  ints, doneMask,    \* the latched interrupts; AUTH_DONE is masked
  hdcpRst, desire,   \* HDCP_RST of REG_TX_SW_RST, CPDESIRE
  master, ddc,       \* the master of the bus; the host's last command on it
  engine, list,      \* the HDCP engine; REG_TX_LISTCTRL
  mute,              \* AV mute
  bHPD, bAuthenticated,   \* of Instance[0]
  HPD, intHpd,       \* locals: the plug in this pass; of intdata1
  bRepeater,         \* local: of BCaps
  pc, ret, job,      \* where the driver is; where AbortDDC returns to;
                     \* who authenticates
  saved,             \* locals of AbortDDC
  asked,             \* the driver has given its command and waits for the answer
  tries, rounds,     \* loop counters
  givenUp,           \* history: the last command was waited for in vain to the end
  upset              \* history: the FIFO errors and bus hangs that were handled since
                     \* the display was last found authentic

chipVars == <<ints, doneMask, hdcpRst, desire, master, ddc, engine, list, mute>>
driverVars == <<bHPD, bAuthenticated, HPD, intHpd, bRepeater, pc, ret, job, saved, asked,
                tries, rounds, givenUp, upset>>
\* What a command given or awaited changes.
waitVars == <<master, ddc, asked, tries, givenUp>>
vars == <<disp, chipVars, driverVars>>

\* AUTH_DONE is the one interrupt whose mask changes; the FIFO error is masked.
INT_ACTIVE == ints \cap (IF doneMask THEN {"hpd", "hang", "fail", "ksv"}
                         ELSE {"hpd", "hang", "fail", "ksv", "done"}) # {}

\* The locals have a value only while they are in use.
Nothing == [rst |-> TRUE, desire |-> FALSE, master |-> "HOST"]

Init ==
  /\ disp \in Displays
  /\ ints = {} /\ doneMask = FALSE
  /\ hdcpRst = TRUE /\ desire = FALSE /\ master = "HOST" /\ ddc = "idle"
  /\ engine = "off" /\ list = "none" /\ mute = FALSE
  /\ bHPD = FALSE /\ bAuthenticated = TRUE /\ HPD = FALSE /\ intHpd = FALSE
  /\ bRepeater = FALSE
  /\ pc = "status" /\ ret = "none" /\ job = "none"
  /\ saved = Nothing
  /\ asked = FALSE /\ tries = 0 /\ rounds = 0 /\ givenUp = FALSE /\ upset = {}

-----------------------------------------------------------------------------
(* Display and chip                                                        *)

PlugOrUnplug ==
  /\ disp' \in (IF disp = "none" THEN Displays \ {"none"} ELSE {"none"})
  /\ ints' = ints \cup {"hpd"}
  /\ UNCHANGED <<doneMask, hdcpRst, desire, master, ddc, engine, list, mute,
                 driverVars>>

\* The engine works while it is out of reset, wanted and the master of the bus.
Working == ~hdcpRst /\ desire /\ master = "HDCP"

EngineStep ==
  /\ \/ /\ engine = "running" /\ Working /\ disp = "receiver"
        /\ engine' = "done" /\ ints' = ints \cup {"done"}
     \/ /\ engine = "running" /\ Working /\ disp = "repeater"
        /\ engine' = "list" /\ ints' = ints \cup {"ksv"}
     \/ /\ engine = "list" /\ Working /\ list = "done" /\ disp = "repeater"
        /\ engine' = "done" /\ ints' = ints \cup {"done"}
     \/ /\ engine \in {"running", "list", "done"} /\ Working
        /\ engine' = "failed" /\ ints' = ints \cup {"fail"}
  /\ UNCHANGED <<disp, doneMask, hdcpRst, desire, master, ddc, list, mute,
                 driverVars>>

\* The command may be one that was given up, the display one that is gone since.
DdcAnswers ==
  /\ ddc = "busy"
  /\ ddc' \in {"done", "error"}
  /\ UNCHANGED <<disp, ints, doneMask, hdcpRst, desire, master, engine, list,
                 mute, driverVars>>

\* A bus that is in use may hang, or lose bytes of the FIFO.
InUse == ddc = "busy" \/ Working

BusHang ==
  /\ InUse
  /\ ints' = ints \cup {"hang"}
  /\ UNCHANGED <<disp, doneMask, hdcpRst, desire, master, ddc, engine, list,
                 mute, driverVars>>

FifoError ==
  /\ InUse
  /\ ints' = ints \cup {"fifo"}
  /\ UNCHANGED <<disp, doneMask, hdcpRst, desire, master, ddc, engine, list,
                 mute, driverVars>>

Environment == PlugOrUnplug \/ EngineStep \/ DdcAnswers \/ BusHang \/ FifoError

-----------------------------------------------------------------------------
(* Registers                                                               *)

\* Reset, and a desire taken back, stop the engine.
SetEngine(rst, want) ==
  /\ hdcpRst' = rst /\ desire' = want
  /\ engine' = IF rst \/ ~want THEN "off" ELSE engine

\* The host takes the bus and gives a command.
HostCommands == master' = "HOST" /\ ddc' = "busy" /\ givenUp' = FALSE

\* Nobody waits for this one.
ClearDDCFIFO == HostCommands /\ UNCHANGED <<asked, tries>>

\* Slip: a command is given to whoever is master.
CommandAsIs ==
  UNCHANGED master /\ ddc' = "busy" /\ givenUp' = FALSE /\ asked' = TRUE /\ tries' = Polls

\* A command that is waited for.
Command == HostCommands /\ asked' = TRUE /\ tries' = Polls

\* Slip: wait for as long as it takes.
PollForever == ddc = "busy" /\ UNCHANGED tries

\* Not yet: the bus is looked at again, up to a number of times.
PollAgain == ddc = "busy" /\ tries > 0 /\ tries' = tries - 1

Done == ddc = "done"
NoAnswer == ddc = "error" \/ (ddc = "busy" /\ tries = 0)

\* The driver goes on; a command without an answer stays on the bus.
StopWaiting ==
  /\ asked' = FALSE /\ tries' = 0
  /\ givenUp' = (ddc = "busy" /\ tries = 0)
  /\ UNCHANGED ddc

\* The masks it works out are not written.
HDCP_ClearAuthInterrupt == ints' = ints \ {"done", "fail", "ksv"}

Goto(l) == pc' = l
LeaveDriver == UNCHANGED <<disp, bHPD, HPD, intHpd>>

-----------------------------------------------------------------------------
(* AbortDDC                                                                *)

\* Its callers end in the step that saves the registers, resets the engine and
\* gives the command that aborts the one on the bus.
CallAbort(back, rst, want, own) ==
  /\ saved' = [rst |-> rst, desire |-> want, master |-> own]
  /\ SetEngine(TRUE, FALSE)
  /\ Command
  /\ ret' = back /\ Goto("abort")

\* Whatever the bus answers, and if it does not, the registers are put back: the
\* engine may have its bus again with the abort still on it.
AbortDDC ==
  /\ pc = "abort"
  /\ \/ /\ PollAgain
        /\ UNCHANGED <<hdcpRst, desire, engine, master, ddc, asked, givenUp, pc, ret, saved>>
     \/ /\ Done \/ NoAnswer
        /\ StopWaiting
        /\ SetEngine(saved.rst, saved.desire)
        /\ master' = saved.master
        /\ Goto(ret) /\ ret' = "none" /\ saved' = Nothing
  /\ UNCHANGED <<ints, doneMask, list, mute, bAuthenticated, bRepeater, job, rounds, upset>>
  /\ LeaveDriver

-----------------------------------------------------------------------------
(* CheckHDMITX and the rest of a pass of the loop                          *)

ReadStatus ==
  /\ pc = "status"
  /\ HPD' = (disp # "none")
  /\ bAuthenticated' = (bAuthenticated /\ HPD')
  /\ Goto(IF INT_ACTIVE THEN "stat1" ELSE "pass")
  /\ UNCHANGED <<disp, chipVars, bHPD, intHpd, bRepeater, ret, job, saved, asked, tries,
                 rounds, givenUp, upset>>

\* A FIFO error clears the FIFO, which makes the host master; then a bus hang.
ReadStat1 ==
  /\ pc = "stat1"
  /\ intHpd' = ("hpd" \in ints)
  /\ upset' = upset \cup (ints \cap {"fifo", "hang"})
  /\ IF "hang" \in ints
     THEN CallAbort("hung", hdcpRst, desire, IF "fifo" \in ints THEN "HOST" ELSE master)
     ELSE /\ IF "fifo" \in ints THEN ClearDDCFIFO ELSE UNCHANGED waitVars
          /\ Goto("plug")
          /\ UNCHANGED <<hdcpRst, desire, engine, saved, ret>>
  /\ UNCHANGED <<ints, doneMask, list, mute, bAuthenticated, bRepeater, job,
                 rounds, disp, bHPD, HPD>>

\* HDCP_ResumeAuthentication up to HDCP_Authenticate.
Resume(who) == mute' = TRUE /\ job' = who /\ Goto("authenticate")

Hung ==
  /\ pc = "hung"
  /\ IF bAuthenticated THEN Resume("hang") ELSE Goto("plug") /\ UNCHANGED <<mute, job>>
  /\ UNCHANGED <<ints, doneMask, hdcpRst, desire, master, ddc, engine, list,
                 bAuthenticated, bRepeater, ret, saved, asked, tries,
                 rounds, givenUp, upset>>
  /\ LeaveDriver

ReadPlug ==
  /\ pc = "plug"
  /\ intHpd' = FALSE
  /\ IF intHpd /\ ~HPD THEN SetEngine(TRUE, desire)
     ELSE UNCHANGED <<hdcpRst, desire, engine>>
  /\ Goto("stat2")
  /\ UNCHANGED <<ints, doneMask, master, ddc, list, mute, bAuthenticated,
                 bRepeater, ret, job, saved, asked, tries, rounds, givenUp, upset,
                 disp, bHPD, HPD>>

\* Done is believed whatever went before it; it is masked from then on.
ReadStat2 ==
  /\ pc = "stat2"
  /\ IF "done" \in ints
     THEN doneMask' = TRUE /\ bAuthenticated' = TRUE /\ mute' = FALSE
     ELSE UNCHANGED <<doneMask, bAuthenticated, mute>>
  /\ IF "fail" \in ints
     THEN CallAbort("failed", hdcpRst, desire, master)
     ELSE Goto("clear") /\ UNCHANGED <<hdcpRst, desire, engine, waitVars, saved, ret>>
  /\ UNCHANGED <<ints, list, bRepeater, job, rounds, upset>>
  /\ LeaveDriver

Failed ==
  /\ pc = "failed"
  /\ Resume("fail")
  /\ UNCHANGED <<ints, doneMask, hdcpRst, desire, master, ddc, engine, list,
                 bAuthenticated, bRepeater, ret, saved, asked, tries,
                 rounds, givenUp, upset>>
  /\ LeaveDriver

ClearInterrupts ==
  /\ pc = "clear"
  /\ ints' = {}
  /\ Goto("pass")
  /\ UNCHANGED <<doneMask, hdcpRst, desire, master, ddc, engine, list, mute,
                 bAuthenticated, bRepeater, ret, job, saved, asked, tries,
                 rounds, givenUp, upset>>
  /\ LeaveDriver

\* A display that has come is read and gets its output.
Pass ==
  /\ pc = "pass"
  /\ bHPD' = HPD
  /\ Goto(IF HPD /\ ~bHPD THEN "edid" ELSE "status") /\ HPD' = FALSE
  /\ UNCHANGED <<disp, chipVars, bAuthenticated, intHpd, bRepeater, ret, job, saved, asked, tries,
                 rounds, givenUp, upset>>

\* HDMITX_SetOutput for an HDMI display, up to EnableHDCP.
SetOutput ==
  /\ pc = "output"
  /\ SetEngine(TRUE, desire)
  /\ mute' = TRUE /\ job' = "output"
  /\ Goto("authenticate")
  /\ UNCHANGED <<ints, doneMask, master, ddc, list, bAuthenticated, bRepeater,
                 ret, saved, asked, tries,
                 rounds, givenUp, upset>>
  /\ LeaveDriver

-----------------------------------------------------------------------------
(* Commands of the host on the bus                                         *)

\* One read of the display's HDCP registers: given, waited for, and gone on from.
Issue(here) ==
  /\ pc = here /\ ~asked
  /\ Command
  /\ UNCHANGED <<pc, bRepeater, ret, saved, rounds, hdcpRst, desire, engine>>

Wait(here) ==
  /\ pc = here /\ asked
  /\ PollAgain
  /\ UNCHANGED <<pc, ddc, master, asked, givenUp, bRepeater, ret, saved, rounds,
                 hdcpRst, desire, engine>>

Then(here, answer, next) ==
  /\ pc = here /\ asked /\ answer
  /\ StopWaiting /\ Goto(next)
  /\ UNCHANGED <<master, ret, saved, hdcpRst, desire, engine>>

\* The answer may be that of a command given up before.
HDCP_GetBCaps(here, good, bad) ==
  \/ Issue(here)
  \/ Wait(here)
  \/ Then(here, Done, good) /\ bRepeater' \in BOOLEAN /\ UNCHANGED rounds
  \/ Then(here, Done \/ NoAnswer, bad) /\ UNCHANGED <<bRepeater, rounds>>

\* Whether it was read or not, what is in the buffer decides.
HDCP_GetBKSV ==
  \/ Issue("bksv")
  \/ Wait("bksv")
  \/ \E next \in {"an", "authfail"} :
       Then("bksv", Done \/ NoAnswer, next) /\ UNCHANGED <<bRepeater, rounds>>

\* A list whose keys do not have 20 ones each is refused.
HDCP_GetKSVList ==
  \/ Issue("ksvlist")
  \/ Wait("ksvlist")
  \/ \E next \in {"vr", "cancel"} :
       Then("ksvlist", Done, next) /\ UNCHANGED <<bRepeater, rounds>>
  \/ Then("ksvlist", NoAnswer, "cancel") /\ UNCHANGED <<bRepeater, rounds>>

\* V' is read, M0 taken from the chip, and the digests compared.
HDCP_GetVr ==
  \/ Issue("vr")
  \/ Wait("vr")
  \/ \E next \in {"resumerep", "cancel"} :
       Then("vr", Done, next) /\ UNCHANGED <<bRepeater, rounds>>
  \/ Then("vr", NoAnswer, "cancel") /\ UNCHANGED <<bRepeater, rounds>>

\* The FIFO of the repeater's keys is waited for.
WaitKSVFifo ==
  \/ Issue("fifoready") \/ Wait("fifoready")
  \/ /\ rounds > 0 /\ Then("fifoready", Done, "fifoready")
     /\ rounds' = rounds - 1 /\ UNCHANGED bRepeater
  \/ /\ rounds = 0 /\ Then("fifoready", Done, "cancel")
     /\ UNCHANGED <<rounds, bRepeater>>
  \/ Then("fifoready", Done, "countkeys") /\ rounds' = 0 /\ UNCHANGED bRepeater
  \/ Then("fifoready", NoAnswer, "cancel") /\ rounds' = 0 /\ UNCHANGED bRepeater

\* The bus is cleared and clocked, and the count must be sound.
CountKeys ==
  /\ pc = "countkeys"
  /\ ClearDDCFIFO
  /\ \E next \in {"ksvlist", "cancel"} : Goto(next)
  /\ UNCHANGED <<ret, saved, rounds, bRepeater, hdcpRst, desire, engine>>

Reads ==
  /\ \/ HDCP_GetBCaps("bcaps", "bksv", "authfail")
     \/ HDCP_GetBCaps("bcaps2", "fire2", "fire2")
     \/ HDCP_GetBKSV \/ HDCP_GetKSVList \/ HDCP_GetVr \/ WaitKSVFifo
     \/ CountKeys
  /\ UNCHANGED <<ints, doneMask, list, mute, bAuthenticated, job, upset>>
  /\ LeaveDriver

-----------------------------------------------------------------------------
(* ReadEDID                                                                *)

\* A hung bus is aborted first.
StartEDID ==
  /\ pc = "edid"
  /\ rounds' = Blocks
  /\ IF "hang" \in ints
     THEN CallAbort("clearedid", hdcpRst, desire, master)
     ELSE Goto("clearedid") /\ UNCHANGED <<hdcpRst, desire, engine, waitVars, saved, ret>>
  /\ UNCHANGED <<ints, doneMask, list, mute, bAuthenticated, bRepeater, job, upset>>
  /\ LeaveDriver

ClearEDID ==
  /\ pc = "clearedid"
  /\ ClearDDCFIFO /\ Goto("clearfifo")
  /\ UNCHANGED <<ints, doneMask, hdcpRst, desire, engine, list, mute, bAuthenticated,
                 bRepeater, ret, job, saved, rounds, upset>>
  /\ LeaveDriver

\* The FIFO is cleared before every load; a clear that is not answered is let go.
ClearLoad ==
  /\ \/ Issue("clearfifo") \/ Wait("clearfifo")
     \/ /\ Then("clearfifo", Done \/ (ddc = "busy" /\ tries = 0), "load")
        /\ UNCHANGED <<bRepeater, rounds>>
     \/ /\ pc = "clearfifo" /\ asked /\ (ddc = "error" \/ (ddc = "busy" /\ "hang" \in ints))
        /\ CallAbort("output", hdcpRst, desire, master)
        /\ rounds' = 0 /\ UNCHANGED bRepeater
  /\ UNCHANGED <<ints, doneMask, list, mute, bAuthenticated, job, upset>>
  /\ LeaveDriver

\* The output is enabled whether or not the EDID could be read.
ReadLoad ==
  /\ \/ Issue("load") \/ Wait("load")
     \/ /\ Then("load", Done, IF rounds > 1 THEN "clearfifo" ELSE "output")
        /\ rounds' = rounds - 1 /\ UNCHANGED bRepeater
     \/ Then("load", NoAnswer, "output") /\ rounds' = 0 /\ UNCHANGED bRepeater
  /\ UNCHANGED <<ints, doneMask, list, mute, bAuthenticated, job, upset>>
  /\ LeaveDriver

ReadEDID == StartEDID \/ ClearEDID \/ ClearLoad \/ ReadLoad

-----------------------------------------------------------------------------
(* HDCP_Authenticate                                                       *)

\* HDCP_Reset.
Authenticate ==
  /\ pc = "authenticate"
  /\ bAuthenticated' = FALSE /\ list' = "none"
  /\ CallAbort("bcaps", TRUE, FALSE, "HOST")
  /\ UNCHANGED <<ints, doneMask, mute, bRepeater, job, rounds, upset>>
  /\ LeaveDriver

\* The engine is taken out of reset and given its random number.
PrepareAn ==
  /\ pc = "an"
  /\ SetEngine(FALSE, TRUE)
  /\ HDCP_ClearAuthInterrupt
  /\ list' = "none" /\ bAuthenticated' = FALSE
  /\ Goto(IF bRepeater THEN "bcaps2" ELSE "fire")
  /\ UNCHANGED <<doneMask, master, ddc, mute, bRepeater, ret, job, saved, asked, tries,
                 rounds, givenUp, upset>>
  /\ LeaveDriver

HDCP_Auth_Fire ==
  /\ pc \in {"fire", "fire2"}
  /\ master' = "HDCP" /\ engine' = "running" /\ tries' = Polls
  /\ Goto(IF pc = "fire" THEN "await" ELSE "awaitlist")
  /\ UNCHANGED <<ints, doneMask, hdcpRst, desire, ddc, list, mute,
                 bAuthenticated, bRepeater, ret, job, saved, asked, rounds,
                 givenUp, upset>>
  /\ LeaveDriver

LookAgain == tries > 0 /\ tries' = tries - 1 /\ UNCHANGED <<pc, bAuthenticated, upset>>

AwaitDone ==
  /\ pc = "await"
  /\ \/ /\ engine = "done"
        /\ bAuthenticated' = TRUE /\ upset' = {} /\ Goto("authok") /\ tries' = 0
     \/ /\ engine # "done" /\ ("fail" \in ints \/ tries = 0)
        /\ bAuthenticated' = FALSE /\ Goto("authfail") /\ tries' = 0
        /\ UNCHANGED upset
     \/ engine # "done" /\ "fail" \notin ints /\ LookAgain
  /\ UNCHANGED <<chipVars, bRepeater, ret, job, saved, asked, rounds, givenUp>>
  /\ LeaveDriver

-----------------------------------------------------------------------------
(* HDCP_Authenticate_Repeater                                              *)

AwaitList ==
  /\ pc = "awaitlist"
  /\ \/ /\ ints \cap {"hang", "fail"} # {} \/ ("ksv" \notin ints /\ tries = 0)
        /\ Goto("cancel") /\ tries' = 0 /\ UNCHANGED <<ints, rounds, bAuthenticated, upset>>
     \/ /\ ints \cap {"hang", "fail"} = {} /\ "ksv" \in ints
        /\ ints' = ints \ {"ksv"} /\ rounds' = Polls
        /\ Goto("fifoready") /\ tries' = 0 /\ UNCHANGED <<bAuthenticated, upset>>
     \/ /\ ints \cap {"hang", "fail", "ksv"} = {}
        /\ LookAgain /\ UNCHANGED <<ints, rounds>>
  /\ UNCHANGED <<doneMask, hdcpRst, desire, master, ddc, engine, list, mute,
                 bRepeater, ret, job, saved, asked, givenUp>>
  /\ LeaveDriver

\* Slip: the engine is not given the bus back.
ResumeAsHost == list' = "done" /\ UNCHANGED master

HDCP_ResumeRepeaterAuthenticate == list' = "done" /\ master' = "HDCP"

RepeaterGood ==
  /\ pc = "resumerep"
  /\ HDCP_ResumeRepeaterAuthenticate
  /\ bAuthenticated' = TRUE /\ upset' = {}
  /\ Goto("authok")
  /\ UNCHANGED <<ints, doneMask, hdcpRst, desire, ddc, engine, mute, bRepeater,
                 ret, job, saved, asked, tries, rounds, givenUp>>
  /\ LeaveDriver

CancelRepeater ==
  /\ pc = "cancel"
  /\ CallAbort("cancelled", hdcpRst, desire, "HOST")
  /\ UNCHANGED <<ints, doneMask, list, mute, bAuthenticated, bRepeater, job, rounds, upset>>
  /\ LeaveDriver

Cancelled ==
  /\ pc = "cancelled"
  /\ list' = "fail" /\ HDCP_ClearAuthInterrupt
  /\ Goto("authfail")
  /\ UNCHANGED <<doneMask, hdcpRst, desire, master, ddc, engine, mute,
                 bAuthenticated, bRepeater, ret, job, saved, asked, tries,
                 rounds, givenUp, upset>>
  /\ LeaveDriver

HDCP_Authenticate_Repeater == AwaitList \/ RepeaterGood \/ CancelRepeater \/ Cancelled

-----------------------------------------------------------------------------
(* Back to the caller                                                      *)

Back == [hang |-> "plug", fail |-> "clear", output |-> "status"]

\* The picture is shown either way.
Unmute(ok) == mute' = FALSE

AuthGood ==
  /\ pc = "authok"
  /\ Unmute(TRUE)
  /\ Goto(Back[job]) /\ job' = "none" /\ bRepeater' = FALSE
  /\ UNCHANGED <<ints, doneMask, hdcpRst, desire, master, ddc, engine, list,
                 bAuthenticated, ret, saved, asked, tries,
                 rounds, givenUp, upset>>
  /\ LeaveDriver

\* HDCP_ResetAuth, for the output; a resumed authentication just ends.
AuthBad ==
  /\ pc = "authfail"
  /\ IF job = "output"
     THEN /\ HDCP_ClearAuthInterrupt /\ list' = "none"
          /\ CallAbort("resetdone", TRUE, FALSE, "HOST")
          /\ UNCHANGED mute
     ELSE /\ Unmute(FALSE) /\ Goto(Back[job])
          /\ UNCHANGED <<ints, hdcpRst, desire, engine, waitVars, list, saved, ret>>
  /\ job' = "none" /\ bRepeater' = FALSE
  /\ UNCHANGED <<doneMask, bAuthenticated, rounds, upset>>
  /\ LeaveDriver

ResetDone ==
  /\ pc = "resetdone"
  /\ Unmute(FALSE) /\ Goto("status")
  /\ UNCHANGED <<ints, doneMask, hdcpRst, desire, master, ddc, engine, list,
                 bAuthenticated, bRepeater, ret, job, saved, asked, tries,
                 rounds, givenUp, upset>>
  /\ LeaveDriver

HDCP_Authenticate == \/ Authenticate \/ PrepareAn \/ HDCP_Auth_Fire \/ AwaitDone
                     \/ HDCP_Authenticate_Repeater \/ AuthGood \/ AuthBad \/ ResetDone

CheckHDMITX == \/ ReadStatus \/ ReadStat1 \/ Hung \/ ReadPlug \/ ReadStat2 \/ Failed
               \/ ClearInterrupts \/ Pass \/ SetOutput

Driver == CheckHDMITX \/ ReadEDID \/ Reads \/ HDCP_Authenticate \/ AbortDDC

Next == Driver \/ Environment

\* The firmware runs on; chip and display owe it nothing.
Spec == Init /\ [][Next]_vars /\ WF_vars(Driver)

-----------------------------------------------------------------------------
(* Properties                                                              *)

TypeOK ==
  /\ disp \in Displays /\ ints \subseteq Interrupts
  /\ doneMask \in BOOLEAN /\ hdcpRst \in BOOLEAN /\ desire \in BOOLEAN /\ mute \in BOOLEAN
  /\ bHPD \in BOOLEAN /\ bAuthenticated \in BOOLEAN
  /\ HPD \in BOOLEAN /\ intHpd \in BOOLEAN /\ bRepeater \in BOOLEAN
  /\ master \in {"HOST", "HDCP"} /\ ddc \in {"idle", "busy", "done", "error"}
  /\ engine \in Engine /\ list \in {"none", "done", "fail"}
  /\ job \in {"none", "hang", "fail", "output"}
  /\ saved \in [rst : BOOLEAN, desire : BOOLEAN, master : {"HOST", "HDCP"}]
  /\ pc \in PassLabels \cup AuthLabels
  /\ pc = "abort" => ret \in AbortReturns
  /\ pc # "abort" => ret = "none"
  /\ upset \subseteq {"fifo", "hang"}
  /\ asked \in BOOLEAN /\ givenUp \in BOOLEAN
  /\ tries \in 0..Polls /\ rounds \in 0..(Polls + Blocks)
  /\ engine # "off" => ~hdcpRst /\ desire

\* The engine has the bus while a command of the host is unanswered on it only
\* when the driver has waited for that command to the end: no abort, no resumption
\* and no cancelled read takes the bus from a command that may still be answered
\* in its time.  (That a command given up is left on the bus, with the engine
\* started over it, is what the code does.)
EngineTakesNoLiveCommand == master = "HDCP" /\ ddc = "busy" => ~asked /\ givenUp

\* While the driver holds the display for authentic, the engine is at work on
\* the link, or has said that it failed.  A FIFO error in between is excepted,
\* whose treatment leaves the bus to the host, and so is a bus hang.
AuthenticatedLinkIsChecked ==
  pc = "status" /\ bHPD /\ bAuthenticated /\ upset = {} => Working /\ engine # "off"

\* What the comment above HDCP_Authenticate promises: bAuthenticated is set when
\* the display is authenticated, also after a bus hang.
AuthenticatedAfterHang ==
  pc = "status" /\ bHPD /\ bAuthenticated /\ "fifo" \notin upset => engine # "off"

\* The driver comes back to its loop from every authentication and every read,
\* whatever chip and display do, and never leaves the picture muted.
NothingWaitsForEver == []<>(pc = "status") /\ []<>~mute
=============================================================================
