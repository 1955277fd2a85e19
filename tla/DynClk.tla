------------------------------- MODULE DynClk -------------------------------
(***************************************************************************)
(* The clock operations of the dynamic clock driver                        *)
(* (recipes-modules/dynclk/files/dynclk.c) and the drivers that use the    *)
(* clock: the HDMI encoder (recipes-modules/digilentencoder), which sets   *)
(* its rate and enables it, and others that only enable it.                *)
(*                                                                         *)
(* The clock framework, external, calls set_rate under its prepare lock,   *)
(* enable and disable under its enable lock and only for the first and the *)
(* last consumer: an enable or disable can come between two register       *)
(* writes of a set_rate.                                                   *)
(***************************************************************************)
EXTENDS Mmcm, Sequences

CONSTANTS
  Encoder,      \* digilent_hdmi, the consumer that sets the rate
  Others,       \* the consumers that do not
  None,         \* a lock is free
  Rates,        \* pixel clocks the display modes ask for, in Hz
  ParentRate    \* the reference clock, in Hz

Consumers == {Encoder} \cup Others

ASSUME ConsumersAssumption == None \notin Consumers /\ Encoder \notin Others
ASSUME RatesAssumption == Rates \subseteq Nat
ASSUME ParentAssumption == ParentRate \in Nat /\ ToParent(ParentRate) > 0

VARIABLES
  freq,           \* the rate the driver reports, 0 before the first set_rate
  mode,           \* clkMode of the set_rate under way
  next,           \* the register it writes next
  regs,           \* the registers of the clock manager
  ctrl,           \* its control register: 1 starts it, 0 stops it
  loaded,         \* the registers it was started with
  locked,         \* its status register
  prepare_lock,
  enable_lock,
  enable_count,
  clk_enabled,    \* of each consumer
  pc              \* of each consumer

driver    == <<freq, mode, next>>
manager   == <<regs, ctrl, loaded, locked>>
framework == <<prepare_lock, enable_lock, enable_count>>
vars      == <<driver, manager, framework, clk_enabled, pc>>

Parent == ToParent(ParentRate)

\* The order of dglnt_dynclk_write_reg.
Order == <<"clk0L", "clkFBL", "clkFBH_clk0H", "divclk", "lockL", "fltr_lockH">>

Registers == {Order[i] : i \in DOMAIN Order}

\* The mode set_rate computes for a rate.
Mode(rate) == FindMode(ToFreq(rate), Parent)

\* What round_rate answers.
Round(rate) == ToRate(Mode(rate).freq)

\* The modes are computed once.
Rounded == [r \in Rates |-> Round(r)]
ModeOf  == [r \in {Rounded[q] : q \in Rates} |-> Mode(r)]

\* The probe stops the clock manager and reports no rate.
Init ==
  /\ freq = 0
  /\ mode = NoMode
  /\ next = 1
  /\ regs = [r \in Registers |-> 0]
  /\ ctrl = 0
  /\ loaded = [r \in Registers |-> 0]
  /\ locked = FALSE
  /\ prepare_lock = None
  /\ enable_lock = None
  /\ enable_count = 0
  /\ clk_enabled = [c \in Consumers |-> FALSE]
  /\ pc = [c \in Consumers |-> "idle"]

Goto(c, label) == pc' = [pc EXCEPT ![c] = label]

-----------------------------------------------------------------------------
(* digilent_hdmi_atomic_mode_set, clk_set_rate and dglnt_dynclk_set_rate *)

\* clk_set_rate rounds the rate and returns if it is the current one; else
\* set_rate computes the mode, and returns if there is none.
ModeSet(rate) ==
  /\ pc[Encoder] = "idle"
  /\ prepare_lock = None
  /\ Rounded[rate] # 0
  /\ Rounded[rate] # freq
  /\ prepare_lock' = Encoder
  /\ mode' = ModeOf[Rounded[rate]]
  /\ next' = 1
  /\ Goto(Encoder, "write")
  /\ UNCHANGED <<freq, manager, enable_lock, enable_count, clk_enabled>>

\* Defect: the main divider is not written.
WriteReg_NoDivider ==
  /\ pc[Encoder] = "write"
  /\ regs' = IF Order[next] = "divclk" THEN regs
             ELSE [regs EXCEPT ![Order[next]] = FindReg(mode)[Order[next]]]
  /\ next' = next + 1
  /\ Goto(Encoder, IF next = Len(Order) THEN "report" ELSE "write")
  /\ UNCHANGED <<freq, mode, ctrl, loaded, locked, framework, clk_enabled>>

\* One writel of dglnt_dynclk_write_reg; the result of find_reg is ignored.
WriteReg ==
  /\ pc[Encoder] = "write"
  /\ regs' = [regs EXCEPT ![Order[next]] = FindReg(mode)[Order[next]]]
  /\ next' = next + 1
  /\ Goto(Encoder, IF next = Len(Order) THEN "report" ELSE "write")
  /\ UNCHANGED <<freq, mode, ctrl, loaded, locked, framework, clk_enabled>>

\* Defect: a clock that no one has enabled is not started again.
Report_OnlyIfEnabled ==
  /\ pc[Encoder] = "report"
  /\ freq' = ToRate(mode.freq)
  /\ Goto(Encoder, IF enable_count > 0 THEN "stop" ELSE "finish")
  /\ UNCHANGED <<mode, next, manager, framework, clk_enabled>>

\* The new rate is reported from here on.
Report ==
  /\ pc[Encoder] = "report"
  /\ freq' = ToRate(mode.freq)
  /\ Goto(Encoder, "stop")
  /\ UNCHANGED <<mode, next, manager, framework, clk_enabled>>

\* Defect: a running manager is not stopped, so it keeps its old registers.
Stop_Skipped ==
  /\ pc[Encoder] = "stop"
  /\ Goto(Encoder, "start")
  /\ UNCHANGED <<driver, manager, framework, clk_enabled>>

\* dglnt_dynclk_disable.
Stop ==
  /\ pc[Encoder] = "stop"
  /\ ctrl' = 0
  /\ locked' = FALSE
  /\ Goto(Encoder, "start")
  /\ UNCHANGED <<driver, regs, loaded, framework, clk_enabled>>

-----------------------------------------------------------------------------
(* dglnt_dynclk_enable, called by set_rate and by clk_enable *)

\* The manager starts if a rate was set; it loads its registers as it starts.
Start(c) ==
  /\ pc[c] = "start"
  /\ \/ /\ freq # 0
        /\ ctrl' = 1
        /\ loaded' = IF ctrl = 0 THEN regs ELSE loaded
        /\ Goto(c, "wait")
     \/ /\ freq = 0
        /\ Goto(c, "finish")
        /\ UNCHANGED <<ctrl, loaded>>
  /\ UNCHANGED <<driver, regs, locked, framework, clk_enabled>>

\* The loop on the status register, which has no time limit.
Wait(c) ==
  /\ pc[c] = "wait"
  /\ locked
  /\ Goto(c, "finish")
  /\ UNCHANGED <<driver, manager, framework, clk_enabled>>

\* The framework drops the lock it called the operation under.
Finish(c) ==
  /\ pc[c] = "finish"
  /\ \/ /\ prepare_lock = c
        /\ prepare_lock' = None
        /\ UNCHANGED <<enable_lock, enable_count, clk_enabled>>
     \/ /\ enable_lock = c
        /\ enable_lock' = None
        /\ enable_count' = enable_count + 1
        /\ clk_enabled' = [clk_enabled EXCEPT ![c] = TRUE]
        /\ UNCHANGED prepare_lock
  /\ Goto(c, "idle")
  /\ UNCHANGED <<driver, manager>>

-----------------------------------------------------------------------------
(* digilent_hdmi_enable and digilent_hdmi_disable, which only act on a change
   of clk_enabled; other consumers balance their calls too *)

\* clk_prepare, the first half of clk_prepare_enable.
Prepare(c) ==
  /\ pc[c] = "idle"
  /\ ~clk_enabled[c]
  /\ prepare_lock = None
  /\ Goto(c, "prepared")
  /\ UNCHANGED <<driver, manager, framework, clk_enabled>>

\* clk_enable, the second half: the first consumer's starts the clock.
Enable(c) ==
  /\ pc[c] = "prepared"
  /\ enable_lock = None
  /\ \/ /\ enable_count = 0
        /\ enable_lock' = c
        /\ Goto(c, "start")
        /\ UNCHANGED <<enable_count, clk_enabled>>
     \/ /\ enable_count > 0
        /\ enable_count' = enable_count + 1
        /\ clk_enabled' = [clk_enabled EXCEPT ![c] = TRUE]
        /\ Goto(c, "idle")
        /\ UNCHANGED enable_lock
  /\ UNCHANGED <<driver, manager, prepare_lock>>

\* clk_disable_unprepare: the last consumer's stops the clock.
Disable(c) ==
  /\ pc[c] = "idle"
  /\ clk_enabled[c]
  /\ enable_lock = None
  /\ enable_count' = enable_count - 1
  /\ clk_enabled' = [clk_enabled EXCEPT ![c] = FALSE]
  /\ \/ /\ enable_count = 1
        /\ ctrl' = 0
        /\ locked' = FALSE
     \/ /\ enable_count # 1
        /\ UNCHANGED <<ctrl, locked>>
  /\ UNCHANGED <<driver, regs, loaded, prepare_lock, enable_lock, pc>>

-----------------------------------------------------------------------------
(* The clock manager *)

\* It locks, if what it was started with is a mode within its limits.
Lock ==
  /\ ctrl = 1
  /\ ~locked
  /\ Legal(Parent, [fbmult |-> CountOf(loaded.clkFBL),
                    clkdiv |-> CountOf(loaded.clk0L),
                    maindiv |-> DividerOf(loaded.divclk)])
  /\ locked' = TRUE
  /\ UNCHANGED <<driver, regs, ctrl, loaded, framework, clk_enabled, pc>>

-----------------------------------------------------------------------------
\* A step of an operation under way.
Step(c) ==
  \/ c = Encoder /\ (WriteReg \/ Report \/ Stop)
  \/ Start(c) \/ Wait(c) \/ Finish(c) \/ Enable(c)

Next ==
  \/ \E rate \in Rates : ModeSet(rate)
  \/ \E c \in Consumers : Prepare(c) \/ Disable(c) \/ Step(c)
  \/ Lock

\* Every thread runs and the manager locks in time.  The enable lock is a
\* queued spinlock: whoever waits for it gets it.
Fairness ==
  /\ \A c \in Consumers : WF_vars(Step(c)) /\ SF_vars(Enable(c))
  /\ WF_vars(Lock)

Spec == Init /\ [][Next]_vars
FairSpec == Spec /\ Fairness
-----------------------------------------------------------------------------
\* No set_rate and no enable is under way.
Quiet == prepare_lock = None /\ enable_lock = None

\* However enables and disables fall between the register writes of a
\* set_rate, a clock manager that runs once all is quiet runs at the rate the
\* driver reports, not with registers of two modes nor with the old ones.
RunsAtReportedRate ==
  Quiet /\ ctrl = 1 => ToRate(RunsAt(Parent, loaded)) = freq

\* ... and it runs if a consumer has the clock enabled: an enable that finds
\* no rate set does nothing, and relies on the later set_rate to start it.
EnabledClockRuns ==
  Quiet /\ enable_count > 0 /\ freq # 0 => ctrl = 1

\* The endless wait of set_rate for the status register ends, unless another
\* consumer stops the clock meanwhile.  An enable, which waits with the enable
\* lock held, returns once no set_rate keeps restarting the manager: registers
\* of two modes do not lock, but then the set_rate that wrote them restarts it.
CallersReturn ==
  /\ (prepare_lock = Encoder) ~>
       (prepare_lock # Encoder \/ (pc[Encoder] = "wait" /\ ctrl = 0))
  /\ <>[](prepare_lock = None) =>
       \A c \in Consumers : (pc[c] = "prepared") ~> clk_enabled[c]
=============================================================================
