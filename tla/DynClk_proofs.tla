--------------------------- MODULE DynClk_proofs ---------------------------
(***************************************************************************)
(* For all consumers of the clock, rates and reference clocks: when no     *)
(* set_rate and no enable is under way, a clock manager that runs runs at  *)
(* the rate the driver reports, and it runs if a consumer has it enabled   *)
(* and a rate was set.                                                     *)
(***************************************************************************)
EXTENDS DynClk, Mmcm_proofs

-----------------------------------------------------------------------------
(* The invariant *)

Labels == {"idle", "prepared", "write", "report", "stop", "start", "wait", "finish"}

\* A set_rate is between the first register write and the stop of the manager:
\* the manager may run with other registers than those it has.
Setting == pc[Encoder] \in {"write", "report", "stop"}

Shape ==
  /\ pc \in [Consumers -> Labels]
  /\ regs = [r \in Registers |-> regs[r]]
  /\ ctrl \in {0, 1}
  /\ enable_count \in Int

\* Only the encoder driver sets the rate, under the prepare lock.
Locks ==
  /\ prepare_lock \in {None, Encoder}
  /\ Setting => prepare_lock = Encoder

\* The registers written so far are those of the mode, in the order of
\* dglnt_dynclk_write_reg.
Writing ==
  /\ pc[Encoder] \in {"write", "report"} =>
       RunsAt(Parent, FindReg(mode)) = mode.freq
  /\ pc[Encoder] = "write" =>
       /\ next \in 1 .. 6
       /\ \A i \in 1 .. 6 : i < next => regs[Order[i]] = FindReg(mode)[Order[i]]
  /\ pc[Encoder] = "report" =>
       \A i \in 1 .. 6 : regs[Order[i]] = FindReg(mode)[Order[i]]

\* The registers are those of the rate reported, but while they are written.
RegsMatch ==
  pc[Encoder] \notin {"write", "report"} /\ freq # 0 =>
    ToRate(RunsAt(Parent, regs)) = freq

\* The manager runs with the registers it has, but until set_rate stops it.
RunsOnRegs == ctrl = 1 => Setting \/ (loaded = regs /\ freq # 0)

\* set_rate is about to start the manager again.
Restarting ==
  pc[Encoder] = "stop" \/ (pc[Encoder] = "start" /\ prepare_lock = Encoder)

\* A consumer has the clock enabled, or has just started it.
InUse ==
  \/ enable_count > 0
  \/ \E c \in Consumers : enable_lock = c /\ pc[c] \in {"wait", "finish"}

IsOn == InUse /\ freq # 0 /\ ~Restarting => ctrl = 1

IInv == Shape /\ Locks /\ Writing /\ RegsMatch /\ RunsOnRegs /\ IsOn

-----------------------------------------------------------------------------
(* The modes *)

\* The six registers, and those the frequency depends on.
LEMMA TheRegisters ==
  /\ Len(Order) = 6 /\ DOMAIN Order = 1 .. 6
  /\ Order[1] = "clk0L" /\ Order[2] = "clkFBL" /\ Order[4] = "divclk"
  /\ \A i \in 1 .. 6 : Order[i] \in Registers
  /\ \A i, j \in 1 .. 6 : Order[i] = Order[j] => i = j
  <1>1. Len(Order) = 6 /\ DOMAIN Order = 1 .. 6
    BY DEF Order
  <1>2. Order[1] = "clk0L" /\ Order[2] = "clkFBL" /\ Order[4] = "divclk"
    BY DEF Order
  <1>3. \A i \in 1 .. 6 : Order[i] \in Registers
    BY <1>1 DEF Registers
  <1>4. \A i, j \in 1 .. 6 : Order[i] = Order[j] => i = j
    BY DEF Order
  <1> QED BY <1>1, <1>2, <1>3, <1>4

\* Modes that agree with find_reg's answer on the registers run alike.
LEMMA SameRegisters ==
  ASSUME NEW m, NEW r,
         \A i \in 1 .. 6 : r[Order[i]] = FindReg(m)[Order[i]]
  PROVE  RunsAt(Parent, r) = RunsAt(Parent, FindReg(m))
  <1>1. /\ r.clk0L = FindReg(m).clk0L /\ r.clkFBL = FindReg(m).clkFBL
        /\ r.divclk = FindReg(m).divclk
    BY TheRegisters
  <1> QED BY <1>1, Zenon DEF RunsAt

\* The mode of a rate that round_rate answered makes the clock manager run at
\* the frequency the mode says: find_mode has candidates for it, and find_reg
\* succeeds on them.
LEMMA RoundedModeRuns ==
  ASSUME NEW rate \in Rates, Rounded[rate] # 0
  PROVE  RunsAt(Parent, FindReg(ModeOf[Rounded[rate]])) = ModeOf[Rounded[rate]].freq
  <1>1. Parent \in Nat \ {0}
    BY ParentAssumption DEF Parent, ToParent
  <1>2. Rounded[rate] = ToRate(FindMode(ToFreq(rate), Parent).freq)
    BY DEF Rounded, Round, Mode
  <1>3. ModeOf[Rounded[rate]] = FindMode(ToFreq(Rounded[rate]), Parent)
    BY DEF ModeOf, Mode
  <1>4. \A n \in Int : Clamp(n, OUTMIN, OUTMAX) \in Nat \ {0}
    BY ClampRange, Limits
  <1>5. ToFreq(rate) \in Int
    BY RatesAssumption DEF ToFreq
  <1>6. PairsOf(Parent) # {}
    <2>1. SUFFICES ASSUME PairsOf(Parent) = {} PROVE FALSE
      OBVIOUS
    <2>2. FindMode(ToFreq(rate), Parent) = NoMode
      BY <1>1, <1>5, <2>1, FindModeIs
    <2> QED BY <1>2, <2>2 DEF NoMode, ToRate
  <1>7. \A n \in Int : \E q \in PairsOf(Parent) :
          FindMode(n, Parent) = Candidate(Clamp(n, OUTMIN, OUTMAX), Parent, q[1], q[2])
    <2> TAKE n \in Int
    <2>1. PICK q : IsBest(Clamp(n, OUTMIN, OUTMAX), Parent, q)
      BY <1>1, <1>4, <1>6, BestExists
    <2> QED BY <1>1, <2>1, FindModeIs DEF IsBest
  <1>8. Rounded[rate] \in Nat
    <2>1. PICK q \in PairsOf(Parent) :
            FindMode(ToFreq(rate), Parent) =
              Candidate(Clamp(ToFreq(rate), OUTMIN, OUTMAX), Parent, q[1], q[2])
      BY <1>5, <1>7
    <2>2. FindMode(ToFreq(rate), Parent).freq \in Nat
      BY <1>1, <1>4, <1>5, <2>1, PairType
    <2> QED BY <1>2, <2>2 DEF ToRate
  <1>9. ToFreq(Rounded[rate]) \in Int
    BY <1>8 DEF ToFreq
  <1> DEFINE f == Clamp(ToFreq(Rounded[rate]), OUTMIN, OUTMAX)
  <1>10. PICK q \in PairsOf(Parent) :
           ModeOf[Rounded[rate]] = Candidate(f, Parent, q[1], q[2])
    BY <1>3, <1>7, <1>9
  <1>11. f \in Nat \ {0}
    BY <1>4, <1>9
  <1> HIDE DEF f
  <1>12. /\ WithinLoops(Parent, Candidate(f, Parent, q[1], q[2]))
         /\ Candidate(f, Parent, q[1], q[2]).freq =
              Output(Parent, Candidate(f, Parent, q[1], q[2]).maindiv,
                             Candidate(f, Parent, q[1], q[2]).fbmult,
                             Candidate(f, Parent, q[1], q[2]).clkdiv)
    BY <1>1, <1>11, PairType
  <1> QED BY <1>1, <1>10, <1>12, ModesHaveRegisters DEF WithinLoops

-----------------------------------------------------------------------------
(* The steps *)

\* The probe leaves the clock manager stopped.
LEMMA Initially == Init => IInv
  <1> SUFFICES ASSUME Init PROVE IInv
    OBVIOUS
  <1>1. pc[Encoder] = "idle" /\ \A c \in Consumers : pc[c] = "idle"
    BY DEF Init, Consumers
  <1>2. Shape
    BY DEF Init, Shape, Labels
  <1>3. Locks /\ Writing /\ RegsMatch /\ RunsOnRegs /\ IsOn
    BY <1>1 DEF Init, Locks, Writing, RegsMatch, RunsOnRegs, IsOn, InUse, Setting
  <1> QED BY <1>2, <1>3 DEF IInv

\* Only set_rate changes the registers and what it is about to write, and it
\* starts and ends with the registers of the rate reported.
LEMMA ModeSetStep ==
  ASSUME IInv, NEW rate \in Rates, ModeSet(rate)
  PROVE  IInv'
  <1>1. /\ pc \in [Consumers -> Labels] /\ Encoder \in Consumers
        /\ pc' = [pc EXCEPT ![Encoder] = "write"] /\ pc[Encoder] = "idle"
    BY DEF IInv, Shape, ModeSet, Goto, Consumers
  <1>2. pc'[Encoder] = "write" /\ \A c \in Consumers : c # Encoder => pc'[c] = pc[c]
    BY <1>1
  <1>3. Shape' /\ Locks'
    BY <1>1, <1>2 DEF IInv, Shape, Labels, Locks, ModeSet, manager
  <1>4. Writing'
    <2>1. RunsAt(Parent, FindReg(mode')) = mode'.freq
      BY RoundedModeRuns DEF ModeSet
    <2>2. next' = 1
      BY DEF ModeSet
    <2> QED BY <1>2, <2>1, <2>2 DEF Writing
  <1>5. RegsMatch' /\ RunsOnRegs'
    BY <1>2 DEF RegsMatch, RunsOnRegs, Setting
  <1>6. IsOn'
    <2>1. ~Restarting /\ ~Restarting'
      BY <1>1, <1>2 DEF Restarting
    <2>2. InUse' => InUse
      BY <1>1, <1>2 DEF InUse, ModeSet
    <2> QED BY <2>1, <2>2 DEF IInv, IsOn, ModeSet, manager
  <1> QED BY <1>3, <1>4, <1>5, <1>6 DEF IInv

\* A register is written.
LEMMA WriteRegStep ==
  ASSUME IInv, WriteReg
  PROVE  IInv'
  <1>1. /\ pc \in [Consumers -> Labels] /\ Encoder \in Consumers
        /\ pc' = [pc EXCEPT ![Encoder] = IF next = Len(Order) THEN "report" ELSE "write"]
        /\ pc[Encoder] = "write"
    BY DEF IInv, Shape, WriteReg, Goto, Consumers
  <1>2. /\ pc'[Encoder] = IF next = 6 THEN "report" ELSE "write"
        /\ \A c \in Consumers : c # Encoder => pc'[c] = pc[c]
    BY <1>1, TheRegisters
  <1>3. next \in 1 .. 6 /\ next' = next + 1 /\ mode' = mode
    BY <1>1 DEF IInv, Writing, WriteReg
  <1>4. /\ regs' = [r \in Registers |-> regs'[r]]
        /\ regs'[Order[next]] = FindReg(mode)[Order[next]]
        /\ \A i \in 1 .. 6 : i # next => regs'[Order[i]] = regs[Order[i]]
    <2>1. regs' = [regs EXCEPT ![Order[next]] = FindReg(mode)[Order[next]]]
      BY DEF WriteReg
    <2>2. regs = [r \in Registers |-> regs[r]]
      BY DEF IInv, Shape
    <2> QED BY <1>3, <2>1, <2>2, TheRegisters
  <1>5. Shape' /\ Locks'
    BY <1>1, <1>2, <1>4 DEF IInv, Shape, Labels, Locks, Setting, WriteReg, framework
  <1>6. Writing'
    <2>1. RunsAt(Parent, FindReg(mode')) = mode'.freq
      BY <1>1, <1>3 DEF IInv, Writing
    <2>2. \A i \in 1 .. 6 : i < next' => regs'[Order[i]] = FindReg(mode')[Order[i]]
      <3> SUFFICES ASSUME NEW i \in 1 .. 6, i < next'
                   PROVE  regs'[Order[i]] = FindReg(mode)[Order[i]]
        BY <1>3
      <3>1. CASE i = next
        BY <1>4, <3>1
      <3>2. CASE i < next
        BY <1>1, <1>3, <1>4, <3>2 DEF IInv, Writing
      <3> QED BY <1>3, <3>1, <3>2
    <2>3. CASE next = 6
      BY <1>2, <1>3, <2>1, <2>2, <2>3 DEF Writing
    <2>4. CASE next # 6
      BY <1>2, <1>3, <2>1, <2>2, <2>4 DEF Writing
    <2> QED BY <2>3, <2>4
  <1>7. RegsMatch' /\ RunsOnRegs'
    BY <1>2 DEF RegsMatch, RunsOnRegs, Setting
  <1>8. IsOn'
    <2>1. ~Restarting /\ ~Restarting'
      BY <1>1, <1>2 DEF Restarting
    <2>2. InUse' => InUse
      BY <1>1, <1>2 DEF InUse, WriteReg, framework
    <2> QED BY <2>1, <2>2 DEF IInv, IsOn, WriteReg
  <1> QED BY <1>5, <1>6, <1>7, <1>8 DEF IInv

\* The rate is reported when all its registers are written.
LEMMA ReportStep ==
  ASSUME IInv, Report
  PROVE  IInv'
  <1>1. /\ pc \in [Consumers -> Labels] /\ Encoder \in Consumers
        /\ pc' = [pc EXCEPT ![Encoder] = "stop"] /\ pc[Encoder] = "report"
    BY DEF IInv, Shape, Report, Goto, Consumers
  <1>2. pc'[Encoder] = "stop" /\ \A c \in Consumers : c # Encoder => pc'[c] = pc[c]
    BY <1>1
  <1>3. Shape' /\ Locks' /\ Writing'
    BY <1>1, <1>2 DEF IInv, Shape, Labels, Locks, Setting, Writing, Report, manager, framework
  <1>4. RegsMatch'
    <2>1. RunsAt(Parent, regs) = mode.freq
      BY <1>1, SameRegisters DEF IInv, Writing
    <2> QED BY <1>2, <2>1 DEF RegsMatch, Report, manager
  <1>5. RunsOnRegs' /\ IsOn'
    BY <1>2 DEF RunsOnRegs, Setting, IsOn, Restarting
  <1> QED BY <1>3, <1>4, <1>5 DEF IInv

\* The manager is stopped, and started again with the registers it has.
LEMMA StopStep ==
  ASSUME IInv, Stop
  PROVE  IInv'
  <1>1. /\ pc \in [Consumers -> Labels] /\ Encoder \in Consumers
        /\ pc' = [pc EXCEPT ![Encoder] = "start"] /\ pc[Encoder] = "stop"
    BY DEF IInv, Shape, Stop, Goto, Consumers
  <1>2. pc'[Encoder] = "start" /\ \A c \in Consumers : c # Encoder => pc'[c] = pc[c]
    BY <1>1
  <1>3. Shape' /\ Locks' /\ Writing'
    BY <1>1, <1>2 DEF IInv, Shape, Labels, Locks, Setting, Writing, Stop, driver, framework
  <1>4. RegsMatch'
    BY <1>1 DEF IInv, RegsMatch, Stop, driver
  <1>5. RunsOnRegs'
    BY DEF RunsOnRegs, Stop
  <1>6. IsOn'
    BY <1>1, <1>2 DEF IInv, Locks, Setting, IsOn, Restarting, Stop, framework
  <1> QED BY <1>3, <1>4, <1>5, <1>6 DEF IInv

\* A manager that starts loads the registers it has, be it for a set_rate or
\* for a consumer; those of a set_rate under way are not looked at.
LEMMA StartStep ==
  ASSUME IInv, NEW c \in Consumers, Start(c)
  PROVE  IInv'
  <1>1. /\ pc \in [Consumers -> Labels] /\ Encoder \in Consumers /\ pc[c] = "start"
        /\ pc' = [pc EXCEPT ![c] = IF freq # 0 THEN "wait" ELSE "finish"]
        /\ freq # 0 => ctrl' = 1 /\ loaded' = IF ctrl = 0 THEN regs ELSE loaded
        /\ freq = 0 => ctrl' = ctrl /\ loaded' = loaded
        /\ UNCHANGED <<driver, regs, locked, framework, clk_enabled>>
    BY DEF IInv, Shape, Start, Goto, Consumers
  <1>2. /\ pc'[c] \in {"wait", "finish"}
        /\ \A d \in Consumers : d # c => pc'[d] = pc[d]
    BY <1>1
  <1>3. Shape' /\ Locks' /\ Writing'
    BY <1>1, <1>2 DEF IInv, Shape, Labels, Locks, Setting, Writing, driver, framework
  <1>4. Setting' <=> Setting
    BY <1>1, <1>2 DEF Setting
  <1>5. RegsMatch'
    BY <1>1, <1>2 DEF IInv, RegsMatch, driver
  <1>6. RunsOnRegs'
    BY <1>1, <1>4 DEF IInv, Shape, RunsOnRegs, driver
  <1>7. IsOn'
    BY <1>1 DEF IsOn, driver
  <1> QED BY <1>3, <1>5, <1>6, <1>7 DEF IInv

\* Waiting for the status register changes nothing.
LEMMA WaitStep ==
  ASSUME IInv, NEW c \in Consumers, Wait(c)
  PROVE  IInv'
  <1>1. /\ pc \in [Consumers -> Labels] /\ Encoder \in Consumers /\ pc[c] = "wait"
        /\ pc' = [pc EXCEPT ![c] = "finish"]
        /\ UNCHANGED <<driver, manager, framework, clk_enabled>>
    BY DEF IInv, Shape, Wait, Goto, Consumers
  <1>2. pc'[c] = "finish" /\ \A d \in Consumers : d # c => pc'[d] = pc[d]
    BY <1>1
  <1>3. Shape' /\ Locks' /\ Writing' /\ RegsMatch' /\ RunsOnRegs'
    BY <1>1, <1>2
       DEF IInv, Shape, Labels, Locks, Setting, Writing, RegsMatch, RunsOnRegs,
           driver, manager, framework
  <1>4. IsOn'
    <2>1. Restarting' <=> Restarting
      BY <1>1, <1>2 DEF Restarting, framework
    <2>2. InUse' => InUse
      BY <1>1, <1>2 DEF InUse, framework
    <2> QED BY <1>1, <2>1, <2>2 DEF IInv, IsOn, driver, manager
  <1> QED BY <1>3, <1>4 DEF IInv

\* The operation ends: a set_rate, or the first enable, which counts from now.
LEMMA FinishStep ==
  ASSUME IInv, NEW c \in Consumers, Finish(c)
  PROVE  IInv'
  <1>1. /\ pc \in [Consumers -> Labels] /\ Encoder \in Consumers /\ pc[c] = "finish"
        /\ pc' = [pc EXCEPT ![c] = "idle"]
        /\ UNCHANGED <<driver, manager>>
        /\ \/ prepare_lock = c /\ prepare_lock' = None
              /\ UNCHANGED <<enable_lock, enable_count>>
           \/ enable_lock = c /\ enable_lock' = None
              /\ enable_count' = enable_count + 1 /\ prepare_lock' = prepare_lock
    BY DEF IInv, Shape, Finish, Goto, Consumers
  <1>2. pc'[c] = "idle" /\ \A d \in Consumers : d # c => pc'[d] = pc[d]
    BY <1>1
  <1>3. Shape'
    BY <1>1 DEF IInv, Shape, Labels, manager
  <1>4. Locks'
    <2>1. prepare_lock = c => c = Encoder
      BY ConsumersAssumption, <1>1 DEF IInv, Locks, Consumers
    <2> QED BY <1>1, <1>2, <2>1 DEF IInv, Locks, Setting
  <1>5. Writing' /\ RegsMatch' /\ RunsOnRegs'
    BY <1>1, <1>2 DEF IInv, Setting, Writing, RegsMatch, RunsOnRegs, driver, manager
  <1>6. IsOn'
    <2>1. Restarting => Restarting'
      <3>1. CASE c = Encoder
        BY <1>1, <3>1 DEF Restarting
      <3>2. CASE c # Encoder
        <4>1. prepare_lock' = prepare_lock
          BY <1>1, <3>2, ConsumersAssumption DEF IInv, Locks, Consumers
        <4> QED BY <1>1, <1>2, <3>2, <4>1 DEF Restarting
      <3> QED BY <3>1, <3>2
    <2>2. InUse' => InUse
      <3>1. CASE enable_lock = c
        BY <1>1, <3>1 DEF InUse
      <3>2. CASE enable_lock # c
        BY <1>1, <1>2, <3>2 DEF InUse
      <3> QED BY <3>1, <3>2
    <2> QED BY <1>1, <2>1, <2>2 DEF IInv, IsOn, driver, manager
  <1> QED BY <1>3, <1>4, <1>5, <1>6 DEF IInv

\* A consumer gets as far as the enable lock.
LEMMA PrepareStep ==
  ASSUME IInv, NEW c \in Consumers, Prepare(c)
  PROVE  IInv'
  <1>1. /\ pc \in [Consumers -> Labels] /\ Encoder \in Consumers /\ pc[c] = "idle"
        /\ pc' = [pc EXCEPT ![c] = "prepared"]
        /\ UNCHANGED <<driver, manager, framework, clk_enabled>>
    BY DEF IInv, Shape, Prepare, Goto, Consumers
  <1>2. pc'[c] = "prepared" /\ \A d \in Consumers : d # c => pc'[d] = pc[d]
    BY <1>1
  <1>3. Shape' /\ Locks' /\ Writing' /\ RegsMatch' /\ RunsOnRegs'
    BY <1>1, <1>2
       DEF IInv, Shape, Labels, Locks, Setting, Writing, RegsMatch, RunsOnRegs,
           driver, manager, framework
  <1>4. IsOn'
    <2>1. Restarting' <=> Restarting
      BY <1>1, <1>2 DEF Restarting, framework
    <2>2. InUse' => InUse
      BY <1>1, <1>2 DEF InUse, framework
    <2> QED BY <1>1, <2>1, <2>2 DEF IInv, IsOn, driver, manager
  <1> QED BY <1>3, <1>4 DEF IInv

\* An enable is counted, or goes on to start the clock.
LEMMA EnableStep ==
  ASSUME IInv, NEW c \in Consumers, Enable(c)
  PROVE  IInv'
  <1>1. /\ pc \in [Consumers -> Labels] /\ Encoder \in Consumers /\ pc[c] = "prepared"
        /\ enable_lock = None /\ prepare_lock' = prepare_lock
        /\ UNCHANGED <<driver, manager>>
        /\ \/ enable_count = 0 /\ enable_lock' = c /\ pc' = [pc EXCEPT ![c] = "start"]
              /\ enable_count' = enable_count
           \/ enable_count > 0 /\ enable_count' = enable_count + 1
              /\ pc' = [pc EXCEPT ![c] = "idle"] /\ enable_lock' = enable_lock
    BY DEF IInv, Shape, Enable, Goto, Consumers
  <1>2. /\ pc'[c] \in {"start", "idle"}
        /\ \A d \in Consumers : d # c => pc'[d] = pc[d]
    BY <1>1
  <1>3. Shape' /\ Locks' /\ Writing' /\ RegsMatch' /\ RunsOnRegs'
    BY <1>1, <1>2
       DEF IInv, Shape, Labels, Locks, Setting, Writing, RegsMatch, RunsOnRegs,
           driver, manager
  <1>4. IsOn'
    <2>1. Restarting => Restarting'
      BY <1>1, <1>2 DEF Restarting
    <2>2. InUse' => InUse
      <3>1. \A d \in Consumers : enable_lock # d
        BY <1>1, ConsumersAssumption
      <3> QED BY <1>1, <1>2, <3>1 DEF IInv, Shape, InUse
    <2> QED BY <1>1, <2>1, <2>2 DEF IInv, IsOn, driver, manager
  <1> QED BY <1>3, <1>4 DEF IInv

\* The last disable stops the clock: no one is left who uses it.
LEMMA DisableStep ==
  ASSUME IInv, NEW c \in Consumers, Disable(c)
  PROVE  IInv'
  <1>1. /\ enable_lock = None /\ enable_count \in Int /\ enable_count' = enable_count - 1
        /\ \/ enable_count = 1 /\ ctrl' = 0
           \/ enable_count # 1 /\ ctrl' = ctrl
        /\ UNCHANGED <<driver, regs, loaded, prepare_lock, enable_lock, pc>>
    BY DEF IInv, Shape, Disable
  <1>2. Shape' /\ Locks' /\ Writing' /\ RegsMatch' /\ RunsOnRegs'
    BY <1>1
       DEF IInv, Shape, Locks, Setting, Writing, RegsMatch, RunsOnRegs, driver
  <1>3. IsOn'
    <2>1. \A d \in Consumers : enable_lock' # d
      BY <1>1, ConsumersAssumption
    <2>2. InUse' => InUse /\ enable_count # 1
      BY <1>1, <2>1 DEF InUse
    <2>3. Restarting' <=> Restarting
      BY <1>1 DEF Restarting
    <2> QED BY <1>1, <2>2, <2>3 DEF IInv, IsOn, driver
  <1> QED BY <1>2, <1>3 DEF IInv

\* Each step keeps the invariant; of the manager's status it says nothing.
LEMMA Inductive == IInv /\ [Next]_vars => IInv'
  <1> SUFFICES ASSUME IInv, [Next]_vars PROVE IInv'
    OBVIOUS
  <1>1. CASE \E rate \in Rates : ModeSet(rate)
    BY <1>1, ModeSetStep
  <1>2. CASE WriteReg \/ Report \/ Stop
    BY <1>2, WriteRegStep, ReportStep, StopStep
  <1>3. CASE \E c \in Consumers : Start(c) \/ Wait(c) \/ Finish(c)
    BY <1>3, StartStep, WaitStep, FinishStep
  <1>4. CASE \E c \in Consumers : Prepare(c) \/ Enable(c) \/ Disable(c)
    BY <1>4, PrepareStep, EnableStep, DisableStep
  <1>5. CASE UNCHANGED <<driver, regs, ctrl, loaded, framework, clk_enabled, pc>>
    BY <1>5
       DEF IInv, Shape, Locks, Setting, Writing, RegsMatch, RunsOnRegs, IsOn, InUse,
           Restarting, driver, framework
  <1> QED BY <1>1, <1>2, <1>3, <1>4, <1>5 DEF Next, Step, Lock, vars, manager

\* The invariant of the clock driver and its callers.
THEOREM Invariance == Spec => []IInv
  BY Initially, Inductive, PTL DEF Spec

\* When no set_rate and no enable is under way, a clock manager that runs runs
\* at the rate dglnt_dynclk_recalc_rate reports, wherever enables and disables
\* fell between the register writes of the last set_rate.
THEOREM ReportsItsRate == Spec => []RunsAtReportedRate
  <1>1. IInv => RunsAtReportedRate
    <2> SUFFICES ASSUME IInv, Quiet, ctrl = 1
                 PROVE  ToRate(RunsAt(Parent, loaded)) = freq
      BY DEF RunsAtReportedRate
    <2>1. ~Setting
      BY ConsumersAssumption DEF IInv, Locks, Quiet, Consumers
    <2> QED BY <2>1 DEF IInv, RunsOnRegs, RegsMatch, Setting
  <1> QED BY <1>1, Invariance, PTL

\* ... and the clock runs if a consumer has enabled it and a rate was set.
THEOREM EnabledMeansOn == Spec => []EnabledClockRuns
  <1>1. IInv => EnabledClockRuns
    <2> SUFFICES ASSUME IInv, Quiet, enable_count > 0, freq # 0
                 PROVE  ctrl = 1
      BY DEF EnabledClockRuns
    <2>1. ~Restarting
      BY ConsumersAssumption DEF IInv, Locks, Quiet, Consumers, Setting, Restarting
    <2> QED BY <2>1 DEF IInv, IsOn, InUse
  <1> QED BY <1>1, Invariance, PTL
=============================================================================
