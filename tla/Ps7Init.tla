------------------------------ MODULE Ps7Init ------------------------------
(***************************************************************************)
(* The initialisation of the board, ps7_init.c: the first stage loader     *)
(* calls ps7_init, which interprets five tables of register operations,    *)
(* and later ps7_post_config or ps7_debug, which interpret one each.  The  *)
(* hardware answers the operations in its own time, or never.              *)
(***************************************************************************)
EXTENDS Ps7Ops, Integers

CONSTANTS
  POLL_TIME,       \* PS7_MASK_POLL_TIME: the reads of a poll before it gives up
  TICK,            \* Bound: the timer advances in steps of this many cycles
  MAX_COUNT,       \* Bound: where the timer stops being counted
  MAX_CALLS,       \* Bound: calls into ps7_init.c
  Silicon,         \* The values of the version register
  Damages          \* Damaged entries <<table, position>>: opcodes of no operation

ASSUME Ps7Assumption ==
  POLL_TIME \in Nat /\ TICK \in Nat \ {0} /\ MAX_COUNT \in Nat /\ MAX_CALLS \in Nat

LOCAL V1 == INSTANCE Ps7Data_1_0
LOCAL V2 == INSTANCE Ps7Data_2_0
LOCAL V3 == INSTANCE Ps7Data_3_0

VARIABLES
  silicon,         \* What ps7GetSiliconVersion reads
  damaged,         \* The damaged table entry, or <<"no table", 0>>
  calls,           \* Calls made so far
  call,            \* The function running, or the last that ran
  pending,         \* The tables it still has to interpret, the current one first
  ptr,             \* Position in the current table
  pc,              \* "fetch", or "wait" inside a MASKPOLL or MASKDELAY
  i,               \* The counter of the poll
  ret,             \* What each function last returned; -1 before
  regs,            \* What was written to each register, by field
  unlocked,        \* The SLCR takes writes
  pll,             \* The multiplier each PLL is locked at, 0 when it is not
  dci,             \* The impedance calibration of the DDR pins
  ddr_up,          \* The DDR controller left its initialisation
  timer,           \* The global timer: running, and its count
  low              \* Cycles the reset pin of the USB transceiver has been low

driver == <<silicon, damaged, calls, call, pending, ptr, pc, i, ret>>
hardware == <<regs, unlocked, pll, dci, ddr_up, timer, low>>
vars == <<driver, hardware>>

PS7_INIT_SUCCESS == 0
PS7_INIT_CORRUPT == 1
PS7_INIT_TIMEOUT == 2

Functions == {"ps7_init", "ps7_post_config", "ps7_debug"}
Plls == {"ARM", "DDR", "IO"}

-----------------------------------------------------------------------------
(* The tables *)

Tables_1_0 ==
  [mio |-> V1!mio_init_data, pll |-> V1!pll_init_data, clock |-> V1!clock_init_data,
   ddr |-> V1!ddr_init_data, peripherals |-> V1!peripherals_init_data,
   post_config |-> V1!post_config, debug |-> V1!debug]

Tables_2_0 ==
  [mio |-> V2!mio_init_data, pll |-> V2!pll_init_data, clock |-> V2!clock_init_data,
   ddr |-> V2!ddr_init_data, peripherals |-> V2!peripherals_init_data,
   post_config |-> V2!post_config, debug |-> V2!debug]

Tables_3_0 ==
  [mio |-> V3!mio_init_data, pll |-> V3!pll_init_data, clock |-> V3!clock_init_data,
   ddr |-> V3!ddr_init_data, peripherals |-> V3!peripherals_init_data,
   post_config |-> V3!post_config, debug |-> V3!debug]

\* PCW_SILICON_VERSION_1 is 0, PCW_SILICON_VERSION_2 is 1; any other gets 3.0.
Tables ==
  [v \in Silicon |-> CASE v = 0 -> Tables_1_0 [] v = 1 -> Tables_2_0 [] OTHER -> Tables_3_0]

\* The tables each function interprets, in order.
TablesOf ==
  [ps7_init |-> <<"mio", "pll", "clock", "ddr", "peripherals">>,
   ps7_post_config |-> <<"post_config">>,
   ps7_debug |-> <<"debug">>]

IsWrite(op) == op.op \in {"write", "maskwrite"}

\* The registers a table writes.
WrittenBy(table) ==
  {table[k].reg : k \in {k \in DOMAIN table : IsWrite(table[k])}}

Registers == UNION {WrittenBy(Tables[v][t]) : v \in Silicon, t \in DOMAIN Tables_3_0}

\* The operation at ptr.
Op ==
  IF <<pending[1], ptr>> = damaged THEN [op |-> "undefined"]
  ELSE Tables[silicon][pending[1]][ptr]

Fetches(op) == pending # <<>> /\ pc = "fetch" /\ Op.op = op
Waits(op) == pending # <<>> /\ pc = "wait" /\ Op.op = op

-----------------------------------------------------------------------------
(* The hardware *)

Ctrl == [ARM |-> <<"slcr", "ARM_PLL_CTRL">>,
         DDR |-> <<"slcr", "DDR_PLL_CTRL">>,
         IO |-> <<"slcr", "IO_PLL_CTRL">>]

DciCtrl == <<"slcr", "DDRIOB_DCI_CTRL">>
DciClk == <<"slcr", "DCI_CLK_CTRL">>
DdrcCtrl == <<"ddrc", "ddrc_ctrl">>
UsbReset == <<"mio", 46>>

\* A field holds a value that was written to it.
Holds(r, reg, field, value) == field \in DOMAIN r[reg] /\ r[reg][field] = value

\* Two blocks are behind the lock of the SLCR, whose two keys are not.
Protected(reg) ==
  reg[1] = "mio" \/ (reg[1] = "slcr" /\ reg[2] \notin {"SLCR_LOCK", "SLCR_UNLOCK"})

\* The fields of a write over those of its register: @@ of TLC, which the
\* provers cannot expand.
Over(new, old) ==
  [x \in DOMAIN new \cup DOMAIN old |-> IF x \in DOMAIN new THEN new[x] ELSE old[x]]

\* The registers after a write: bits outside a mask keep what they had, and a
\* write to a locked register is lost.
Stored(op) ==
  IF Protected(op.reg) /\ ~unlocked THEN regs
  ELSE [regs EXCEPT ![op.reg] = IF op.op = "write" THEN op.fields ELSE Over(op.fields, @)]

\* The GPIO drives the reset pin, and drives it low.
UsbData == <<"gpio", "MASK_DATA_1_LSW">>
DrivenLow ==
  {<<UsbReset, f, 0>> : f \in DOMAIN Gpio \cup {"TRI_ENABLE"}}
    \cup {<<<<"gpio", "DIRM_1">>, "DIRECTION_1", \h4000>>,
          <<<<"gpio", "OEN_1">>, "OP_ENABLE_1", \h4000>>,
          <<UsbData, "DATA_1_LSW", 0>>}
PinLow(r) == \A w \in DrivenLow : Holds(r, w[1], w[2], w[3])

\* What the hardware makes of the registers as they become r'.
React ==
  /\ pll' = [p \in Plls |-> IF Holds(regs', Ctrl[p], "PLL_RESET", 1) THEN 0 ELSE pll[p]]
  /\ dci' = CASE Holds(regs', DciCtrl, "RESET", 0) -> "reset"
              [] dci = "reset" /\ Holds(regs', DciCtrl, "RESET", 1) -> "started"
              [] OTHER -> dci
  /\ ddr_up' = (ddr_up /\ Holds(regs', DdrcCtrl, "reg_ddrc_soft_rstb", 1))
  /\ low' = IF PinLow(regs) /\ PinLow(regs') THEN low ELSE 0

\* A PLL out of reset locks at the multiplier it then has.
PllLocks(p) ==
  /\ Holds(regs, Ctrl[p], "PLL_RESET", 0)
  /\ pll[p] = 0
  /\ pll' = [pll EXCEPT ![p] = regs[Ctrl[p]].PLL_FDIV]
  /\ UNCHANGED <<driver, regs, unlocked, dci, ddr_up, timer, low>>

\* The calibration needs its clock, and a reset that was taken and given.
DciDone ==
  /\ dci = "started"
  /\ Holds(regs, DciCtrl, "ENABLE", 1)
  /\ Holds(regs, DciClk, "CLKACT", 1)
  /\ dci' = "done"
  /\ UNCHANGED <<driver, regs, unlocked, pll, ddr_up, timer, low>>

\* The controller, released from reset, initialises the memory.
DdrUp ==
  /\ ~ddr_up
  /\ Holds(regs, DdrcCtrl, "reg_ddrc_soft_rstb", 1)
  /\ pll["DDR"] # 0
  /\ ddr_up' = TRUE
  /\ UNCHANGED <<driver, regs, unlocked, pll, dci, timer, low>>

\* Time is only counted where the program waits for it to pass.
Tick ==
  /\ Waits("maskdelay")
  /\ timer.on /\ timer.count < MAX_COUNT
  /\ timer' = [timer EXCEPT !.count = @ + TICK]
  /\ low' = IF PinLow(regs) THEN low + TICK ELSE 0
  /\ UNCHANGED <<driver, regs, unlocked, pll, dci, ddr_up>>

\* The bits a MASKPOLL looks for.
Answered(op) ==
  CASE op.field = "ARM_PLL_LOCK" -> pll["ARM"] # 0
    [] op.field = "DDR_PLL_LOCK" -> pll["DDR"] # 0
    [] op.field = "IO_PLL_LOCK" -> pll["IO"] # 0
    [] op.field = "DONE" -> dci = "done"
    [] op.field = "ddrc_reg_operating_mode" -> ddr_up

-----------------------------------------------------------------------------
(* The functions of ps7_init.c *)

\* The loader: ps7_init at any time, the others once it has succeeded.
Call(f) ==
  /\ pending = <<>>
  /\ calls < MAX_CALLS
  /\ f = "ps7_init" \/ ret["ps7_init"] = PS7_INIT_SUCCESS
  /\ calls' = calls + 1
  /\ call' = f
  /\ pending' = TablesOf[f]
  /\ ptr' = 1
  /\ UNCHANGED <<silicon, damaged, pc, i, ret, hardware>>

NextOp ==
  /\ ptr' = ptr + 1
  /\ pc' = "fetch"
  /\ UNCHANGED <<silicon, damaged, calls, call, pending, ret>>

\* Defect: the next table is taken up whatever the result.
Finish_GoesOn(result) ==
  /\ pc' = "fetch"
  /\ i' = 0
  /\ IF Len(pending) > 1
     THEN pending' = Tail(pending) /\ ptr' = 1 /\ UNCHANGED ret
     ELSE pending' = <<>> /\ ret' = [ret EXCEPT ![call] = result] /\ UNCHANGED ptr
  /\ UNCHANGED <<silicon, damaged, calls, call, hardware>>

\* ps7_config ends with a result.  The function goes on with its next table
\* after a success and returns anything else.
Finish(result) ==
  /\ pc' = "fetch"
  /\ i' = 0
  /\ IF result = PS7_INIT_SUCCESS /\ Len(pending) > 1
     THEN pending' = Tail(pending) /\ ptr' = 1 /\ UNCHANGED ret
     ELSE pending' = <<>> /\ ret' = [ret EXCEPT ![call] = result] /\ UNCHANGED ptr
  /\ UNCHANGED <<silicon, damaged, calls, call, hardware>>

\* OPCODE_WRITE and OPCODE_MASKWRITE.
DoWrite ==
  /\ pending # <<>>
  /\ IsWrite(Op)
  /\ NextOp
  /\ regs' = Stored(Op)
  /\ unlocked' = CASE Op.reg = <<"slcr", "SLCR_UNLOCK">> -> TRUE
                   [] Op.reg = <<"slcr", "SLCR_LOCK">> -> FALSE
                   [] OTHER -> unlocked
  /\ React
  /\ UNCHANGED <<i, timer>>

\* OPCODE_MASKPOLL starts with its counter at zero ...
PollStart ==
  /\ Fetches("maskpoll")
  /\ pc' = "wait"
  /\ i' = 0
  /\ UNCHANGED <<silicon, damaged, calls, call, pending, ptr, ret, hardware>>

PollOk ==
  /\ Waits("maskpoll")
  /\ Answered(Op)
  /\ NextOp
  /\ UNCHANGED <<i, hardware>>

\* Defect: the counter does not count.
PollAgain_Forever ==
  /\ Waits("maskpoll")
  /\ ~Answered(Op)
  /\ UNCHANGED vars

PollAgain ==
  /\ Waits("maskpoll")
  /\ ~Answered(Op)
  /\ i # POLL_TIME
  /\ i' = i + 1
  /\ UNCHANGED <<silicon, damaged, calls, call, pending, ptr, pc, ret, hardware>>

\* Defect: a poll that gave up goes on like one that was answered.
PollTimeout_GoesOn ==
  /\ Waits("maskpoll")
  /\ ~Answered(Op)
  /\ i = POLL_TIME
  /\ NextOp
  /\ UNCHANGED <<i, hardware>>

\* ... and ends the table when it reaches the limit.
PollTimeout ==
  /\ Waits("maskpoll")
  /\ ~Answered(Op)
  /\ i = POLL_TIME
  /\ Finish(PS7_INIT_TIMEOUT)

APU_FREQ == 666666687
get_number_of_cycles_for_delay(delay) == (APU_FREQ * delay) \div (2 * 1000)
\* Defect: the count is not reset.
perf_reset_and_start_timer_GoesOn == timer' = [timer EXCEPT !.on = TRUE]

perf_reset_and_start_timer == timer' = [on |-> TRUE, count |-> 0]

\* OPCODE_MASKDELAY restarts the timer and waits for its count.
DelayStart ==
  /\ Fetches("maskdelay")
  /\ perf_reset_and_start_timer
  /\ pc' = "wait"
  /\ UNCHANGED <<silicon, damaged, calls, call, pending, ptr, i, ret,
                 regs, unlocked, pll, dci, ddr_up, low>>

DelayDone ==
  /\ Waits("maskdelay")
  /\ timer.count >= get_number_of_cycles_for_delay(Op.ms)
  /\ NextOp
  /\ UNCHANGED <<i, hardware>>

\* OPCODE_EXIT.
DoExit == Fetches("exit") /\ Finish(PS7_INIT_SUCCESS)

\* Defect: the default case is missing.
DoUndefined_Skips == Fetches("undefined") /\ NextOp /\ UNCHANGED <<i, hardware>>

\* No opcode at all.
DoUndefined == Fetches("undefined") /\ Finish(PS7_INIT_CORRUPT)

-----------------------------------------------------------------------------
\* The boot ROM leaves the PLLs running at the multiplier of their reset, or
\* bypassed and in reset, and has used the timer.
BootRom(bypass) ==
  [r \in Registers |->
      IF r \in {Ctrl[p] : p \in Plls}
      THEN [PLL_FDIV |-> 26, PLL_BYPASS_FORCE |-> bypass, PLL_RESET |-> bypass]
      ELSE <<>>]

Init ==
  /\ silicon \in Silicon
  /\ damaged \in Damages
  /\ calls = 0
  /\ call = "ps7_init"
  /\ pending = <<>>
  /\ ptr = 1
  /\ pc = "fetch"
  /\ i = 0
  /\ ret = [f \in Functions |-> -1]
  /\ \E bypass \in {0, 1} :
        /\ regs = BootRom(bypass)
        /\ pll = [p \in Plls |-> IF bypass = 1 THEN 0 ELSE 26]
  /\ unlocked = FALSE
  /\ dci = "off"
  /\ ddr_up = FALSE
  /\ timer = [on |-> TRUE, count |-> MAX_COUNT]
  /\ low = 0

Cpu ==
  \/ DoWrite \/ PollStart \/ PollOk \/ PollAgain \/ PollTimeout
  \/ DelayStart \/ DelayDone \/ DoExit \/ DoUndefined

Hardware == (\E p \in Plls : PllLocks(p)) \/ DciDone \/ DdrUp

Next == (\E f \in Functions : Call(f)) \/ Cpu \/ Hardware \/ Tick

\* The processor runs and the timer counts.  Nothing makes a PLL lock or a
\* calibration end.
Spec == Init /\ [][Next]_vars /\ WF_vars(Cpu) /\ WF_vars(Tick)

-----------------------------------------------------------------------------
(* The clocks, as the registers and the PLLs make them *)

PS_CLK == 33333333      \* ps-clk-frequency of pcw.dtsi

\* The register of each clock ps7_init.h gives a frequency, and its dividers.
ClockReg ==
  [APU |-> <<"slcr", "ARM_CLK_CTRL">>, DDR |-> <<"slcr", "DDR_CLK_CTRL">>,
   DCI |-> DciClk, QSPI |-> <<"slcr", "LQSPI_CLK_CTRL">>,
   ENET0 |-> <<"slcr", "GEM0_CLK_CTRL">>, SDIO |-> <<"slcr", "SDIO_CLK_CTRL">>,
   UART |-> <<"slcr", "UART_CLK_CTRL">>, PCAP |-> <<"slcr", "PCAP_CLK_CTRL">>,
   FPGA0 |-> <<"slcr", "FPGA0_CLK_CTRL">>, FPGA1 |-> <<"slcr", "FPGA1_CLK_CTRL">>,
   FPGA2 |-> <<"slcr", "FPGA2_CLK_CTRL">>]

Divider(c, d) ==
  LET fields == regs[ClockReg[c]]
  IN  CASE d \in DOMAIN fields -> fields[d]
        [] c = "DDR" /\ d = "DIVISOR" -> fields.DDR_3XCLK_DIVISOR
        [] OTHER -> 1

\* The PLL a clock selects with bits 1:0 of SRCSEL; the DDR's own have no choice.
IoPll == <<"IO", "IO", "ARM", "DDR">>
CpuPll == <<"ARM", "ARM", "DDR", "IO">>
Selects(c, fields) ==
  CASE c \in {"DDR", "DCI"} -> "DDR"
    [] c = "APU" -> CpuPll[fields.SRCSEL + 1]
    [] OTHER -> IoPll[fields.SRCSEL + 1]
Source(c) == Selects(c, regs[ClockReg[c]])

\* The frequencies of ps7_init.h, in Hz.
FREQ ==
  [APU |-> APU_FREQ, DDR |-> 533333374, DCI |-> 10158730, QSPI |-> 200000000,
   ENET0 |-> 125000000, SDIO |-> 50000000, UART |-> 100000000, PCAP |-> 200000000,
   FPGA0 |-> 100000000, FPGA1 |-> 133333344, FPGA2 |-> 50000000]

\* Its frequency: the PLL multiplies PS_CLK, the dividers divide.
Frequency(c) ==
  (((PS_CLK * pll[Source(c)]) \div Divider(c, "DIVISOR"))
    \div Divider(c, "DIVISOR0")) \div Divider(c, "DIVISOR1")

Running(p) == pll[p] # 0 /\ Holds(regs, Ctrl[p], "PLL_BYPASS_FORCE", 0)

Near(a, b) == a - b <= b \div 10000000 + 1 /\ b - a <= b \div 10000000 + 1

-----------------------------------------------------------------------------
(* The tables as programs: what has been done when a function comes to a step *)

\* The steps of function f: <<n, k>> is position k of its n-th table.
Steps(v, f) ==
  UNION {{<<n, k>> : k \in DOMAIN Tables[v][TablesOf[f][n]]} : n \in DOMAIN TablesOf[f]}
At(v, f, s) == Tables[v][TablesOf[f][s[1]]][s[2]]
End(f) == <<Len(TablesOf[f]) + 1, 1>>
Precedes(r, s) == r[1] < s[1] \/ (r[1] = s[1] /\ r[2] < s[2])
Between(v, f, r, s) == {q \in Steps(v, f) : Precedes(r, q) /\ Precedes(q, s)}

Sets(op, reg, field) == IsWrite(op) /\ op.reg = reg /\ field \in DOMAIN op.fields
Puts(op, reg, field, value) == Sets(op, reg, field) /\ op.fields[field] = value
Polls(op, bit) == op.op = "maskpoll" /\ op.field = bit

\* What step r puts into a field stands until step s sets the field again.
Stands(v, f, r, reg, field, s) ==
  /\ Precedes(r, s)
  /\ \A q \in Between(v, f, r, s) : ~Sets(At(v, f, q), reg, field)

\* The last value put into the field before step s.
Was(v, f, s, reg, field, value) ==
  \E r \in Steps(v, f) :
    Puts(At(v, f, r), reg, field, value) /\ Stands(v, f, r, reg, field, s)

\* A poll has seen the bit, and nothing has set the field since.
Seen(v, f, s, bit, reg, field) ==
  \E r \in Steps(v, f) : Polls(At(v, f, r), bit) /\ Stands(v, f, r, reg, field, s)

\* All that was put, the last value of each field.
Effect(v, f, s) ==
  UNION {{<<At(v, f, r).reg, field, At(v, f, r).fields[field]>>
           : field \in {g \in DOMAIN At(v, f, r).fields :
                           Stands(v, f, r, At(v, f, r).reg, g, s)}}
         : r \in {r \in Steps(v, f) : IsWrite(At(v, f, r))}}

-----------------------------------------------------------------------------
(* What the tables of a version are like: facts of their text, of one step
   against the steps before it, that nothing at run time can change *)

SlcrUnlock == <<"slcr", "SLCR_UNLOCK">>
SlcrLock == <<"slcr", "SLCR_LOCK">>

\* The SLCR was unlocked before step s, and not locked since; or the reverse.
Opened(v, f, s) ==
  \E r \in Steps(v, f) : Sets(At(v, f, r), SlcrUnlock, "UNLOCK_KEY")
                         /\ Stands(v, f, r, SlcrLock, "LOCK_KEY", s)
Closed(v, f, s) ==
  \E r \in Steps(v, f) : Sets(At(v, f, r), SlcrLock, "LOCK_KEY")
                         /\ Stands(v, f, r, SlcrUnlock, "UNLOCK_KEY", s)

\* The PLL was seen to lock, and not reset since.
LockBit == [ARM |-> "ARM_PLL_LOCK", DDR |-> "DDR_PLL_LOCK", IO |-> "IO_PLL_LOCK"]
Locked(v, f, s, p) == Seen(v, f, s, LockBit[p], Ctrl[p], "PLL_RESET")

\* The PLL was reset, and its multiplier not changed since.
Restarted(v, f, s, p) ==
  \E r \in Steps(v, f) : Puts(At(v, f, r), Ctrl[p], "PLL_RESET", 1)
                         /\ Stands(v, f, r, Ctrl[p], "PLL_FDIV", s)

InUse(v, f, s, p) == Locked(v, f, s, p) /\ Was(v, f, s, Ctrl[p], "PLL_BYPASS_FORCE", 0)

\* What the five tables of ps7_init leave in the registers, for each version,
\* and of that what is in the registers of the DDR controller.
InitEffect == [v \in Silicon |-> Effect(v, "ps7_init", End("ps7_init"))]
DdrEffect ==
  [v \in Silicon |-> {w \in InitEffect[v] : w[1] \in WrittenBy(Tables[v].ddr)}]

FabricReset == <<"slcr", "FPGA_RST_CTRL">>
LevelShifters == <<"slcr", "LVL_SHFTR_EN">>
FabricResets == {"FPGA0_OUT_RST", "FPGA1_OUT_RST", "FPGA2_OUT_RST", "FPGA3_OUT_RST"}
Shifters == {"USER_LVL_INP_EN_0", "USER_LVL_OUT_EN_0",
             "USER_LVL_INP_EN_1", "USER_LVL_OUT_EN_1"}

\* A table ends with its one exit.
TablesEnd(v) ==
  \A t \in DOMAIN Tables_3_0 :
    LET table == Tables[v][t]
    IN  /\ Len(table) \in Nat \ {0} /\ DOMAIN table = 1..Len(table)
        /\ \A k \in DOMAIN table : table[k].op = "exit" <=> k = Len(table)

\* The registers the hardware above looks at are all written.
WritesAll(v) ==
  {ClockReg[c] : c \in DOMAIN ClockReg} \cup {Ctrl[p] : p \in Plls}
      \cup {DciCtrl, DdrcCtrl, FabricReset, LevelShifters} \cup {w[1] : w \in DrivenLow}
    \subseteq UNION {WrittenBy(Tables[v][t]) : t \in DOMAIN Tables_3_0}

\* A write to the SLCR comes with the SLCR unlocked.  A write without a mask
\* names every field the tables have for its register, and is for no PLL.
WritesArrive(v) ==
  \A f \in Functions : \A s \in {s \in Steps(v, f) : IsWrite(At(v, f, s))} :
    LET op == At(v, f, s) IN
    /\ Protected(op.reg) => Opened(v, f, s)
    /\ op.reg = SlcrUnlock => "UNLOCK_KEY" \in DOMAIN op.fields
    /\ op.reg = SlcrLock => "LOCK_KEY" \in DOMAIN op.fields
    /\ op.op = "write" =>
         /\ \A p \in Plls : op.reg # Ctrl[p]
         /\ \A g \in Functions : \A r \in Steps(v, g) :
              IsWrite(At(v, g, r)) /\ At(v, g, r).reg = op.reg
                => DOMAIN At(v, g, r).fields \subseteq DOMAIN op.fields

\* A PLL is reset while it is bypassed and taken into use once it has locked;
\* a clock is written when the PLL it then selects is in use.
PllsFirst(v) ==
  \A f \in Functions : \A s \in {s \in Steps(v, f) : IsWrite(At(v, f, s))} :
    LET op == At(v, f, s) IN
    /\ \A p \in Plls :
         /\ Puts(op, Ctrl[p], "PLL_RESET", 1) =>
              Was(v, f, s, Ctrl[p], "PLL_BYPASS_FORCE", 1)
         /\ Puts(op, Ctrl[p], "PLL_BYPASS_FORCE", 0) =>
              Locked(v, f, s, p) /\ ~Sets(op, Ctrl[p], "PLL_RESET")
    /\ \A c \in DOMAIN FREQ :
         op.reg = ClockReg[c] =>
           /\ c \in {"DDR", "DCI"} \/ Sets(op, ClockReg[c], "SRCSEL")
           /\ Selects(c, op.fields) \in Plls
           /\ InUse(v, f, s, Selects(c, op.fields))

\* What a release needs comes before it.
ReleasesLast(v) ==
  \A f \in Functions : \A s \in Steps(v, f) :
    LET op == At(v, f, s) IN
    /\ Puts(op, DdrcCtrl, "reg_ddrc_soft_rstb", 1) =>
         /\ Seen(v, f, s, "DONE", DciCtrl, "RESET")
         /\ InUse(v, f, s, "DDR")
         /\ \A w \in DdrEffect[v] : w[1] # DdrcCtrl => Was(v, f, s, w[1], w[2], w[3])
    /\ (\E k \in FabricResets : Puts(op, FabricReset, k, 0)) =>
         \A e \in Shifters : Was(v, f, s, LevelShifters, e, 1)

\* The pin of the reset pulse was low at a delay of a millisecond, and since.
Pulsed(v, f, s) ==
  \E r \in Steps(v, f) :
    /\ At(v, f, r).op = "maskdelay" /\ At(v, f, r).ms = 1
    /\ \A w \in DrivenLow : Was(v, f, r, w[1], w[2], w[3]) /\ Stands(v, f, r, w[1], w[2], s)

\* What the global timer, at half the processor's clock, counts in a millisecond.
Millisecond(hz) == hz \div 2000

\* The processor was set to a clock of which the delay counts a millisecond.
AtSpeed(v, f, s) ==
  \E sel \in 0..3 :
    /\ Was(v, f, s, ClockReg.APU, "SRCSEL", sel)
    /\ Restarted(v, f, s, CpuPll[sel + 1])
    /\ \E fdiv \in 0..127 :
        /\ Was(v, f, s, Ctrl[CpuPll[sel + 1]], "PLL_FDIV", fdiv)
        /\ \E divisor \in 1..63 :
            /\ Was(v, f, s, ClockReg.APU, "DIVISOR", divisor)
            /\ Millisecond((PS_CLK * fdiv) \div divisor) <= get_number_of_cycles_for_delay(1)

\* Once the pin is set low nothing that can fail is done before the delay has
\* passed and it is set high.
PulseIsWhole(v) ==
  /\ \A f \in Functions : \A s \in Steps(v, f) :
       Was(v, f, s, UsbData, "DATA_1_LSW", 0) =>
         /\ TablesOf[f][s[1]] = "peripherals"
         /\ At(v, f, s).op \in {"write", "maskwrite", "maskdelay"}
         /\ (\E w \in DrivenLow : Sets(At(v, f, s), w[1], w[2])) =>
              Pulsed(v, f, s) /\ AtSpeed(v, f, s)
  /\ \A f \in Functions : \A s \in Steps(v, f) :
       ~Sets(At(v, f, s), ClockReg.APU, "DIVISOR0") /\ ~Sets(At(v, f, s), ClockReg.APU, "DIVISOR1")

\* At the end of ps7_init everything it waits for was seen, and stands.
AllSeen(v) ==
  LET end == End("ps7_init") IN
  /\ Closed(v, "ps7_init", end)
  /\ \A p \in Plls : Locked(v, "ps7_init", end, p) /\ Restarted(v, "ps7_init", end, p)
  /\ Seen(v, "ps7_init", end, "DONE", DciCtrl, "RESET")
  /\ Seen(v, "ps7_init", end, "ddrc_reg_operating_mode", DdrcCtrl, "reg_ddrc_soft_rstb")

ASSUME TablesAssumption ==
  \A v \in Silicon :
    /\ TablesEnd(v) /\ WritesAll(v) /\ WritesArrive(v)
    /\ PllsFirst(v) /\ ReleasesLast(v) /\ PulseIsWhole(v) /\ AllSeen(v)

-----------------------------------------------------------------------------
(* Properties *)

HoldsEffect(writes) == \A w \in writes : Holds(regs, w[1], w[2], w[3])

\* ps7_init returned success and nothing was called since.
Initialised == pending = <<>> /\ call = "ps7_init" /\ ret["ps7_init"] = PS7_INIT_SUCCESS

\* A clock is set up only while the PLL it selects runs, whichever earlier poll
\* timed out: ps7_init returns before the tables that follow.  And no PLL feeds
\* the chip before it has locked: the bypass is lifted only after the lock was
\* seen, and a timeout leaves it in place.
ClocksFromRunningPll ==
  [][/\ \A c \in DOMAIN FREQ :
           regs'[ClockReg[c]] # regs[ClockReg[c]] => Running(Source(c))'
     /\ \A p \in Plls : Holds(regs', Ctrl[p], "PLL_BYPASS_FORCE", 0) => pll'[p] # 0]_vars

\* After ps7_init has returned success, on any version of the silicon, every
\* clock runs at the frequency ps7_init.h tells the loader (and its own delay
\* loop), and the UART at the console's 115200 baud, within two per cent.
RunsAtHeaderFrequencies ==
  Initialised =>
    /\ \A c \in DOMAIN FREQ : Running(Source(c)) /\ Near(Frequency(c), FREQ[c])
    /\ LET baud == Frequency("UART") \div
                      (regs[<<"uart1", "Baud_rate_gen_reg0">>].CD
                        * (regs[<<"uart1", "Baud_rate_divider_reg0">>].BDIV + 1))
       IN  baud * 100 \in (115200 * 98)..(115200 * 102)

Released(r) == Holds(r, DdrcCtrl, "reg_ddrc_soft_rstb", 1)
FabricReleased(r) ==
  \E k \in FabricResets : Holds(r, FabricReset, k, 0)

\* Nothing leaves its reset before what it needs is ready.  The DDR controller
\* starts on the memory only when the impedances of its pins are calibrated, its
\* PLL runs and all its other registers have been written (ddr_init_data); the
\* fabric is released only when the level shifters to it are on (ps7_post_config).
ReleasedWhenReady ==
  [][/\ ~Released(regs) /\ Released(regs') =>
          dci = "done" /\ Running("DDR") /\ HoldsEffect({w \in DdrEffect[silicon] : w[1] # DdrcCtrl})
     /\ ~FabricReleased(regs) /\ FabricReleased(regs') =>
          \A e \in Shifters : Holds(regs, LevelShifters, e, 1)]_vars

\* A success means that no operation of a table was lost: every register holds
\* what the tables wrote to it last, whatever was there before this call, the
\* PLLs have taken the multipliers, the memory is up and the SLCR is locked
\* again.  A write to a locked register, a poll not waited for or a failure
\* taken for a success shows here.
ConfiguredOnSuccess ==
  Initialised =>
    /\ HoldsEffect(InitEffect[silicon])
    /\ \A p \in Plls : pll[p] = regs[Ctrl[p]].PLL_FDIV
    /\ dci = "done" /\ ddr_up /\ ~unlocked

\* The reset pin of the USB transceiver, once low, stays low for a millisecond
\* of the timer's true rate, half the processor's clock, whatever the timer
\* counted before.  (usb_reset and the delay loop.)
PhyResetPulse ==
  [][PinLow(regs) /\ ~PinLow(regs') => low >= Millisecond(Frequency("APU"))]_vars

\* Every call returns, whatever the hardware leaves unanswered.
CallReturns == (pending # <<>>) ~> (pending = <<>>)

-----------------------------------------------------------------------------
(* The devices Linux will use *)

\* The devices pcw.dtsi enables, with the bit of their bus clock, the reference
\* clock they run on and its enabling bit, and the pins that lead to them.
\* i2c0 is routed to the fabric and gpio0 has its pins one by one.
EnabledDevices ==
  [gem0 |-> [bus |-> "GEM0", clock |-> "ENET0", on |-> "CLKACT", pins |-> 16..27 \cup 52..53],
   gpio0 |-> [bus |-> "GPIO", clock |-> "none", on |-> "none", pins |-> {46}],
   i2c0 |-> [bus |-> "I2C0", clock |-> "none", on |-> "none", pins |-> {}],
   qspi |-> [bus |-> "LQSPI", clock |-> "QSPI", on |-> "CLKACT", pins |-> 1..6],
   sdhci0 |-> [bus |-> "SDI0", clock |-> "SDIO", on |-> "CLKACT0", pins |-> 40..45],
   uart1 |-> [bus |-> "UART1", clock |-> "UART", on |-> "CLKACT1", pins |-> 48..49],
   usb0 |-> [bus |-> "USB0", clock |-> "none", on |-> "none", pins |-> 28..39]]

\* Where the multiplexers of a pin lead.
Function(n) ==
  LET m == regs[<<"mio", n>>]
  IN  CASE m.L0_SEL = 1 -> IF n \in 16..27 THEN "gem0" ELSE "qspi"
        [] m.L1_SEL = 1 -> "usb0"
        [] m.L3_SEL = 4 -> IF n >= 52 THEN "gem0" ELSE "sdhci0"
        [] m.L3_SEL = 7 -> "uart1"
        [] OTHER -> "gpio0"

\* After a success every device the device tree of Linux enables has its bus
\* clock, its reference clock and its pins.  (The clock and MIO tables against
\* pcw.dtsi, written by two tools.)
EnabledDevicesReady ==
  Initialised =>
    \A d \in DOMAIN EnabledDevices :
      LET dev == EnabledDevices[d]
      IN  /\ Holds(regs, <<"slcr", "APER_CLK_CTRL">>, dev.bus, 1)
          /\ dev.clock # "none" => Holds(regs, ClockReg[dev.clock], dev.on, 1)
          /\ \A n \in dev.pins : Function(n) = d
=============================================================================
