-------------------------- MODULE DriverLifecycle --------------------------
(***************************************************************************)
(* Loading, probing, removing and unloading the six platform drivers of    *)
(* recipes-modules: what each init and probe acquires and in which order,  *)
(* where its error labels go, and what its remove and exit release.        *)
(* Sysfs attributes and interrupt handlers run as soon as the kernel has   *)
(* what makes them reachable.                                              *)
(*                                                                         *)
(* The drivers differ in their tables only; the driver core, external,     *)
(* calls init, probe, remove and exit.  A probe that fails may be tried    *)
(* again (-EPROBE_DEFER), and a bound driver may be unbound by hand.       *)
(***************************************************************************)
EXTENDS Sequences, Naturals

CONSTANTS
  Drivers,    \* the drivers looked at
  Failures,   \* <<driver, call>>: the calls that may fail
  Mishandled, \* those of them the driver does not clean up after
  Called      \* drivers whose attributes and interrupts are used

-----------------------------------------------------------------------------
(* Tables *)

\* A call that acquires `gets`.  If it fails, `undo` is released in turn and
\* the function returns the error ...
Or(call, gets, undo) ==
  [call |-> call, gets |-> gets, undo |-> undo, else |-> "fail"]

\* ... or of `undo` only what had been acquired,
OrFree(call, gets, undo) ==
  [call |-> call, gets |-> gets, undo |-> undo, else |-> "check"]

\* ... or the function goes on,
OrGoOn(call, gets) ==
  [call |-> call, gets |-> gets, undo |-> << >>, else |-> "go on"]

\* ... or it returns success at once.
OrReturn(call) ==
  [call |-> call, gets |-> {}, undo |-> << >>, else |-> "return"]

AxidmaoutInit ==
  << Or("chrdev", {"chrdev"}, << >>),
     Or("class", {"class"}, <<"chrdev">>),
     Or("driver", {"driver"}, << >>) >>

\* Defect: the label of a missing channel keeps the device.
AxidmaoutProbe_KeepsDevice ==
  << Or("dev_data", {"dev_data"}, << >>),
     OrFree("buffers", {"buffer0", "buffer1"}, <<"buffer0", "buffer1">>),
     Or("cdev", {"cdev"}, <<"buffer0", "buffer1">>),
     Or("device", {"device"}, <<"cdev", "buffer0", "buffer1">>),
     Or("channel", {"channel"}, <<"cdev", "buffer0", "buffer1">>) >>

AxidmaoutProbe ==
  << Or("dev_data", {"dev_data"}, << >>),
     OrFree("buffers", {"buffer0", "buffer1"}, <<"buffer0", "buffer1">>),
     Or("cdev", {"cdev"}, <<"buffer0", "buffer1">>),
     Or("device", {"device"}, <<"cdev", "buffer0", "buffer1">>),
     Or("channel", {"channel"}, <<"device", "cdev", "buffer0", "buffer1">>) >>

AxidmaoutRemove == <<"channel", "device", "cdev", "buffer0", "buffer1">>
AxidmaoutExit   == <<"driver", "class", "chrdev">>

CncInit ==
  << Or("class", {"class"}, << >>),
     Or("driver", {"driver"}, << >>) >>

\* The labels error4 and error3 do not unmap the registers.
CncProbe ==
  << Or("lp", {"lp"}, << >>),
     Or("region", {"region"}, <<"lp">>),
     Or("iomem", {"iomem"}, <<"region", "lp">>),
     Or("device", {"device"}, <<"region", "lp">>) >>

\* Defect: the registers go before the attributes that use them.
CncRemove_UnmapsFirst == <<"iomem", "region", "device", "lp">>

CncRemove == <<"device", "iomem", "region", "lp">>

\* Defect: the class goes before the driver and its device.
CncExit_ClassFirst == <<"class", "driver">>

CncExit == <<"driver", "class">>

TestAdderInit ==
  << Or("class", {"class"}, << >>),
     Or("driver", {"driver"}, << >>) >>

\* Without an interrupt in the device tree the probe ends early; the label
\* error3 frees the interrupt it did not get; a missing device is logged.
TestAdderProbe ==
  << Or("lp", {"lp"}, << >>),
     Or("region", {"region"}, <<"lp">>),
     Or("iomem", {"iomem"}, <<"region", "lp">>),
     OrReturn("irq number"),
     Or("irq", {"irq"}, <<"irq", "region", "lp">>),
     OrGoOn("device", {"device"}) >>

TestAdderRemove == <<"device", "irq", "iomem", "region", "lp">>
TestAdderExit   == <<"driver", "class">>

\* Defect: a missing first channel is released all the same.
DmaLoopTestProbe_FallsThrough ==
  << Or("tx_chan", {"tx_chan"}, <<"tx_chan">>),
     Or("rx_chan", {"rx_chan"}, <<"tx_chan">>) >>

\* The rest of the probe, one transfer, leaves nothing: see DmaLoopTest.
DmaLoopTestProbe ==
  << Or("tx_chan", {"tx_chan"}, << >>),
     Or("rx_chan", {"rx_chan"}, <<"tx_chan">>) >>

DmaLoopTestRemove == <<"rx_chan", "tx_chan">>

DynclkProbe ==
  << Or("dglnt_dynclk", {"dglnt_dynclk"}, << >>),
     Or("base", {"base"}, << >>),
     Or("clk", {"clk"}, << >>),
     Or("provider", {"provider"}, << >>) >>

DynclkRemove == <<"provider">>

\* A failed component_add keeps the reference to the bus of the monitor.
EncoderProbe ==
  << Or("hdmi", {"hdmi"}, << >>),
     Or("clk", {"clk"}, << >>),
     Or("i2c_bus", {"i2c_bus"}, << >>),
     Or("component", {"component"}, << >>) >>

EncoderRemove == <<"component", "i2c_bus">>

\* digilent_hdmi_bind: the display is complete and binds its components.
EncoderBind ==
  << Or("encoder", {"encoder"}, << >>),
     Or("connector", {"connector"}, <<"encoder">>) >>

\* digilent_hdmi_unbind disables the clock if it is enabled; the display then
\* destroys what bind made.
EncoderUnbind(resources) ==
  (IF "clk_enabled" \in resources THEN <<"clk_enabled">> ELSE << >>)
    \o <<"connector", "encoder">>

\* The module init and exit of a driver that has nothing of its own.
PlainInit == << Or("driver", {"driver"}, << >>) >>
PlainExit == <<"driver">>

Code(d) ==
  CASE d = "axidmaout" ->
         [init |-> AxidmaoutInit, probe |-> AxidmaoutProbe,
          remove |-> AxidmaoutRemove, exit |-> AxidmaoutExit]
    [] d = "cnccontroller" ->
         [init |-> CncInit, probe |-> CncProbe, remove |-> CncRemove, exit |-> CncExit]
    [] d = "testadder" ->
         [init |-> TestAdderInit, probe |-> TestAdderProbe,
          remove |-> TestAdderRemove, exit |-> TestAdderExit]
    [] d = "dmalooptest" ->
         [init |-> PlainInit, probe |-> DmaLoopTestProbe,
          remove |-> DmaLoopTestRemove, exit |-> PlainExit]
    [] d = "dynclk" ->
         [init |-> PlainInit, probe |-> DynclkProbe,
          remove |-> DynclkRemove, exit |-> PlainExit]
    [] d = "digilentencoder" ->
         [init |-> PlainInit, probe |-> EncoderProbe,
          remove |-> EncoderRemove, exit |-> PlainExit]

\* What devm_ functions acquire, the driver core releases after the remove or
\* the failed probe.
Managed == {"dev_data", "dglnt_dynclk", "base", "hdmi", "clk"}

\* How a function of the driver is reached, and what it uses.
Entries ==
  { [driver |-> "axidmaout", via |-> "device",
     uses |-> {"dev_data", "buffer0", "buffer1", "channel"}],
    [driver |-> "cnccontroller", via |-> "device", uses |-> {"lp", "iomem"}],
    [driver |-> "testadder", via |-> "device", uses |-> {"lp", "iomem"}],
    [driver |-> "testadder", via |-> "irq", uses |-> {"lp", "iomem"}] }

\* What one object of the kernel refers to as long as it exists.
Needs(r) ==
  CASE r = "cdev"      -> {"chrdev", "dev_data"}
    [] r = "irq"       -> {"lp"}
    [] r = "provider"  -> {"clk"}
    [] r = "component" -> {"hdmi"}
    [] r = "connector" -> {"hdmi", "encoder", "i2c_bus"}
    [] r = "encoder"   -> {"hdmi", "component"}
    [] r = "clk_enabled" -> {"clk", "hdmi"}
    [] r = "device"    -> {"class"}
    [] OTHER           -> {}

-----------------------------------------------------------------------------
VARIABLES
  driver,   \* the driver looked at
  phase,    \* the function that runs, or where the driver rests
  step,     \* the call of init or probe that is next
  todo,     \* what is still to be released
  rest,     \* what exit still releases after the remove it waits for
  held,     \* what is acquired
  active,   \* entry points being executed
  spoilt    \* history: a mishandled call has failed

vars == <<driver, phase, step, todo, rest, held, active, spoilt>>

Init ==
  /\ driver \in Drivers
  /\ phase = "unloaded"
  /\ step = 1
  /\ todo = << >>
  /\ rest = << >>
  /\ held = {}
  /\ active = {}
  /\ spoilt = FALSE

Calls ==
  CASE phase = "init"  -> Code(driver).init
    [] phase = "probe" -> Code(driver).probe
    [] phase = "bind"  -> EncoderBind

Load ==
  /\ phase = "unloaded"
  /\ phase' = "init"
  /\ step' = 1
  /\ UNCHANGED <<driver, todo, rest, held, active, spoilt>>

\* A device of the driver appears, or a deferred probe is tried again.
Probe ==
  /\ phase = "loaded"
  /\ phase' = "probe"
  /\ step' = 1
  /\ UNCHANGED <<driver, todo, rest, held, active, spoilt>>

\* The display comes together: at once, or when its last part is probed.
Bind ==
  /\ phase = "bound"
  /\ "component" \in held
  /\ phase' = "bind"
  /\ step' = 1
  /\ UNCHANGED <<driver, todo, rest, held, active, spoilt>>

\* The function has made its last call.
Return ==
  phase' = CASE phase = "init"  -> "loaded"
             [] phase = "probe" -> "bound"
             [] phase = "bind"  -> "display"

\* The next call of init, probe or bind succeeds.
Acquire ==
  /\ phase \in {"init", "probe", "bind"}
  /\ held' = held \cup Calls[step].gets
  /\ IF step = Len(Calls) THEN Return ELSE UNCHANGED phase
  /\ step' = step + 1
  /\ UNCHANGED <<driver, todo, rest, active, spoilt>>

\* It fails, having acquired a part at most.
Fail ==
  /\ phase \in {"init", "probe", "bind"}
  /\ <<driver, Calls[step].call>> \in Failures
  /\ LET call == Calls[step] IN
     \/ /\ call.else \in {"fail", "check"}
        /\ \E part \in SUBSET call.gets \ {call.gets} :
             /\ held' = held \cup part
             /\ todo' = IF call.else = "fail" THEN call.undo
                        ELSE SelectSeq(call.undo, LAMBDA r : r \in part)
        /\ phase' = CASE phase = "init"  -> "undo init"
                      [] phase = "probe" -> "undo probe"
                      [] phase = "bind"  -> "undo bind"
     \/ /\ call.else = "go on"
        /\ IF step = Len(Calls) THEN Return ELSE UNCHANGED phase
        /\ UNCHANGED <<held, todo>>
     \/ /\ call.else = "return"
        /\ Return
        /\ UNCHANGED <<held, todo>>
  /\ step' = step + 1
  /\ spoilt' = (spoilt \/ <<driver, Calls[step].call>> \in Mishandled)
  /\ UNCHANGED <<driver, rest, active>>

\* digilent_hdmi_enable and digilent_hdmi_disable, which the display calls.
SwitchClock ==
  /\ phase = "display"
  /\ held' = IF "clk_enabled" \in held THEN held \ {"clk_enabled"}
             ELSE held \cup {"clk_enabled"}
  /\ UNCHANGED <<driver, phase, step, todo, rest, active, spoilt>>

\* The display goes: another of its parts does, or this one is about to.
Unbind ==
  /\ phase = "display"
  /\ phase' = "unbind"
  /\ todo' = EncoderUnbind(held)
  /\ UNCHANGED <<driver, step, rest, held, active, spoilt>>

\* The driver is unbound by hand.
Remove ==
  /\ phase = "bound"
  /\ phase' = "remove"
  /\ todo' = Code(driver).remove
  /\ UNCHANGED <<driver, step, rest, held, active, spoilt>>

\* The module is unloaded.
Unload ==
  /\ phase \in {"loaded", "bound"}
  /\ phase' = IF phase = "bound" THEN "exit bound" ELSE "exit"
  /\ todo' = Code(driver).exit
  /\ UNCHANGED <<driver, step, rest, held, active, spoilt>>

\* To unregister a driver is to remove its device first.
Unregister ==
  /\ phase = "exit bound"
  /\ todo # << >>
  /\ Head(todo) = "driver"
  /\ phase' = "remove"
  /\ rest' = todo
  /\ todo' = Code(driver).remove
  /\ UNCHANGED <<driver, step, held, active, spoilt>>

\* The next release.  It waits for the functions reached through what it
\* releases, and no new one starts meanwhile.  To unregister or unmap what is
\* not there stops the kernel; freeing an interrupt twice is only logged.
Release ==
  /\ todo # << >>
  /\ Head(todo) \in held \cup {"irq"}
  /\ ~(phase = "exit bound" /\ Head(todo) = "driver")
  /\ \A e \in active : e.via # Head(todo)
  /\ held' = held \ {Head(todo)}
  /\ todo' = Tail(todo)
  /\ UNCHANGED <<driver, phase, step, rest, active, spoilt>>

\* All is released; the driver core releases what it manages.
Released ==
  /\ todo = << >>
  /\ \/ /\ phase \in {"undo init", "exit"}
        /\ phase' = "unloaded"
        /\ UNCHANGED <<todo, rest, held>>
     \/ /\ phase \in {"undo bind", "unbind"}
        /\ phase' = "bound"
        /\ UNCHANGED <<todo, rest, held>>
     \/ /\ phase \in {"undo probe", "remove"}
        /\ held' = held \ Managed
        /\ phase' = IF rest = << >> THEN "loaded" ELSE "exit"
        /\ todo' = rest
        /\ rest' = << >>
  /\ UNCHANGED <<driver, step, active, spoilt>>

\* An attribute is used, or the interrupt comes.
Enter(e) ==
  /\ e.driver = driver /\ driver \in Called
  /\ e \notin active
  /\ e.via \in held
  /\ ~(todo # << >> /\ Head(todo) = e.via)
  /\ active' = active \cup {e}
  /\ UNCHANGED <<driver, phase, step, todo, rest, held, spoilt>>

Leave(e) ==
  /\ e \in active
  /\ active' = active \ {e}
  /\ UNCHANGED <<driver, phase, step, todo, rest, held, spoilt>>

Next ==
  \/ Load \/ Probe \/ Acquire \/ Fail
  \/ Bind \/ SwitchClock \/ Unbind
  \/ Remove \/ Unload \/ Unregister \/ Release \/ Released
  \/ \E e \in Entries : Enter(e) \/ Leave(e)

Spec == Init /\ [][Next]_vars

-----------------------------------------------------------------------------
\* What a loaded module holds while it has no device.
ModuleKeeps == UNION {Code(driver).init[i].gets : i \in DOMAIN Code(driver).init}

\* And what a bound device adds to it.
DeviceKeeps == UNION {Code(driver).probe[i].gets : i \in DOMAIN Code(driver).probe}

\* A driver that rests keeps what it needs there and nothing else, however
\* many of its probes and binds failed and wherever: no label forgets a
\* resource, and no unbind the clock, but for the calls named Mishandled.
NothingLeaked ==
  ~spoilt =>
  /\ phase = "unloaded" => held = {}
  /\ phase = "loaded" => held = ModuleKeeps
  /\ phase = "bound" => held = ModuleKeeps \cup DeviceKeeps

\* With the same exception no label and no remove releases what was not
\* acquired, or releases twice.
ReleasesOnlyHeld == ~spoilt /\ todo # << >> => Head(todo) \in held

\* An object of the kernel never outlives what it refers to: a device its
\* class, an interrupt the data of its handler, a clock's provider the clock.
NothingDangles == \A r \in held : Needs(r) \subseteq held

\* An attribute or a handler that runs, at whatever moment of a probe or a
\* remove, finds the registers and the data it uses.
CallersAreSafe == \A e \in active : e.uses \subseteq held
=============================================================================
