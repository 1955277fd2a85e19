------------------------------ MODULE PollApp ------------------------------
(***************************************************************************)
(* The program axidmapolltest (recipes-apps/axidmapolltest/files/          *)
(* axidmapolltest.c) running over the two drivers it uses: it stores 1 to  *)
(* the stop_reset attribute of cnccontroller, opens the axidmaout device   *)
(* and then, Rounds times, polls it and writes one buffer of DMA_U8_SIZE   *)
(* bytes if the poll said POLLOUT.  Another program, Operator, stores to   *)
(* the other attributes at any time.                                       *)
(*                                                                         *)
(* The program looks at no result but the poll's, on whose failure it      *)
(* aborts: a failed open leaves a descriptor of -1, which poll(2) ignores, *)
(* and a short write goes unnoticed.                                       *)
(***************************************************************************)
EXTENDS AxiDmaOut

CONSTANTS
  App,         \* the program's thread
  Operator,    \* another thread that stores to the control attributes
  StopReset,   \* the bit of the stop_reset attribute
  OtherAttrs,  \* the bits of the other attributes
  Rounds       \* the 100 of the program's loop

ASSUME AppAssumption ==
  /\ App \in Procs /\ Operator # App /\ Operator # None
  /\ StopReset \notin OtherAttrs
  /\ Rounds \in Nat

VARIABLES
  ctrl_mutex, ctrl_reg, at, regvalue,   \* of CncController
  step,        \* where the program is
  rst_fd,      \* did stop_reset open?
  fd,          \* did the device open?
  i,           \* the loop counter
  writes       \* calls of write(2) made

Cnc == INSTANCE CncController WITH
         Procs <- {App, Operator}, Attrs <- {StopReset} \cup OtherAttrs, Reserved <- {}

driverVars  == vars
controlVars == <<ctrl_mutex, ctrl_reg, at, regvalue>>
appVars     == <<step, rst_fd, fd, i, writes>>
allVars     == <<driverVars, controlVars, appVars>>

AppInit ==
  /\ Init
  /\ Cnc!Init
  /\ step = "start"
  /\ rst_fd \in BOOLEAN
  /\ fd \in BOOLEAN
  /\ i = 0
  /\ writes = 0

\* Store 1 to stop_reset; without its file the write does nothing.
StopResetCall ==
  /\ step = "start"
  /\ \/ rst_fd /\ Cnc!Store(App)
     \/ ~rst_fd /\ UNCHANGED controlVars
  /\ step' = IF rst_fd THEN "stop_reset" ELSE "loop"
  /\ UNCHANGED <<driverVars, rst_fd, fd, i, writes>>

\* A step of the store under way; the program goes on when it returns.
StopResetStep ==
  /\ step = "stop_reset"
  /\ \/ Cnc!Lock(App) \/ Cnc!Read(App) \/ Cnc!Unlock(App)
     \/ Cnc!Write(App, [bit |-> StopReset, on |-> TRUE])
  /\ step' = IF at'[App] = "idle" THEN "loop" ELSE step
  /\ UNCHANGED <<driverVars, rst_fd, fd, i, writes>>

\* The next round: poll the device, or just wait if it is not open.
PollCall ==
  /\ step = "loop"
  /\ i < Rounds
  /\ i' = i + 1
  /\ step' = "poll"
  /\ IF fd THEN PollWait(App) ELSE UNCHANGED driverVars
  /\ UNCHANGED <<controlVars, rst_fd, fd, writes>>

\* A step of the poll; POLLOUT sends the program to its write.
PollStep ==
  /\ step = "poll"
  /\ PollCheck(App) \/ PollAgain(App)
  /\ step' = IF pc'[App] = "idle" THEN "ready" ELSE step
  /\ UNCHANGED <<controlVars, rst_fd, fd, i, writes>>

\* Defect: the program writes whether or not the poll said POLLOUT.
PollExpires_ThenWrites ==
  /\ step = "poll"
  /\ IF fd THEN PollTimeout(App) ELSE UNCHANGED driverVars
  /\ step' = IF fd THEN "ready" ELSE "loop"
  /\ UNCHANGED <<controlVars, rst_fd, fd, i, writes>>

\* The poll times out: nothing is written this round.
PollExpires ==
  /\ step = "poll"
  /\ IF fd THEN PollTimeout(App) ELSE UNCHANGED driverVars
  /\ step' = "loop"
  /\ UNCHANGED <<controlVars, rst_fd, fd, i, writes>>

\* The call of poll fails, before the driver is asked or with the thread asleep:
\* the assertion ends the program.
PollFails ==
  /\ \/ step = "loop" /\ i < Rounds /\ UNCHANGED driverVars
     \/ step = "poll" /\ IF fd THEN PollTimeout(App) ELSE UNCHANGED driverVars
  /\ step' = "aborted"
  /\ UNCHANGED <<controlVars, rst_fd, fd, i, writes>>

WriteCall ==
  /\ step = "ready"
  /\ WriteLock(App, BufSize)
  /\ writes' = writes + 1
  /\ step' = "write"
  /\ UNCHANGED <<controlVars, rst_fd, fd, i>>

\* A step of the write; the source is a static array, the copy cannot fault.
WriteStep ==
  /\ step = "write"
  /\ \/ WriteCheck(App) \/ WriteQueue(App) \/ Unlock(App) \/ SetupStep(App)
     \/ WriteCopy(App) /\ accepted' # accepted
  /\ step' = IF pc'[App] = "idle" THEN "loop" ELSE step
  /\ UNCHANGED <<controlVars, rst_fd, fd, i, writes>>

\* After the last round the device is closed, which touches nothing.
Exit ==
  /\ step = "loop"
  /\ i = Rounds
  /\ step' = "exit"
  /\ UNCHANGED <<driverVars, controlVars, rst_fd, fd, i, writes>>

AppStep ==
  StopResetCall \/ StopResetStep \/ PollCall \/ PollStep \/ WriteCall
  \/ WriteStep \/ Exit

OperatorStep ==
  /\ \/ Cnc!Store(Operator) \/ Cnc!Lock(Operator) \/ Cnc!Read(Operator)
     \/ Cnc!Unlock(Operator)
     \/ \E b \in OtherAttrs, on \in BOOLEAN :
          Cnc!Write(Operator, [bit |-> b, on |-> on])
  /\ UNCHANGED <<driverVars, appVars>>

KernelStep ==
  /\ TaskletStep \/ HwTransfer
  /\ UNCHANGED <<controlVars, appVars>>

AppNext == AppStep \/ PollExpires \/ PollFails \/ OperatorStep \/ KernelStep

\* The program runs, the tasklet and the engine make progress, the control
\* mutex is handed on; a timeout is relied upon only without a device to poll, a
\* failure of poll never.
AppSpec ==
  /\ AppInit /\ [][AppNext]_allVars
  /\ WF_allVars(AppStep) /\ WF_allVars(KernelStep)
  /\ SF_allVars(StopResetStep) /\ WF_allVars(OperatorStep /\ at[Operator] # "idle")
  /\ WF_allVars(~fd /\ PollExpires)

-----------------------------------------------------------------------------
\* A POLLOUT still holds when the write it led to runs: every buffer written
\* is taken whole, which is why the program may ignore what write returned.
WholeWrites == step # "write" => accepted = writes * BufSize

\* If the attribute stop_reset could be opened, the machine is streamed to only
\* after its stop was reset, and no store to another attribute undoes that.
StopResetFirst == rst_fd /\ accepted > 0 => StopReset \in ctrl_reg

\* The program ends, and what it wrote is sent, if only after it has gone: the
\* close waits for nothing, the abort does not even close.
EverythingSent == <>(step \in {"exit", "aborted"} /\ sent = writes * BufSize)
=============================================================================
