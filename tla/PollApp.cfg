\* Four rounds: both buffers are filled, waited for and filled again.
CONSTANTS
  App = app
  Operator = operator
  Procs = {app}
  Tasklet = tasklet
  None = none
  BufSize = 2
  Align = 2
  MaxBytes = 8
  DmaMayFail = FALSE
  StopReset = stop_reset
  OtherAttrs = {stop_clear}
  Rounds = 4
SPECIFICATION AppSpec
INVARIANTS WholeWrites StopResetFirst
PROPERTIES EverythingSent
