\* Liveness without engine failures; no symmetry, which liveness forbids.
CONSTANTS
  Procs = {p1, p2}
  Tasklet = tasklet
  None = none
  BufSize = 2
  Align = 2
  MaxBytes = 5
  DmaMayFail = FALSE
SPECIFICATION FairSpec
PROPERTIES PollerWakes StreamLive
