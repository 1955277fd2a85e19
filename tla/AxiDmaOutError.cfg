\* A DMA error while a filled buffer waits for the callback.
CONSTANTS
  Procs = {p1, p2}
  Tasklet = tasklet
  None = none
  BufSize = 2
  Align = 2
  MaxBytes = 4
  DmaMayFail = TRUE
SPECIFICATION FairSpec
PROPERTIES WaitingBufferQueued
