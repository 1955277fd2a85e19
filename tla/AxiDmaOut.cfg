\* Two threads, the tasklet and an engine that may fail, any mix of write, flush
\* and poll.  BufSize 4 with Align 2 has full, short and padded bursts; MaxBytes 6
\* fills one buffer and part of the other, or three flushed bursts and more.
CONSTANTS
  Procs = {p1, p2}
  Tasklet = tasklet
  None = none
  BufSize = 4
  Align = 2
  MaxBytes = 6
  DmaMayFail = TRUE
SYMMETRY ProcSymmetry
SPECIFICATION Spec
INVARIANTS TypeOK OneTransfer FillerOwnsBuffer FillPosition NoLostWakeup
PROPERTIES BufferStable StreamSafe
