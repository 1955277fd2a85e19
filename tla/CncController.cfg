\* Three threads store to the four attributes; one bit of the register is reserved.
SPECIFICATION FairSpec
CONSTANTS
  Procs = {p1, p2, p3}
  None = none
  Attrs = {reset, stop_clear, stop_reset, enable_reverse}
  Reserved = {reserved}
INVARIANTS ValueIsFresh
PROPERTIES
  StoresAreAtomic
  StoreReturns
