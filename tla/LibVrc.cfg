\* Two modes, two pictures, a program that waits for the vertical sync.
SPECIFICATION Spec
CONSTANTS
  Modes = {"vga", "hd"}
  Pictures = {"p", "q"}
  Programs = {"flipper", "kmsdemo"}
  WaitsForSync = TRUE
INVARIANTS
  OwnsItsMemory
  ScreenIsCurrent
  NeverTorn
CHECK_DEADLOCK FALSE
