SPECIFICATION Spec
CONSTANTS
  Rates <- EdgeRates
  Parents <- DesignParent
INVARIANT BestClkDivForEachFb
CHECK_DEADLOCK FALSE
