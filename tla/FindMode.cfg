\* Rates and reference clocks within the limits, at them and past them.
SPECIFICATION Spec
CONSTANTS
  Rates <- MCRates
  Parents <- MCParents
INVARIANTS
  PickIsLegal
  RegistersMatch
  RoundedRateIsReached
  SearchFindsMode
  NoBetterMode
CHECK_DEADLOCK FALSE
