SPECIFICATION FairSpec
CONSTANTS
  Encoder = encoder
  Others = {vtc, other}
  None = none
  Rates <- MCRates
  ParentRate <- MCParentRate
INVARIANTS
  RunsAtReportedRate
  EnabledClockRuns
PROPERTIES
  CallersReturn
CHECK_DEADLOCK FALSE
