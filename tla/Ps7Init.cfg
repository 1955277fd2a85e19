\* The three versions of the silicon and an unknown one, two calls.
SPECIFICATION Spec
CONSTANTS
  POLL_TIME = 2
  TICK = 200000
  MAX_COUNT = 800000
  MAX_CALLS = 2
  Silicon = {0, 1, 2, 3}
  Damages <- MCDamages
INVARIANTS
  ConfiguredOnSuccess
  RunsAtHeaderFrequencies
  EnabledDevicesReady
PROPERTIES
  ClocksFromRunningPll
  ReleasedWhenReady
  PhyResetPulse
  CallReturns
CHECK_DEADLOCK FALSE
