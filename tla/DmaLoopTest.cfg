\* Any number of probes, with late callbacks, errors and timeouts.
SPECIFICATION Spec
INVARIANTS
  TruthfulVerdict
  FreedWhenDone
PROPERTIES
  NoFalseTimeout
