SPECIFICATION Spec
CONSTANTS
  Polls = 3
  MaxSamples = 4
  MaxResets = 3
INVARIANTS TypeOK GoodIsOneNewSample
