SPECIFICATION FairSystemSpec
CONSTANTS
  Runners = {r1, r2}
  Last = 3
  SelfRecording = {1, 3}
  Idempotent = {2}
  MaxStops = 2
  Timeout = 1
  Pieces = 2
INVARIANTS
  RecordedMeansApplied AppliedInOrder
  HealthyMeansMigrated HealthyMeansAnswered
PROPERTIES
  EveryoneServes ProbesEnd
