\* The IPower calls on top of the boost engine, with one restart: safety and liveness.
SPECIFICATION HalFairSpec
CONSTANTS
  cpu = cpu
  LAUNCH = LAUNCH
  LOW_POWER = LOW_POWER
  INTERACTION = INTERACTION
  CAMERA_LAUNCH = CAMERA_LAUNCH
  DevFreqs <- MCDevFreqs
  Flaky = {}
  Timeouts <- MCTimeouts
  DefaultTimeout = 2
  Horizon = 3
  MaxRestarts = 1
  Modes <- MCModes
  Boosts <- MCBoosts
  TimedBoosts <- MCTimedBoosts
INVARIANT LaunchHoldsFloor
PROPERTIES TimedBoostEnds HeardRequestApplied
