\* Safety of the boost engine, one restart and a node whose writes may fail.
SPECIFICATION Spec
CONSTANTS
  cpu = cpu
  gpu = gpu
  DevFreqs <- MCDevFreqs
  Flaky <- MCFlaky
  Timeouts <- MCTimeouts
  DefaultTimeout = 2
  Horizon = 4
  MaxRestarts = 1
INVARIANTS FloorFollowsDecision FloorReleased ParkedInStep AlarmArmed
PROPERTY PolicySpec
\* A destroyed object whose clock reached the horizon does nothing more.
CHECK_DEADLOCK FALSE
