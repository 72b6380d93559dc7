\* A notification given between two iterations is lost: the boost stays on.
SPECIFICATION FairSpec
CONSTANTS
  cpu = cpu
  gpu = gpu
  DevFreqs <- MCDevFreqs
  Flaky <- MCFlaky
  Timeouts <- MCTimeouts
  DefaultTimeout = 2
  Horizon = 4
  MaxRestarts = 0
PROPERTY UnwantedBoostCancelled
CHECK_DEADLOCK FALSE
