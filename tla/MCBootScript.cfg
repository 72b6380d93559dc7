\* Every boot with fastboot working or not and two power losses.
SPECIFICATION BootFairSpec
CONSTANTS
  Slots = {a, b}
  NoSlot = NoSlot
  MaxTries = 2
  MaxLosses = 2
INVARIANTS StartsArePaid UnverifiedOnlyOnRequest RequestGoesFirst UserdataReady
PROPERTIES RequestStands RequestReachesRecovery BootPolicySpec FailuresEndInFastboot FallbackWithSlot
