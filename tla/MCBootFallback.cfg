\* Boards whose fastboot fails end in fastbootd.
SPECIFICATION BootFairSpec
CONSTANTS
  Slots = {a, b}
  NoSlot = NoSlot
  MaxTries = 2
  MaxLosses = 0
PROPERTY FallbackReachesFastbootd
