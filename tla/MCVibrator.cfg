\* The vibrator service over its rumble device.
SPECIFICATION VibratorFairSpec
CONSTANTS
  Binder = Binder
  d1 = d1
  d2 = d2
  NOOP = NOOP
  CLICK = CLICK
  Threads <- MCThreads
  MaxEffects = 2
  Durations <- MCDurations
  Timeouts <- MCTimeouts
  Compositions <- MCCompositions
  PwleSegments <- MCPwleSegments
  SupportedPrimitives <- MCSupportedPrimitives
  kComposeSizeMax = 3
  kComposePwleSizeMax = 1
  PwleDurationMax = 16383
INVARIANTS NoLeakWithoutOverlap SingleVoice OffSilences
PROPERTIES CallbacksComplete CallsReturn
