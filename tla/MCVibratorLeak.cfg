\* Overlapping calls lose an effect that is never removed.
SPECIFICATION VibratorSpec
CONSTANTS
  Binder = Binder
  d1 = d1
  d2 = d2
  NOOP = NOOP
  CLICK = CLICK
  Threads <- MCLeakThreads
  MaxEffects = 2
  Durations <- MCDurations
  Timeouts <- MCTimeouts
  Compositions <- MCCompositions
  PwleSegments <- MCPwleSegments
  SupportedPrimitives <- MCSupportedPrimitives
  kComposeSizeMax = 3
  kComposePwleSizeMax = 1
  PwleDurationMax = 16383
INVARIANT NothingLeaked
