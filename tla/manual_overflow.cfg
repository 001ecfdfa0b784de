SPECIFICATION Spec
CONSTANTS
  Subs = {s1}
  Options <- DefaultOptions
  MatchTicks = 1
  KeepTicks = 1
  Seconds = 13
  Width = 8
  TimeoutTicks <- WrappedTicks
INVARIANT
  WaitsTheTimeout
