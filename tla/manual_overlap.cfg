SPECIFICATION ProgramsFairSpec
CONSTANTS
  Subs = {s1, s2}
  Options <- ReadmeOptions
  MatchTicks = 1
  KeepTicks = 1
  TimeoutTicks = 2
INVARIANTS
  CountWithinJoin
  ExitCodeSound
  EarlyEndIsComplete
  ManualInv
  NothingLost
PROPERTIES
  EarlyStartHasReader
  ProgramsTerminate
