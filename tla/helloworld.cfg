SPECIFICATION ProgramsFairSpec
CONSTANTS
  Subs = {s1, s2}
  Samples = 3
  MatchTicks = 1
  TimeoutTicks = 2
INVARIANT
  TwentyIffInTime
PROPERTIES
  ImplementsManual
  PairEnds
