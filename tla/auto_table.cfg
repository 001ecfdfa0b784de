SPECIFICATION FairSpec
CONSTANTS
  Scen <- Table
  CtrlDepth = 100
  Timely = TRUE
  MaxRestarts = 0
  NoReader = NoReader
INVARIANTS
  ReaderBeforeData
  CountsAreExact
  AllScenariosPass
  TimelyInv
PROPERTIES
  FollowerQuits
