SPECIFICATION RestartSpec
CONSTANTS
  Scen <- FilteredThenLate
  CtrlDepth = 19
  Timely = FALSE
  MaxRestarts = 1
  MaxOrchRestarts = 1
  NoReader = NoReader
INVARIANTS
  LeaksBounded
  WrongCountExplained
  RestartInv
