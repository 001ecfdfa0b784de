SPECIFICATION Spec
CONSTANTS
  Scen <- TwoScenarios
  CtrlDepth = 100
  Timely = FALSE
  MaxRestarts = 0
  NoReader = NoReader
INVARIANTS
  ReaderBeforeData
