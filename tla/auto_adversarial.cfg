SPECIFICATION OrchestratorFairSpec
CONSTANTS
  Scen <- ThreeScenarios
  CtrlDepth = 19
  Timely = FALSE
  MaxRestarts = 1
  NoReader = NoReader
INVARIANTS
  TypeOK
  ResultsWithinQos
  ControlFits
  QuitIsLast
  IInv
PROPERTIES
  NoReaderLeak
  ImplementsScenarioRun
  OrchestratorTerminates
