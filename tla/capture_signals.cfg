SPECIFICATION ScriptFairSpec
CONSTANTS
  Polls = 2
  CanFail = TRUE
  MaxSignals = 3
INVARIANTS
  TypeOK
  NothingLeft
  WholeRunCaptured
  CaptureInv
PROPERTY
  OnlyTheProgramIsWaitedFor
