SPECIFICATION Spec
CONSTANTS
  Polls = 10
  CanFail = FALSE
  MaxSignals = 1
PROPERTY
  AnnouncedIsCapturing
