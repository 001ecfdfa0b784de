SPECIFICATION Spec
CONSTANTS
  Indexes = {0, 1}
  Messages <- MessageSizes
  Size <- SizeOf
  TypeBound = 268
  MaxSamples = 2
INVARIANTS
  CodecInv
  SizeIsExact
  ShortMessagesFit
  ReadsWhatWasWritten
