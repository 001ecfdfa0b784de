SPECIFICATION Spec
CONSTANTS
  Names <- UpToTwo
  Parts <- UpToOne
  Filters <- UpToOne
  Numbers = {1, 5}
INVARIANTS
  FieldsReadBack
  AnswersFindBack
