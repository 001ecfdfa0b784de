SPECIFICATION Spec
CONSTANTS
  Tokens <- FewTokens
  Atoi <- FewNumbers
  MaxArgs = 5
INVARIANTS
  TypeOK
  LastValueHolds
  OutcomeSound
