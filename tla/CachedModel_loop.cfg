SPECIFICATION Spec
CONSTANTS
  a = a
  b = b
  Token <- MCToken
  Garbage = Garbage
  Rows = 2
  DecodeRows = 1
  Capacity = 3
  Embed = TRUE
  KeysStep <- MCKeysStep
  LoopMayFail = FALSE
SYMMETRY TokenSymmetry
INVARIANTS IInv AnswersFed
PROPERTIES Implements
