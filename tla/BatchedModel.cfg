SPECIFICATION Spec
CONSTANTS
  a = a
  b = b
  s1 = s1
  s2 = s2
  Token <- MCToken
  Sequence <- MCSequence
  Garbage = Garbage
  Models <- MCModels
  MinCapacity = 1
  Prompts <- MCPrompts
  Ids <- MCIds
SYMMETRY Exchange
INVARIANTS IInv
PROPERTIES Implements
