SPECIFICATION Spec
CONSTANTS
  NonTerminal <- MCNonTerminal
  Terminal <- MCTerminal
  Dotted <- MCDotted
  Empty = "''"
  Axiom = "AXIOM"
  Segment <- MCSegment
  Projects <- FromInside
INVARIANTS
  EveryImportMerged
CHECK_DEADLOCK FALSE
