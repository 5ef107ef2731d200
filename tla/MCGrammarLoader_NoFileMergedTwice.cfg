SPECIFICATION Spec
CONSTANTS
  NonTerminal <- MCNonTerminal
  Terminal <- MCTerminal
  Dotted <- MCDotted
  Empty = "''"
  Axiom = "AXIOM"
  Segment <- MCSegment
  Projects <- Upward
INVARIANTS
  NoFileMergedTwice
CHECK_DEADLOCK FALSE
