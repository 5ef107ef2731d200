SPECIFICATION Spec
CONSTANTS
  NonTerminal <- MCNonTerminal
  Terminal <- MCTerminal
  Dotted <- MCDotted
  Empty = "''"
  Axiom = "AXIOM"
  Inputs <- MCInputs
  KeyOrder <- MCKeyOrder
INVARIANTS
  NoTreeTwice
  TreesCoverTheirSpan
  BrokenIsLastLongest
  KnownTokensAnswered
PROPERTIES
  FillsTheChart
CHECK_DEADLOCK FALSE
