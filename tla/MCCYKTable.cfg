SPECIFICATION Spec
CONSTANTS
  NonTerminal <- MCNonTerminal
  Terminal <- MCTerminal
  Dotted <- MCDotted
  Empty = "''"
  Axiom = "AXIOM"
  Inputs <- MCInputs
INVARIANTS
  TypeOK
  Grounded
  Saturated
  UnitSaturated
PROPERTIES
  FinishedCellsAreFinal
CHECK_DEADLOCK FALSE
