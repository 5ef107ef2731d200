SPECIFICATION Spec
CONSTANTS
  NonTerminal <- MCNonTerminal
  Terminal <- MCTerminal
  Dotted <- MCDotted
  Empty = "''"
  Axiom = "AXIOM"
  Grammars <- MCLoaded
  Sentences <- MCSentences
INVARIANTS
  GraphIsComplete
  RefusesOnlyInnerEmpty
  StacksInStep
