SPECIFICATION Spec
CONSTANTS
  NonTerminal <- MCNonTerminal
  Terminal <- MCTerminal
  Dotted <- MCDotted
  Empty = "''"
  Axiom = "AXIOM"
  Files <- MCFiles
INVARIANTS
  InStep
  GrammarAsWritten
  KeepsWhatIsMarked
  UndefinedOnlyOnBrokenRules
PROPERTIES
  TidyFilesEnd
CHECK_DEADLOCK FALSE
