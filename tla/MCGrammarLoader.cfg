SPECIFICATION Spec
CONSTANTS
  NonTerminal <- MCNonTerminal
  Terminal <- MCTerminal
  Dotted <- MCDotted
  Empty = "''"
  Axiom = "AXIOM"
  Segment <- MCSegment
  Projects <- MCProjects
INVARIANTS
  TypeOK
  NoFileMergedTwice
  EveryImportMerged
  RulesOfAllFiles
  KeptByAllFiles
PROPERTIES
  Returns
CHECK_DEADLOCK FALSE
