SPECIFICATION Spec
CONSTANTS
  NonTerminal <- MCNonTerminal
  Terminal <- MCTerminal
  Dotted <- MCDotted
  Empty = "''"
  Axiom = "AXIOM"
  Grammars <- Cases
  Sentences <- MCSentences
INVARIANT
  GotosAreTaken
