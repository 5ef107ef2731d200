SPECIFICATION Spec
CONSTANTS
  NonTerminal <- MCNonTerminal
  Terminal <- MCTerminal
  Dotted <- MCDotted
  Empty = "''"
  Axiom = "AXIOM"
  SourceGrammars <- MCSourceGrammars
  NotesOf <- MCNotesOf
  Words <- MCWords
  Indices = {0, 1, 2}
  KeyOrder <- MCKeyOrder
INVARIANT ErrorGivesEmptyResult
