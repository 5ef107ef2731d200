SPECIFICATION DriverSpec
CONSTANTS
  NonTerminal <- MCNonTerminal
  Terminal <- MCTerminal
  Dotted <- MCDotted
  Empty = "''"
  Axiom = "AXIOM"
  SourceGrammars <- MCSourceGrammars
  NotesOf <- MCNotesOf
  Words <- MCWords
  Indices = {0, 1, 2}
  KeyOrder <- MCKeyOrder
  GrammarFiles <- MCGrammarFiles
  Patterns <- MCPatterns
  Chars <- MCChars
  Disks <- MCDisks
  Commands <- MCCommands
  MaxRuns = 2
INVARIANTS
  TypeOK
  TreeIsAPhrase
  ProperGrammarsAreParsed
  SavedAtMostOnce
  MarkedIsSaved
  StopsOnlyAtUnusableSource
  ResultsAreOfThisRun
