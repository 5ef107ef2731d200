SPECIFICATION Spec
CONSTANTS
  NonTerminal <- MCNonTerminal
  Terminal <- MCTerminal
  Dotted <- MCDotted
  Empty = "''"
  Axiom = "AXIOM"
  SourceGrammars <- MCSourceGrammars
INVARIANTS
  TypeOK
  ExpansionSound
  ExpansionComplete
  NoDanglingName
  BinaryForm
  NoDoubles
  NullablesSound
  NullablesSaturated
PROPERTIES
  Termination
CHECK_DEADLOCK FALSE
