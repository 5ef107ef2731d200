------------------------------- MODULE MCCYK -------------------------------
(* The parser on hand-made normal forms; c is a token type without a rule.  *)
EXTENDS CYK, MCGrammars

MCInputs == Calls({Ambiguous, Nested, Optional, Chain, NoAxiom},
                  WordsUpTo(3) \cup [1..4 -> {"a", "b"}])

=============================================================================
