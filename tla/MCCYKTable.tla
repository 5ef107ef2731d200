----------------------------- MODULE MCCYKTable -----------------------------
(* Every order in which the chart may be filled, on small words.            *)
EXTENDS CYKTable, MCGrammars

MCInputs ==
  Calls({Ambiguous, Nested, Optional, Chain},
        {<<>>} \cup [1..2 -> MCTerminal] \cup [1..3 -> {"a", "b"}]
          \cup [1..4 -> {"a", "b"}])

=============================================================================
