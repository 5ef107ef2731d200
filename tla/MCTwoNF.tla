------------------------------ MODULE MCTwoNF ------------------------------
(* A family of small grammars for TLC, and the values of the constants.     *)
EXTENDS TwoNF, SequencesExt

MCNonTerminal == {"AXIOM", "S", "A"}
MCTerminal == {"a", "b"}
MCDotted == [t \in MCTerminal |-> IF t = "a" THEN "a." ELSE "b."]

t_a == [value |-> <<"a">>, type |-> "TERMINAL"]
t_b == [value |-> <<"b">>, type |-> "TERMINAL"]
n_S == [value |-> <<"S">>, type |-> "NONTERMINAL"]
n_A == [value |-> <<"A">>, type |-> "NONTERMINAL"]
eps == [value |-> <<"''">>, type |-> "EMPTY"]

\* Rules of S: tails shared by two rules (b A S), a token used twice, rules
\* long enough for two rounds of BIN, recursion, unit rules.
RulesOfS == {<<<<t_a, t_b, n_A, n_S>>, <<n_A, t_b, n_A, n_S>>>>,
             <<<<t_a, t_a, t_b>>>>, <<<<n_S, t_a, t_b>>, <<n_A, n_A>>>>,
             <<<<n_A, n_S>>, <<n_A, n_S>>, <<n_A, t_b>>>>, <<<<n_A>>, <<t_a, n_S>>>>,
             <<<<t_a, eps, t_b>>, <<n_A, n_A>>>>}

\* Rules of A: with and without the empty alternative, an alternative written
\* twice, an alternative that is left blank, no alternative at all.
RulesOfA == {<<<<t_a>>>>, <<<<eps>>>>, <<<<t_b, n_A>>, <<eps>>>>,
             <<<<n_A, n_A>>, <<t_a>>>>, <<<<t_b>>, <<t_b>>>>, <<<<t_a>>, <<>>>>, <<>>}

MCSourceGrammars ==
  {<<"AXIOM">> :> <<<<n_S>>>> @@ <<"S">> :> s @@ <<"A">> :> a :
     s \in RulesOfS, a \in RulesOfA}

=============================================================================
