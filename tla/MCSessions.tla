----------------------------- MODULE MCSessions -----------------------------
(* Small grammars, the ways of marking them, and all short words.            *)
EXTENDS Grammar, SequencesExt, TLC

MCNonTerminal == {"AXIOM", "S", "A"}
MCTerminal == {"a", "b"}
MCDotted == [t \in MCTerminal |-> IF t = "a" THEN "a." ELSE "b."]

t_a == [value |-> <<"a">>, type |-> "TERMINAL"]
t_b == [value |-> <<"b">>, type |-> "TERMINAL"]
n_S == [value |-> <<"S">>, type |-> "NONTERMINAL"]
n_A == [value |-> <<"A">>, type |-> "NONTERMINAL"]
n_X == [value |-> <<"AXIOM">>, type |-> "NONTERMINAL"]
eps == [value |-> <<"''">>, type |-> "EMPTY"]

\* Long rules that share a tail, recursion on either side, unit rules, a rule
\* with an empty operand inside.
RulesOfS == {<<<<t_a, t_b, n_A>>, <<n_A, t_b, n_A>>>>,
             <<<<n_S, n_S>>, <<t_a>>>>,
             <<<<t_a, n_S, t_b>>, <<n_A>>>>,
             <<<<n_A, n_A>>, <<n_A, n_S>>>>,
             <<<<t_b, n_A, n_A>>, <<n_S, t_a>>, <<t_b>>>>,
             <<<<t_a, eps, t_b>>, <<t_b, t_a>>>>}

\* With and without an empty alternative, an alternative written twice.
RulesOfA == {<<<<t_a>>>>, <<<<t_b, n_A>>, <<eps>>>>, <<<<n_A, n_A>>, <<t_a>>, <<t_a>>>>,
             <<<<t_a, n_A>>, <<t_a, t_b>>>>, <<<<n_S>>, <<t_b>>>>}

\* The last ones are of two files with an AXIOM line each, of one in which AXIOM
\* is an operand, of one without AXIOM and of an empty one.
MCSourceGrammars ==
  {<<"AXIOM">> :> <<<<n_S>>>> @@ <<"S">> :> s @@ <<"A">> :> a :
     s \in RulesOfS, a \in RulesOfA}
  \cup {<<"AXIOM">> :> <<<<n_S>>, <<n_A>>>>
          @@ <<"S">> :> <<<<t_a, t_a>>>> @@ <<"A">> :> <<<<t_b, t_b>>>>,
        <<"AXIOM">> :> <<<<n_S>>>>
          @@ <<"S">> :> <<<<t_b, n_X>>, <<t_a, t_a>>>> @@ <<"A">> :> <<<<t_b>>>>,
        <<"S">> :> <<<<t_a>>>>, NoRules}

\* The names of the operands that may be marked in the rules of a key.
Operands(g, name) ==
  UNION {{rule[m].value : m \in {o \in DOMAIN rule : rule[o].type # "EMPTY"}} :
           rule \in Range(RulesAt(g, name))}

Keys == {<<"S">>, <<"A">>}

WithAll(keeper) == keeper @@ All :> UNION {keeper[name] : name \in DOMAIN keeper}

\* A ! before every operand.
AllMarked(g) ==
  [labels   |-> [name \in Keys |-> [n \in Operands(g, name) |-> n]],
   keeper   |-> WithAll([name \in Keys |-> Operands(g, name)]),
   strnodes |-> NoRules]

\* In S: x= before the tokens and s: before A, the operand S is left alone.
SomeMarked(g) ==
  LET inS    == Operands(g, <<"S">>)
      tokens == inS \cap {<<"a">>, <<"b">>}
  IN  [labels   |-> [name \in Keys \ {m \in {<<"S">>} : tokens = {}} |->
                       IF name = <<"S">> THEN [n \in tokens |-> <<"x">>]
                       ELSE [n \in Operands(g, name) |-> n]],
       keeper   |-> WithAll([name \in Keys |->
                       IF name = <<"S">>
                       THEN (inS \cap {<<"A">>}) \cup {<<"x">> : n \in tokens}
                       ELSE Operands(g, name)]),
       strnodes |-> [name \in {m \in {<<"S">>} : <<"A">> \in inS} |-> {<<"A">>}]]

MCNotesOf == [g \in MCSourceGrammars |-> {AllMarked(g), SomeMarked(g)}]

MCWords == UNION {[1..len -> MCTerminal] : len \in 0..4}

\* The names get2nf can make of these grammars, in the order of their text.
AtomOrder == <<"''", "A", "AXIOM", "S", "a.", "b.">>

MadeNames == {<<"b.", "A">>, <<"S", "b.">>, <<"A", "A">>, <<"''", "b.">>}

AllNames == MadeNames \cup {<<x>> : x \in {"A", "AXIOM", "S", "a.", "b."}}

Rank(atom) == CHOOSE m \in DOMAIN AtomOrder : AtomOrder[m] = atom

Before(x, y) ==
  \/ IsStrictPrefix(x, y)
  \/ \E p \in DOMAIN x \cap DOMAIN y :
       Rank(x[p]) < Rank(y[p]) /\ \A q \in 1..(p - 1) : x[q] = y[q]

MCKeyOrder ==
  [m \in 1..Cardinality(AllNames) |->
     CHOOSE x \in AllNames : Cardinality({y \in AllNames : Before(y, x)}) = m - 1]

=============================================================================
