----------------------------- MODULE MCGrammars -----------------------------
(***************************************************************************)
(* Grammars in the form get2nf gives them, written out for TLC, with the   *)
(* unit relation it computes, and words over three token types.  The token *)
(* type c has a pattern in the grammar file but no rule uses it.           *)
(***************************************************************************)
EXTENDS Naturals, Sequences, TLC

MCNonTerminal == {"AXIOM", "S", "A"}
MCTerminal == {"a", "b", "c"}
MCDotted == [t \in MCTerminal |->
               CASE t = "a" -> "a." [] t = "b" -> "b." [] t = "c" -> "c."]

\* The names that occur, in the order of their text.
MCKeyOrder == <<<<"A">>, <<"AXIOM">>, <<"S">>, <<"S", "b.">>, <<"a.">>, <<"b.">>, <<"c.">>>>

token(t) == [value |-> <<t>>, type |-> "TERMINAL"]
name(x) == [value |-> <<x>>, type |-> "NONTERMINAL"]
joined(x, y) == [value |-> <<x, y>>, type |-> "NONTERMINAL"]

axiom == <<"AXIOM">> :> <<<<name("S")>>>>
a_dot == <<"a.">> :> <<<<token("a")>>>>
b_dot == <<"b.">> :> <<<<token("b")>>>>
axiom_unit == <<"AXIOM">> :> {<<"S">>}

\* S = S S | a.          the most ambiguous grammar there is
Ambiguous ==
  [rules |-> axiom @@ a_dot @@ <<"S">> :> <<<<name("S"), name("S")>>, <<name("a.")>>>>,
   unit  |-> axiom_unit @@ <<"S">> :> {<<"a.">>}]

\* S = a. S b. | a. b.   two long rules of one key, a made key
Nested ==
  [rules |-> axiom @@ a_dot @@ b_dot
               @@ <<"S">> :> <<<<name("a."), joined("S", "b.")>>, <<name("a."), name("b.")>>>>
               @@ <<"S", "b.">> :> <<<<name("S"), name("b.")>>>>,
   unit  |-> axiom_unit]

\* S = A S | b.  A = a. | ''     an empty alternative: S -> S by the unit relation
Optional ==
  [rules |-> axiom @@ a_dot @@ b_dot
               @@ <<"S">> :> <<<<name("A"), name("S")>>, <<name("b.")>>>>
               @@ <<"A">> :> <<<<name("a.")>>>>,
   unit  |-> axiom_unit @@ <<"S">> :> {<<"S">>, <<"b.">>} @@ <<"A">> :> {<<"a.">>}]

\* S = A  A = a. | a. A          a unit rule above a unit rule
Chain ==
  [rules |-> axiom @@ a_dot
               @@ <<"S">> :> <<<<name("A")>>>>
               @@ <<"A">> :> <<<<name("a.")>>, <<name("a."), name("A")>>>>,
   unit  |-> axiom_unit @@ <<"S">> :> {<<"A">>} @@ <<"A">> :> {<<"a.">>}]

\* A grammar file without an AXIOM line.
NoAxiom ==
  [rules |-> a_dot @@ <<"S">> :> <<<<name("S"), name("S")>>, <<name("a.")>>>>,
   unit  |-> <<"S">> :> {<<"a.">>}]

WordsUpTo(m) == UNION {[1..len -> MCTerminal] : len \in 0..m}

Calls(grammars, words) ==
  {[rules |-> g.rules, unit |-> g.unit, word |-> w] : g \in grammars, w \in words}

=============================================================================
