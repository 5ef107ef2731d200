------------------------------ MODULE MCDriver ------------------------------
(***************************************************************************)
(* Programs over the sessions of MCSessions, and main, started twice over  *)
(* a directory with two entries.                                           *)
(***************************************************************************)
EXTENDS Driver, MCSessions

\* A grammar in which b is used by no rule, a proper one, and one whose parser
\* finds partial trees.
MCGrammarFiles ==
  LET file(s, a) ==
        LET g == <<"AXIOM">> :> <<<<n_S>>>> @@ <<"S">> :> s @@ <<"A">> :> a
        IN  [rules |-> g, notes |-> AllMarked(g)]
  IN  <<"onlya", "grm">> :> file(<<<<n_S, n_S>>, <<t_a>>>>, <<<<t_a>>>>)
      @@ <<"nest", "grm">> :> file(<<<<t_a, n_S, t_b>>, <<n_A>>>>, <<<<t_a, n_A>>, <<t_a, t_b>>>>)
      @@ <<"none", "grm">> :> [rules |-> <<"S">> :> <<<<t_a>>>>, notes |-> NoNotes]

MCPatterns == <<[type |-> "a", texts |-> {<<"a">>}],
                [type |-> "b", texts |-> {<<"b">>, <<"b", "b">>}]>>

MCChars == [part \in {"p", "q", "d", "src", "java", "json", "log", "none", "onlya", "nest",
                      "grm"} |->
              CASE part \in {"p", "q", "d"} -> 1
                [] part \in {"src", "log", "grm"} -> 3
                [] part \in {"java", "json", "none", "nest"} -> 4
                [] part = "onlya" -> 5]

Texts == <<<<"a">>, <<"a", "b">>, <<"b", " ", "a", "b">>, <<"a", "a", " ", "b", "b">>, <<" ">>>>

MCDisks ==
  {<<"p", "src">> :> Source(Texts[m]) @@ <<"q", "src">> :> Source(Texts[o]) :
     <<m, o>> \in {x \in (1..5) \X (1..5) : x[1] <= x[2]}}
    \cup {<<"p", "src">> :> Source(<<"a", "b">>) @@ <<"d", "src">> :> Directory,
          <<"p", "src">> :> Source(<<"a", "b">>) @@ <<"q">> :> Source(<<"b">>)}

MCCommands ==
  LET batch(grammar, ext) ==
        <<<<"--gsrc", grammar>>, <<"--dir", <<"d">>>>, <<"--ext", <<ext>>>>>>
  IN  {batch(<<"onlya", "grm">>, "src"), batch(<<"nest", "grm">>, "src"),
       batch(<<"nest", "grm">>, "java"),
       <<<<"--gsrc", <<"nest", "grm">>>>, <<"--src", <<"p", "src">>>>>>,
       <<<<"--gsrc", <<"none", "grm">>>>, <<"--src", <<"q", "src">>>>>>,
       <<<<"--gsrc", <<"none", "grm">>>>, <<"--src", <<"p">>, <<"p">>>>>>,
       <<<<"-h">>>>}

=============================================================================
