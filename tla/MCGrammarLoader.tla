--------------------------- MODULE MCGrammarLoader ---------------------------
(***************************************************************************)
(* Projects of three files, g/main, g/mod and g/sub/leaf, that import each *)
(* other, themselves and a missing file in many ways.                      *)
(***************************************************************************)
EXTENDS GrammarLoader

MCNonTerminal == {"AXIOM", "S", "A", "x", "all"}
MCTerminal == {"a", "b"}
MCDotted == [t \in MCTerminal |-> IF t = "a" THEN "a." ELSE "b."]

MCSegment == {"", ".", "..", "home", "g", "sub", "main", "mod", "leaf", "none"}

tok(type, value) == [type |-> type, value |-> <<value>>, label |-> <<>>]
lab(label, token) == [token EXCEPT !.label = <<label>>]
import(path) == [type |-> "IMPORT", value |-> path, label |-> <<>>]

arrow == tok("EQUAL", "->")
name(x) == tok("NONTERMINAL", x)
dot(x) == tok("TERMINAL", x)
bar == tok("OR", "|")
regex(x) == tok("REGEX", x)

\* AXIOM -> S   S -> x=A b.   b.
Main == <<tok("AXIOM", "AXIOM"), arrow, name("S"), name("S"), arrow, lab("x", name("A")),
          dot("b."), dot("b."), regex("b")>>

\* A -> a. | !S
Mod == <<name("A"), arrow, dot("a."), bar, tok("EXCL", "!"), name("S")>>

\* A -> s:all | a.   all -> !a.   a.
Leaf == <<name("A"), arrow, tok("STR", "s:"), name("all"), bar, dot("a."),
          name("all"), arrow, tok("EXCL", "!"), dot("a."), dot("a."), regex("a")>>

\* S -> a. |             breaks off
Broken == <<name("S"), arrow, dot("a."), bar>>

imports(list) == [n \in DOMAIN list |-> import(list[n])]

Upto2(paths) == {<<>>} \cup {<<p>> : p \in paths} \cup {<<p, q>> : p, q \in paths}

Project(start, main, mod, leaf) ==
  [cwd   |-> <<"home">>,
   start |-> start,
   disk  |-> <<"home", "g", "main">> :> (imports(main) \o Main)
             @@ <<"home", "g", "mod">> :> (imports(mod) \o Mod)
             @@ <<"home", "g", "sub", "leaf">> :> (imports(leaf) \o Leaf)]

InFolder == <<"g", "main">>

\* Every way in which the files may import each other by names that go down.
Webs ==
  {Project(InFolder, main, mod, leaf) :
     main \in Upto2({<<"main">>, <<"mod">>, <<"sub", "leaf">>}),
     mod \in Upto2({<<"main">>, <<"mod">>, <<"sub", "leaf">>}),
     leaf \in {<<>>, <<<<"leaf">>>>, <<<<"none">>>>}}

\* A name that goes up to a file nothing else imports, an absolute name, a file
\* that breaks off.
Others ==
  {Project(InFolder, <<<<"sub", "leaf">>>>, <<>>, <<<<"..", "mod">>>>),
   Project(<<"", "home", "g", "main">>, <<<<"mod">>>>, <<<<"main">>>>, <<>>),
   [Project(InFolder, <<<<"mod">>>>, <<>>, <<>>)
      EXCEPT !.disk = [@ EXCEPT ![<<"home", "g", "mod">>] = Broken]]}

MCProjects == Webs \cup Others

\* g/main imports g/sub/leaf, which imports g/main by a name that goes up.
Upward == {Project(InFolder, <<<<"sub", "leaf">>>>, <<>>, <<<<"..", "main">>>>)}

\* The same files, from inside the folder: the name given to parse is "main".
FromInside ==
  {[Project(<<"main">>, <<<<"mod">>>>, <<>>, <<>>) EXCEPT !.cwd = <<"home", "g">>]}

=============================================================================
