------------------------------ MODULE MCLRZero ------------------------------
(***************************************************************************)
(* Grammars as they are loaded, before get2nf, with the token types that   *)
(* their files define, and words of up to four tokens: the cases below,    *)
(* and every grammar of two names with rules of one or two operands, two   *)
(* alternatives for S and one for A.                                       *)
(***************************************************************************)
EXTENDS LRZero, TLC

MCNonTerminal == {"AXIOM", "S", "A", "B", "a"}
MCTerminal == {"a", "b"}
MCDotted == [t \in MCTerminal |-> CASE t = "a" -> "a." [] t = "b" -> "b."]

token(t) == TerminalOperand(t)
name(x) == NameOperand(<<x>>)

axiom == <<"AXIOM">> :> <<<<name("S")>>>>
both == <<"a", "b">>

\* The grammar with each token defined once.
Simply(g) == [rules |-> axiom @@ g, tokens |-> both]

Cases == {
  \* S = a. S b. | a. b.
  Simply(<<"S">> :> <<<<token("a"), name("S"), token("b")>>, <<token("a"), token("b")>>>>),
  \* S = A B | A A.  A = a.  B = b. A | a.     two rules with the same operands
  Simply(<<"S">> :> <<<<name("A"), name("B")>>, <<name("A"), name("A")>>>>
          @@ <<"A">> :> <<<<token("a")>>>>
          @@ <<"B">> :> <<<<token("b"), name("A")>>, <<token("a")>>>>),
  \* S = a. a. b. | b.  A = a. a.                a rule that is not reached
  Simply(<<"S">> :> <<<<token("a"), token("a"), token("b")>>, <<token("b")>>>>
          @@ <<"A">> :> <<<<token("a"), token("a")>>>>),
  \* S = a. A.  A = b. b. | B.  B = S | ''      recursion through three names
  Simply(<<"S">> :> <<<<token("a"), name("A")>>>>
          @@ <<"A">> :> <<<<token("b"), token("b")>>, <<name("B")>>>>
          @@ <<"B">> :> <<<<name("S")>>, <<EmptyOperand>>>>),
  \* S = a. A '' b.  A = B                       the constructor throws
  Simply(<<"S">> :> <<<<token("a"), name("A"), EmptyOperand, token("b")>>>>
          @@ <<"A">> :> <<<<name("B")>>>>),
  \* S = '' A b. | a. |                          a blank alternative
  Simply(<<"S">> :> <<<<EmptyOperand, name("A"), token("b")>>, <<token("a")>>, <<>>>>
          @@ <<"A">> :> <<<<token("b"), token("a")>>>>),
  \* S = a a. b. | a. b.  a = b.                 a rule and a token of one name
  Simply(<<"S">> :> <<<<name("a"), token("a"), token("b")>>, <<token("a"), token("b")>>>>
          @@ <<"a">> :> <<<<token("b")>>>>),
  \* S = a. a. b. | B S.  B = b. a. | b.  each token defined three times
  [rules |-> axiom @@ <<"S">> :> <<<<token("a"), token("a"), token("b")>>, <<name("B"), name("S")>>>>
               @@ <<"B">> :> <<<<token("b"), token("a")>>, <<token("b")>>>>,
   tokens |-> <<"a", "b", "a", "b", "a", "b">>],
  \* no AXIOM line; no rules at all
  [rules |-> <<"S">> :> <<<<token("a")>>>>, tokens |-> both],
  [rules |-> NoRules, tokens |-> both]}

Short(operands) == UNION {[1..len -> operands] : len \in 1..2}

Small == {
  Simply(<<"S">> :> s @@ <<"A">> :> <<r>>) :
    s \in [1..2 -> Short({token("a"), name("A"), name("S"), EmptyOperand})],
    r \in Short({token("a"), token("b"), name("S"), EmptyOperand})}

MCLoaded == Cases \cup Small

MCSentences == UNION {[1..len -> MCTerminal] : len \in 0..4}

=============================================================================
