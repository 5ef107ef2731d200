------------------------- MODULE MCSequentialParser -------------------------
(* Files of a few lines, and every file of a few pieces behind a left side. *)
EXTENDS SequentialParser

MCNonTerminal == {"AXIOM", "S", "A", "x", "y"}
MCTerminal == {"a", "b"}
MCDotted == [t \in MCTerminal |-> IF t = "a" THEN "a." ELSE "b."]

tok(type, value) == [type |-> type, value |-> <<value>>, label |-> NoLabel]
lab(label, token) == [token EXCEPT !.label = <<label>>]

arrow == tok("EQUAL", "->")
left(name) == <<tok("NONTERMINAL", name), arrow>>
axiom == <<tok("AXIOM", "AXIOM"), arrow, tok("NONTERMINAL", "S")>>
name(x) == <<tok("NONTERMINAL", x)>>
dot(x) == <<tok("TERMINAL", x)>>
bar == <<tok("OR", "|")>>
empty == <<tok("EMPTY", "''")>>
list == <<tok("LIST", "[]")>>
keep == <<tok("EXCL", "!")>>
text == <<tok("STR", "s:")>>
comment == <<tok("LINECOMMENT", "//")>>
comma == <<tok("COMMA", ",")>>
defines(x) == <<tok("TERMINAL", x), tok("REGEX", x)>>

Pieces == {axiom, left("A"), name("A"), dot("a."), <<lab("x", tok("TERMINAL", "b."))>>,
           bar, list, keep, text, <<lab("y", tok("STR", "s:"))>>, comment, comma,
           empty, <<tok("LISTOP", "list")>>, defines("b.")}

\* AXIOM -> S   S -> x=a. !A y=A | [] | ''   A -> s:A b. | a. | a.   a. b.
Whole ==
  axiom \o left("S") \o <<lab("x", tok("TERMINAL", "a."))>> \o keep \o name("A")
    \o <<lab("y", tok("NONTERMINAL", "A"))>> \o bar \o list \o bar \o comment \o empty
    \o left("A") \o text \o name("A") \o dot("b.") \o bar \o dot("a.") \o bar \o dot("a.")
    \o defines("a.") \o comment \o defines("b.")

\* Three pieces behind S ->, and a second rule behind all of them.
MCFiles ==
  {Whole, <<>>}
    \cup {left("S") \o p \o q \o r : p, q, r \in Pieces}
    \cup {axiom \o left("S") \o dot("a.") \o p \o q \o left("A") \o dot("b.") \o defines("a.") :
            p, q \in Pieces}

=============================================================================
