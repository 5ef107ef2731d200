------------------------------ MODULE Language ------------------------------
(***************************************************************************)
(* What a grammar file means, independently of any parser: which symbol    *)
(* derives which part of a word.  Facts are computed as the least fixed    *)
(* point over all rules and all spans; operands of a rule meet at cut      *)
(* points, and an empty operand or a blank alternative spans nothing.      *)
(*                                                                         *)
(* This is a reference for the checks, no code does it.                    *)
(***************************************************************************)
EXTENDS Grammar

OperandSpans(facts, w, operand, from, to) ==
  CASE operand.type = "TERMINAL"    -> to = from + 1 /\ operand.value = <<w[to]>>
    [] operand.type = "EMPTY"       -> to = from
    [] operand.type = "NONTERMINAL" -> <<operand.value, from, to>> \in facts

RuleSpans(facts, w, rule, from, to) ==
  \/ rule = <<>> /\ from = to
  \/ /\ rule # <<>>
     /\ \E inner \in [1..(Len(rule) - 1) -> from..to] :
          LET cut(p) == IF p = 0 THEN from ELSE IF p = Len(rule) THEN to ELSE inner[p]
          IN  \A p \in DOMAIN rule :
                OperandSpans(facts, w, rule[p], cut(p - 1), cut(p))

\* <<name, from, to>>: name derives the tokens after the first `from` up to the
\* `to`-th.
Facts(g, w) ==
  {f \in (DOMAIN g) \X (0..Len(w)) \X (0..Len(w)) : f[2] <= f[3]}

Following(g, w, facts) ==
  {f \in Facts(g, w) :
     \E rule \in Alternatives(g, f[1]) : RuleSpans(facts, w, rule, f[2], f[3])}

Derivations(g, w) ==
  LET saturated[facts \in SUBSET Facts(g, w)] ==
        LET more == Following(g, w, facts)
        IN  IF more \subseteq facts THEN facts ELSE saturated[facts \cup more]
  IN  saturated[{}]

InLanguage(g, w) == <<<<Axiom>>, 0, Len(w)>> \in Derivations(g, w)

\* The grammars CYK is complete for: nothing is empty, and no rule that is a
\* single name leads to a rule that is a single operand.  The axiom's own rule
\* does not count: it is the only one (files that are merged may bring several)
\* and the axiom is no operand (as x=AXIOM would be).
Proper(g) ==
  \A name \in DOMAIN g : \A rule \in Alternatives(g, name) :
    /\ rule # <<>>
    /\ \A p \in DOMAIN rule : rule[p].type # "EMPTY" /\ rule[p].value # <<Axiom>>
    /\ \A r \in Alternatives(g, name) : name = <<Axiom>> => r = rule
    /\ (Len(rule) = 1 /\ rule[1].type = "NONTERMINAL" /\ name # <<Axiom>>) =>
         \A r \in Alternatives(g, rule[1].value) : Len(r) # 1

=============================================================================
