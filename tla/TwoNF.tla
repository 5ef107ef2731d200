------------------------------- MODULE TwoNF -------------------------------
(***************************************************************************)
(* normoperators::get2nf (operations/normop.cpp): how a loaded grammar is  *)
(* put in the binary normal form that the CYK parser reads.                *)
(*                                                                         *)
(* Four passes have the same shape: for every key of the map, for every    *)
(* alternative of the key, put one or more rules in a fresh map, and at    *)
(* the end let the fresh map replace the old one.  TERM gives every token  *)
(* a rule of its own, BIN cuts the first operand off every rule longer     *)
(* than two and runs until no such rule is left, eliminatedoubles drops    *)
(* repeated alternatives, removenullables drops the empty ones.  Before    *)
(* the last pass getnullables and getunitrelation are computed.            *)
(*                                                                         *)
(* A step is one iteration of an inner loop.  std::map visits the keys in  *)
(* the order of their text and the worklist of getnullables is a stack;    *)
(* here every order is possible, so what is checked does not depend on     *)
(* how the author named the rules.                                         *)
(***************************************************************************)
EXTENDS Grammar

CONSTANT SourceGrammars  \* the grammars the loader may hand over

ASSUME SourceAssumption == \A g \in SourceGrammars : IsSource(g)

VARIABLES
  raw,        \* the grammar as it was loaded
  rules,      \* production_rules, as the finished passes left it
  stage,      \* the operation get2nf is in
  keys,       \* keys of rules that the running pass has not visited
  key,        \* the key being visited, or the nullable popped last
  pending,    \* alternatives of key that the running pass has not visited
  nf,         \* normalForm, the map the running pass builds
  changed,    \* BIN has cut a rule in this round
  nullables,  \* the result of getnullables
  todo,       \* nullables whose occurrences were not looked at
  occ,        \* occurrences of the nullable in key still to be looked at
  unit        \* unitrelation

vars == <<raw, rules, stage, keys, key, pending, nf, changed,
          nullables, todo, occ, unit>>

Passes == {"TERM", "BIN", "DOUBLES", "REMOVE"}

NoKey == <<>>

NoUnits == [name \in {} |-> {}]

-----------------------------------------------------------------------------
(* What a pass makes of one alternative.                                    *)

\* The key of the rule that stands for a token: operand.value() + "."
DottedName(operand) == <<Dotted[operand.value[1]]>>

\* The rule with every token replaced by the key of its own rule.
WithoutTerminals(rule) ==
  [p \in DOMAIN rule |-> IF rule[p].type = "TERMINAL"
                         THEN NameOperand(DottedName(rule[p]))
                         ELSE rule[p]]

\* The places where the rule has the token that name stands for.
PlacesOf(rule, name) ==
  {p \in DOMAIN rule : rule[p].type = "TERMINAL" /\ DottedName(rule[p]) = name}

DottedNames(rule) ==
  {DottedName(rule[p]) : p \in {q \in DOMAIN rule : rule[q].type = "TERMINAL"}}

\* The rules of one token that checkruleforterminals pushes, one per place.
TokenRules(rule, name) ==
  [n \in 1..Cardinality(PlacesOf(rule, name)) |->
     <<rule[CHOOSE p \in PlacesOf(rule, name) : TRUE]>>]

CheckRuleForTerminals(g, name, rule) ==
  [m \in DOMAIN g \cup DottedNames(rule) \cup {name} |->
     RulesAt(g, m) \o TokenRules(rule, m)
                   \o (IF m = name THEN <<WithoutTerminals(rule)>> ELSE <<>>)]

\* A fault: the key is joined from the first two operands only, so that tails
\* that differ later share it.
JoinOfTwo(rule) == [p \in {1, 2} |-> rule[p].value[1]]

\* utils::join of the operands' values.
Join(rule) == [p \in DOMAIN rule |-> rule[p].value[1]]

\* The names that BIN makes: one for every tail of two operands or more.
AtomOf(operand) ==
  IF operand.type = "TERMINAL" THEN Dotted[operand.value[1]] ELSE operand.value[1]

TailNames(rule) ==
  {[p \in 1..(Len(rule) - n) |-> AtomOf(rule[n + p])] : n \in 1..(Len(rule) - 2)}

MadeNames(g) ==
  UNION {UNION {TailNames(rule) : rule \in Alternatives(g, name)} : name \in DOMAIN g}

\* A fault: rules of every length are cut, a single operand from nothing.
BinarizeEveryRule(g, name, rule) ==
  LET suffix == Join(Tail(rule))
      head   == <<rule[1], NameOperand(suffix)>>
  IN  IF rule = <<>> THEN g
      ELSE PushRule(PushRule(g, name, head), suffix, Tail(rule))

\* A fault: the tail gets a name and no rule.
BinarizeHeadOnly(g, name, rule) ==
  IF Len(rule) <= 2
  THEN PushRule(g, name, rule)
  ELSE PushRule(g, name, <<rule[1], NameOperand(Join(Tail(rule)))>>)

BinarizeRule(g, name, rule) ==
  IF Len(rule) <= 2
  THEN PushRule(g, name, rule)
  ELSE LET suffix == Join(Tail(rule))
           head   == <<rule[1], NameOperand(suffix)>>
       IN  PushRule(PushRule(g, name, head), suffix, Tail(rule))

\* A fault: alternatives that begin alike are taken for the same.
KeepUniqueStart(g, name, rule) ==
  IF \E r \in Alternatives(g, name) : r # <<>> /\ rule # <<>> /\ r[1] = rule[1]
  THEN g ELSE PushRule(g, name, rule)

\* A fault: the search for an equal alternative never finds one.
KeepEvery(g, name, rule) == PushRule(g, name, rule)

KeepUnique(g, name, rule) ==
  IF rule \in Alternatives(g, name) THEN g ELSE PushRule(g, name, rule)

KeepNonEmpty(g, name, rule) ==
  IF IsEmptyRule(rule) THEN g ELSE PushRule(g, name, rule)

-----------------------------------------------------------------------------
(* Nullables and unit relation of a binary grammar.                         *)

EmptyKeys(g) ==
  {name \in DOMAIN g : \E rule \in Alternatives(g, name) : IsEmptyRule(rule)}

\* occurs[name]: front() is the key of a rule that has name in it, back()
\* the other operand.  For a rule of one operand only {key} is stored, so
\* that front() and back() are both the key.
Occurrences(g, name) ==
  UNION {{[front |-> k, back |-> k] :
            rule \in {r \in Alternatives(g, k) : Len(r) = 1 /\ r[1].value = name}}
         \cup
         {[front |-> k, back |-> rule[2].value] :
            rule \in {r \in Alternatives(g, k) : Len(r) = 2 /\ r[1].value = name}}
         \cup
         {[front |-> k, back |-> rule[1].value] :
            rule \in {r \in Alternatives(g, k) : Len(r) = 2 /\ r[2].value = name}}
         : k \in DOMAIN g}

\* A fault: the first operand is a unit whether or not the second is nullable.
UnitsOfAnyPair(g, empties, name) ==
  {rule[1].value : rule \in {r \in Alternatives(g, name) :
                               Len(r) = 1 /\ r[1].type = "NONTERMINAL"}}
  \cup
  {rule[2].value : rule \in {r \in Alternatives(g, name) :
                               Len(r) = 2 /\ r[1].value \in empties}}
  \cup
  {rule[1].value : rule \in {r \in Alternatives(g, name) : Len(r) = 2}}

\* What a key produces when the rest of its rule is empty.
UnitsOf(g, empties, name) ==
  {rule[1].value : rule \in {r \in Alternatives(g, name) :
                               Len(r) = 1 /\ r[1].type = "NONTERMINAL"}}
  \cup
  {rule[2].value : rule \in {r \in Alternatives(g, name) :
                               Len(r) = 2 /\ r[1].value \in empties}}
  \cup
  {rule[1].value : rule \in {r \in Alternatives(g, name) :
                               Len(r) = 2 /\ r[2].value \in empties}}

\* The lists of the unit relation are only ever searched: sets stand for them.
UnitRelation(g, empties) ==
  [name \in {k \in DOMAIN g : UnitsOf(g, empties, k) # {}} |->
     UnitsOf(g, empties, name)]

-----------------------------------------------------------------------------

Init ==
  /\ raw \in SourceGrammars
  /\ rules = raw
  /\ stage = "TERM"
  /\ keys = DOMAIN raw
  /\ key = NoKey
  /\ pending = <<>>
  /\ nf = NoRules
  /\ changed = FALSE
  /\ nullables = {}
  /\ todo = {}
  /\ occ = {}
  /\ unit = NoUnits

\* The outer loop of a pass.  TERM tests the wrong map before it declares a
\* key, so that a key without alternatives is lost; the other passes declare
\* every key.
VisitKey(name) ==
  /\ stage \in Passes
  /\ pending = <<>>
  /\ name \in keys
  /\ keys' = keys \ {name}
  /\ key' = name
  /\ pending' = rules[name]
  /\ nf' = IF stage = "TERM" THEN nf ELSE Declare(nf, name)
  /\ UNCHANGED <<raw, rules, stage, changed, nullables, todo, occ, unit>>

\* The inner loop of a pass.
NextRule(pass) ==
  /\ stage = pass
  /\ pending # <<>>
  /\ pending' = Tail(pending)
  /\ UNCHANGED <<raw, rules, stage, keys, key, nullables, todo, occ, unit>>

TermRule ==
  /\ NextRule("TERM")
  /\ nf' = CheckRuleForTerminals(nf, key, Head(pending))
  /\ UNCHANGED changed

\* A fault: the flag of the round is that of its last rule.
BinRuleForgets ==
  /\ NextRule("BIN")
  /\ nf' = BinarizeRule(nf, key, Head(pending))
  /\ changed' = (Len(Head(pending)) > 2)

\* A fault: a pair counts as a cut.
BinRuleNeverDone ==
  /\ NextRule("BIN")
  /\ nf' = BinarizeRule(nf, key, Head(pending))
  /\ changed' = (changed \/ Len(Head(pending)) > 1)

BinRule ==
  /\ NextRule("BIN")
  /\ nf' = BinarizeRule(nf, key, Head(pending))
  /\ changed' = (changed \/ Len(Head(pending)) > 2)

UniqueRule ==
  /\ NextRule("DOUBLES")
  /\ nf' = KeepUnique(nf, key, Head(pending))
  /\ UNCHANGED changed

NonEmptyRule ==
  /\ NextRule("REMOVE")
  /\ nf' = KeepNonEmpty(nf, key, Head(pending))
  /\ UNCHANGED changed

\* What get2nf does after a pass.  BIN::binarize starts another round as
\* long as the last one cut a rule.
StageAfter ==
  CASE stage = "TERM"    -> "BIN"
    [] stage = "BIN"     -> IF changed THEN "BIN" ELSE "DOUBLES"
    [] stage = "DOUBLES" -> "NULLABLES"
    [] stage = "REMOVE"  -> "DONE"

EndPass ==
  /\ stage \in Passes
  /\ pending = <<>>
  /\ keys = {}
  /\ rules' = nf
  /\ keys' = DOMAIN nf
  /\ nf' = NoRules
  /\ key' = NoKey
  /\ changed' = FALSE
  /\ stage' = StageAfter
  /\ UNCHANGED <<raw, pending, nullables, todo, occ, unit>>

\* A fault: the worklist is copied before the empty rules are found.
SeedNullablesTooEarly ==
  /\ stage = "NULLABLES"
  /\ nullables' = EmptyKeys(rules)
  /\ todo' = nullables
  /\ stage' = "PROPAGATE"
  /\ UNCHANGED <<raw, rules, keys, key, pending, nf, changed, occ, unit>>

\* getnullables: the rules that are empty start the worklist.
SeedNullables ==
  /\ stage = "NULLABLES"
  /\ nullables' = EmptyKeys(rules)
  /\ todo' = EmptyKeys(rules)
  /\ stage' = "PROPAGATE"
  /\ UNCHANGED <<raw, rules, keys, key, pending, nf, changed, occ, unit>>

PopNullable(name) ==
  /\ stage = "PROPAGATE"
  /\ occ = {}
  /\ name \in todo
  /\ todo' = todo \ {name}
  /\ key' = name
  /\ occ' = Occurrences(rules, name)
  /\ UNCHANGED <<raw, rules, stage, keys, pending, nf, changed, nullables, unit>>

\* A fault: one nullable operand is enough.
PropagateUnchecked(o) ==
  /\ stage = "PROPAGATE"
  /\ o \in occ
  /\ occ' = occ \ {o}
  /\ IF o.front \notin nullables
     THEN /\ nullables' = nullables \cup {o.front}
          /\ todo' = todo \cup {o.front}
     ELSE UNCHANGED <<nullables, todo>>
  /\ UNCHANGED <<raw, rules, stage, keys, key, pending, nf, changed, unit>>

\* One iteration over the occurrences of the nullable in key.
Propagate(o) ==
  /\ stage = "PROPAGATE"
  /\ o \in occ
  /\ occ' = occ \ {o}
  /\ IF o.back \in nullables /\ o.front \notin nullables
     THEN /\ nullables' = nullables \cup {o.front}
          /\ todo' = todo \cup {o.front}
     ELSE UNCHANGED <<nullables, todo>>
  /\ UNCHANGED <<raw, rules, stage, keys, key, pending, nf, changed, unit>>

GetUnitRelation ==
  /\ stage = "PROPAGATE"
  /\ todo = {}
  /\ occ = {}
  /\ unit' = UnitRelation(rules, nullables)
  /\ key' = NoKey
  /\ stage' = "REMOVE"
  /\ UNCHANGED <<raw, rules, keys, pending, nf, changed, nullables, todo, occ>>

Next ==
  \/ \E name \in keys : VisitKey(name)
  \/ TermRule
  \/ BinRule
  \/ UniqueRule
  \/ NonEmptyRule
  \/ EndPass
  \/ SeedNullables
  \/ \E name \in todo : PopNullable(name)
  \/ \E o \in occ : Propagate(o)
  \/ GetUnitRelation

\* One thread runs the loops and nothing makes it wait.
Spec == Init /\ [][Next]_vars /\ WF_vars(Next)

-----------------------------------------------------------------------------
(***************************************************************************)
(* What a normal form rule stands for.  A name that get2nf made spells out *)
(* the operands it replaces; expanding the names of a rule gives back the  *)
(* alternative of the grammar file it was cut from.                        *)
(***************************************************************************)

\* The operand that an atom of a name stands for.
Spell(atom) ==
  IF atom \in NonTerminal THEN NameOperand(<<atom>>)
  ELSE IF atom = Empty THEN EmptyOperand
  ELSE TerminalOperand(CHOOSE t \in Terminal : Dotted[t] = atom)

SpellName(name) == [p \in DOMAIN name |-> Spell(name[p])]

ExpandOperand(operand) ==
  IF operand.type = "NONTERMINAL" THEN SpellName(operand.value) ELSE <<operand>>

\* Only the second operand of a rule of two can be a name of several atoms.
Expand(rule) ==
  IF Len(rule) = 2
  THEN ExpandOperand(rule[1]) \o ExpandOperand(rule[2])
  ELSE [p \in DOMAIN rule |-> ExpandOperand(rule[p])[1]]

SourceName == {<<A>> : A \in NonTerminal}

Done(s) == stage \in s

AfterBin == Done({"DOUBLES", "NULLABLES", "PROPAGATE", "REMOVE", "DONE"})

AfterDoubles == Done({"NULLABLES", "PROPAGATE", "REMOVE", "DONE"})

AfterNullables == Done({"REMOVE", "DONE"})

-----------------------------------------------------------------------------
(* Safety.                                                                  *)

\* Every variable holds a value of its kind.  (One type invariant.)
TypeOK ==
  /\ IsSource(raw)
  /\ IsProductionRules(rules)
  /\ stage \in Passes \cup {"NULLABLES", "PROPAGATE", "DONE"}
  /\ keys \subseteq DOMAIN rules
  /\ key \in Name \cup {NoKey}
  /\ pending \in Seq(Rule)
  /\ IsProductionRules(nf)
  /\ changed \in BOOLEAN
  /\ nullables \subseteq Name
  /\ todo \subseteq nullables
  /\ occ \subseteq [front : Name, back : Seq(Atom \cup Terminal)]
  /\ DOMAIN unit \subseteq Name

\* In no pass does a rule appear that the author did not write: the rules of
\* an author's name expand to alternatives of that name, and the rules of a
\* made name to what the name spells.  Keys are shared between rules (every
\* "b." and every common tail "b/c" of two rules), so a key that could stand
\* for two different things would let the parser accept foreign words.
StandsFor(name, rule) ==
  IF name \in SourceName
  THEN name \in DOMAIN raw /\ Expand(rule) \in Alternatives(raw, name)
  ELSE Expand(rule) = SpellName(name)

ExpandsToSource(g) ==
  \A name \in DOMAIN g : \A rule \in Alternatives(g, name) : StandsFor(name, rule)

ExpansionSound == ExpandsToSource(rules) /\ ExpandsToSource(nf)

\* No pass loses an alternative: each one the author wrote is what some rule
\* of the same name expands to, until removenullables takes out the empty ones.
ExpansionComplete ==
  \A name \in DOMAIN raw : \A rule \in Alternatives(raw, name) :
    \/ name \in DOMAIN rules /\ \E r \in Alternatives(rules, name) : Expand(r) = rule
    \/ stage = "DONE" /\ IsEmptyRule(rule)

\* A name made by TERM or BIN that a rule mentions has a rule of its own.
\* While BIN runs that rule may be in the old map, waiting to be visited.
NoDanglingName ==
  \A name \in DOMAIN rules : \A rule \in Alternatives(rules, name) :
    \A p \in DOMAIN rule :
      \/ rule[p].type # "NONTERMINAL"
      \/ rule[p].value \in SourceName
      \/ rule[p].value \in DOMAIN rules /\ Alternatives(rules, rule[p].value) # {}

\* BIN ends its rounds only when no rule has more than two operands left, and
\* no token is left beside another operand: CYK reads rule[0] and rule[1] only.
BinaryForm ==
  AfterBin =>
    \A name \in DOMAIN rules : \A rule \in Alternatives(rules, name) :
      /\ Len(rule) <= 2
      /\ Len(rule) = 2 => \A p \in DOMAIN rule : rule[p].type # "TERMINAL"

\* A rule that is still to be cut has operands of one atom only, so that the
\* key joined from its tail names exactly the operands of the tail.
LongRulesAreSimple ==
  \A name \in DOMAIN rules : \A rule \in Alternatives(rules, name) :
    \A p \in DOMAIN rule :
      \/ Simple(rule[p].value)
      \/ Len(rule) = 2 /\ p = 2

\* No key keeps an alternative twice.  Shared keys get one copy per use from
\* TERM and BIN, and every copy would double the parse trees of CYK.
NoDoubles ==
  AfterDoubles =>
    \A name \in DOMAIN rules : \A m, n \in DOMAIN rules[name] :
      rules[name][m] = rules[name][n] => m = n

\* A set of keys that contains every key with a rule whose operands are all
\* empty or in the set.
ClosedUnderNullability(g, N) ==
  \A name \in DOMAIN g : \A rule \in Alternatives(g, name) :
    (/\ rule # <<>>
     /\ \A p \in DOMAIN rule :
          \/ rule[p].type = "EMPTY"
          \/ rule[p].type = "NONTERMINAL" /\ rule[p].value \in N)
      => name \in N

\* getnullables marks only keys that produce the empty word: it stays within
\* every closed set.  Otherwise getunitrelation would drop a needed operand.
NullablesSound ==
  stage # "DONE" =>
    \A N \in SUBSET DOMAIN rules :
      ClosedUnderNullability(rules, N) => nullables \subseteq N

\* When the worklist is empty, a key with two nullable operands is nullable,
\* whatever order the occurrences were looked at in.
NullablesSaturated ==
  stage = "REMOVE" =>
    \A name \in DOMAIN rules : \A rule \in Alternatives(rules, name) :
      (Len(rule) = 2 /\ rule[1].value \in nullables /\ rule[2].value \in nullables)
        => name \in nullables

-----------------------------------------------------------------------------
(* Liveness.                                                                *)

\* get2nf returns for every grammar: the rounds of BIN come to an end, and so
\* does the worklist of getnullables, recursive rules included.
Termination == <>(stage = "DONE")

=============================================================================
