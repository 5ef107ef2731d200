---------------------------- MODULE TwoNFProofs ----------------------------
(***************************************************************************)
(* get2nf keeps the meaning of every grammar, whatever its rules and the   *)
(* order in which they are visited: no alternative is invented, lost or    *)
(* left without the rules it mentions, and getnullables is sound and       *)
(* closed under binary rules.                                              *)
(***************************************************************************)
EXTENDS TwoNF, Language, SequenceFacts, FiniteSetTheorems

-----------------------------------------------------------------------------
(* The inductive invariant.                                                 *)

\* A rule as TERM leaves it, and every later pass: made names only at the end
\* of a pair, tokens only alone.
MadeRule(rule) ==
  /\ rule \in Rule
  /\ \A p \in DOMAIN rule : Simple(rule[p].value) \/ (Len(rule) = 2 /\ p = 2)
  /\ Len(rule) # 1 => \A p \in DOMAIN rule : rule[p].type # "TERMINAL"

MadeRules(g) == \A name \in DOMAIN g : \A rule \in Alternatives(g, name) : MadeRule(rule)

TokenName == {<<Dotted[t]>> : t \in Terminal}

\* The keys there can be: an author's, a token's, or one that BIN joined.
Keys(g) ==
  \A name \in DOMAIN g : name \in SourceName \/ name \in TokenName \/ Len(name) > 1

Shape ==
  /\ stage = "TERM" => rules = raw
  /\ stage # "TERM" => MadeRules(rules)
  /\ MadeRules(nf)
  /\ Keys(rules)
  /\ Keys(nf)

\* What the running pass still has to look at.
Waiting(name, rule) ==
  \/ name \in keys
  \/ name = key /\ \E m \in DOMAIN pending : pending[m] = rule

PendingFromKey ==
  \A m \in DOMAIN pending :
    /\ key \in DOMAIN rules
    /\ pending[m] \in Alternatives(rules, key)
    /\ stage # "TERM" => key \in DOMAIN nf

\* What it has brought to the new map.
Brought(name, rule) ==
  name \in DOMAIN nf /\ \E r \in Alternatives(nf, name) : Expand(r) = Expand(rule)

PassComplete ==
  stage \in Passes =>
    \A name \in DOMAIN rules : \A rule \in Alternatives(rules, name) :
      \/ Waiting(name, rule)
      \/ Brought(name, rule)
      \/ stage = "REMOVE" /\ IsEmptyRule(rule)

\* The names that a rule of the new map may mention: an author's, one that has
\* rules in the new map, or one whose rules are still to come.
Covered(name) ==
  \/ name \in SourceName
  \/ name \in DOMAIN nf /\ Alternatives(nf, name) # {}
  \/ name \in DOMAIN rules /\ \E rule \in Alternatives(rules, name) : Waiting(name, rule)

NoDanglingInPass ==
  \A name \in DOMAIN nf : \A rule \in Alternatives(nf, name) : \A p \in DOMAIN rule :
    rule[p].type = "NONTERMINAL" => Covered(rule[p].value)

Short(g) == \A name \in DOMAIN g : \A rule \in Alternatives(g, name) : Len(rule) <= 2

BinaryInPass ==
  /\ AfterBin => Short(rules) /\ Short(nf)
  /\ stage = "BIN" /\ ~ changed => Short(nf)

\* Outside the passes nothing is half done.
BetweenPasses ==
  stage \notin Passes => keys = DOMAIN rules /\ pending = <<>> /\ nf = NoRules

ExpansionInv ==
  /\ TypeOK
  /\ BetweenPasses
  /\ Shape
  /\ PendingFromKey
  /\ ExpansionSound
  /\ ExpansionComplete
  /\ PassComplete
  /\ NoDanglingName
  /\ NoDanglingInPass
  /\ BinaryInPass

\* An occurrence that is looked at belongs to a rule with the popped nullable.
OccurrencesOfKey ==
  occ # {} => key \in nullables /\ occ \subseteq Occurrences(rules, key)

\* A key whose two operands are nullable is nullable itself, unless one of the
\* two is waiting, or the popped one still has the occurrence to be looked at.
SaturatedButForWork ==
  stage \in {"PROPAGATE", "REMOVE"} =>
    \A name \in DOMAIN rules : \A rule \in Alternatives(rules, name) :
      (Len(rule) = 2 /\ rule[1].value \in nullables /\ rule[2].value \in nullables) =>
        \/ name \in nullables
        \/ rule[1].value \in todo
        \/ rule[2].value \in todo
        \/ rule[1].value = key /\ [front |-> name, back |-> rule[2].value] \in occ
        \/ rule[2].value = key /\ [front |-> name, back |-> rule[1].value] \in occ

NullablesInv ==
  /\ stage \notin {"PROPAGATE", "REMOVE", "DONE"} => nullables = {}
  /\ stage # "PROPAGATE" => todo = {} /\ occ = {}
  /\ OccurrencesOfKey
  /\ SaturatedButForWork
  /\ NullablesSound

NoRepeat(list) == \A m, n \in DOMAIN list : list[m] = list[n] => m = n

DistinctRules(g) == \A name \in DOMAIN g : NoRepeat(g[name])

\* removenullables copies distinct alternatives, each key once.
DoublesInv ==
  /\ AfterDoubles => DistinctRules(rules)
  /\ stage \in {"DOUBLES", "REMOVE"} => DistinctRules(nf)
  /\ stage = "REMOVE" =>
       /\ NoRepeat(pending)
       /\ \A m \in DOMAIN pending : pending[m] \notin Alternatives(nf, key)
       /\ keys \cap DOMAIN nf = {}

\* An author's names, those of the tokens' rules, and those of tails.
KeyNames == SourceName \cup TokenName \cup MadeNames(raw)

NamesInv == DOMAIN rules \cup DOMAIN nf \cup DOMAIN unit \subseteq KeyNames

-----------------------------------------------------------------------------
(* Names and operands.                                                      *)

LEMMA SpellNonTerminal ==
  ASSUME NEW A \in NonTerminal
  PROVE  Spell(A) = NameOperand(<<A>>) /\ A \in Atom
BY DEF Spell, Atom

LEMMA SpellEmpty == Spell(Empty) = EmptyOperand /\ Empty \in Atom
BY NamesAssumption DEF Spell, Atom

LEMMA SpellDotted ==
  ASSUME NEW t \in Terminal
  PROVE  Spell(Dotted[t]) = TerminalOperand(t) /\ Dotted[t] \in Atom
<1>1. Dotted[t] \notin NonTerminal /\ Dotted[t] # Empty
  BY NamesAssumption
<1>2. (CHOOSE u \in Terminal : Dotted[u] = Dotted[t]) = t
  BY NamesAssumption
<1> QED
  BY <1>1, <1>2 DEF Spell, Atom

\* A token's name spells the token.
LEMMA SpellTokenName ==
  ASSUME NEW t \in Terminal
  PROVE  /\ <<Dotted[t]>> \in Name
         /\ <<Dotted[t]>> \notin SourceName
         /\ SpellName(<<Dotted[t]>>) = <<TerminalOperand(t)>>
<1>1. <<Dotted[t]>> \in Name
  BY SpellDotted DEF Name
<1>2. <<Dotted[t]>> \notin SourceName
  BY NamesAssumption DEF SourceName
<1>3. SpellName(<<Dotted[t]>>) = <<Spell(Dotted[t])>>
  BY DEF SpellName
<1> QED
  BY <1>1, <1>2, <1>3, SpellDotted

\* The three kinds of operands.
LEMMA OperandKinds ==
  ASSUME NEW x \in Operand
  PROVE  \/ /\ x.type = "TERMINAL"
            /\ \E t \in Terminal : x = TerminalOperand(t) /\ x.value = <<t>>
         \/ /\ x.type = "NONTERMINAL"
            /\ x = NameOperand(x.value) /\ x.value \in Name
         \/ /\ x.type = "EMPTY"
            /\ x = EmptyOperand /\ x.value = <<Empty>>
BY DEF Operand, TerminalOperands, TerminalOperand, NameOperand, EmptyOperand

LEMMA NameOperandType ==
  ASSUME NEW name \in Name
  PROVE  /\ NameOperand(name) \in Operand
         /\ NameOperand(name).type = "NONTERMINAL"
         /\ NameOperand(name).value = name
BY DEF Operand, NameOperand

LEMMA SourceOperandType == SourceOperand \subseteq Operand
<1>1. \A A \in NonTerminal : <<A>> \in Name
  BY DEF Name, Atom
<1> QED
  BY <1>1 DEF SourceOperand, Operand

\* An operand of one atom expands to one operand, the one its atom spells when
\* it is not a token.
LEMMA ExpandSimple ==
  ASSUME NEW x \in Operand, Simple(x.value)
  PROVE  /\ ExpandOperand(x) = <<ExpandOperand(x)[1]>>
         /\ x.type # "TERMINAL" =>
              x.value[1] \in Atom /\ ExpandOperand(x)[1] = Spell(x.value[1])
<1>1. CASE x.type = "TERMINAL"
  BY <1>1 DEF ExpandOperand
<1>2. CASE x.type = "NONTERMINAL"
  <2>1. x.value \in Seq(Atom) /\ Len(x.value) = 1
    BY <1>2, OperandKinds DEF Name, Simple
  <2>2. ExpandOperand(x) = [p \in DOMAIN x.value |-> Spell(x.value[p])]
    BY <1>2 DEF ExpandOperand, SpellName
  <2>3. DOMAIN x.value = 1..1
    BY <2>1
  <2>4. ExpandOperand(x) = <<Spell(x.value[1])>>
    BY <2>2, <2>3
  <2> QED
    BY <2>1, <2>4
<1>3. CASE x.type = "EMPTY"
  BY <1>3, OperandKinds, SpellEmpty DEF ExpandOperand
<1> QED
  BY <1>1, <1>2, <1>3, OperandKinds

\* A rule whose operands all have one atom expands operand by operand.
LEMMA ExpandSimpleRule ==
  ASSUME NEW rule \in Rule, \A p \in DOMAIN rule : Simple(rule[p].value)
  PROVE  Expand(rule) = [p \in DOMAIN rule |-> ExpandOperand(rule[p])[1]]
<1>1. CASE Len(rule) = 2
  <2>1. DOMAIN rule = 1..2 /\ rule[1] \in Operand /\ rule[2] \in Operand
    <3>1. rule \in Seq(Operand)
      BY DEF Rule
    <3>2. DOMAIN rule = 1..2
      BY <1>1, <3>1
    <3> QED
      BY <3>1, <3>2
  <2> DEFINE x == ExpandOperand(rule[1])[1]
             y == ExpandOperand(rule[2])[1]
  <2>2. ExpandOperand(rule[1]) = <<x>> /\ ExpandOperand(rule[2]) = <<y>>
    BY <2>1, ExpandSimple
  <2>3. Expand(rule) = <<x>> \o <<y>>
    BY <1>1, <2>2 DEF Expand
  <2>4. <<x>> \o <<y>> = [p \in 1..2 |-> ExpandOperand(rule[p])[1]]
    OBVIOUS
  <2> QED
    BY <2>1, <2>3, <2>4
<1>2. CASE Len(rule) # 2
  BY <1>2 DEF Expand
<1> QED
  BY <1>1, <1>2

-----------------------------------------------------------------------------
(* What a step of a pass adds to the new map.                               *)

Elements(seq) == {seq[n] : n \in DOMAIN seq}

Item(name, rule) == [name |-> name, rule |-> rule]

\* h is g with the rules of new, each at the end of the rules of its name.
Adds(g, h, new) ==
  /\ IsProductionRules(h)
  /\ DOMAIN g \subseteq DOMAIN h
  /\ \A m \in DOMAIN g : Alternatives(g, m) \subseteq Alternatives(h, m)
  /\ \A x \in new : x.name \in DOMAIN h /\ x.rule \in Alternatives(h, x.name)
  /\ \A m \in DOMAIN h : m \in DOMAIN g \/ \E x \in new : x.name = m
  /\ \A m \in DOMAIN h : \A r \in Alternatives(h, m) :
       (m \in DOMAIN g /\ r \in Alternatives(g, m)) \/ Item(m, r) \in new

LEMMA ElementsConcat ==
  ASSUME NEW S, NEW s \in Seq(S), NEW t \in Seq(S)
  PROVE  s \o t \in Seq(S) /\ Elements(s \o t) = Elements(s) \cup Elements(t)
<1>1. s \o t \in Seq(S) /\ Len(s \o t) = Len(s) + Len(t)
  OBVIOUS
<1>2. \A n \in 1..Len(s) : (s \o t)[n] = s[n]
  OBVIOUS
<1>3. \A n \in 1..Len(t) : (s \o t)[Len(s) + n] = t[n]
  OBVIOUS
<1>4. \A n \in DOMAIN (s \o t) :
        n \in 1..Len(s) \/ (n - Len(s) \in 1..Len(t) /\ n = Len(s) + (n - Len(s)))
  BY <1>1
<1>5. Elements(s \o t) \subseteq Elements(s) \cup Elements(t)
  BY <1>2, <1>3, <1>4 DEF Elements
<1>6. Elements(s) \subseteq Elements(s \o t)
  BY <1>1, <1>2 DEF Elements
<1>7. Elements(t) \subseteq Elements(s \o t)
  <2> SUFFICES ASSUME NEW n \in DOMAIN t PROVE t[n] \in Elements(s \o t)
    BY DEF Elements
  <2>1. n \in 1..Len(t) /\ Len(s) + n \in DOMAIN (s \o t)
    BY <1>1
  <2> QED
    BY <1>3, <2>1 DEF Elements
<1> QED
  BY <1>1, <1>5, <1>6, <1>7

LEMMA RulesAtType ==
  ASSUME NEW g, IsProductionRules(g), NEW m
  PROVE  /\ RulesAt(g, m) \in Seq(Rule)
         /\ m \in DOMAIN g => Elements(RulesAt(g, m)) = Alternatives(g, m)
         /\ m \notin DOMAIN g => Elements(RulesAt(g, m)) = {}
BY DEF IsProductionRules, RulesAt, Elements, Alternatives

\* A map whose rules are those of g with some more at the end of each name.
LEMMA ExtendMap ==
  ASSUME NEW g, IsProductionRules(g), NEW h, NEW more, NEW new,
         DOMAIN g \subseteq DOMAIN h, DOMAIN h \subseteq Name,
         \A m \in DOMAIN h : more[m] \in Seq(Rule) /\ h[m] = RulesAt(g, m) \o more[m],
         \A m \in DOMAIN h : m \in DOMAIN g \/ more[m] # <<>>,
         \A m \in DOMAIN h, r \in Rule : r \in Elements(more[m]) <=> Item(m, r) \in new,
         \A x \in new : x.name \in DOMAIN h /\ x.rule \in Rule /\ x = Item(x.name, x.rule)
  PROVE  Adds(g, h, new)
<1>1. \A m \in DOMAIN h : h[m] \in Seq(Rule)
                         /\ Alternatives(h, m) = Elements(RulesAt(g, m)) \cup Elements(more[m])
  <2> TAKE m \in DOMAIN h
  <2>1. RulesAt(g, m) \in Seq(Rule) /\ more[m] \in Seq(Rule)
    BY RulesAtType
  <2>2. h[m] = RulesAt(g, m) \o more[m]
    OBVIOUS
  <2>3. /\ RulesAt(g, m) \o more[m] \in Seq(Rule)
        /\ Elements(RulesAt(g, m) \o more[m]) = Elements(RulesAt(g, m)) \cup Elements(more[m])
    BY <2>1, ElementsConcat
  <2> QED
    BY <2>2, <2>3 DEF Elements, Alternatives
<1>2. IsProductionRules(h)
  BY <1>1 DEF IsProductionRules
<1>3. \A m \in DOMAIN h : Elements(more[m]) \subseteq Rule
  BY DEF Elements
<1>4. \A m \in DOMAIN g : Alternatives(g, m) \subseteq Alternatives(h, m)
  BY <1>1, RulesAtType
<1>5. \A x \in new : x.name \in DOMAIN h /\ x.rule \in Alternatives(h, x.name)
  <2> TAKE x \in new
  <2>1. x.rule \in Elements(more[x.name])
    OBVIOUS
  <2> QED
    BY <1>1, <2>1
<1>6. \A m \in DOMAIN h : m \in DOMAIN g \/ \E x \in new : x.name = m
  <2> SUFFICES ASSUME NEW m \in DOMAIN h, m \notin DOMAIN g PROVE \E x \in new : x.name = m
    OBVIOUS
  <2>1. more[m] \in Seq(Rule) /\ more[m] # <<>>
    OBVIOUS
  <2>2. more[m][1] \in Elements(more[m]) /\ more[m][1] \in Rule
    BY <2>1 DEF Elements
  <2>3. Item(m, more[m][1]) \in new
    BY <2>2
  <2> QED
    BY <2>3 DEF Item
<1>7. \A m \in DOMAIN h : \A r \in Alternatives(h, m) :
        (m \in DOMAIN g /\ r \in Alternatives(g, m)) \/ Item(m, r) \in new
  BY <1>1, <1>3, RulesAtType
<1> QED
  BY <1>2, <1>4, <1>5, <1>6, <1>7 DEF Adds

LEMMA PushRuleAdds ==
  ASSUME NEW g, IsProductionRules(g), NEW name \in Name, NEW rule \in Rule
  PROVE  Adds(g, PushRule(g, name, rule), {Item(name, rule)})
<1> DEFINE h    == PushRule(g, name, rule)
           more == [m \in DOMAIN h |-> IF m = name THEN <<rule>> ELSE <<>>]
<1>1. /\ DOMAIN h = DOMAIN g \cup {name}
      /\ \A m \in DOMAIN h :
           h[m] = IF m = name THEN Append(RulesAt(g, m), rule) ELSE g[m]
  BY DEF PushRule
<1>2. DOMAIN g \subseteq DOMAIN h /\ DOMAIN h \subseteq Name
  BY <1>1 DEF IsProductionRules
<1>3. \A m \in DOMAIN h : more[m] \in Seq(Rule)
  OBVIOUS
<1>4. ASSUME NEW m \in DOMAIN h PROVE h[m] = RulesAt(g, m) \o more[m]
  <2>1. RulesAt(g, m) \in Seq(Rule)
    BY RulesAtType
  <2>2. CASE m = name
    <3>1. h[m] = Append(RulesAt(g, m), rule) /\ more[m] = <<rule>>
      BY <1>1, <2>2
    <3>2. \A seq \in Seq(Rule) : Append(seq, rule) = seq \o <<rule>>
      OBVIOUS
    <3>3. Append(RulesAt(g, m), rule) = RulesAt(g, m) \o <<rule>>
      BY <2>1, <3>2
    <3> QED
      BY <3>1, <3>3
  <2>3. CASE m # name
    <3>1. h[m] = g[m] /\ more[m] = <<>> /\ RulesAt(g, m) = g[m]
      BY <1>1, <2>3 DEF RulesAt
    <3>2. \A seq \in Seq(Rule) : seq \o <<>> = seq
      OBVIOUS
    <3>3. RulesAt(g, m) \o <<>> = RulesAt(g, m)
      BY <2>1, <3>2
    <3> QED
      BY <3>1, <3>3
  <2> QED
    BY <2>2, <2>3
<1>5. \A m \in DOMAIN h : m \in DOMAIN g \/ more[m] # <<>>
  BY <1>1
<1>6. \A m \in DOMAIN h, r \in Rule :
        r \in Elements(more[m]) <=> Item(m, r) \in {Item(name, rule)}
  <2> TAKE m \in DOMAIN h, r \in Rule
  <2>1. Elements(more[m]) = IF m = name THEN {rule} ELSE {}
    BY DEF Elements
  <2> QED
    BY <2>1 DEF Item
<1>7. \A x \in {Item(name, rule)} :
        x.name \in DOMAIN h /\ x.rule \in Rule /\ x = Item(x.name, x.rule)
  BY <1>1 DEF Item
<1> HIDE DEF h, more
<1>8. Adds(g, h, {Item(name, rule)})
  BY <1>2, <1>3, <1>4, <1>5, <1>6, <1>7, ExtendMap
<1> QED
  BY <1>8 DEF h

LEMMA AddsTwice ==
  ASSUME NEW f, NEW g, NEW h, NEW new1, NEW new2, Adds(f, g, new1), Adds(g, h, new2)
  PROVE  Adds(f, h, new1 \cup new2)
BY DEF Adds, Item

LEMMA AddsPresent ==
  ASSUME NEW g, IsProductionRules(g), NEW name \in DOMAIN g,
         NEW rule \in Alternatives(g, name)
  PROVE  Adds(g, g, {Item(name, rule)})
BY DEF Adds, Item

LEMMA AddsNothing ==
  ASSUME NEW g, IsProductionRules(g)
  PROVE  Adds(g, g, {})
BY DEF Adds

\* The rules that TERM makes of one alternative.
TermItems(name, rule) ==
  {Item(name, WithoutTerminals(rule))} \cup
  {Item(DottedName(rule[p]), <<rule[p]>>) :
     p \in {q \in DOMAIN rule : rule[q].type = "TERMINAL"}}

LEMMA DottedNameType ==
  ASSUME NEW x \in Operand, x.type = "TERMINAL"
  PROVE  \E t \in Terminal : /\ x = TerminalOperand(t)
                             /\ DottedName(x) = <<Dotted[t]>>
                             /\ DottedName(x) \in Name
BY OperandKinds, SpellTokenName DEF DottedName

LEMMA WithoutTerminalsType ==
  ASSUME NEW rule \in Rule
  PROVE  /\ WithoutTerminals(rule) \in Rule
         /\ Len(WithoutTerminals(rule)) = Len(rule)
         /\ DOMAIN WithoutTerminals(rule) = DOMAIN rule
<1>1. rule \in Seq(Operand) /\ DOMAIN rule = 1..Len(rule) /\ Len(rule) \in Nat
  BY DEF Rule
<1>2. \A p \in DOMAIN rule : WithoutTerminals(rule)[p] \in Operand
  BY <1>1, DottedNameType, NameOperandType DEF WithoutTerminals
<1>3. DOMAIN WithoutTerminals(rule) = 1..Len(rule)
  BY <1>1 DEF WithoutTerminals
<1>4. WithoutTerminals(rule) = [p \in 1..Len(rule) |-> WithoutTerminals(rule)[p]]
  BY <1>1, <1>3 DEF WithoutTerminals
<1> QED
  BY <1>1, <1>2, <1>3, <1>4 DEF Rule

\* The token rules pushed for one name are copies of the token alone.
LEMMA TokenRulesElements ==
  ASSUME NEW rule \in Rule, NEW m
  PROVE  /\ TokenRules(rule, m) \in Seq(Rule)
         /\ \A r : r \in Elements(TokenRules(rule, m)) <=>
                    \E p \in PlacesOf(rule, m) : r = <<rule[p]>>
<1> DEFINE places == PlacesOf(rule, m)
           chosen == CHOOSE p \in places : TRUE
<1>1. rule \in Seq(Operand) /\ DOMAIN rule = 1..Len(rule) /\ Len(rule) \in Nat
  BY DEF Rule
<1>2. places \subseteq 1..Len(rule) /\ IsFiniteSet(places)
  <2>1. places \subseteq 1..Len(rule)
    BY <1>1 DEF PlacesOf
  <2>2. IsFiniteSet(1..Len(rule))
    BY <1>1, FS_Interval
  <2> QED
    BY <2>1, <2>2, FS_Subset
<1>3. /\ Cardinality(places) \in Nat
      /\ Cardinality(places) = 0 <=> places = {}
  BY <1>2, FS_CardinalityType, FS_EmptySet
<1>4. places # {} => chosen \in places
  OBVIOUS
<1>5. \A p, q \in places : rule[p] = rule[q]
  <2> SUFFICES ASSUME NEW p \in places, NEW q \in places PROVE rule[p] = rule[q]
    OBVIOUS
  <2>1. /\ rule[p] \in Operand /\ rule[p].type = "TERMINAL" /\ DottedName(rule[p]) = m
        /\ rule[q] \in Operand /\ rule[q].type = "TERMINAL" /\ DottedName(rule[q]) = m
    BY <1>1 DEF PlacesOf
  <2>2. PICK t \in Terminal : rule[p] = TerminalOperand(t) /\ m = <<Dotted[t]>>
    BY <2>1, DottedNameType
  <2>3. PICK u \in Terminal : rule[q] = TerminalOperand(u) /\ m = <<Dotted[u]>>
    BY <2>1, DottedNameType
  <2>4. Dotted[t] = Dotted[u]
    BY <2>2, <2>3
  <2> QED
    BY <2>2, <2>3, <2>4, NamesAssumption
<1>6. TokenRules(rule, m) = [n \in 1..Cardinality(places) |-> <<rule[chosen]>>]
  BY DEF TokenRules
<1>7. places # {} => <<rule[chosen]>> \in Rule
  BY <1>1, <1>2, <1>4 DEF Rule
<1>8. TokenRules(rule, m) \in Seq(Rule)
  <2>1. CASE places = {}
    BY <1>3, <1>6, <2>1
  <2>2. CASE places # {}
    <3> DEFINE c == Cardinality(places)
               x == <<rule[chosen]>>
    <3>1. c \in Nat /\ x \in Rule /\ TokenRules(rule, m) = [n \in 1..c |-> x]
      BY <1>3, <1>6, <1>7, <2>2
    <3> HIDE DEF c, x
    <3> QED
      BY <3>1
  <2> QED
    BY <2>1, <2>2
<1>9. Elements(TokenRules(rule, m)) = IF places = {} THEN {} ELSE {<<rule[chosen]>>}
  <2>1. CASE places = {}
    BY <1>3, <1>6, <2>1 DEF Elements
  <2>2. CASE places # {}
    <3>1. 1 \in 1..Cardinality(places)
      BY <1>3, <2>2
    <3> QED
      BY <1>6, <2>2, <3>1 DEF Elements
  <2> QED
    BY <2>1, <2>2
<1> QED
  BY <1>4, <1>5, <1>8, <1>9

LEMMA TermAdds ==
  ASSUME NEW g, IsProductionRules(g), NEW name \in Name, NEW rule \in Rule
  PROVE  Adds(g, CheckRuleForTerminals(g, name, rule), TermItems(name, rule))
<1> DEFINE h    == CheckRuleForTerminals(g, name, rule)
           last == <<WithoutTerminals(rule)>>
           own(m) == IF m = name THEN last ELSE <<>>
           more == [m \in DOMAIN h |-> TokenRules(rule, m) \o own(m)]
           new  == TermItems(name, rule)
<1>1. rule \in Seq(Operand) /\ DOMAIN rule = 1..Len(rule) /\ Len(rule) \in Nat
  BY DEF Rule
<1>2. WithoutTerminals(rule) \in Rule
  BY WithoutTerminalsType
<1>3. /\ DOMAIN h = DOMAIN g \cup DottedNames(rule) \cup {name}
      /\ \A m \in DOMAIN h : h[m] = RulesAt(g, m) \o TokenRules(rule, m) \o own(m)
  BY DEF CheckRuleForTerminals
<1>4. DottedNames(rule) \subseteq Name
  BY <1>1, DottedNameType DEF DottedNames
<1>5. DOMAIN g \subseteq DOMAIN h /\ DOMAIN h \subseteq Name
  BY <1>3, <1>4 DEF IsProductionRules
<1>6. \A m : own(m) \in Seq(Rule) /\ Elements(own(m)) = IF m = name THEN {WithoutTerminals(rule)} ELSE {}
  BY <1>2 DEF Elements
<1>7. \A m \in DOMAIN h : /\ more[m] \in Seq(Rule)
                         /\ Elements(more[m]) = Elements(TokenRules(rule, m)) \cup Elements(own(m))
  <2> TAKE m \in DOMAIN h
  <2>1. TokenRules(rule, m) \in Seq(Rule) /\ own(m) \in Seq(Rule)
    BY <1>6, TokenRulesElements
  <2>2. more[m] = TokenRules(rule, m) \o own(m)
    OBVIOUS
  <2> HIDE DEF own, more
  <2> QED
    BY <2>1, <2>2, ElementsConcat
<1>8. ASSUME NEW m \in DOMAIN h PROVE h[m] = RulesAt(g, m) \o more[m]
  <2>1. RulesAt(g, m) \in Seq(Rule) /\ TokenRules(rule, m) \in Seq(Rule) /\ own(m) \in Seq(Rule)
    BY <1>6, RulesAtType, TokenRulesElements
  <2>2. \A x, y, z \in Seq(Rule) : (x \o y) \o z = x \o (y \o z)
    OBVIOUS
  <2>3. h[m] = (RulesAt(g, m) \o TokenRules(rule, m)) \o own(m)
    BY <1>3
  <2>4. more[m] = TokenRules(rule, m) \o own(m)
    OBVIOUS
  <2> HIDE DEF h, own, more
  <2> QED
    BY <2>1, <2>2, <2>3, <2>4
<1>9. \A m \in DOMAIN h : DottedNames(rule) \subseteq DOMAIN h /\ name \in DOMAIN h
  BY <1>3
<1>10. ASSUME NEW m, NEW r
       PROVE  (\E p \in PlacesOf(rule, m) : r = <<rule[p]>>) \/ (m = name /\ r = WithoutTerminals(rule))
                <=> Item(m, r) \in new
  BY DEF TermItems, PlacesOf, Item
<1>11. \A m \in DOMAIN h, r \in Rule : r \in Elements(more[m]) <=> Item(m, r) \in new
  <2> TAKE m \in DOMAIN h, r \in Rule
  <2>1. r \in Elements(more[m]) <=>
          r \in Elements(TokenRules(rule, m)) \/ r \in Elements(own(m))
    BY <1>7
  <2>2. r \in Elements(TokenRules(rule, m)) <=> \E p \in PlacesOf(rule, m) : r = <<rule[p]>>
    BY TokenRulesElements
  <2>3. r \in Elements(own(m)) <=> m = name /\ r = WithoutTerminals(rule)
    <3>1. Elements(own(m)) = IF m = name THEN {WithoutTerminals(rule)} ELSE {}
      BY <1>6
    <3> HIDE DEF own
    <3> QED
      BY <3>1
  <2> QED
    BY <1>10, <2>1, <2>2, <2>3
<1>12. \A m \in DOMAIN h : m \in DOMAIN g \/ more[m] # <<>>
  <2> SUFFICES ASSUME NEW m \in DOMAIN h, m \notin DOMAIN g PROVE Elements(more[m]) # {}
    BY DEF Elements
  <2>1. CASE m = name
    BY <1>6, <1>7, <2>1
  <2>2. CASE m \in DottedNames(rule)
    <3>1. PICK p \in DOMAIN rule : p \in PlacesOf(rule, m)
      BY <2>2 DEF DottedNames, PlacesOf
    <3>2. <<rule[p]>> \in Elements(TokenRules(rule, m))
      BY <3>1, TokenRulesElements
    <3> QED
      BY <1>7, <3>2
  <2> QED
    BY <1>3, <2>1, <2>2
<1>13. \A x \in new : x.name \in DOMAIN h /\ x.rule \in Rule /\ x = Item(x.name, x.rule)
  <2> TAKE x \in new
  <2>1. CASE x = Item(name, WithoutTerminals(rule))
    BY <1>2, <1>3, <2>1 DEF Item
  <2>2. CASE x # Item(name, WithoutTerminals(rule))
    <3>1. PICK p \in DOMAIN rule : /\ rule[p].type = "TERMINAL"
                                   /\ x = Item(DottedName(rule[p]), <<rule[p]>>)
      BY <2>2 DEF TermItems
    <3>2. DottedName(rule[p]) \in DOMAIN h
      BY <1>3, <3>1 DEF DottedNames
    <3>3. rule[p] \in Operand
      BY <1>1
    <3>4. <<rule[p]>> \in Rule
      BY <3>3 DEF Rule
    <3> QED
      BY <3>1, <3>2, <3>4 DEF Item
  <2> QED
    BY <2>1, <2>2
<1> HIDE DEF h, more, own, new
<1>14. Adds(g, h, new)
  BY <1>5, <1>7, <1>8, <1>11, <1>12, <1>13, ExtendMap
<1> QED
  BY <1>14 DEF h, new

-----------------------------------------------------------------------------
(* What a rule expands to.                                                  *)

LEMMA SourceRuleType ==
  ASSUME NEW rule \in Seq(SourceOperand)
  PROVE  /\ rule \in Rule
         /\ \A p \in DOMAIN rule : /\ Simple(rule[p].value)
                                   /\ rule[p].type # "TERMINAL" => rule[p].value[1] \in Atom
                                   /\ rule[p].type = "NONTERMINAL" => rule[p].value \in SourceName
                                   /\ ExpandOperand(rule[p]) = <<rule[p]>>
<1>1. rule \in Rule
  BY SourceOperandType DEF Rule
<1>2. \A p \in DOMAIN rule : rule[p] \in SourceOperand
  OBVIOUS
<1>3. ASSUME NEW x \in SourceOperand
      PROVE  /\ Simple(x.value)
             /\ x.type # "TERMINAL" => x.value[1] \in Atom
             /\ x.type = "NONTERMINAL" => x.value \in SourceName
             /\ ExpandOperand(x) = <<x>>
  <2>1. CASE x \in TerminalOperands
    BY <2>1 DEF TerminalOperands, Simple, ExpandOperand
  <2>2. CASE x = EmptyOperand
    BY <2>2, SpellEmpty DEF EmptyOperand, Simple, ExpandOperand
  <2>3. CASE \E A \in NonTerminal : x = NameOperand(<<A>>)
    <3>1. PICK A \in NonTerminal : x = NameOperand(<<A>>)
      BY <2>3
    <3>2. x.value = <<A>> /\ x.type = "NONTERMINAL"
      BY <3>1 DEF NameOperand
    <3>3. SpellName(<<A>>) = <<Spell(A)>>
      BY DEF SpellName
    <3>4. ExpandOperand(x) = <<x>>
      BY <3>1, <3>2, <3>3, SpellNonTerminal DEF ExpandOperand
    <3> QED
      BY <3>2, <3>4, SpellNonTerminal DEF Simple, SourceName
  <2> QED
    BY <2>1, <2>2, <2>3 DEF SourceOperand, NameOperand
<1> QED
  BY <1>1, <1>2, <1>3

\* The author's rules stand for themselves.
LEMMA ExpandSourceRule ==
  ASSUME NEW rule \in Seq(SourceOperand)
  PROVE  Expand(rule) = rule
<1>1. Expand(rule) = [p \in DOMAIN rule |-> ExpandOperand(rule[p])[1]]
  BY SourceRuleType, ExpandSimpleRule
<1>2. \A p \in DOMAIN rule : ExpandOperand(rule[p])[1] = rule[p]
  BY SourceRuleType
<1>3. rule = [p \in DOMAIN rule |-> rule[p]]
  OBVIOUS
<1> QED
  BY <1>1, <1>2, <1>3

\* Replacing a token by the name of its rule changes nothing.
LEMMA ExpandWithoutTerminals ==
  ASSUME NEW rule \in Seq(SourceOperand)
  PROVE  /\ Expand(WithoutTerminals(rule)) = rule
         /\ MadeRule(WithoutTerminals(rule))
<1> DEFINE made == WithoutTerminals(rule)
<1>1. made \in Rule /\ DOMAIN made = DOMAIN rule /\ rule \in Rule
  BY SourceRuleType, WithoutTerminalsType
<1>2. ASSUME NEW p \in DOMAIN rule
      PROVE  /\ Simple(made[p].value) /\ made[p].type # "TERMINAL"
             /\ ExpandOperand(made[p])[1] = rule[p]
  <2>1. CASE rule[p].type = "TERMINAL"
    <3>1. rule[p] \in Operand
      BY <1>1 DEF Rule
    <3>2. PICK t \in Terminal : rule[p] = TerminalOperand(t) /\ DottedName(rule[p]) = <<Dotted[t]>>
      BY <2>1, <3>1, DottedNameType
    <3>3. made[p] = NameOperand(<<Dotted[t]>>)
      BY <1>1, <2>1, <3>2 DEF WithoutTerminals
    <3> QED
      BY <3>2, <3>3, SpellTokenName DEF NameOperand, ExpandOperand, Simple
  <2>2. CASE rule[p].type # "TERMINAL"
    <3>1. made[p] = rule[p]
      BY <1>1, <2>2 DEF WithoutTerminals
    <3> QED
      BY <2>2, <3>1, SourceRuleType
  <2> QED
    BY <2>1, <2>2
<1>3. Expand(made) = [p \in DOMAIN rule |-> ExpandOperand(made[p])[1]]
  BY <1>1, <1>2, ExpandSimpleRule
<1>4. rule = [p \in DOMAIN rule |-> rule[p]]
  OBVIOUS
<1> QED
  BY <1>1, <1>2, <1>3, <1>4 DEF MadeRule

LEMMA FunctionIsSeq ==
  ASSUME NEW T, NEW n \in Nat, NEW s \in [1..n -> T]
  PROVE  s \in Seq(T) /\ Len(s) = n
OBVIOUS

LEMMA SeqIsFunction ==
  ASSUME NEW T, NEW s \in Seq(T)
  PROVE  s = [p \in 1..Len(s) |-> s[p]]
OBVIOUS

LEMMA RuleShape ==
  ASSUME NEW rule \in Rule
  PROVE  /\ rule \in Seq(Operand) /\ Len(rule) \in Nat /\ DOMAIN rule = 1..Len(rule)
         /\ \A p \in DOMAIN rule : rule[p] \in Operand
BY DEF Rule

\* Cutting the first operand off a long rule: the name joined from the tail
\* spells exactly what the tail expands to.
LEMMA CutTail ==
  ASSUME NEW rule, MadeRule(rule), Len(rule) > 2
  PROVE  /\ MadeRule(Tail(rule)) /\ Len(Tail(rule)) = Len(rule) - 1
         /\ \A p \in DOMAIN rule : p > 1 => rule[p] = Tail(rule)[p - 1]
         /\ Join(Tail(rule)) \in Name /\ Len(Join(Tail(rule))) = Len(rule) - 1
         /\ Expand(Tail(rule)) = SpellName(Join(Tail(rule)))
         /\ Expand(Tail(rule)) = [p \in DOMAIN Tail(rule) |-> ExpandOperand(Tail(rule)[p])[1]]
<1> DEFINE rest == Tail(rule)
           n    == Len(rule) - 1
<1>1. rule \in Seq(Operand) /\ DOMAIN rule = 1..Len(rule) /\ Len(rule) \in Nat
  BY RuleShape DEF MadeRule
<1>2. rest \in Seq(Operand) /\ Len(rest) = n /\ DOMAIN rest = 1..n
  BY <1>1
<1>3. \A p \in 1..n : rest[p] = rule[p + 1]
  BY <1>1, <1>2
<1>4. \A p \in DOMAIN rule : Simple(rule[p].value) /\ rule[p].type # "TERMINAL"
  BY <1>1 DEF MadeRule
<1>5. \A p \in 1..n : rest[p] \in Operand /\ Simple(rest[p].value) /\ rest[p].type # "TERMINAL"
  <2> SUFFICES ASSUME NEW p \in 1..n PROVE p + 1 \in DOMAIN rule /\ rest[p] \in Operand
    BY <1>3, <1>4
  <2> QED
    BY <1>1, <1>2
<1>6. MadeRule(rest)
  BY <1>2, <1>5 DEF MadeRule, Rule
<1>7. \A p \in DOMAIN rule : p > 1 => rule[p] = rest[p - 1]
  <2> SUFFICES ASSUME NEW p \in DOMAIN rule, p > 1 PROVE rule[p] = rest[p - 1]
    OBVIOUS
  <2>1. p - 1 \in 1..n /\ (p - 1) + 1 = p
    BY <1>1
  <2> QED
    BY <1>3, <2>1
<1>8. \A p \in 1..n : /\ rest[p].value[1] \in Atom
                      /\ ExpandOperand(rest[p])[1] = Spell(rest[p].value[1])
  BY <1>5, ExpandSimple
<1>9. Join(rest) = [p \in 1..n |-> rest[p].value[1]]
  BY <1>2 DEF Join
<1>10. n \in Nat /\ n > 1
  BY <1>1
<1>11. Join(rest) \in Seq(Atom) /\ Len(Join(rest)) = n /\ DOMAIN Join(rest) = 1..n
  <2> HIDE DEF n, rest
  <2>1. Join(rest) \in [1..n -> Atom]
    BY <1>8, <1>9
  <2> QED
    BY <1>9, <1>10, <2>1
<1>12. Join(rest) \in Name
  BY <1>10, <1>11 DEF Name
<1>13. Expand(rest) = [p \in 1..n |-> ExpandOperand(rest[p])[1]]
  BY <1>2, <1>5, ExpandSimpleRule DEF Rule
<1>14. SpellName(Join(rest)) = [p \in 1..n |-> Spell(rest[p].value[1])]
  BY <1>9, <1>11 DEF SpellName
<1>15. Expand(rest) = SpellName(Join(rest))
  BY <1>8, <1>13, <1>14
<1> QED
  BY <1>2, <1>6, <1>7, <1>11, <1>12, <1>13, <1>15

LEMMA PairType ==
  ASSUME NEW x \in Operand, NEW y \in Operand
  PROVE  /\ <<x, y>> \in Rule /\ Len(<<x, y>>) = 2 /\ DOMAIN <<x, y>> = {1, 2}
         /\ Expand(<<x, y>>) = ExpandOperand(x) \o ExpandOperand(y)
BY DEF Rule, Expand

LEMMA CutHead ==
  ASSUME NEW rule, MadeRule(rule), Len(rule) > 2
  PROVE  LET head == <<rule[1], NameOperand(Join(Tail(rule)))>>
         IN  MadeRule(head) /\ Len(head) = 2 /\ Expand(head) = Expand(rule)
<1> DEFINE rest == Tail(rule)
           tail == NameOperand(Join(rest))
           n    == Len(rule) - 1
           head == <<rule[1], tail>>
<1>1. /\ rule \in Seq(Operand) /\ Len(rule) \in Nat /\ DOMAIN rule = 1..Len(rule)
      /\ rule[1] \in Operand
  <2>1. rule \in Rule
    BY DEF MadeRule
  <2>2. 1 \in DOMAIN rule
    BY <2>1, RuleShape
  <2> QED
    BY <2>1, <2>2, RuleShape
<1>2. \A p \in DOMAIN rule : Simple(rule[p].value) /\ rule[p].type # "TERMINAL"
  BY <1>1 DEF MadeRule
<1>3. 1 \in DOMAIN rule /\ Simple(rule[1].value) /\ rule[1].type # "TERMINAL"
  BY <1>1, <1>2
<1>4. tail \in Operand /\ tail.type = "NONTERMINAL" /\ tail.value = Join(rest)
  BY CutTail, NameOperandType
<1>5. head \in Rule /\ Len(head) = 2 /\ DOMAIN head = {1, 2} /\ head[1] = rule[1] /\ head[2] = tail
  BY <1>1, <1>4, PairType
<1>6. MadeRule(head)
  BY <1>3, <1>4, <1>5 DEF MadeRule
<1>7. Expand(head) = ExpandOperand(rule[1]) \o SpellName(Join(rest))
  BY <1>1, <1>4, PairType DEF ExpandOperand
<1> DEFINE e(p) == ExpandOperand(rule[p])[1]
<1>8. ExpandOperand(rule[1]) = <<e(1)>>
  BY <1>1, <1>3, ExpandSimple
<1>9. n \in Nat /\ Len(rest) = n /\ DOMAIN rest = 1..n /\ \A p \in 1..n : rest[p] = rule[p + 1]
  BY <1>1
<1>10. SpellName(Join(rest)) = [p \in 1..n |-> e(p + 1)]
  BY <1>9, CutTail
<1>11. Expand(rule) = [p \in 1..(n + 1) |-> e(p)]
  <2>1. Expand(rule) = [p \in DOMAIN rule |-> e(p)]
    BY <1>1, <1>2, ExpandSimpleRule DEF Rule
  <2> QED
    BY <1>1, <2>1
<1>12. <<e(1)>> \o [p \in 1..n |-> e(p + 1)] = [p \in 1..(n + 1) |-> e(p)]
  <2> HIDE DEF e, n
  <2>1. n \in Nat
    BY <1>9
  <2> DEFINE s == [p \in 1..n |-> e(p + 1)]
             T == {e(p) : p \in 1..(n + 1)}
  <2>2. s \in Seq(T) /\ Len(s) = n /\ <<e(1)>> \in Seq(T)
    <3>1. \A p \in 1..n : p + 1 \in 1..(n + 1)
      BY <2>1
    <3>2. s \in [1..n -> T] /\ e(1) \in T
      BY <2>1, <3>1
    <3> HIDE DEF s, T
    <3> QED
      BY <2>1, <3>2, FunctionIsSeq
  <2>3. \A p \in 1..n : s[p] = e(p + 1)
    OBVIOUS
  <2> HIDE DEF s
  <2>4. /\ Len(<<e(1)>> \o s) = n + 1
        /\ \A p \in 1..(n + 1) : (<<e(1)>> \o s)[p] = IF p = 1 THEN e(1) ELSE s[p - 1]
    BY <2>1, <2>2
  <2>5. \A p \in 1..(n + 1) : p # 1 => s[p - 1] = e(p)
    <3> SUFFICES ASSUME NEW p \in 1..(n + 1), p # 1 PROVE s[p - 1] = e(p)
      OBVIOUS
    <3>1. p - 1 \in 1..n /\ (p - 1) + 1 = p
      BY <2>1
    <3>2. s[p - 1] = e((p - 1) + 1)
      BY <2>3, <3>1
    <3> QED
      BY <3>1, <3>2
  <2>6. \A p \in 1..(n + 1) : (<<e(1)>> \o s)[p] = e(p)
    BY <2>4, <2>5
  <2>7. <<e(1)>> \o s \in Seq(T) /\ DOMAIN (<<e(1)>> \o s) = 1..(n + 1)
    BY <2>1, <2>2, <2>4
  <2>8. <<e(1)>> \o s = [p \in 1..(n + 1) |-> (<<e(1)>> \o s)[p]]
    <3> HIDE DEF T
    <3> QED
      BY <2>4, <2>7, SeqIsFunction
  <2> QED
    BY <2>6, <2>8 DEF s
<1> QED
  BY <1>5, <1>6, <1>7, <1>8, <1>10, <1>11, <1>12

\* The rules that BIN makes of one alternative.
BinItems(name, rule) ==
  IF Len(rule) <= 2
  THEN {Item(name, rule)}
  ELSE {Item(name, <<rule[1], NameOperand(Join(Tail(rule)))>>),
        Item(Join(Tail(rule)), Tail(rule))}

LEMMA BinAdds ==
  ASSUME NEW g, IsProductionRules(g), NEW name \in Name, NEW rule, MadeRule(rule)
  PROVE  Adds(g, BinarizeRule(g, name, rule), BinItems(name, rule))
<1>0. rule \in Rule /\ Len(rule) \in Nat
  BY RuleShape DEF MadeRule
<1>1. CASE Len(rule) <= 2
  BY <1>0, <1>1, PushRuleAdds DEF BinarizeRule, BinItems
<1>2. CASE Len(rule) > 2
  <2> DEFINE suffix == Join(Tail(rule))
             head   == <<rule[1], NameOperand(suffix)>>
             f      == PushRule(g, name, head)
             h      == PushRule(f, suffix, Tail(rule))
  <2>1. head \in Rule /\ Tail(rule) \in Rule /\ suffix \in Name
    BY <1>2, CutHead, CutTail DEF MadeRule
  <2> HIDE DEF suffix, head
  <2>2. Adds(g, f, {Item(name, head)})
    BY <2>1, PushRuleAdds
  <2>3. IsProductionRules(f)
    BY <2>2 DEF Adds
  <2>4. Adds(f, h, {Item(suffix, Tail(rule))})
    BY <2>1, <2>3, PushRuleAdds
  <2>5. Adds(g, h, {Item(name, head)} \cup {Item(suffix, Tail(rule))})
    BY <2>2, <2>4, AddsTwice
  <2>6. BinItems(name, rule) = {Item(name, head)} \cup {Item(suffix, Tail(rule))}
    BY <1>0, <1>2 DEF BinItems, head, suffix
  <2>7. BinarizeRule(g, name, rule) = h
    BY <1>0, <1>2 DEF BinarizeRule, head, suffix
  <2> QED
    BY <2>5, <2>6, <2>7
<1> QED
  BY <1>0, <1>1, <1>2

-----------------------------------------------------------------------------
(* A step of a pass.                                                        *)

\* No made name has the empty alternative: it spells something else.
LEMMA MadeNameNotEmpty ==
  ASSUME ExpansionInv, NEW name \in DOMAIN rules, name \notin SourceName,
         NEW rule \in Alternatives(rules, name)
  PROVE  ~ IsEmptyRule(rule)
<1> SUFFICES ASSUME IsEmptyRule(rule) PROVE FALSE
  OBVIOUS
<1>1. rule \in Rule /\ name \in Name
  BY DEF ExpansionInv, TypeOK, IsProductionRules, Alternatives
<1>2. Len(rule) = 1 /\ rule[1] = EmptyOperand /\ DOMAIN rule = {1}
  <2>1. Len(rule) = 1 /\ rule[1].type = "EMPTY"
    BY DEF IsEmptyRule
  <2>2. DOMAIN rule = {1} /\ rule[1] \in Operand
    BY <1>1, <2>1, RuleShape
  <2> QED
    BY <2>1, <2>2, OperandKinds
<1>3. Expand(rule) = [p \in {1} |-> EmptyOperand]
  BY <1>2 DEF Expand, ExpandOperand, EmptyOperand
<1>4. Expand(rule) = SpellName(name)
  BY DEF ExpansionInv, ExpansionSound, ExpandsToSource, StandsFor
<1>5. name \in TokenName \/ Len(name) > 1
  BY DEF ExpansionInv, Shape, Keys
<1>6. name \notin TokenName
  <2> SUFFICES ASSUME NEW t \in Terminal, name = <<Dotted[t]>> PROVE FALSE
    BY DEF TokenName
  <2>1. SpellName(name) = <<TerminalOperand(t)>>
    BY SpellTokenName
  <2>2. EmptyOperand = TerminalOperand(t)
    BY <1>3, <1>4, <2>1
  <2> QED
    BY <2>2 DEF EmptyOperand, TerminalOperand
<1>7. Len(name) > 1
  BY <1>5, <1>6
<1>8. DOMAIN SpellName(name) = DOMAIN name /\ name \in Seq(Atom)
  BY <1>1 DEF SpellName, Name
<1>9. 2 \in DOMAIN name
  BY <1>7, <1>8
<1> QED
  BY <1>3, <1>4, <1>8, <1>9

\* What a rule of the old map mentions has rules in the new one, or will.
LEMMA AllCovered ==
  ASSUME ExpansionInv, stage \in Passes, NEW name \in DOMAIN rules,
         NEW rule \in Alternatives(rules, name),
         NEW p \in DOMAIN rule, rule[p].type = "NONTERMINAL"
  PROVE  Covered(rule[p].value)
<1> DEFINE mentioned == rule[p].value
<1>1. CASE mentioned \in SourceName
  BY <1>1 DEF Covered
<1>2. CASE mentioned \notin SourceName
  <2>1. mentioned \in DOMAIN rules /\ Alternatives(rules, mentioned) # {}
    BY <1>2 DEF ExpansionInv, NoDanglingName
  <2>2. PICK r \in Alternatives(rules, mentioned) : TRUE
    BY <2>1
  <2>3. ~ IsEmptyRule(r)
    BY <1>2, <2>1, MadeNameNotEmpty
  <2>4. Waiting(mentioned, r) \/ Brought(mentioned, r)
    BY <2>1, <2>3 DEF ExpansionInv, PassComplete
  <2> QED
    BY <2>1, <2>4 DEF Covered, Brought
<1> QED
  BY <1>1, <1>2

\* What a pass may put in the new map.
GoodItem(x, new) ==
  /\ x.name \in SourceName \/ x.name \in TokenName \/ Len(x.name) > 1
  /\ MadeRule(x.rule)
  /\ StandsFor(x.name, x.rule)
  /\ \A p \in DOMAIN x.rule : x.rule[p].type = "NONTERMINAL" =>
       Covered(x.rule[p].value) \/ \E y \in new : y.name = x.rule[p].value
  /\ AfterBin => Len(x.rule) <= 2

\* What it must put there.
Brings(new, rule) ==
  \/ \E x \in new : x.name = key /\ Expand(x.rule) = Expand(rule)
  \/ stage = "REMOVE" /\ IsEmptyRule(rule)

LEMMA PendingType ==
  ASSUME TypeOK, PendingFromKey, pending # <<>>
  PROVE  /\ Head(pending) \in Rule /\ Head(pending) = pending[1] /\ 1 \in DOMAIN pending
         /\ Tail(pending) \in Seq(Rule)
         /\ \A m \in DOMAIN Tail(pending) :
              m + 1 \in DOMAIN pending /\ Tail(pending)[m] = pending[m + 1]
         /\ \A m \in DOMAIN pending : m # 1 =>
              m - 1 \in DOMAIN Tail(pending) /\ Tail(pending)[m - 1] = pending[m]
         /\ key \in DOMAIN rules /\ key \in Name
         /\ Head(pending) \in Alternatives(rules, key)
<1>1. pending \in Seq(Rule)
  BY DEF TypeOK
<1>2. Head(pending) \in Rule /\ Head(pending) = pending[1] /\ 1 \in DOMAIN pending
  BY <1>1
<1>3. key \in DOMAIN rules /\ Head(pending) \in Alternatives(rules, key)
  BY <1>2 DEF PendingFromKey
<1>4. Tail(pending) \in Seq(Rule)
  BY <1>1
<1>5. /\ \A m \in DOMAIN Tail(pending) :
           m + 1 \in DOMAIN pending /\ Tail(pending)[m] = pending[m + 1]
      /\ \A m \in DOMAIN pending : m # 1 =>
           m - 1 \in DOMAIN Tail(pending) /\ Tail(pending)[m - 1] = pending[m]
  BY <1>1
<1>6. key \in Name
  BY <1>3 DEF TypeOK, IsProductionRules
<1> QED
  BY <1>2, <1>3, <1>4, <1>5, <1>6

LEMMA RuleStep ==
  ASSUME ExpansionInv, stage \in Passes, pending # <<>>, pending' = Tail(pending),
         UNCHANGED <<raw, rules, stage, keys, key, nullables, todo, occ, unit>>,
         changed' \in BOOLEAN,
         NEW new, Adds(nf, nf', new), \A x \in new : GoodItem(x, new),
         Brings(new, Head(pending)),
         stage = "BIN" /\ ~ changed' => ~ changed /\ \A x \in new : Len(x.rule) <= 2
  PROVE  ExpansionInv'
<1>1. TypeOK'
  BY PendingType DEF ExpansionInv, TypeOK, Adds
<1>2. BetweenPasses'
  BY DEF BetweenPasses
<1>3. ASSUME NEW name \in DOMAIN nf', NEW rule \in Alternatives(nf', name)
      PROVE  \/ name \in DOMAIN nf /\ rule \in Alternatives(nf, name)
             \/ \E x \in new : x.name = name /\ x.rule = rule
  BY DEF Adds, Item
<1>4. Shape'
  <2>1. MadeRules(nf')
    BY <1>3 DEF ExpansionInv, Shape, MadeRules, GoodItem
  <2>2. Keys(nf')
    BY DEF ExpansionInv, Shape, Keys, GoodItem, Adds
  <2> QED
    BY <2>1, <2>2 DEF ExpansionInv, Shape
<1>5. PendingFromKey'
  BY PendingType DEF ExpansionInv, PendingFromKey, Adds
<1>6. ExpansionSound'
  <2>1. ExpandsToSource(nf')
    BY <1>3 DEF ExpansionInv, ExpansionSound, ExpandsToSource, GoodItem
  <2>2. ExpandsToSource(nf') => (ExpandsToSource(nf))'
    BY DEF ExpandsToSource, StandsFor
  <2>3. (ExpandsToSource(rules))'
    BY DEF ExpansionInv, ExpansionSound, ExpandsToSource, StandsFor
  <2> QED
    BY <2>1, <2>2, <2>3 DEF ExpansionSound
<1>7. ExpansionComplete'
  BY DEF ExpansionInv, ExpansionComplete
<1>8. ASSUME NEW name, NEW rule, Brought(name, rule)
      PROVE  Brought(name, rule)'
  BY <1>8 DEF Brought, Adds
<1>9. ASSUME NEW name, NEW rule, Waiting(name, rule), ~ Waiting(name, rule)'
      PROVE  name = key /\ rule = Head(pending)
  BY <1>9, PendingType DEF Waiting, ExpansionInv
<1>10. ASSUME NEW name, NEW rule, name = key, rule = Head(pending)
       PROVE  Brought(name, rule)' \/ (stage = "REMOVE" /\ IsEmptyRule(rule))
  BY <1>10 DEF Brings, Brought, Adds
<1>11. PassComplete'
  <2> SUFFICES ASSUME NEW name \in DOMAIN rules, NEW rule \in Alternatives(rules, name)
               PROVE  \/ Waiting(name, rule)'
                      \/ Brought(name, rule)'
                      \/ stage = "REMOVE" /\ IsEmptyRule(rule)
    BY DEF PassComplete
  <2>1. Waiting(name, rule) \/ Brought(name, rule) \/ (stage = "REMOVE" /\ IsEmptyRule(rule))
    BY DEF ExpansionInv, PassComplete
  <2> QED
    BY <1>8, <1>9, <1>10, <2>1
<1>12. NoDanglingName'
  BY DEF ExpansionInv, NoDanglingName
<1>13. ASSUME NEW name, Covered(name) PROVE Covered(name)'
  <2>1. CASE name \in SourceName
    BY <2>1 DEF Covered
  <2>2. CASE name \in DOMAIN nf /\ Alternatives(nf, name) # {}
    BY <2>2 DEF Covered, Adds
  <2>3. CASE /\ name \notin SourceName /\ name \in DOMAIN rules
             /\ \E rule \in Alternatives(rules, name) : Waiting(name, rule)
    <3>1. PICK rule \in Alternatives(rules, name) : Waiting(name, rule)
      BY <2>3
    <3>2. CASE Waiting(name, rule)'
      BY <2>3, <3>1, <3>2 DEF Covered
    <3>3. CASE ~ Waiting(name, rule)'
      <4>1. name = key /\ rule = Head(pending)
        BY <1>9, <3>1, <3>3
      <4>2. ~ IsEmptyRule(rule)
        BY <2>3, MadeNameNotEmpty
      <4>3. Brought(name, rule)'
        BY <1>10, <4>1, <4>2
      <4> QED
        BY <4>3 DEF Brought, Covered
    <3> QED
      BY <3>2, <3>3
  <2> QED
    BY <1>13, <2>1, <2>2, <2>3 DEF Covered
<1>14. NoDanglingInPass'
  <2> SUFFICES ASSUME NEW name \in DOMAIN nf', NEW rule \in Alternatives(nf', name),
                      NEW p \in DOMAIN rule, rule[p].type = "NONTERMINAL"
               PROVE  Covered(rule[p].value)'
    BY DEF NoDanglingInPass
  <2>1. CASE name \in DOMAIN nf /\ rule \in Alternatives(nf, name)
    BY <1>13, <2>1 DEF ExpansionInv, NoDanglingInPass
  <2>2. CASE \E x \in new : x.name = name /\ x.rule = rule
    <3>1. Covered(rule[p].value) \/ \E y \in new : y.name = rule[p].value
      BY <2>2 DEF GoodItem
    <3>2. ASSUME NEW y \in new PROVE Covered(y.name)'
      BY DEF Covered, Adds
    <3> QED
      BY <1>13, <3>1, <3>2
  <2> QED
    BY <1>3, <2>1, <2>2
<1>15. BinaryInPass'
  <2>1. AfterBin => Short(nf')
    BY <1>3 DEF ExpansionInv, BinaryInPass, Short, GoodItem
  <2>2. stage = "BIN" /\ ~ changed' => Short(nf')
    BY <1>3 DEF ExpansionInv, BinaryInPass, Short
  <2> QED
    BY <2>1, <2>2 DEF ExpansionInv, BinaryInPass, Short, AfterBin, Done
<1> QED
  BY <1>1, <1>2, <1>4, <1>5, <1>6, <1>7, <1>11, <1>12, <1>14, <1>15 DEF ExpansionInv

\* The alternative a pass visits next, as the earlier passes left it.
LEMMA NextIsMade ==
  ASSUME ExpansionInv, stage \in Passes \ {"TERM"}, pending # <<>>
  PROVE  /\ MadeRule(Head(pending))
         /\ StandsFor(key, Head(pending))
         /\ key \in SourceName \/ key \in TokenName \/ Len(key) > 1
         /\ \A p \in DOMAIN Head(pending) : Head(pending)[p].type = "NONTERMINAL" =>
              Covered(Head(pending)[p].value)
         /\ AfterBin => Len(Head(pending)) <= 2
         /\ key \in DOMAIN nf
<1>1. key \in DOMAIN rules /\ Head(pending) \in Alternatives(rules, key)
      /\ 1 \in DOMAIN pending /\ Head(pending) = pending[1]
  BY PendingType DEF ExpansionInv
<1>2. MadeRule(Head(pending)) /\ (key \in SourceName \/ key \in TokenName \/ Len(key) > 1)
  BY <1>1 DEF ExpansionInv, Shape, MadeRules, Keys
<1>3. StandsFor(key, Head(pending))
  BY <1>1 DEF ExpansionInv, ExpansionSound, ExpandsToSource
<1>4. \A p \in DOMAIN Head(pending) : Head(pending)[p].type = "NONTERMINAL" =>
        Covered(Head(pending)[p].value)
  BY <1>1, AllCovered
<1>5. AfterBin => Len(Head(pending)) <= 2
  BY <1>1 DEF ExpansionInv, BinaryInPass, Short
<1>6. key \in DOMAIN nf
  BY <1>1 DEF ExpansionInv, PendingFromKey
<1> QED
  BY <1>2, <1>3, <1>4, <1>5, <1>6

\* A copy of the visited alternative may be put in the new map.
LEMMA CopyIsGood ==
  ASSUME ExpansionInv, stage \in Passes \ {"TERM"}, pending # <<>>
  PROVE  /\ GoodItem(Item(key, Head(pending)), {Item(key, Head(pending))})
         /\ Brings({Item(key, Head(pending))}, Head(pending))
BY NextIsMade DEF GoodItem, Brings, Item

LEMMA UniqueStep ==
  ASSUME ExpansionInv, UniqueRule
  PROVE  ExpansionInv'
<1> DEFINE rule == Head(pending)
           new  == {Item(key, rule)}
<1>1. /\ stage = "DOUBLES" /\ stage \in Passes \ {"TERM"} /\ pending # <<>>
      /\ pending' = Tail(pending) /\ nf' = KeepUnique(nf, key, rule) /\ changed' = changed
      /\ UNCHANGED <<raw, rules, stage, keys, key, nullables, todo, occ, unit>>
  BY DEF UniqueRule, NextRule, Passes
<1>2. rule \in Rule /\ key \in Name /\ key \in DOMAIN nf
  BY <1>1, NextIsMade, PendingType DEF ExpansionInv
<1>3. IsProductionRules(nf) /\ changed \in BOOLEAN
  BY DEF ExpansionInv, TypeOK
<1>4. Adds(nf, nf', new)
  <2>1. CASE rule \in Alternatives(nf, key)
    BY <1>1, <1>2, <1>3, <2>1, AddsPresent DEF KeepUnique
  <2>2. CASE rule \notin Alternatives(nf, key)
    BY <1>1, <1>2, <1>3, <2>2, PushRuleAdds DEF KeepUnique
  <2> QED
    BY <2>1, <2>2
<1>5. (\A x \in new : GoodItem(x, new)) /\ Brings(new, rule)
  BY <1>1, CopyIsGood
<1> HIDE DEF new
<1> QED
  BY <1>1, <1>3, <1>4, <1>5, RuleStep

LEMMA NonEmptyStep ==
  ASSUME ExpansionInv, NonEmptyRule
  PROVE  ExpansionInv'
<1> DEFINE rule == Head(pending)
           new  == IF IsEmptyRule(rule) THEN {} ELSE {Item(key, rule)}
<1>1. /\ stage = "REMOVE" /\ stage \in Passes \ {"TERM"} /\ pending # <<>>
      /\ pending' = Tail(pending) /\ nf' = KeepNonEmpty(nf, key, rule) /\ changed' = changed
      /\ UNCHANGED <<raw, rules, stage, keys, key, nullables, todo, occ, unit>>
  BY DEF NonEmptyRule, NextRule, Passes
<1>2. rule \in Rule /\ key \in Name
  BY <1>1, PendingType DEF ExpansionInv
<1>3. IsProductionRules(nf) /\ changed \in BOOLEAN
  BY DEF ExpansionInv, TypeOK
<1>4. Adds(nf, nf', new)
  BY <1>1, <1>2, <1>3, AddsNothing, PushRuleAdds DEF KeepNonEmpty
<1>5. \A x \in new : GoodItem(x, new)
  BY <1>1, CopyIsGood
<1>6. Brings(new, rule)
  BY <1>1, CopyIsGood DEF Brings
<1> HIDE DEF new
<1> QED
  BY <1>1, <1>3, <1>4, <1>5, <1>6, RuleStep

LEMMA BinStep ==
  ASSUME ExpansionInv, BinRule
  PROVE  ExpansionInv'
<1> DEFINE rule == Head(pending)
           new  == BinItems(key, rule)
<1>1. /\ stage = "BIN" /\ stage \in Passes \ {"TERM"} /\ pending # <<>>
      /\ pending' = Tail(pending) /\ nf' = BinarizeRule(nf, key, rule)
      /\ changed' = (changed \/ Len(rule) > 2)
      /\ UNCHANGED <<raw, rules, stage, keys, key, nullables, todo, occ, unit>>
  BY DEF BinRule, NextRule, Passes
<1>2. rule \in Rule /\ key \in Name /\ MadeRule(rule) /\ Len(rule) \in Nat
  BY <1>1, NextIsMade, PendingType, RuleShape DEF ExpansionInv
<1>3. IsProductionRules(nf) /\ changed \in BOOLEAN
  BY DEF ExpansionInv, TypeOK
<1>4. Adds(nf, nf', new)
  BY <1>1, <1>2, <1>3, BinAdds
<1>5. CASE Len(rule) <= 2
  <2>1. new = {Item(key, rule)} /\ Item(key, rule).rule = rule
    BY <1>5 DEF BinItems, Item
  <2>2. (\A x \in new : GoodItem(x, new)) /\ Brings(new, rule)
    BY <1>1, <2>1, CopyIsGood
  <2>3. ~ changed' => ~ changed /\ \A x \in new : Len(x.rule) <= 2
    BY <1>1, <1>3, <1>5, <2>1
  <2> HIDE DEF new
  <2> QED
    BY <1>1, <1>3, <1>4, <2>2, <2>3, RuleStep
<1>6. CASE Len(rule) > 2
  <2> DEFINE suffix == Join(Tail(rule))
             head   == <<rule[1], NameOperand(suffix)>>
  <2>1. /\ MadeRule(head) /\ Len(head) = 2 /\ Expand(head) = Expand(rule)
        /\ MadeRule(Tail(rule)) /\ Expand(Tail(rule)) = SpellName(suffix)
        /\ suffix \in Name /\ Len(suffix) = Len(rule) - 1
    BY <1>2, <1>6, CutHead, CutTail
  <2>2. new = {Item(key, head), Item(suffix, Tail(rule))}
    BY <1>2, <1>6 DEF BinItems
  <2>3. ~ AfterBin
    BY <1>1 DEF AfterBin, Done
  <2>4. suffix \notin SourceName /\ Len(suffix) > 1
    <3> HIDE DEF suffix
    <3>1. Len(suffix) > 1
      BY <1>2, <1>6, <2>1
    <3>2. \A A : Len(<<A>>) = 1
      OBVIOUS
    <3> QED
      BY <3>1, <3>2 DEF SourceName
  <2>5. StandsFor(key, head) /\ StandsFor(suffix, Tail(rule))
    BY <1>1, <2>1, <2>4, NextIsMade DEF StandsFor
  <2>6. \A p \in DOMAIN rule : rule[p].type = "NONTERMINAL" => Covered(rule[p].value)
    BY <1>1, NextIsMade
  <2>7. \A p \in DOMAIN head : head[p].type = "NONTERMINAL" =>
          Covered(head[p].value) \/ head[p].value = suffix
    <3>1. 1 \in DOMAIN rule
      BY <1>2, <1>6, RuleShape
    <3>2. DOMAIN head = {1, 2} /\ head[1] = rule[1] /\ head[2] = NameOperand(suffix)
      OBVIOUS
    <3>3. NameOperand(suffix).value = suffix
      BY DEF NameOperand
    <3> HIDE DEF head, suffix
    <3> QED
      BY <2>6, <3>1, <3>2, <3>3
  <2>8. \A p \in DOMAIN Tail(rule) : Tail(rule)[p].type = "NONTERMINAL" =>
          Covered(Tail(rule)[p].value)
    <3>1. \A p \in DOMAIN Tail(rule) : p + 1 \in DOMAIN rule /\ Tail(rule)[p] = rule[p + 1]
      <4>1. rule \in Seq(Operand) /\ rule # <<>>
        BY <1>2, <1>6, RuleShape
      <4> QED
        BY <4>1
    <3> QED
      BY <2>6, <3>1
  <2>9. GoodItem(Item(key, head), new)
    <3>1. key \in SourceName \/ key \in TokenName \/ Len(key) > 1
      BY <1>1, NextIsMade
    <3>2. \E y \in new : y.name = suffix
      <4>1. Item(suffix, Tail(rule)) \in new
        BY <2>2
      <4> HIDE DEF new, suffix
      <4>2. Item(suffix, Tail(rule)).name = suffix
        BY DEF Item
      <4> QED
        BY <4>1, <4>2
    <3> HIDE DEF new, head, suffix
    <3> QED
      BY <2>1, <2>3, <2>5, <2>7, <3>1, <3>2 DEF GoodItem, Item
  <2>10. GoodItem(Item(suffix, Tail(rule)), new)
    <3> HIDE DEF new, head, suffix
    <3> QED
      BY <2>1, <2>3, <2>4, <2>5, <2>8 DEF GoodItem, Item
  <2>11. Brings(new, rule)
    <3>1. Item(key, head) \in new
      BY <2>2
    <3> HIDE DEF new, head, suffix
    <3>2. Item(key, head).name = key /\ Item(key, head).rule = head
      BY DEF Item
    <3> QED
      BY <2>1, <3>1, <3>2 DEF Brings
  <2>12. changed'
    BY <1>1, <1>6
  <2>13. \A x \in new : GoodItem(x, new)
    BY <2>2, <2>9, <2>10
  <2> HIDE DEF new
  <2> QED
    BY <1>1, <1>3, <1>4, <2>11, <2>12, <2>13, RuleStep
<1> QED
  BY <1>2, <1>5, <1>6

LEMMA TermStep ==
  ASSUME ExpansionInv, TermRule
  PROVE  ExpansionInv'
<1> DEFINE rule == Head(pending)
           made == WithoutTerminals(rule)
           new  == TermItems(key, rule)
<1>1. /\ stage = "TERM" /\ stage \in Passes /\ pending # <<>>
      /\ pending' = Tail(pending) /\ nf' = CheckRuleForTerminals(nf, key, rule)
      /\ changed' = changed
      /\ UNCHANGED <<raw, rules, stage, keys, key, nullables, todo, occ, unit>>
  BY DEF TermRule, NextRule, Passes
<1>2. rule \in Rule /\ key \in Name /\ key \in DOMAIN raw /\ rule \in Alternatives(raw, key)
  BY <1>1, PendingType DEF ExpansionInv, Shape
<1>3. IsProductionRules(nf) /\ changed \in BOOLEAN
  BY DEF ExpansionInv, TypeOK
<1>4. Adds(nf, nf', new)
  BY <1>1, <1>2, <1>3, TermAdds
<1>5. rule \in Seq(SourceOperand) /\ key \in SourceName
  <2>1. IsSource(raw)
    BY DEF ExpansionInv, TypeOK
  <2> QED
    BY <1>2, <2>1 DEF IsSource, Alternatives, SourceName
<1>6. Expand(made) = rule /\ Expand(rule) = rule /\ MadeRule(made)
  BY <1>5, ExpandWithoutTerminals, ExpandSourceRule
<1>7. ~ AfterBin
  BY <1>1 DEF AfterBin, Done
<1>8. \A p \in DOMAIN made : made[p].type = "NONTERMINAL" =>
        made[p].value \in SourceName \/ \E y \in new : y.name = made[p].value
  <2> SUFFICES ASSUME NEW p \in DOMAIN rule, made[p].type = "NONTERMINAL"
               PROVE  made[p].value \in SourceName \/ \E y \in new : y.name = made[p].value
    BY <1>2, WithoutTerminalsType
  <2>1. CASE rule[p].type = "TERMINAL"
    <3>1. made[p] = NameOperand(DottedName(rule[p]))
      BY <2>1 DEF WithoutTerminals
    <3>2. Item(DottedName(rule[p]), <<rule[p]>>) \in new
      BY <2>1 DEF TermItems
    <3> QED
      BY <3>1, <3>2 DEF Item, NameOperand
  <2>2. CASE rule[p].type # "TERMINAL"
    <3>1. made[p] = rule[p]
      BY <2>2 DEF WithoutTerminals
    <3> QED
      BY <1>5, <3>1, SourceRuleType
  <2> QED
    BY <2>1, <2>2
<1>9. GoodItem(Item(key, made), new)
  <2>1. StandsFor(key, made)
    BY <1>2, <1>5, <1>6 DEF StandsFor
  <2> HIDE DEF new, made
  <2> QED
    BY <1>5, <1>6, <1>7, <1>8, <2>1 DEF GoodItem, Item, Covered
<1>10. ASSUME NEW p \in DOMAIN rule, rule[p].type = "TERMINAL"
       PROVE  GoodItem(Item(DottedName(rule[p]), <<rule[p]>>), new)
  <2>1. rule[p] \in Operand
    BY <1>2, RuleShape
  <2>2. PICK t \in Terminal : /\ rule[p] = TerminalOperand(t)
                              /\ DottedName(rule[p]) = <<Dotted[t]>>
    BY <1>10, <2>1, DottedNameType
  <2> DEFINE single == <<rule[p]>>
             name   == DottedName(rule[p])
  <2>3. name \in TokenName /\ name \notin SourceName /\ SpellName(name) = <<rule[p]>>
    BY <2>2, SpellTokenName DEF TokenName
  <2>4. single \in Rule /\ Len(single) = 1 /\ DOMAIN single = {1} /\ single[1] = rule[p]
    BY <2>1 DEF Rule
  <2>5. Simple(rule[p].value)
    BY <2>2 DEF TerminalOperand, Simple
  <2>6. MadeRule(single)
    BY <2>4, <2>5 DEF MadeRule
  <2>7. Expand(single) = <<rule[p]>>
    <3>1. ExpandOperand(rule[p]) = <<rule[p]>>
      BY <1>10 DEF ExpandOperand
    <3>2. Expand(single) = [q \in {1} |-> ExpandOperand(single[q])[1]]
      BY <2>4 DEF Expand
    <3>3. Expand(single) = [q \in {1} |-> rule[p]]
      BY <2>4, <3>1, <3>2
    <3> QED
      BY <3>3
  <2>8. StandsFor(name, single)
    BY <2>3, <2>7 DEF StandsFor
  <2> HIDE DEF new, name, single
  <2>9. GoodItem(Item(name, single), new)
    BY <1>7, <1>10, <2>3, <2>4, <2>6, <2>8 DEF GoodItem, Item
  <2> QED
    BY <2>9 DEF name, single
<1>11. \A x \in new : GoodItem(x, new)
  BY <1>9, <1>10 DEF TermItems
<1>12. Brings(new, rule)
  <2>1. Item(key, made) \in new
    BY DEF TermItems
  <2> HIDE DEF new, made
  <2>2. Item(key, made).name = key /\ Item(key, made).rule = made
    BY DEF Item
  <2> QED
    BY <1>6, <2>1, <2>2 DEF Brings
<1> HIDE DEF new
<1> QED
  BY <1>1, <1>3, <1>4, <1>11, <1>12, RuleStep

LEMMA NoRulesType == IsProductionRules(NoRules) /\ DOMAIN NoRules = {}
BY DEF NoRules, IsProductionRules

LEMMA VisitStep ==
  ASSUME ExpansionInv, NEW visited \in keys, VisitKey(visited)
  PROVE  ExpansionInv'
<1>1. /\ stage \in Passes /\ pending = <<>> /\ keys' = keys \ {visited} /\ key' = visited
      /\ pending' = rules[visited]
      /\ nf' = (IF stage = "TERM" THEN nf ELSE Declare(nf, visited))
      /\ UNCHANGED <<raw, rules, stage, changed, nullables, todo, occ, unit>>
  BY DEF VisitKey
<1>2. TypeOK /\ visited \in DOMAIN rules /\ visited \in Name /\ rules[visited] \in Seq(Rule)
  BY DEF ExpansionInv, TypeOK, IsProductionRules
<1>3. /\ IsProductionRules(nf')
      /\ DOMAIN nf \subseteq DOMAIN nf' /\ DOMAIN nf' \subseteq DOMAIN nf \cup {visited}
      /\ stage # "TERM" => visited \in DOMAIN nf'
      /\ \A m \in DOMAIN nf : Alternatives(nf', m) = Alternatives(nf, m)
      /\ \A m \in DOMAIN nf' : m \notin DOMAIN nf => Alternatives(nf', m) = {}
  <2>1. CASE stage = "TERM"
    BY <1>1, <1>2, <2>1 DEF TypeOK
  <2>2. CASE stage # "TERM"
    <3>1. /\ DOMAIN nf' = DOMAIN nf \cup {visited}
          /\ \A m \in DOMAIN nf' : nf'[m] = RulesAt(nf, m)
      BY <1>1, <2>2 DEF Declare
    <3>2. IsProductionRules(nf')
      <4>1. IsProductionRules(nf)
        BY <1>2 DEF TypeOK
      <4>2. \A m \in DOMAIN nf' : nf'[m] \in Seq(Rule)
        BY <3>1, <4>1, RulesAtType
      <4>3. DOMAIN nf' \subseteq Name
        BY <1>2, <3>1, <4>1 DEF IsProductionRules
      <4> QED
        BY <4>2, <4>3 DEF IsProductionRules
    <3>3. \A m \in DOMAIN nf : nf'[m] = nf[m]
      BY <3>1 DEF RulesAt
    <3>4. \A m \in DOMAIN nf' : m \notin DOMAIN nf => nf'[m] = <<>>
      BY <3>1 DEF RulesAt
    <3> QED
      BY <3>1, <3>2, <3>3, <3>4 DEF Alternatives
  <2> QED
    BY <2>1, <2>2
<1>4. TypeOK'
  BY <1>1, <1>2, <1>3 DEF TypeOK
<1>5. BetweenPasses'
  BY <1>1 DEF BetweenPasses
<1>6. Shape'
  <2>1. MadeRules(nf')
    BY <1>3 DEF ExpansionInv, Shape, MadeRules
  <2>2. Keys(nf')
    BY <1>2, <1>3 DEF ExpansionInv, Shape, Keys
  <2> QED
    BY <1>1, <2>1, <2>2 DEF ExpansionInv, Shape
<1>7. PendingFromKey'
  BY <1>1, <1>2, <1>3 DEF PendingFromKey, Alternatives
<1>8. ExpansionSound'
  <2>1. ExpandsToSource(nf')
    BY <1>3 DEF ExpansionInv, ExpansionSound, ExpandsToSource
  <2>2. (ExpandsToSource(nf))' /\ (ExpandsToSource(rules))'
    BY <1>1, <2>1 DEF ExpansionInv, ExpansionSound, ExpandsToSource, StandsFor
  <2> QED
    BY <2>2 DEF ExpansionSound
<1>9. ExpansionComplete'
  BY <1>1 DEF ExpansionInv, ExpansionComplete
<1>10. ASSUME NEW name, NEW rule, Brought(name, rule)
       PROVE  Brought(name, rule)'
  BY <1>3, <1>10 DEF Brought
<1>11. ASSUME NEW name \in DOMAIN rules, NEW rule \in Alternatives(rules, name),
              Waiting(name, rule)
       PROVE  Waiting(name, rule)'
  BY <1>1, <1>11 DEF Waiting, Alternatives
<1>12. PassComplete'
  BY <1>1, <1>10, <1>11 DEF ExpansionInv, PassComplete
<1>13. NoDanglingName'
  BY <1>1 DEF ExpansionInv, NoDanglingName
<1>14. ASSUME NEW name, Covered(name) PROVE Covered(name)'
  BY <1>1, <1>3, <1>11, <1>14 DEF Covered
<1>15. NoDanglingInPass'
  BY <1>3, <1>14 DEF ExpansionInv, NoDanglingInPass
<1>16. BinaryInPass'
  BY <1>1, <1>3 DEF ExpansionInv, BinaryInPass, Short, AfterBin, Done
<1> QED
  BY <1>4, <1>5, <1>6, <1>7, <1>8, <1>9, <1>12, <1>13, <1>15, <1>16 DEF ExpansionInv

LEMMA ExpandEmptyRule ==
  ASSUME NEW rule \in Rule, NEW source \in Rule, IsEmptyRule(rule), Expand(rule) = source
  PROVE  IsEmptyRule(source)
<1>1. rule[1] \in Operand /\ DOMAIN rule = {1} /\ rule[1].type = "EMPTY"
  BY RuleShape DEF IsEmptyRule
<1>2. rule[1] = EmptyOperand
  BY <1>1, OperandKinds
<1>3. source = [p \in {1} |-> EmptyOperand]
  BY <1>1, <1>2 DEF Expand, ExpandOperand, EmptyOperand, IsEmptyRule
<1>4. source = <<EmptyOperand>>
  BY <1>3
<1> QED
  BY <1>4 DEF IsEmptyRule, EmptyOperand

LEMMA EndStep ==
  ASSUME ExpansionInv, EndPass
  PROVE  ExpansionInv'
<1>1. /\ stage \in Passes /\ pending = <<>> /\ keys = {} /\ rules' = nf /\ keys' = DOMAIN nf
      /\ nf' = NoRules /\ key' = NoKey /\ changed' = FALSE /\ pending' = pending
      /\ UNCHANGED <<raw, nullables, todo, occ, unit>>
  BY DEF EndPass
<1>2. stage' = StageAfter
  BY DEF EndPass
<1>3. /\ stage = "TERM" => stage' = "BIN"
      /\ stage = "BIN" => stage' = (IF changed THEN "BIN" ELSE "DOUBLES")
      /\ stage = "DOUBLES" => stage' = "NULLABLES"
      /\ stage = "REMOVE" => stage' = "DONE"
  BY <1>2 DEF StageAfter
<1>4. TypeOK'
  BY <1>1, <1>3, NoRulesType DEF ExpansionInv, TypeOK, Passes
<1>5. BetweenPasses'
  BY <1>1, <1>3 DEF BetweenPasses
<1>6. stage' # "TERM"
  BY <1>1, <1>3 DEF Passes
<1>7. Shape'
  BY <1>1, <1>6, NoRulesType DEF ExpansionInv, Shape, MadeRules, Keys
<1>8. PendingFromKey'
  BY <1>1 DEF PendingFromKey
<1>9. ExpansionSound'
  BY <1>1, NoRulesType DEF ExpansionInv, ExpansionSound, ExpandsToSource, StandsFor
<1>10. \A name, rule : ~ Waiting(name, rule)
  BY <1>1 DEF Waiting
<1>11. ExpansionComplete'
  <2> SUFFICES ASSUME NEW name \in DOMAIN raw, NEW rule \in Alternatives(raw, name)
               PROVE  \/ name \in DOMAIN nf /\ \E r \in Alternatives(nf, name) : Expand(r) = rule
                      \/ stage' = "DONE" /\ IsEmptyRule(rule)
    BY <1>1 DEF ExpansionComplete
  <2>1. PICK old \in Alternatives(rules, name) : name \in DOMAIN rules /\ Expand(old) = rule
    BY <1>1 DEF ExpansionInv, ExpansionComplete, Passes
  <2>2. Brought(name, old) \/ (stage = "REMOVE" /\ IsEmptyRule(old))
    BY <1>1, <1>10, <2>1 DEF ExpansionInv, PassComplete
  <2>3. CASE Brought(name, old)
    BY <2>1, <2>3 DEF Brought
  <2>4. CASE stage = "REMOVE" /\ IsEmptyRule(old)
    <3>1. old \in Rule
      BY <2>1 DEF ExpansionInv, TypeOK, IsProductionRules, Alternatives
    <3>2. rule \in Rule
      BY SourceRuleType DEF ExpansionInv, TypeOK, IsSource, Alternatives
    <3>3. IsEmptyRule(rule)
      BY <2>1, <2>4, <3>1, <3>2, ExpandEmptyRule
    <3> QED
      BY <1>3, <2>4, <3>3
  <2> QED
    BY <2>2, <2>3, <2>4
<1>12. PassComplete'
  BY <1>1 DEF PassComplete, Waiting
<1>13. NoDanglingName'
  BY <1>1, <1>10 DEF ExpansionInv, NoDanglingInPass, Covered, NoDanglingName
<1>14. NoDanglingInPass'
  BY <1>1, NoRulesType DEF NoDanglingInPass
<1>15. BinaryInPass'
  BY <1>1, <1>3, NoRulesType DEF ExpansionInv, BinaryInPass, Short, AfterBin, Done, Passes
<1> QED
  BY <1>4, <1>5, <1>7, <1>8, <1>9, <1>11, <1>12, <1>13, <1>14, <1>15 DEF ExpansionInv

\* Values of operands are what the occurrences hold.
LEMMA OperandValueType ==
  ASSUME NEW x \in Operand
  PROVE  x.value \in Seq(Atom \cup Terminal)
<1>1. CASE \E t \in Terminal : x.value = <<t>>
  BY <1>1
<1>2. CASE x.value \in Name
  BY <1>2 DEF Name
<1>3. CASE x.value = <<Empty>>
  BY <1>3, SpellEmpty
<1> QED
  BY <1>1, <1>2, <1>3, OperandKinds

LEMMA OccurrencesType ==
  ASSUME NEW g, IsProductionRules(g), NEW name
  PROVE  Occurrences(g, name) \subseteq [front : DOMAIN g, back : Seq(Atom \cup Terminal)]
<1>1. \A k \in DOMAIN g : k \in Name /\ k \in Seq(Atom \cup Terminal)
  BY DEF IsProductionRules, Name
<1>2. \A k \in DOMAIN g : \A rule \in Alternatives(g, k) : Len(rule) = 2 =>
        rule[1].value \in Seq(Atom \cup Terminal) /\ rule[2].value \in Seq(Atom \cup Terminal)
  <2> SUFFICES ASSUME NEW k \in DOMAIN g, NEW rule \in Alternatives(g, k), Len(rule) = 2
               PROVE  rule[1] \in Operand /\ rule[2] \in Operand
    BY OperandValueType
  <2>1. rule \in Rule
    BY DEF IsProductionRules, Alternatives
  <2>2. 1 \in DOMAIN rule /\ 2 \in DOMAIN rule
    BY <2>1, RuleShape
  <2> QED
    BY <2>1, <2>2, RuleShape
<1> QED
  BY <1>1, <1>2 DEF Occurrences

\* The steps between the passes leave the map alone.
LEMMA OutsideStep ==
  ASSUME ExpansionInv, TypeOK', stage \notin Passes, stage' # "DONE",
         UNCHANGED <<raw, rules, keys, pending, nf, changed>>,
         stage' \in Passes => stage' = "REMOVE",
         stage \in {"NULLABLES", "PROPAGATE"}
  PROVE  ExpansionInv'
<1>1. keys = DOMAIN rules /\ pending = <<>> /\ nf = NoRules
  BY DEF ExpansionInv, BetweenPasses
<1>2. stage # "TERM" /\ stage' # "TERM"
  BY DEF Passes
<1>3. BetweenPasses'
  BY <1>1 DEF BetweenPasses
<1>4. Shape'
  BY <1>2 DEF ExpansionInv, Shape, MadeRules, Keys
<1>5. PendingFromKey'
  BY <1>1 DEF PendingFromKey
<1>6. ExpansionSound'
  BY DEF ExpansionInv, ExpansionSound, ExpandsToSource, StandsFor
<1>7. ExpansionComplete'
  BY DEF ExpansionInv, ExpansionComplete
<1>8. PassComplete'
  BY <1>1 DEF PassComplete, Waiting
<1>9. NoDanglingName'
  BY DEF ExpansionInv, NoDanglingName
<1>10. NoDanglingInPass'
  BY <1>1, NoRulesType DEF NoDanglingInPass
<1>11. BinaryInPass'
  BY DEF ExpansionInv, BinaryInPass, Short, AfterBin, Done, Passes
<1> QED
  BY <1>3, <1>4, <1>5, <1>6, <1>7, <1>8, <1>9, <1>10, <1>11 DEF ExpansionInv

LEMMA SeedStep ==
  ASSUME ExpansionInv, SeedNullables
  PROVE  ExpansionInv'
<1>1. EmptyKeys(rules) \subseteq Name
  BY DEF EmptyKeys, ExpansionInv, TypeOK, IsProductionRules
<1>2. TypeOK'
  BY <1>1 DEF ExpansionInv, TypeOK, SeedNullables
<1> QED
  BY <1>2, OutsideStep DEF SeedNullables, Passes

LEMMA PopStep ==
  ASSUME ExpansionInv, NEW name \in todo, PopNullable(name)
  PROVE  ExpansionInv'
<1>1. Occurrences(rules, name) \subseteq [front : Name, back : Seq(Atom \cup Terminal)]
  BY OccurrencesType DEF ExpansionInv, TypeOK, IsProductionRules
<1>2. name \in Name
  BY DEF ExpansionInv, TypeOK
<1>3. TypeOK'
  BY <1>1, <1>2 DEF ExpansionInv, TypeOK, PopNullable
<1> QED
  BY <1>3, OutsideStep DEF PopNullable, Passes

LEMMA PropagateStep ==
  ASSUME ExpansionInv, NEW o \in occ, Propagate(o)
  PROVE  ExpansionInv'
<1>1. o.front \in Name
  BY DEF ExpansionInv, TypeOK
<1>2. TypeOK'
  BY <1>1 DEF ExpansionInv, TypeOK, Propagate
<1> QED
  BY <1>2, OutsideStep DEF Propagate, Passes

LEMMA UnitStep ==
  ASSUME ExpansionInv, GetUnitRelation
  PROVE  ExpansionInv'
<1>1. DOMAIN UnitRelation(rules, nullables) \subseteq Name
  BY DEF UnitRelation, ExpansionInv, TypeOK, IsProductionRules
<1>2. TypeOK'
  BY <1>1 DEF ExpansionInv, TypeOK, GetUnitRelation, Passes
<1> QED
  BY <1>2, OutsideStep DEF GetUnitRelation, Passes

LEMMA ExpansionInit ==
  ASSUME Init
  PROVE  ExpansionInv
<1>1. IsSource(raw) /\ rules = raw /\ stage = "TERM" /\ keys = DOMAIN raw
      /\ key = NoKey /\ pending = <<>> /\ nf = NoRules /\ changed = FALSE
      /\ nullables = {} /\ todo = {} /\ occ = {} /\ unit = NoUnits
  BY SourceAssumption DEF Init
<1>2. \A name \in DOMAIN raw : \A rule \in Alternatives(raw, name) :
        /\ rule \in Seq(SourceOperand) /\ Expand(rule) = rule
        /\ \A p \in DOMAIN rule : rule[p].type = "NONTERMINAL" => rule[p].value \in SourceName
  BY <1>1, SourceRuleType, ExpandSourceRule DEF IsSource, Alternatives
<1>3. DOMAIN raw \subseteq SourceName /\ DOMAIN raw \subseteq Name
  <2>1. DOMAIN raw \subseteq SourceName
    BY <1>1 DEF IsSource, SourceName
  <2>2. SourceName \subseteq Name
    <3>1. \A A \in NonTerminal : <<A>> \in Name
      BY DEF Name, Atom
    <3> QED
      BY <3>1 DEF SourceName
  <2> QED
    BY <2>1, <2>2
<1>4. IsProductionRules(raw)
  <2>1. Seq(Seq(SourceOperand)) \subseteq Seq(Rule)
    <3>1. Seq(SourceOperand) \subseteq Rule
      BY SourceOperandType DEF Rule
    <3> HIDE DEF Rule
    <3> QED
      BY <3>1
  <2> QED
    BY <1>1, <1>3, <2>1 DEF IsSource, IsProductionRules
<1>5. TypeOK
  <2>1. pending \in Seq(Rule) /\ key \in Name \cup {NoKey} /\ DOMAIN unit \subseteq Name
    BY <1>1 DEF NoUnits
  <2> QED
    BY <1>1, <1>4, <2>1, NoRulesType DEF TypeOK, Passes
<1>6. BetweenPasses /\ PendingFromKey /\ PassComplete
  BY <1>1 DEF BetweenPasses, PendingFromKey, PassComplete, Waiting, Passes
<1>7. Shape
  BY <1>1, <1>3, NoRulesType DEF Shape, MadeRules, Keys
<1>8. ExpansionSound
  BY <1>1, <1>2, <1>3, NoRulesType DEF ExpansionSound, ExpandsToSource, StandsFor
<1>9. ExpansionComplete
  BY <1>1, <1>2 DEF ExpansionComplete
<1>10. NoDanglingName
  BY <1>1, <1>2 DEF NoDanglingName
<1>11. NoDanglingInPass
  BY <1>1, NoRulesType DEF NoDanglingInPass
<1>12. BinaryInPass
  BY <1>1, NoRulesType DEF BinaryInPass, Short, AfterBin, Done
<1> QED
  BY <1>5, <1>6, <1>7, <1>8, <1>9, <1>10, <1>11, <1>12 DEF ExpansionInv

LEMMA ExpansionStutter ==
  ASSUME ExpansionInv, UNCHANGED vars
  PROVE  ExpansionInv'
BY DEF vars, ExpansionInv, TypeOK, BetweenPasses, Shape, MadeRules, Keys, PendingFromKey,
       ExpansionSound, ExpandsToSource, StandsFor, ExpansionComplete, PassComplete, Waiting,
       Brought, NoDanglingName, NoDanglingInPass, Covered, BinaryInPass, Short, AfterBin, Done

LEMMA ExpansionStep ==
  ASSUME ExpansionInv, [Next]_vars
  PROVE  ExpansionInv'
<1>1. CASE \E name \in keys : VisitKey(name)
  BY <1>1, VisitStep
<1>2. CASE TermRule
  BY <1>2, TermStep
<1>3. CASE BinRule
  BY <1>3, BinStep
<1>4. CASE UniqueRule
  BY <1>4, UniqueStep
<1>5. CASE NonEmptyRule
  BY <1>5, NonEmptyStep
<1>6. CASE EndPass
  BY <1>6, EndStep
<1>7. CASE SeedNullables
  BY <1>7, SeedStep
<1>8. CASE \E name \in todo : PopNullable(name)
  BY <1>8, PopStep
<1>9. CASE \E o \in occ : Propagate(o)
  BY <1>9, PropagateStep
<1>10. CASE GetUnitRelation
  BY <1>10, UnitStep
<1>11. CASE UNCHANGED vars
  BY <1>11, ExpansionStutter
<1> QED
  BY <1>1, <1>2, <1>3, <1>4, <1>5, <1>6, <1>7, <1>8, <1>9, <1>10, <1>11 DEF Next

-----------------------------------------------------------------------------
(* The worklist of getnullables.                                            *)

LEMMA NullablesInit ==
  ASSUME Init
  PROVE  NullablesInv
BY DEF Init, NullablesInv, OccurrencesOfKey, SaturatedButForWork, NullablesSound

\* A step of a pass finds the worklist empty.
LEMMA NullablesPassStep ==
  ASSUME NullablesInv, stage \in Passes, UNCHANGED <<rules, stage, nullables, todo, occ>>
  PROVE  NullablesInv'
<1>1. todo = {} /\ occ = {}
  BY DEF NullablesInv, Passes
<1>2. SaturatedButForWork'
  BY <1>1 DEF NullablesInv, SaturatedButForWork
<1>3. NullablesSound'
  BY DEF NullablesInv, NullablesSound, ClosedUnderNullability
<1> QED
  BY <1>1, <1>2, <1>3 DEF NullablesInv, OccurrencesOfKey

LEMMA NullablesEndStep ==
  ASSUME NullablesInv, EndPass
  PROVE  NullablesInv'
<1>1. /\ stage \in Passes /\ UNCHANGED <<nullables, todo, occ>>
      /\ stage' = "DONE" \/ (stage # "REMOVE" /\ stage' \notin {"PROPAGATE", "REMOVE", "DONE"})
  BY DEF EndPass, StageAfter, Passes
<1>2. todo = {} /\ occ = {}
  BY <1>1 DEF NullablesInv, Passes
<1>3. stage # "REMOVE" => nullables = {}
  BY <1>1 DEF NullablesInv, Passes
<1>4. SaturatedButForWork' /\ OccurrencesOfKey'
  BY <1>1, <1>2 DEF SaturatedButForWork, OccurrencesOfKey
<1>5. NullablesSound'
  BY <1>1, <1>3 DEF NullablesSound
<1> QED
  BY <1>1, <1>2, <1>3, <1>4, <1>5 DEF NullablesInv

LEMMA NullablesSeedStep ==
  ASSUME TypeOK, NullablesInv, SeedNullables
  PROVE  NullablesInv'
<1>1. /\ nullables' = EmptyKeys(rules) /\ todo' = EmptyKeys(rules) /\ stage' = "PROPAGATE"
      /\ occ = {} /\ occ' = {} /\ rules' = rules
  BY DEF SeedNullables, NullablesInv
<1>2. ASSUME NEW N \in SUBSET DOMAIN rules, ClosedUnderNullability(rules, N)
      PROVE  EmptyKeys(rules) \subseteq N
  <2> SUFFICES ASSUME NEW name \in DOMAIN rules, NEW rule \in Alternatives(rules, name),
                      IsEmptyRule(rule)
               PROVE  name \in N
    BY DEF EmptyKeys
  <2>1. rule \in Rule
    BY DEF TypeOK, IsProductionRules, Alternatives
  <2>2. DOMAIN rule = {1} /\ rule[1].type = "EMPTY" /\ rule # <<>>
    BY <2>1, RuleShape DEF IsEmptyRule
  <2> QED
    BY <1>2, <2>2 DEF ClosedUnderNullability
<1>3. NullablesSound'
  BY <1>1, <1>2 DEF NullablesSound, ClosedUnderNullability
<1>4. SaturatedButForWork' /\ OccurrencesOfKey'
  BY <1>1 DEF SaturatedButForWork, OccurrencesOfKey
<1> QED
  BY <1>1, <1>3, <1>4 DEF NullablesInv

\* Both operands of a rule of two know the other one.
LEMMA PairOccurs ==
  ASSUME NEW g, NEW k \in DOMAIN g, NEW rule \in Alternatives(g, k), Len(rule) = 2
  PROVE  /\ [front |-> k, back |-> rule[2].value] \in Occurrences(g, rule[1].value)
         /\ [front |-> k, back |-> rule[1].value] \in Occurrences(g, rule[2].value)
<1>1. ASSUME NEW name
      PROVE  /\ {[front |-> k, back |-> r[2].value] :
                   r \in {r \in Alternatives(g, k) : Len(r) = 2 /\ r[1].value = name}}
                  \subseteq Occurrences(g, name)
             /\ {[front |-> k, back |-> r[1].value] :
                   r \in {r \in Alternatives(g, k) : Len(r) = 2 /\ r[2].value = name}}
                  \subseteq Occurrences(g, name)
  BY DEF Occurrences
<1>2. [front |-> k, back |-> rule[2].value] \in
        {[front |-> k, back |-> r[2].value] :
           r \in {r \in Alternatives(g, k) : Len(r) = 2 /\ r[1].value = rule[1].value}}
  OBVIOUS
<1>3. [front |-> k, back |-> rule[1].value] \in
        {[front |-> k, back |-> r[1].value] :
           r \in {r \in Alternatives(g, k) : Len(r) = 2 /\ r[2].value = rule[2].value}}
  OBVIOUS
<1> QED
  BY <1>1, <1>2, <1>3

LEMMA NullablesPopStep ==
  ASSUME TypeOK, NullablesInv, NEW popped \in todo, PopNullable(popped)
  PROVE  NullablesInv'
<1>1. /\ stage = "PROPAGATE" /\ stage' = stage /\ occ = {} /\ todo' = todo \ {popped}
      /\ key' = popped /\ occ' = Occurrences(rules, popped)
      /\ rules' = rules /\ nullables' = nullables
  BY DEF PopNullable
<1>2. OccurrencesOfKey'
  BY <1>1 DEF OccurrencesOfKey, TypeOK
<1>3. SaturatedButForWork'
  <2> SUFFICES ASSUME NEW name \in DOMAIN rules, NEW rule \in Alternatives(rules, name),
                      Len(rule) = 2, rule[1].value \in nullables, rule[2].value \in nullables,
                      name \notin nullables
               PROVE  \/ rule[1].value \in todo'
                      \/ rule[2].value \in todo'
                      \/ rule[1].value = popped /\ [front |-> name, back |-> rule[2].value] \in occ'
                      \/ rule[2].value = popped /\ [front |-> name, back |-> rule[1].value] \in occ'
    BY <1>1 DEF SaturatedButForWork
  <2>1. rule[1].value \in todo \/ rule[2].value \in todo
    BY <1>1 DEF NullablesInv, SaturatedButForWork
  <2>2. rule[1].value = popped => [front |-> name, back |-> rule[2].value] \in occ'
    BY <1>1, PairOccurs
  <2>3. rule[2].value = popped => [front |-> name, back |-> rule[1].value] \in occ'
    BY <1>1, PairOccurs
  <2> QED
    BY <1>1, <2>1, <2>2, <2>3
<1>4. NullablesSound'
  BY <1>1 DEF NullablesInv, NullablesSound, ClosedUnderNullability
<1> QED
  BY <1>1, <1>2, <1>3, <1>4 DEF NullablesInv

\* After BIN the operands of a pair are names and empty operands.
LEMMA BinaryNow == ExpansionInv => BinaryForm
BY DEF ExpansionInv, BinaryInPass, Short, Shape, MadeRules, MadeRule, BinaryForm, AfterBin, Done

\* The occurrence looked at makes its key nullable only when a rule of the key
\* has two nullable operands.
LEMMA OccurrenceIsSound ==
  ASSUME TypeOK, BinaryForm, NullablesInv, stage = "PROPAGATE", NEW o \in occ,
         o.back \in nullables, o.front \notin nullables,
         NEW N \in SUBSET DOMAIN rules, ClosedUnderNullability(rules, N)
  PROVE  o.front \in N
<1>1. nullables \subseteq N /\ key \in nullables /\ o \in Occurrences(rules, key)
  BY DEF NullablesInv, NullablesSound, OccurrencesOfKey
<1>2. PICK k \in DOMAIN rules :
        \/ o = [front |-> k, back |-> k]
        \/ \E rule \in Alternatives(rules, k) :
             /\ Len(rule) = 2 /\ rule[1].value = key
             /\ o = [front |-> k, back |-> rule[2].value]
        \/ \E rule \in Alternatives(rules, k) :
             /\ Len(rule) = 2 /\ rule[2].value = key
             /\ o = [front |-> k, back |-> rule[1].value]
  BY <1>1 DEF Occurrences
<1>3. o # [front |-> k, back |-> k]
  OBVIOUS
<1>4. PICK rule \in Alternatives(rules, k) :
        /\ Len(rule) = 2 /\ o.front = k
        /\ rule[1].value \in N /\ rule[2].value \in N
  BY <1>1, <1>2, <1>3
<1>5. rule \in Rule
  BY DEF TypeOK, IsProductionRules, Alternatives
<1>6. rule # <<>> /\ \A p \in DOMAIN rule : rule[p].value \in N
  BY <1>4, <1>5, RuleShape
<1>7. \A p \in DOMAIN rule : rule[p].type # "TERMINAL" /\ rule[p] \in Operand
  <2>1. AfterBin
    BY DEF AfterBin, Done
  <2> QED
    BY <1>4, <1>5, <2>1 DEF BinaryForm, Rule
<1> QED
  BY <1>4, <1>6, <1>7, OperandKinds DEF ClosedUnderNullability

LEMMA NullablesPropagateStep ==
  ASSUME TypeOK, BinaryForm, NullablesInv, NEW o \in occ, Propagate(o)
  PROVE  NullablesInv'
<1>1. /\ stage = "PROPAGATE" /\ stage' = stage /\ occ' = occ \ {o}
      /\ key' = key /\ rules' = rules
  BY DEF Propagate
<1>2. \/ /\ o.back \in nullables /\ o.front \notin nullables
         /\ nullables' = nullables \cup {o.front} /\ todo' = todo \cup {o.front}
      \/ /\ ~ (o.back \in nullables /\ o.front \notin nullables)
         /\ nullables' = nullables /\ todo' = todo
  BY DEF Propagate
<1>3. OccurrencesOfKey'
  BY <1>1, <1>2 DEF NullablesInv, OccurrencesOfKey
<1>4. NullablesSound'
  <2> SUFFICES ASSUME NEW N \in SUBSET DOMAIN rules, ClosedUnderNullability(rules, N)
               PROVE  nullables' \subseteq N
    BY <1>1 DEF NullablesSound, ClosedUnderNullability
  <2>1. nullables \subseteq N
    BY <1>1 DEF NullablesInv, NullablesSound
  <2>2. o.back \in nullables /\ o.front \notin nullables => o.front \in N
    BY <1>1, OccurrenceIsSound
  <2> QED
    BY <1>2, <2>1, <2>2
<1>5. SaturatedButForWork'
  <2> SUFFICES ASSUME NEW name \in DOMAIN rules, NEW rule \in Alternatives(rules, name),
                      Len(rule) = 2, rule[1].value \in nullables', rule[2].value \in nullables',
                      name \notin nullables'
               PROVE  \/ rule[1].value \in todo'
                      \/ rule[2].value \in todo'
                      \/ rule[1].value = key /\ [front |-> name, back |-> rule[2].value] \in occ'
                      \/ rule[2].value = key /\ [front |-> name, back |-> rule[1].value] \in occ'
    BY <1>1 DEF SaturatedButForWork
  <2>1. CASE rule[1].value \in nullables /\ rule[2].value \in nullables
    <3>1. \/ rule[1].value \in todo
          \/ rule[2].value \in todo
          \/ rule[1].value = key /\ [front |-> name, back |-> rule[2].value] \in occ
          \/ rule[2].value = key /\ [front |-> name, back |-> rule[1].value] \in occ
      BY <1>1, <1>2, <2>1 DEF NullablesInv, SaturatedButForWork
    <3>2. o # [front |-> name, back |-> rule[2].value]
      BY <1>2, <2>1
    <3>3. o # [front |-> name, back |-> rule[1].value]
      BY <1>2, <2>1
    <3> QED
      BY <1>1, <1>2, <3>1, <3>2, <3>3
  <2>2. CASE ~ (rule[1].value \in nullables /\ rule[2].value \in nullables)
    BY <1>2, <2>2
  <2> QED
    BY <2>1, <2>2
<1> QED
  BY <1>1, <1>3, <1>4, <1>5 DEF NullablesInv

LEMMA NullablesUnitStep ==
  ASSUME NullablesInv, GetUnitRelation
  PROVE  NullablesInv'
BY DEF GetUnitRelation, NullablesInv, OccurrencesOfKey, SaturatedButForWork, NullablesSound,
       ClosedUnderNullability

LEMMA NullablesStutter ==
  ASSUME NullablesInv, UNCHANGED vars
  PROVE  NullablesInv'
BY DEF vars, NullablesInv, OccurrencesOfKey, SaturatedButForWork, NullablesSound,
       ClosedUnderNullability

LEMMA NullablesStep ==
  ASSUME TypeOK, BinaryForm, NullablesInv, [Next]_vars
  PROVE  NullablesInv'
<1>1. CASE \E name \in keys : VisitKey(name)
  BY <1>1, NullablesPassStep DEF VisitKey
<1>2. CASE TermRule \/ BinRule \/ UniqueRule \/ NonEmptyRule
  BY <1>2, NullablesPassStep DEF TermRule, BinRule, UniqueRule, NonEmptyRule, NextRule, Passes
<1>3. CASE EndPass
  BY <1>3, NullablesEndStep
<1>4. CASE SeedNullables
  BY <1>4, NullablesSeedStep
<1>5. CASE \E name \in todo : PopNullable(name)
  BY <1>5, NullablesPopStep
<1>6. CASE \E o \in occ : Propagate(o)
  BY <1>6, NullablesPropagateStep
<1>7. CASE GetUnitRelation
  BY <1>7, NullablesUnitStep
<1>8. CASE UNCHANGED vars
  BY <1>8, NullablesStutter
<1> QED
  BY <1>1, <1>2, <1>3, <1>4, <1>5, <1>6, <1>7, <1>8 DEF Next

-----------------------------------------------------------------------------
(* Repeated alternatives.                                                   *)

LEMMA PushKeepsDistinct ==
  ASSUME NEW g, IsProductionRules(g), DistinctRules(g), NEW name \in DOMAIN g, NEW rule \in Rule,
         rule \notin Alternatives(g, name)
  PROVE  /\ DistinctRules(PushRule(g, name, rule)) /\ DOMAIN PushRule(g, name, rule) = DOMAIN g
         /\ Alternatives(PushRule(g, name, rule), name) = Alternatives(g, name) \cup {rule}
<1> DEFINE h == PushRule(g, name, rule)
<1>1. /\ DOMAIN h = DOMAIN g /\ h[name] = Append(g[name], rule)
      /\ \A m \in DOMAIN g : m # name => h[m] = g[m]
  BY DEF PushRule, RulesAt
<1>2. g[name] \in Seq(Rule)
  BY DEF IsProductionRules
<1>3. \A n \in DOMAIN g[name] : g[name][n] # rule
  BY DEF Alternatives
<1>4. /\ DOMAIN h[name] = DOMAIN g[name] \cup {Len(g[name]) + 1}
      /\ h[name][Len(g[name]) + 1] = rule
      /\ \A n \in DOMAIN g[name] : h[name][n] = g[name][n]
  BY <1>1, <1>2
<1>5. NoRepeat(h[name])
  BY <1>3, <1>4 DEF DistinctRules, NoRepeat
<1>6. DistinctRules(h)
  BY <1>1, <1>5 DEF DistinctRules
<1>7. Alternatives(h, name) = Alternatives(g, name) \cup {rule}
  BY <1>4 DEF Alternatives
<1> QED
  BY <1>1, <1>6, <1>7

LEMMA DoublesInit ==
  ASSUME Init
  PROVE  DoublesInv
BY DEF Init, DoublesInv, AfterDoubles, Done

LEMMA DoublesVisitStep ==
  ASSUME DoublesInv, NEW visited \in keys, visited \in DOMAIN rules, VisitKey(visited)
  PROVE  DoublesInv'
<1>1. /\ keys' = keys \ {visited} /\ key' = visited /\ pending' = rules[visited]
      /\ nf' = (IF stage = "TERM" THEN nf ELSE Declare(nf, visited))
      /\ stage' = stage /\ rules' = rules
  BY DEF VisitKey
<1>2. stage \in {"DOUBLES", "REMOVE"} => DistinctRules(nf')
  <2> SUFFICES ASSUME stage \in {"DOUBLES", "REMOVE"}, NEW name \in DOMAIN nf'
               PROVE  NoRepeat(nf'[name])
    BY DEF DistinctRules
  <2>1. name \in DOMAIN nf \cup {visited} /\ nf'[name] = RulesAt(nf, name) /\ DistinctRules(nf)
    BY <1>1 DEF Declare, DoublesInv
  <2>2. CASE name \in DOMAIN nf
    BY <2>1, <2>2 DEF RulesAt, DistinctRules
  <2>3. CASE name \notin DOMAIN nf
    BY <2>1, <2>3 DEF RulesAt, NoRepeat
  <2> QED
    BY <2>2, <2>3
<1>3. ASSUME stage = "REMOVE"
      PROVE  /\ NoRepeat(pending')
             /\ \A m \in DOMAIN pending' : pending'[m] \notin Alternatives(nf', visited)
             /\ keys' \cap DOMAIN nf' = {}
  <2>1. visited \notin DOMAIN nf /\ nf' = Declare(nf, visited)
    BY <1>1, <1>3 DEF DoublesInv
  <2>2. nf'[visited] = <<>> /\ DOMAIN nf' = DOMAIN nf \cup {visited}
    BY <2>1 DEF Declare, RulesAt
  <2>3. NoRepeat(pending')
    BY <1>1, <1>3 DEF DoublesInv, AfterDoubles, Done, DistinctRules
  <2> QED
    BY <1>1, <1>3, <2>2, <2>3 DEF DoublesInv, Alternatives
<1> QED
  BY <1>1, <1>2, <1>3 DEF DoublesInv, AfterDoubles, Done

LEMMA DoublesUniqueStep ==
  ASSUME ExpansionInv, DoublesInv, UniqueRule
  PROVE  DoublesInv'
<1>1. /\ stage = "DOUBLES" /\ stage \in Passes \ {"TERM"} /\ pending # <<>>
      /\ nf' = KeepUnique(nf, key, Head(pending)) /\ stage' = stage
  BY DEF UniqueRule, NextRule, Passes
<1>2. Head(pending) \in Rule /\ key \in DOMAIN nf /\ IsProductionRules(nf) /\ DistinctRules(nf)
  BY <1>1, NextIsMade, PendingType DEF ExpansionInv, TypeOK, DoublesInv
<1>3. DistinctRules(nf')
  BY <1>1, <1>2, PushKeepsDistinct DEF KeepUnique
<1> QED
  BY <1>1, <1>3 DEF DoublesInv, AfterDoubles, Done

LEMMA DoublesNonEmptyStep ==
  ASSUME ExpansionInv, DoublesInv, NonEmptyRule
  PROVE  DoublesInv'
<1> DEFINE rule == Head(pending)
<1>1. /\ stage = "REMOVE" /\ stage \in Passes \ {"TERM"} /\ pending # <<>>
      /\ nf' = KeepNonEmpty(nf, key, rule) /\ pending' = Tail(pending)
      /\ stage' = stage /\ rules' = rules /\ keys' = keys /\ key' = key
  BY DEF NonEmptyRule, NextRule, Passes
<1>2. rule \in Rule /\ key \in DOMAIN nf /\ IsProductionRules(nf) /\ DistinctRules(nf)
  BY <1>1, NextIsMade, PendingType DEF ExpansionInv, TypeOK, DoublesInv
<1>3. /\ rule = pending[1] /\ 1 \in DOMAIN pending /\ pending \in Seq(Rule)
      /\ \A m \in DOMAIN Tail(pending) :
           m + 1 \in DOMAIN pending /\ Tail(pending)[m] = pending[m + 1]
  BY <1>1, PendingType DEF ExpansionInv, TypeOK
<1>4. rule \notin Alternatives(nf, key) /\ NoRepeat(pending)
  BY <1>1, <1>3 DEF DoublesInv
<1>5. /\ DistinctRules(nf') /\ DOMAIN nf' = DOMAIN nf
      /\ Alternatives(nf', key) \subseteq Alternatives(nf, key) \cup {rule}
  BY <1>1, <1>2, <1>4, PushKeepsDistinct DEF KeepNonEmpty
<1>6. ASSUME NEW m \in DOMAIN Tail(pending), NEW n \in DOMAIN Tail(pending),
             Tail(pending)[m] = Tail(pending)[n]
      PROVE  m = n
  <2>1. m + 1 = n + 1 /\ m \in Nat /\ n \in Nat
    BY <1>3, <1>4, <1>6 DEF NoRepeat
  <2> QED
    BY <2>1
<1>7. ASSUME NEW m \in DOMAIN Tail(pending)
      PROVE  Tail(pending)[m] # rule
  <2>1. m + 1 # 1 /\ m + 1 \in DOMAIN pending
    BY <1>3
  <2> QED
    BY <1>3, <1>4, <2>1 DEF NoRepeat
<1>8. \A m \in DOMAIN pending' : pending'[m] \notin Alternatives(nf', key)
  BY <1>1, <1>3, <1>5, <1>7 DEF DoublesInv
<1> QED
  BY <1>1, <1>5, <1>6, <1>8 DEF DoublesInv, NoRepeat, AfterDoubles, Done

LEMMA DoublesEndStep ==
  ASSUME DoublesInv, EndPass
  PROVE  DoublesInv'
<1>1. /\ stage \in Passes /\ pending' = <<>> /\ rules' = nf /\ nf' = NoRules
      /\ stage' = StageAfter
  BY DEF EndPass
<1>2. stage' # "REMOVE" /\ (AfterDoubles' => stage \in {"DOUBLES", "REMOVE"})
  BY <1>1 DEF StageAfter, AfterDoubles, Done, Passes
<1> QED
  BY <1>1, <1>2, NoRulesType DEF DoublesInv, DistinctRules

LEMMA DoublesUnitStep ==
  ASSUME ExpansionInv, DoublesInv, GetUnitRelation
  PROVE  DoublesInv'
<1>1. /\ stage = "PROPAGATE" /\ stage' = "REMOVE" /\ pending = <<>> /\ nf = NoRules
      /\ UNCHANGED <<rules, keys, pending, nf>>
  BY DEF GetUnitRelation, ExpansionInv, BetweenPasses, Passes
<1> QED
  BY <1>1, NoRulesType DEF DoublesInv, DistinctRules, NoRepeat, AfterDoubles, Done

LEMMA DoublesStep ==
  ASSUME ExpansionInv, DoublesInv, [Next]_vars
  PROVE  DoublesInv'
<1>1. CASE \E name \in keys : VisitKey(name)
  BY <1>1, DoublesVisitStep DEF ExpansionInv, TypeOK
<1>2. CASE TermRule \/ BinRule
  BY <1>2 DEF TermRule, BinRule, NextRule, DoublesInv, AfterDoubles, Done
<1>3. CASE UniqueRule
  BY <1>3, DoublesUniqueStep
<1>4. CASE NonEmptyRule
  BY <1>4, DoublesNonEmptyStep
<1>5. CASE EndPass
  BY <1>5, DoublesEndStep
<1>6. CASE SeedNullables \/ (\E name \in todo : PopNullable(name)) \/ \E o \in occ : Propagate(o)
  BY <1>6 DEF SeedNullables, PopNullable, Propagate, DoublesInv, AfterDoubles, Done
<1>7. CASE GetUnitRelation
  BY <1>7, DoublesUnitStep
<1>8. CASE UNCHANGED vars
  BY <1>8 DEF vars, DoublesInv, AfterDoubles, Done
<1> QED
  BY <1>1, <1>2, <1>3, <1>4, <1>5, <1>6, <1>7, <1>8 DEF Next

-----------------------------------------------------------------------------
(* The names there can be.                                                  *)

\* The atom of an operand is the one that spells it.
LEMMA AtomOfSpell ==
  ASSUME NEW a \in Atom
  PROVE  AtomOf(Spell(a)) = a
<1>1. CASE a \in NonTerminal
  BY <1>1, SpellNonTerminal DEF AtomOf, NameOperand
<1>2. CASE \E t \in Terminal : a = Dotted[t]
  <2>1. PICK t \in Terminal : a = Dotted[t]
    BY <1>2
  <2>2. Spell(a) = TerminalOperand(t)
    BY <2>1, SpellDotted
  <2>3. AtomOf(TerminalOperand(t)) = Dotted[t]
    BY DEF AtomOf, TerminalOperand
  <2> QED
    BY <2>1, <2>2, <2>3
<1>3. CASE a = Empty
  BY <1>3, SpellEmpty DEF AtomOf, EmptyOperand
<1> QED
  BY <1>1, <1>2, <1>3 DEF Atom

\* The atoms of a rule to be cut are those of what it expands to.
LEMMA AtomsOfRule ==
  ASSUME NEW rule, MadeRule(rule), Len(rule) > 2
  PROVE  /\ Len(Expand(rule)) = Len(rule) /\ DOMAIN Expand(rule) = 1..Len(rule)
         /\ \A p \in 1..Len(rule) :
              rule[p].value[1] \in Atom /\ AtomOf(Expand(rule)[p]) = rule[p].value[1]
<1>1. rule \in Rule /\ DOMAIN rule = 1..Len(rule) /\ Len(rule) \in Nat
      /\ \A p \in 1..Len(rule) : rule[p] \in Operand
  BY RuleShape DEF MadeRule
<1>2. \A p \in 1..Len(rule) : Simple(rule[p].value) /\ rule[p].type # "TERMINAL"
  BY <1>1 DEF MadeRule
<1>3. Expand(rule) = [p \in 1..Len(rule) |-> ExpandOperand(rule[p])[1]]
  BY <1>1, <1>2, ExpandSimpleRule
<1>4. \A p \in 1..Len(rule) :
        rule[p].value[1] \in Atom /\ Expand(rule)[p] = Spell(rule[p].value[1])
  BY <1>1, <1>2, <1>3, ExpandSimple
<1> QED
  BY <1>1, <1>3, <1>4, AtomOfSpell

\* The key that BIN joins from a tail is a tail's name: that of a tail of the
\* alternative the rule was cut from.
LEMMA SuffixIsMade ==
  ASSUME ExpansionInv, NEW name, name \in KeyNames, NEW rule, MadeRule(rule),
         StandsFor(name, rule), Len(rule) > 2
  PROVE  Join(Tail(rule)) \in MadeNames(raw)
<1> DEFINE m == Len(rule)
           suffix == Join(Tail(rule))
<1>1. /\ Len(Expand(rule)) = m /\ DOMAIN Expand(rule) = 1..m /\ m \in Nat
      /\ \A p \in 1..m : rule[p].value[1] \in Atom /\ AtomOf(Expand(rule)[p]) = rule[p].value[1]
  BY AtomsOfRule, RuleShape DEF MadeRule
<1>2. suffix = [p \in 1..(m - 1) |-> rule[p + 1].value[1]]
  <2>1. /\ DOMAIN rule = 1..m /\ MadeRule(Tail(rule)) /\ Len(Tail(rule)) = m - 1
        /\ \A p \in DOMAIN rule : p > 1 => rule[p] = Tail(rule)[p - 1]
    BY CutTail, RuleShape DEF MadeRule
  <2>2. DOMAIN Tail(rule) = 1..(m - 1)
    BY <2>1, RuleShape DEF MadeRule
  <2>3. ASSUME NEW p \in 1..(m - 1) PROVE Tail(rule)[p] = rule[p + 1]
    <3>1. p + 1 \in 1..m /\ p + 1 > 1 /\ (p + 1) - 1 = p
      BY <1>1
    <3> QED
      BY <2>1, <3>1
  <2> QED
    BY <2>2, <2>3 DEF Join
<1> HIDE DEF suffix, m
<1>3. m > 2
  BY DEF m
<1>4. CASE name \in SourceName
  <2>1. name \in DOMAIN raw /\ Expand(rule) \in Alternatives(raw, name)
    BY <1>4 DEF StandsFor
  <2> DEFINE src == Expand(rule)
  <2>2. \A p \in 1..(m - 1) : 1 + p \in 1..m /\ 1 + p = p + 1
    BY <1>1
  <2>3. suffix = [p \in 1..(m - 1) |-> AtomOf(src[1 + p])]
    BY <1>1, <1>2, <2>2
  <2>4. 1 \in 1..(m - 2)
    BY <1>1, <1>3
  <2> HIDE DEF src
  <2>5. Len(src) = m
    BY <1>1 DEF src
  <2>6. suffix \in TailNames(src)
    BY <2>3, <2>4, <2>5 DEF TailNames
  <2> QED
    BY <2>1, <2>6 DEF MadeNames, suffix, src
<1>5. CASE name \in TokenName
  <2>1. PICK t \in Terminal : name = <<Dotted[t]>>
    BY <1>5 DEF TokenName
  <2>2. name \notin SourceName /\ SpellName(name) = <<TerminalOperand(t)>>
    BY <2>1, SpellTokenName
  <2>3. Expand(rule) = <<TerminalOperand(t)>>
    BY <2>2 DEF StandsFor
  <2> QED
    BY <1>1, <1>3, <2>3
<1>6. CASE name \in MadeNames(raw) /\ name \notin SourceName
  <2>0. PICK top \in DOMAIN raw : \E src \in Alternatives(raw, top) : name \in TailNames(src)
    BY <1>6 DEF MadeNames
  <2>1. PICK src \in Alternatives(raw, top) : name \in TailNames(src)
    BY <2>0
  <2>2. src \in Rule /\ Len(src) \in Nat
    <3>1. src \in Seq(SourceOperand)
      BY DEF ExpansionInv, TypeOK, IsSource, Alternatives
    <3> QED
      BY <3>1, SourceRuleType, RuleShape
  <2>3. PICK n \in 1..(Len(src) - 2) : name = [p \in 1..(Len(src) - n) |-> AtomOf(src[n + p])]
    BY <2>1 DEF TailNames
  <2>4. Expand(rule) = SpellName(name)
    BY <1>6 DEF StandsFor
  <2>5. DOMAIN name = 1..(Len(src) - n) /\ DOMAIN SpellName(name) = DOMAIN name
    BY <2>3 DEF SpellName
  <2>6. m = Len(src) - n
    <3>1. Len(src) - n \in Nat
      BY <2>2
    <3> QED
      BY <1>1, <2>4, <2>5, <3>1
  <2>7. \A p \in 1..m : Expand(rule)[p] = Spell(name[p])
    BY <2>4, <2>5, <2>6 DEF SpellName
  <2>8. \A p \in 1..m : name[p] \in Atom
    <3>1. \A p \in 1..m : name[p] = AtomOf(src[n + p]) /\ n + p \in 1..Len(src)
      BY <2>2, <2>3, <2>6
    <3>2. \A x \in SourceOperand : AtomOf(x) \in Atom
      BY SpellDotted DEF SourceOperand, TerminalOperands, EmptyOperand, AtomOf, Atom
    <3>3. src \in Seq(SourceOperand)
      BY DEF ExpansionInv, TypeOK, IsSource, Alternatives
    <3> QED
      BY <3>1, <3>2, <3>3
  <2>9. \A p \in 1..m : name[p] = rule[p].value[1]
    BY <1>1, <2>7, <2>8, AtomOfSpell
  <2>10. \A p \in 1..(m - 1) :
           /\ p + 1 \in 1..m
           /\ rule[p + 1].value[1] = AtomOf(src[n + (p + 1)])
           /\ n + (p + 1) = (n + 1) + p
    BY <1>1, <2>2, <2>3, <2>6, <2>9
  <2>11. suffix = [p \in 1..(Len(src) - (n + 1)) |-> AtomOf(src[(n + 1) + p])]
    <3>1. Len(src) - (n + 1) = m - 1
      BY <2>2, <2>6
    <3> QED
      BY <1>2, <2>10, <3>1
  <2>12. n + 1 \in 1..(Len(src) - 2)
    BY <1>1, <1>3, <2>2, <2>6
  <2>13. suffix \in TailNames(src)
    BY <2>11, <2>12 DEF TailNames
  <2> QED
    BY <2>1, <2>13 DEF MadeNames, suffix
<1> QED
  BY <1>4, <1>5, <1>6 DEF KeyNames, suffix

LEMMA NamesInit == ASSUME Init PROVE NamesInv
<1>1. \A g : IsSource(g) => DOMAIN g \subseteq SourceName
  BY DEF IsSource, SourceName
<1>2. IsSource(raw)
  BY SourceAssumption DEF Init
<1> QED
  BY <1>1, <1>2, NoRulesType DEF Init, NamesInv, KeyNames, NoUnits

\* A rule of a pass adds its key, the keys of tokens or the name of a tail.
LEMMA NamesRuleStep ==
  ASSUME ExpansionInv, NamesInv, TermRule \/ BinRule \/ UniqueRule \/ NonEmptyRule
  PROVE  NamesInv'
<1> DEFINE rule == Head(pending)
<1>1. /\ pending # <<>> /\ pending' = Tail(pending) /\ stage \in Passes
      /\ UNCHANGED <<raw, rules, stage, keys, key, nullables, todo, occ, unit>>
  BY DEF TermRule, BinRule, UniqueRule, NonEmptyRule, NextRule, Passes
<1>2. KeyNames' = KeyNames
  BY <1>1 DEF KeyNames, MadeNames
<1>3. /\ rule \in Rule /\ key \in DOMAIN rules /\ rule \in Alternatives(rules, key)
  BY <1>1, PendingType DEF ExpansionInv
<1>4. key \in KeyNames
  BY <1>3 DEF NamesInv
<1>5. DOMAIN nf' \subseteq KeyNames
  <2>1. \A g, name, r : DOMAIN PushRule(g, name, r) = DOMAIN g \cup {name}
    BY DEF PushRule
  <2>2. CASE TermRule
    <3>1. DOMAIN nf' = DOMAIN nf \cup DottedNames(rule) \cup {key}
      BY <2>2 DEF TermRule, CheckRuleForTerminals
    <3>2. DottedNames(rule) \subseteq TokenName
      <4> SUFFICES ASSUME NEW p \in DOMAIN rule, rule[p].type = "TERMINAL"
                   PROVE  DottedName(rule[p]) \in TokenName
        BY DEF DottedNames
      <4> HIDE DEF rule
      <4>1. rule[p] \in Operand
        BY <1>3 DEF Rule
      <4> QED
        BY <4>1, OperandKinds DEF DottedName, TokenName
    <3> QED
      BY <1>4, <3>1, <3>2 DEF NamesInv, KeyNames
  <2>3. CASE BinRule
    <3>1. nf' = BinarizeRule(nf, key, rule) /\ stage = "BIN"
      BY <2>3 DEF BinRule, NextRule
    <3>2. CASE Len(rule) <= 2
      <4>1. DOMAIN nf' = DOMAIN nf \cup {key}
        BY <2>1, <3>1, <3>2 DEF BinarizeRule
      <4> QED
        BY <1>4, <4>1 DEF NamesInv
    <3>3. CASE ~ (Len(rule) <= 2)
      <4> DEFINE suffix == Join(Tail(rule))
                 g      == PushRule(nf, key, <<rule[1], NameOperand(suffix)>>)
      <4>0. nf' = PushRule(g, suffix, Tail(rule))
        BY <3>1, <3>3 DEF BinarizeRule
      <4>1. DOMAIN nf' = DOMAIN nf \cup {key} \cup {Join(Tail(rule))}
        <5>1. DOMAIN g = DOMAIN nf \cup {key}
          BY <2>1
        <5> HIDE DEF g, suffix, rule
        <5>2. DOMAIN nf' = DOMAIN g \cup {suffix}
          BY <2>1, <4>0
        <5> QED
          BY <5>1, <5>2 DEF suffix
      <4>2. MadeRule(rule) /\ StandsFor(key, rule)
        BY <1>3, <3>1 DEF ExpansionInv, Shape, MadeRules, ExpansionSound, ExpandsToSource
      <4>3. Len(rule) > 2
        BY <1>3, <3>3, RuleShape
      <4>4. Join(Tail(rule)) \in MadeNames(raw)
        BY <1>4, <4>2, <4>3, SuffixIsMade
      <4> QED
        BY <1>4, <4>1, <4>4 DEF NamesInv, KeyNames
    <3> QED
      BY <3>2, <3>3
  <2>4. CASE UniqueRule \/ NonEmptyRule
    <3>1. DOMAIN nf' \subseteq DOMAIN nf \cup {key}
      <4>1. nf' = nf \/ nf' = PushRule(nf, key, rule)
        BY <2>4 DEF UniqueRule, NonEmptyRule, KeepUnique, KeepNonEmpty
      <4> HIDE DEF rule
      <4>2. DOMAIN PushRule(nf, key, rule) = DOMAIN nf \cup {key}
        BY DEF PushRule
      <4> QED
        BY <4>1, <4>2
    <3> QED
      BY <1>4, <3>1 DEF NamesInv
  <2> QED
    BY <2>2, <2>3, <2>4
<1> QED
  BY <1>1, <1>2, <1>5 DEF NamesInv

LEMMA NamesStep ==
  ASSUME ExpansionInv, NamesInv, [Next]_vars
  PROVE  NamesInv'
<1>1. raw' = raw /\ KeyNames' = KeyNames
  <2>1. raw' = raw
    BY DEF Next, vars, VisitKey, TermRule, BinRule, UniqueRule, NonEmptyRule, NextRule, EndPass,
       SeedNullables, PopNullable, Propagate, GetUnitRelation
  <2> QED
    BY <2>1 DEF KeyNames, MadeNames
<1>2. CASE \E name \in keys : VisitKey(name)
  <2>1. PICK name \in keys : VisitKey(name)
    BY <1>2
  <2>2. name \in DOMAIN rules /\ UNCHANGED <<rules, unit>>
        /\ (nf' = nf \/ nf' = Declare(nf, name))
    BY <2>1 DEF VisitKey, ExpansionInv, TypeOK
  <2>3. DOMAIN nf' \subseteq DOMAIN nf \cup {name}
    BY <2>2 DEF Declare
  <2> QED
    BY <1>1, <2>2, <2>3 DEF NamesInv
<1>3. CASE TermRule \/ BinRule \/ UniqueRule \/ NonEmptyRule
  BY <1>3, NamesRuleStep
<1>4. CASE EndPass
  BY <1>1, <1>4, NoRulesType DEF EndPass, NamesInv
<1>5. CASE SeedNullables \/ (\E name \in todo : PopNullable(name)) \/ \E o \in occ : Propagate(o)
  BY <1>1, <1>5 DEF SeedNullables, PopNullable, Propagate, NamesInv
<1>6. CASE GetUnitRelation
  <2>1. DOMAIN unit' \subseteq DOMAIN rules
    BY <1>6 DEF GetUnitRelation, UnitRelation
  <2> QED
    BY <1>1, <1>6, <2>1 DEF GetUnitRelation, NamesInv
<1>7. CASE UNCHANGED vars
  BY <1>1, <1>7 DEF vars, NamesInv
<1> QED
  BY <1>2, <1>3, <1>4, <1>5, <1>6, <1>7 DEF Next

-----------------------------------------------------------------------------
(* What names and rules derive.                                             *)

\* Places where the operands of a rule meet.
Cuts(facts, w, rule, cut, from, to) ==
  /\ cut[0] = from
  /\ cut[Len(rule)] = to
  /\ \A p \in 1..Len(rule) : OperandSpans(facts, w, rule[p], cut[p - 1], cut[p])

\* A rule spans what its operands span between such places.
LEMMA SpansCuts ==
  ASSUME NEW S, NEW facts, NEW w, NEW rule \in Seq(S), NEW from \in Nat, NEW to \in Nat,
         from <= to
  PROVE  RuleSpans(facts, w, rule, from, to) <=>
           \E cut \in [0..Len(rule) -> from..to] : Cuts(facts, w, rule, cut, from, to)
<1> DEFINE m == Len(rule)
<1>1. m \in Nat /\ DOMAIN rule = 1..m /\ (m = 0 <=> rule = <<>>)
  OBVIOUS
<1>2. ASSUME NEW inner \in [1..(m - 1) -> from..to], m # 0,
             \A p \in DOMAIN rule :
               OperandSpans(facts, w, rule[p],
                 IF p - 1 = 0 THEN from ELSE IF p - 1 = m THEN to ELSE inner[p - 1],
                 IF p = 0 THEN from ELSE IF p = m THEN to ELSE inner[p])
      PROVE  \E cut \in [0..m -> from..to] : Cuts(facts, w, rule, cut, from, to)
  <2> DEFINE cut == [p \in 0..m |-> IF p = 0 THEN from ELSE IF p = m THEN to ELSE inner[p]]
  <2>1. cut \in [0..m -> from..to]
    BY <1>1, <1>2
  <2>2. cut[0] = from /\ cut[m] = to
    BY <1>1, <1>2
  <2>3. \A p \in 1..m : OperandSpans(facts, w, rule[p], cut[p - 1], cut[p])
    <3> SUFFICES ASSUME NEW p \in 1..m
                 PROVE  OperandSpans(facts, w, rule[p], cut[p - 1], cut[p])
      OBVIOUS
    <3>1. cut[p - 1] = IF p - 1 = 0 THEN from ELSE IF p - 1 = m THEN to ELSE inner[p - 1]
      <4>1. p - 1 \in 0..m
        BY <1>1
      <4> QED
        BY <4>1
    <3>3. cut[p] = IF p = 0 THEN from ELSE IF p = m THEN to ELSE inner[p]
      <4>1. p \in 0..m
        BY <1>1
      <4> QED
        BY <4>1
    <3>2. p \in DOMAIN rule
      BY <1>1
    <3> HIDE DEF cut, m
    <3> QED
      BY <1>2, <3>1, <3>2, <3>3
  <2> HIDE DEF cut
  <2>4. Cuts(facts, w, rule, cut, from, to)
    BY <2>2, <2>3 DEF Cuts
  <2> QED
    BY <2>1, <2>4
<1>3. ASSUME NEW cut \in [0..m -> from..to], Cuts(facts, w, rule, cut, from, to), m # 0
      PROVE  \E inner \in [1..(m - 1) -> from..to] :
               \A p \in DOMAIN rule :
                 OperandSpans(facts, w, rule[p],
                   IF p - 1 = 0 THEN from ELSE IF p - 1 = m THEN to ELSE inner[p - 1],
                   IF p = 0 THEN from ELSE IF p = m THEN to ELSE inner[p])
  <2> DEFINE inner == [p \in 1..(m - 1) |-> cut[p]]
  <2>1. inner \in [1..(m - 1) -> from..to]
    BY <1>1
  <2>2. ASSUME NEW p \in DOMAIN rule
        PROVE  OperandSpans(facts, w, rule[p],
                 IF p - 1 = 0 THEN from ELSE IF p - 1 = m THEN to ELSE inner[p - 1],
                 IF p = 0 THEN from ELSE IF p = m THEN to ELSE inner[p])
    <3>0. cut[0] = from /\ cut[m] = to
      BY <1>3 DEF Cuts
    <3>1. cut[p - 1] = IF p - 1 = 0 THEN from ELSE IF p - 1 = m THEN to ELSE inner[p - 1]
      <4>1. p - 1 # 0 => p - 1 \in 1..(m - 1)
        BY <1>1
      <4>2. p - 1 # 0 => inner[p - 1] = cut[p - 1]
        BY <4>1
      <4>3. p - 1 # m
        BY <1>1
      <4> HIDE DEF inner, m
      <4> QED
        BY <3>0, <4>2, <4>3
    <3>3. cut[p] = IF p = 0 THEN from ELSE IF p = m THEN to ELSE inner[p]
      <4>1. p # m => p \in 1..(m - 1)
        BY <1>1
      <4>2. p # m => inner[p] = cut[p]
        BY <4>1
      <4>3. p # 0
        BY <1>1
      <4> HIDE DEF inner, m
      <4> QED
        BY <3>0, <4>2, <4>3
    <3>2. OperandSpans(facts, w, rule[p], cut[p - 1], cut[p])
      BY <1>1, <1>3 DEF Cuts
    <3> HIDE DEF inner, m
    <3> QED
      BY <3>1, <3>2, <3>3
  <2> QED
    BY <2>1, <2>2
<1>4. CASE rule = <<>>
  <2>1. ASSUME from = to
        PROVE  \E cut \in [0..m -> from..to] : Cuts(facts, w, rule, cut, from, to)
    <3> DEFINE cut == [p \in 0..m |-> from]
    <3>1. cut \in [0..m -> from..to] /\ cut[0] = from /\ cut[m] = to /\ 1..m = {}
      BY <1>1, <1>4, <2>1
    <3> HIDE DEF cut
    <3>2. Cuts(facts, w, rule, cut, from, to)
      BY <3>1 DEF Cuts
    <3> QED
      BY <3>1, <3>2
  <2>2. ASSUME NEW cut \in [0..m -> from..to], Cuts(facts, w, rule, cut, from, to)
        PROVE  from = to
    BY <1>1, <1>4, <2>2 DEF Cuts
  <2>3. RuleSpans(facts, w, rule, from, to) <=> from = to
    BY <1>4 DEF RuleSpans
  <2> QED
    BY <2>1, <2>2, <2>3
<1>5. CASE rule # <<>>
  <2>1. RuleSpans(facts, w, rule, from, to) <=>
          \E inner \in [1..(m - 1) -> from..to] :
            \A p \in DOMAIN rule :
              OperandSpans(facts, w, rule[p],
                IF p - 1 = 0 THEN from ELSE IF p - 1 = m THEN to ELSE inner[p - 1],
                IF p = 0 THEN from ELSE IF p = m THEN to ELSE inner[p])
    BY <1>5 DEF RuleSpans
  <2> HIDE DEF m
  <2> QED
    BY <1>1, <1>2, <1>3, <1>5, <2>1 DEF m
<1> QED
  BY <1>4, <1>5

\* A rule of one operand.
LEMMA SpansOne ==
  ASSUME NEW facts, NEW w, NEW x, NEW from \in Nat, NEW to \in Nat, from <= to
  PROVE  RuleSpans(facts, w, <<x>>, from, to) <=> OperandSpans(facts, w, x, from, to)
<1>1. <<x>> # <<>> /\ Len(<<x>>) = 1 /\ DOMAIN <<x>> = {1} /\ <<x>>[1] = x
  OBVIOUS
<1>2. PICK one : one \in [1..(1 - 1) -> from..to]
  <2>1. [p \in 1..(1 - 1) |-> from] \in [1..(1 - 1) -> from..to]
    OBVIOUS
  <2> QED
    BY <2>1
<1>3. RuleSpans(facts, w, <<x>>, from, to) <=>
        \E inner \in [1..(1 - 1) -> from..to] :
          \A p \in {1} :
            OperandSpans(facts, w, <<x>>[p],
              IF p - 1 = 0 THEN from ELSE IF p - 1 = 1 THEN to ELSE inner[p - 1],
              IF p = 0 THEN from ELSE IF p = 1 THEN to ELSE inner[p])
  BY <1>1 DEF RuleSpans
<1>4. RuleSpans(facts, w, <<x>>, from, to) <=>
        \E inner \in [1..(1 - 1) -> from..to] : OperandSpans(facts, w, <<x>>[1], from, to)
  <2>1. 1 - 1 = 0 /\ 1 # 0
    OBVIOUS
  <2> QED
    BY <1>3, <2>1
<1> QED
  BY <1>1, <1>2, <1>4

\* Two parts of a rule span what they span side by side.
LEMMA SpansConcat ==
  ASSUME NEW S, NEW facts, NEW w, NEW r \in Seq(S), NEW s \in Seq(S),
         NEW from \in Nat, NEW mid \in Nat, NEW to \in Nat, from <= mid, mid <= to,
         RuleSpans(facts, w, r, from, mid), RuleSpans(facts, w, s, mid, to)
  PROVE  RuleSpans(facts, w, r \o s, from, to)
<1> DEFINE m == Len(r)
           n == Len(s)
<1>1. /\ m \in Nat /\ n \in Nat /\ r \o s \in Seq(S) /\ Len(r \o s) = m + n
      /\ \A p \in 1..m : (r \o s)[p] = r[p]
      /\ \A p \in 1..n : (r \o s)[m + p] = s[p]
  OBVIOUS
<1>2. PICK a \in [0..m -> from..mid] : Cuts(facts, w, r, a, from, mid)
  BY SpansCuts
<1>3. PICK b \in [0..n -> mid..to] : Cuts(facts, w, s, b, mid, to)
  BY SpansCuts
<1> DEFINE cut == [p \in 0..(m + n) |-> IF p <= m THEN a[p] ELSE b[p - m]]
<1>4. cut \in [0..(m + n) -> from..to]
  <2> SUFFICES ASSUME NEW p \in 0..(m + n)
               PROVE  (IF p <= m THEN a[p] ELSE b[p - m]) \in from..to
    OBVIOUS
  <2>1. CASE p <= m
    <3>1. p \in 0..m
      BY <1>1, <2>1
    <3>2. a[p] \in from..mid
      BY <3>1
    <3> QED
      BY <2>1, <3>2
  <2>2. CASE ~ (p <= m)
    <3>1. p - m \in 0..n
      BY <1>1, <2>2
    <3>2. b[p - m] \in mid..to
      BY <3>1
    <3> QED
      BY <2>2, <3>2
  <2> QED
    BY <2>1, <2>2
<1>5. \A p \in 0..m : cut[p] = a[p]
  BY <1>1
<1>6. \A p \in 0..n : cut[m + p] = b[p]
  <2> SUFFICES ASSUME NEW p \in 0..n PROVE cut[m + p] = b[p]
    OBVIOUS
  <2>1. CASE p = 0
    <3>1. a[m] = mid /\ b[0] = mid
      BY <1>2, <1>3 DEF Cuts
    <3>2. m + p = m /\ m \in 0..(m + n)
      BY <1>1, <2>1
    <3> QED
      BY <1>1, <2>1, <3>1, <3>2
  <2>2. CASE p # 0
    <3>1. m + p \in 0..(m + n) /\ ~ (m + p <= m) /\ (m + p) - m = p
      BY <1>1, <2>2
    <3> QED
      BY <3>1
  <2> QED
    BY <2>1, <2>2
<1> HIDE DEF cut
<1>7. cut[0] = from /\ cut[m + n] = to
  BY <1>1, <1>2, <1>3, <1>5, <1>6 DEF Cuts
<1>8. ASSUME NEW p \in 1..(m + n)
      PROVE  OperandSpans(facts, w, (r \o s)[p], cut[p - 1], cut[p])
  <2>1. CASE p <= m
    <3>1. p \in 1..m /\ p \in 0..m /\ p - 1 \in 0..m
      BY <1>1, <2>1
    <3>2. OperandSpans(facts, w, r[p], a[p - 1], a[p])
      BY <1>2, <3>1 DEF Cuts
    <3> QED
      BY <1>1, <1>5, <3>1, <3>2
  <2>2. CASE ~ (p <= m)
    <3> DEFINE q == p - m
    <3>1. q \in 1..n /\ q \in 0..n /\ q - 1 \in 0..n /\ m + q = p /\ m + (q - 1) = p - 1
      BY <1>1, <2>2
    <3> HIDE DEF q
    <3>2. OperandSpans(facts, w, s[q], b[q - 1], b[q])
      BY <1>3, <3>1 DEF Cuts
    <3>3. (r \o s)[p] = s[q] /\ cut[p] = b[q] /\ cut[p - 1] = b[q - 1]
      BY <1>1, <1>6, <3>1
    <3> QED
      BY <3>2, <3>3
  <2> QED
    BY <2>1, <2>2
<1>9. Cuts(facts, w, r \o s, cut, from, to)
  BY <1>1, <1>7, <1>8 DEF Cuts
<1>10. \E c \in [0..Len(r \o s) -> from..to] : Cuts(facts, w, r \o s, c, from, to)
  BY <1>1, <1>4, <1>9
<1>11. from <= to
  OBVIOUS
<1>12. \A t \in Seq(S) :
         RuleSpans(facts, w, t, from, to) <=>
           \E c \in [0..Len(t) -> from..to] : Cuts(facts, w, t, c, from, to)
  BY <1>11, SpansCuts
<1> QED
  BY <1>1, <1>10, <1>12

\* Where every operand takes a token or more the places go up.
LEMMA Rising ==
  ASSUME NEW m \in Nat, NEW cut \in [0..m -> Nat], \A p \in 1..m : cut[p - 1] < cut[p],
         NEW p \in 0..m, NEW q \in 0..m, p < q
  PROVE  cut[p] < cut[q]
<1> DEFINE S == {n \in Nat : p + n + 1 <= m => cut[p] < cut[p + n + 1]}
<1>1. 0 \in S
  <2> SUFFICES ASSUME p + 0 + 1 <= m PROVE cut[p] < cut[p + 0 + 1]
    OBVIOUS
  <2>1. p + 1 \in 1..m /\ (p + 1) - 1 = p /\ p + 0 + 1 = p + 1
    OBVIOUS
  <2> QED
    BY <2>1
<1>2. ASSUME NEW n \in Nat, n \in S PROVE n + 1 \in S
  <2> SUFFICES ASSUME p + (n + 1) + 1 <= m PROVE cut[p] < cut[p + (n + 1) + 1]
    OBVIOUS
  <2>1. cut[p] < cut[p + n + 1]
    BY <1>2
  <2> DEFINE o == p + (n + 1) + 1
  <2>2. o \in 1..m /\ o - 1 = p + n + 1 /\ o - 1 \in 0..m /\ o \in 0..m
    OBVIOUS
  <2> HIDE DEF o
  <2>3. cut[o - 1] < cut[o] /\ cut[p] \in Nat /\ cut[o - 1] \in Nat /\ cut[o] \in Nat
    BY <2>2
  <2> QED
    BY <2>1, <2>2, <2>3 DEF o
<1> HIDE DEF S
<1>3. Nat \subseteq S
  BY <1>1, <1>2, AllNat
<1>4. PICK n \in Nat : p + n + 1 = q
  <2>1. q - p - 1 \in Nat /\ p + (q - p - 1) + 1 = q
    OBVIOUS
  <2> QED
    BY <2>1
<1>5. n \in S /\ p + n + 1 <= m
  BY <1>3, <1>4
<1> QED
  BY <1>4, <1>5 DEF S

\* A rule that spans tokens between two places, each operand one or more, spans
\* them in two parts.
LEMMA SpansSplit ==
  ASSUME NEW S, NEW facts, NEW w, NEW r \in Seq(S), NEW s \in Seq(S), r # <<>>, s # <<>>,
         NEW from \in Nat, NEW to \in Nat, from <= to,
         \A x \in S : \A i, j \in from..to : OperandSpans(facts, w, x, i, j) => i < j,
         RuleSpans(facts, w, r \o s, from, to)
  PROVE  \E mid \in from..to : /\ from < mid /\ mid < to
                               /\ RuleSpans(facts, w, r, from, mid)
                               /\ RuleSpans(facts, w, s, mid, to)
<1> DEFINE m == Len(r)
           n == Len(s)
<1>1. /\ m \in Nat \ {0} /\ n \in Nat \ {0} /\ r \o s \in Seq(S) /\ Len(r \o s) = m + n
      /\ \A p \in 1..m : (r \o s)[p] = r[p]
      /\ \A p \in 1..n : (r \o s)[m + p] = s[p]
      /\ \A p \in 1..(m + n) : (r \o s)[p] \in S
  <2>1. r \o s \in Seq(S) /\ Len(r \o s) = m + n /\ m \in Nat \ {0} /\ n \in Nat \ {0}
    OBVIOUS
  <2> HIDE DEF m, n
  <2>2. \A p \in 1..(m + n) : (r \o s)[p] \in S
    BY <2>1
  <2> QED
    BY <2>1, <2>2 DEF m, n
<1>2. PICK c \in [0..(m + n) -> from..to] : Cuts(facts, w, r \o s, c, from, to)
  <2>1. \A t \in Seq(S) :
          RuleSpans(facts, w, t, from, to) <=>
            \E c \in [0..Len(t) -> from..to] : Cuts(facts, w, t, c, from, to)
    BY SpansCuts
  <2> QED
    BY <1>1, <2>1
<1>3. /\ c[0] = from /\ c[m + n] = to
      /\ \A p \in 1..(m + n) : OperandSpans(facts, w, (r \o s)[p], c[p - 1], c[p])
  BY <1>1, <1>2 DEF Cuts
<1> HIDE DEF m, n
<1>4. \A p \in 0..(m + n) : c[p] \in from..to /\ c[p] \in Nat
  BY <1>2
<1>5. \A p \in 1..(m + n) : c[p - 1] < c[p]
  <2> TAKE p \in 1..(m + n)
  <2>1. p - 1 \in 0..(m + n) /\ p \in 0..(m + n)
    BY <1>1
  <2> QED
    BY <1>1, <1>3, <1>4, <2>1
<1>6. \A p, q \in 0..(m + n) : p < q => c[p] < c[q]
  <2>1. m + n \in Nat /\ c \in [0..(m + n) -> Nat]
    BY <1>1, <1>2, <1>4
  <2> QED
    BY <1>5, <2>1, Rising
<1> DEFINE mid == c[m]
           a   == [p \in 0..m |-> c[p]]
           b   == [p \in 0..n |-> c[m + p]]
<1>7. mid \in from..to /\ mid \in Nat /\ from < mid /\ mid < to
  <2>1. m \in 0..(m + n) /\ 0 \in 0..(m + n) /\ m + n \in 0..(m + n) /\ 0 < m /\ m < m + n
    BY <1>1
  <2> QED
    BY <1>3, <1>4, <1>6, <2>1
<1>8. RuleSpans(facts, w, r, from, mid)
  <2>1. a \in [0..m -> from..mid]
    <3> SUFFICES ASSUME NEW p \in 0..m PROVE c[p] \in from..mid
      OBVIOUS
    <3>1. p \in 0..(m + n) /\ m \in 0..(m + n) /\ (p = m \/ p < m)
      BY <1>1
    <3> QED
      BY <1>4, <1>6, <3>1
  <2>2. a[0] = from /\ a[m] = mid
    BY <1>1, <1>3
  <2>3. \A p \in 1..m : OperandSpans(facts, w, r[p], a[p - 1], a[p])
    <3> TAKE p \in 1..m
    <3>1. p \in 0..m /\ p - 1 \in 0..m /\ p \in 1..(m + n)
      BY <1>1
    <3>2. a[p] = c[p] /\ a[p - 1] = c[p - 1]
      BY <3>1
    <3> QED
      BY <1>1, <1>3, <3>1, <3>2
  <2> HIDE DEF a, mid
  <2>4. Cuts(facts, w, r, a, from, mid)
    BY <2>2, <2>3 DEF Cuts, m
  <2>5. \E x \in [0..Len(r) -> from..mid] : Cuts(facts, w, r, x, from, mid)
    BY <2>1, <2>4 DEF m
  <2>6. from <= mid
    BY <1>7
  <2> QED
    BY <1>7, <2>5, <2>6, SpansCuts
<1>9. RuleSpans(facts, w, s, mid, to)
  <2>1. b \in [0..n -> mid..to]
    <3> SUFFICES ASSUME NEW p \in 0..n PROVE c[m + p] \in mid..to
      OBVIOUS
    <3>1. m + p \in 0..(m + n) /\ m \in 0..(m + n) /\ (m + p = m \/ m < m + p)
      BY <1>1
    <3> QED
      BY <1>4, <1>6, <3>1
  <2>2. b[0] = mid /\ b[n] = to
    BY <1>1, <1>3
  <2>3. \A p \in 1..n : OperandSpans(facts, w, s[p], b[p - 1], b[p])
    <3> TAKE p \in 1..n
    <3>1. p \in 0..n /\ p - 1 \in 0..n /\ m + p \in 1..(m + n) /\ (m + p) - 1 = m + (p - 1)
      BY <1>1
    <3>2. b[p] = c[m + p] /\ b[p - 1] = c[m + (p - 1)]
      BY <3>1
    <3>3. OperandSpans(facts, w, (r \o s)[m + p], c[(m + p) - 1], c[m + p])
      BY <1>3, <3>1
    <3>4. (r \o s)[m + p] = s[p]
      BY <1>1
    <3> HIDE DEF b
    <3> QED
      BY <3>1, <3>2, <3>3, <3>4
  <2> HIDE DEF b, mid
  <2>4. Cuts(facts, w, s, b, mid, to)
    BY <2>2, <2>3 DEF Cuts, n
  <2>5. \E x \in [0..Len(s) -> mid..to] : Cuts(facts, w, s, x, mid, to)
    BY <2>1, <2>4 DEF n
  <2>6. mid <= to
    BY <1>7
  <2> QED
    BY <1>7, <2>5, <2>6, SpansCuts
<1> QED
  BY <1>7, <1>8, <1>9

\* Facts about a word that the rules of a grammar add nothing to.
Closed(g, w, facts) == facts \subseteq Facts(g, w) /\ Following(g, w, facts) \subseteq facts

\* What a name stands for spans the tokens from a place on up to another.
Spans(w, facts, name, from, to) == RuleSpans(facts, w, SpellName(name), from, to)

\* An author's name spans what is a fact about it.
LEMMA SourceSpans ==
  ASSUME NEW w, NEW facts, NEW name \in SourceName, NEW from \in Nat, NEW to \in Nat, from <= to
  PROVE  Spans(w, facts, name, from, to) <=> <<name, from, to>> \in facts
<1>1. PICK A \in NonTerminal : name = <<A>>
  BY DEF SourceName
<1>2. SpellName(name) = <<NameOperand(name)>>
  <2>1. SpellName(<<A>>) = <<Spell(A)>>
    BY DEF SpellName
  <2> QED
    BY <1>1, <2>1, SpellNonTerminal
<1>3. OperandSpans(facts, w, NameOperand(name), from, to) <=> <<name, from, to>> \in facts
  BY DEF OperandSpans, NameOperand
<1> QED
  BY <1>2, <1>3, SpansOne DEF Spans

\* A rule that stands for what its name stands for gives the name its own spans.
LEMMA RuleMeans ==
  ASSUME NEW w \in Seq(Terminal), NEW facts, Closed(raw, w, facts),
         NEW name, NEW rule, StandsFor(name, rule),
         NEW from \in 0..Len(w), NEW to \in 0..Len(w), from <= to,
         RuleSpans(facts, w, Expand(rule), from, to)
  PROVE  Spans(w, facts, name, from, to)
<1>1. CASE name \in SourceName
  <2>1. name \in DOMAIN raw /\ Expand(rule) \in Alternatives(raw, name)
    BY <1>1 DEF StandsFor
  <2> DEFINE f == <<name, from, to>>
  <2>2. f \in (DOMAIN raw) \X (0..Len(w)) \X (0..Len(w)) /\ f[1] = name /\ f[2] = from /\ f[3] = to
    BY <2>1
  <2> HIDE DEF f
  <2>3. f \in Facts(raw, w)
    BY <2>2 DEF Facts
  <2>4. f \in Following(raw, w, facts)
    BY <2>1, <2>2, <2>3 DEF Following
  <2>5. f \in facts
    BY <2>4 DEF Closed
  <2> QED
    BY <1>1, <2>5, SourceSpans DEF f
<1>2. CASE name \notin SourceName
  BY <1>2 DEF StandsFor, Spans
<1> QED
  BY <1>1, <1>2

\* Operands other than tokens expand to what their values spell.
LEMMA OperandSpelled ==
  ASSUME NEW x \in Operand, x.type # "TERMINAL"
  PROVE  ExpandOperand(x) = SpellName(x.value) /\ ExpandOperand(x) \in Seq(SourceOperand)
<1>1. ExpandOperand(x) = SpellName(x.value)
  <2>1. CASE x.type = "NONTERMINAL"
    BY <2>1 DEF ExpandOperand
  <2>2. CASE x.type = "EMPTY"
    <3>1. SpellName(<<Empty>>) = <<Spell(Empty)>>
      BY DEF SpellName
    <3>2. x = EmptyOperand /\ x.value = <<Empty>>
      BY <2>2, OperandKinds
    <3> QED
      BY <2>2, <3>1, <3>2, SpellEmpty DEF ExpandOperand
  <2> QED
    BY <2>1, <2>2, OperandKinds
<1>2. x.value \in Seq(Atom)
  <2>1. CASE x.type = "NONTERMINAL"
    BY <2>1, OperandKinds DEF Name
  <2>2. CASE x.type = "EMPTY"
    <3>1. x.value = <<Empty>> /\ Empty \in Atom
      BY <2>2, OperandKinds DEF Atom
    <3> QED
      BY <3>1
  <2> QED
    BY <2>1, <2>2, OperandKinds
<1>3. \A a \in Atom : Spell(a) \in SourceOperand
  <2> SUFFICES ASSUME NEW a \in Atom PROVE Spell(a) \in SourceOperand
    OBVIOUS
  <2>1. CASE a \in NonTerminal
    BY <2>1, SpellNonTerminal DEF NameOperand, SourceOperand
  <2>2. CASE a = Empty
    BY <2>2, SpellEmpty DEF SourceOperand
  <2>3. CASE \E t \in Terminal : a = Dotted[t]
    <3>1. PICK t \in Terminal : a = Dotted[t]
      BY <2>3
    <3>2. Spell(a) = TerminalOperand(t)
      BY <3>1, SpellDotted
    <3> QED
      BY <3>2 DEF TerminalOperand, TerminalOperands, SourceOperand
  <2> QED
    BY <2>1, <2>2, <2>3 DEF Atom
<1>4. SpellName(x.value) = [p \in 1..Len(x.value) |-> Spell(x.value[p])]
  BY <1>2 DEF SpellName
<1>5. SpellName(x.value) \in Seq(SourceOperand)
  BY <1>2, <1>3, <1>4
<1> QED
  BY <1>1, <1>5

\* The expansion of one operand or two.
LEMMA ExpandShort ==
  ASSUME NEW rule, MadeRule(rule)
  PROVE  /\ Len(rule) = 1 => Expand(rule) = ExpandOperand(rule[1])
         /\ Len(rule) = 2 => Expand(rule) = ExpandOperand(rule[1]) \o ExpandOperand(rule[2])
<1>1. ASSUME Len(rule) = 1 PROVE Expand(rule) = ExpandOperand(rule[1])
  <2>1. rule \in Rule /\ DOMAIN rule = {1} /\ rule[1] \in Operand
    BY <1>1, RuleShape DEF MadeRule
  <2>2. Simple(rule[1].value) /\ \A p \in DOMAIN rule : Simple(rule[p].value)
    BY <1>1, <2>1 DEF MadeRule
  <2>3. Expand(rule) = [p \in {1} |-> ExpandOperand(rule[p])[1]]
    BY <2>1, <2>2, ExpandSimpleRule
  <2>4. Expand(rule) = <<ExpandOperand(rule[1])[1]>>
    BY <2>3
  <2> QED
    BY <2>1, <2>2, <2>4, ExpandSimple
<1> QED
  BY <1>1 DEF Expand

\* A key that getnullables marks spans no token at all.
LEMMA NullablesMean ==
  ASSUME ExpansionInv, NullablesSound, stage = "PROPAGATE",
         NEW w \in Seq(Terminal), NEW facts, Closed(raw, w, facts)
  PROVE  \A name \in nullables : \A from \in 0..Len(w) : Spans(w, facts, name, from, from)
<1> DEFINE N == {name \in DOMAIN rules : \A from \in 0..Len(w) : Spans(w, facts, name, from, from)}
<1>1. ClosedUnderNullability(rules, N)
  <2> SUFFICES ASSUME NEW name \in DOMAIN rules, NEW rule \in Alternatives(rules, name),
                      rule # <<>>,
                      \A p \in DOMAIN rule :
                        \/ rule[p].type = "EMPTY"
                        \/ rule[p].type = "NONTERMINAL" /\ rule[p].value \in N,
                      NEW from \in 0..Len(w)
               PROVE  Spans(w, facts, name, from, from)
    BY DEF ClosedUnderNullability
  <2>1. MadeRule(rule) /\ StandsFor(name, rule)
    BY DEF ExpansionInv, Shape, MadeRules, ExpansionSound, ExpandsToSource
  <2>2. /\ rule \in Rule /\ DOMAIN rule = 1..Len(rule) /\ Len(rule) \in Nat
        /\ \A p \in DOMAIN rule : rule[p] \in Operand
    BY <2>1, RuleShape DEF MadeRule
  <2>3. Len(rule) \in {1, 2}
    <3>1. Len(rule) <= 2
      BY BinaryNow DEF BinaryForm, AfterBin, Done
    <3> QED
      BY <2>2, <3>1
  <2>4. ASSUME NEW p \in DOMAIN rule
        PROVE  /\ ExpandOperand(rule[p]) \in Seq(SourceOperand)
               /\ RuleSpans(facts, w, ExpandOperand(rule[p]), from, from)
    <3>1. ExpandOperand(rule[p]) \in Seq(SourceOperand)
      BY <2>2, OperandSpelled
    <3>2. CASE rule[p].type = "EMPTY"
      <4>1. ExpandOperand(rule[p]) = <<rule[p]>>
        BY <3>2 DEF ExpandOperand
      <4>2. OperandSpans(facts, w, rule[p], from, from)
        BY <3>2 DEF OperandSpans
      <4> QED
        BY <3>1, <4>1, <4>2, SpansOne
    <3>3. CASE rule[p].type = "NONTERMINAL" /\ rule[p].value \in N
      BY <3>1, <3>3 DEF ExpandOperand, Spans
    <3> QED
      BY <3>2, <3>3
  <2>5. RuleSpans(facts, w, Expand(rule), from, from)
    <3>1. CASE Len(rule) = 1
      BY <2>1, <2>2, <2>4, <3>1, ExpandShort
    <3>2. CASE Len(rule) = 2
      <4>1. 1 \in DOMAIN rule /\ 2 \in DOMAIN rule
        BY <2>2, <3>2
      <4>2. Expand(rule) = ExpandOperand(rule[1]) \o ExpandOperand(rule[2])
        BY <2>1, <3>2, ExpandShort
      <4> QED
        BY <2>4, <4>1, <4>2, SpansConcat
    <3> QED
      BY <2>3, <3>1, <3>2
  <2> QED
    BY <2>1, <2>5, RuleMeans
<1>2. nullables \subseteq N
  BY <1>1 DEF NullablesSound
<1> QED
  BY <1>2

\* The unit relation only leads from a name to names that span no more: whatever
\* a unit of a name spans, the name spans.
UnitSound ==
  \A w \in Seq(Terminal) : \A facts : Closed(raw, w, facts) =>
    \A name \in DOMAIN unit : \A m \in unit[name] : \A from, to \in 0..Len(w) :
      from <= to /\ Spans(w, facts, m, from, to) => Spans(w, facts, name, from, to)

\* An operand beside one that is empty spans what the rule spans.
LEMMA UnitMeans ==
  ASSUME ExpansionInv, NullablesSound, stage = "PROPAGATE",
         NEW w \in Seq(Terminal), NEW facts, Closed(raw, w, facts),
         NEW name \in DOMAIN rules, NEW m \in UnitsOf(rules, nullables, name),
         NEW from \in 0..Len(w), NEW to \in 0..Len(w), from <= to,
         Spans(w, facts, m, from, to)
  PROVE  Spans(w, facts, name, from, to)
<1>1. PICK rule \in Alternatives(rules, name) :
        \/ Len(rule) = 1 /\ rule[1].type = "NONTERMINAL" /\ m = rule[1].value
        \/ Len(rule) = 2 /\ rule[1].value \in nullables /\ m = rule[2].value
        \/ Len(rule) = 2 /\ rule[2].value \in nullables /\ m = rule[1].value
  BY DEF UnitsOf
<1>2. MadeRule(rule) /\ StandsFor(name, rule)
  BY DEF ExpansionInv, Shape, MadeRules, ExpansionSound, ExpandsToSource
<1>3. /\ rule \in Rule /\ DOMAIN rule = 1..Len(rule) /\ Len(rule) \in Nat
      /\ \A p \in DOMAIN rule : rule[p] \in Operand
  BY <1>2, RuleShape DEF MadeRule
<1>4. ASSUME NEW p \in DOMAIN rule, rule[p].type # "TERMINAL"
      PROVE  /\ ExpandOperand(rule[p]) = SpellName(rule[p].value)
             /\ ExpandOperand(rule[p]) \in Seq(SourceOperand)
  BY <1>3, <1>4, OperandSpelled
<1>5. RuleSpans(facts, w, Expand(rule), from, to)
  <2>1. CASE Len(rule) = 1 /\ rule[1].type = "NONTERMINAL" /\ m = rule[1].value
    <3>1. 1 \in DOMAIN rule
      BY <1>3, <2>1
    <3> QED
      BY <1>2, <1>4, <2>1, <3>1, ExpandShort DEF Spans
  <2>2. CASE Len(rule) = 2
    <3>1. 1 \in DOMAIN rule /\ 2 \in DOMAIN rule
      BY <1>3, <2>2
    <3>2. rule[1].type # "TERMINAL" /\ rule[2].type # "TERMINAL"
      BY <2>2, <3>1, BinaryNow DEF BinaryForm, AfterBin, Done
    <3>3. Expand(rule) = SpellName(rule[1].value) \o SpellName(rule[2].value)
      BY <1>2, <1>4, <2>2, <3>1, <3>2, ExpandShort
    <3>4. /\ SpellName(rule[1].value) \in Seq(SourceOperand)
          /\ SpellName(rule[2].value) \in Seq(SourceOperand)
      BY <1>4, <3>1, <3>2
    <3>5. CASE rule[1].value \in nullables /\ m = rule[2].value
      <4>1. RuleSpans(facts, w, SpellName(rule[1].value), from, from)
        BY <3>5, NullablesMean DEF Spans
      <4>2. RuleSpans(facts, w, SpellName(rule[2].value), from, to)
        BY <3>5 DEF Spans
      <4> QED
        BY <3>3, <3>4, <4>1, <4>2, SpansConcat
    <3>6. CASE rule[2].value \in nullables /\ m = rule[1].value
      <4>1. RuleSpans(facts, w, SpellName(rule[2].value), to, to)
        BY <3>6, NullablesMean DEF Spans
      <4>2. RuleSpans(facts, w, SpellName(rule[1].value), from, to)
        BY <3>6 DEF Spans
      <4> QED
        BY <3>3, <3>4, <4>1, <4>2, SpansConcat
    <3> QED
      BY <1>1, <2>2, <3>5, <3>6
  <2> QED
    BY <1>1, <2>1, <2>2
<1> QED
  BY <1>2, <1>5, RuleMeans

\* The relation is made once, of the rules before the empty ones are taken out.
LEMMA UnitSoundStep ==
  ASSUME ExpansionInv, NullablesSound, UnitSound, [Next]_vars
  PROVE  UnitSound'
<1>1. raw' = raw
  BY DEF Next, vars, VisitKey, TermRule, BinRule, UniqueRule, NonEmptyRule, NextRule, EndPass,
     SeedNullables, PopNullable, Propagate, GetUnitRelation
<1>2. CASE GetUnitRelation
  <2>1. stage = "PROPAGATE" /\ unit' = UnitRelation(rules, nullables)
    BY <1>2 DEF GetUnitRelation
  <2>2. ASSUME NEW name \in DOMAIN unit'
        PROVE  name \in DOMAIN rules /\ unit'[name] = UnitsOf(rules, nullables, name)
    BY <2>1, <2>2 DEF UnitRelation
  <2> SUFFICES ASSUME NEW w \in Seq(Terminal), NEW facts, Closed(raw, w, facts),
                      NEW name \in DOMAIN unit', NEW m \in unit'[name],
                      NEW from \in 0..Len(w), NEW to \in 0..Len(w), from <= to,
                      Spans(w, facts, m, from, to)
               PROVE  Spans(w, facts, name, from, to)
    BY <1>1 DEF UnitSound
  <2> QED
    BY <2>1, <2>2, UnitMeans
<1>3. CASE ~ GetUnitRelation
  <2>1. unit' = unit
    BY <1>3 DEF Next, vars, VisitKey, TermRule, BinRule, UniqueRule, NonEmptyRule, NextRule,
       EndPass, SeedNullables, PopNullable, Propagate
  <2> QED
    BY <1>1, <2>1 DEF UnitSound
<1> QED
  BY <1>2, <1>3

-----------------------------------------------------------------------------
(* What the least fixed point of a grammar is.                              *)

\* More facts have more facts that follow.
LEMMA FollowingGrows ==
  ASSUME NEW g, IsSource(g), NEW w, NEW a, NEW b, a \subseteq b
  PROVE  Following(g, w, a) \subseteq Following(g, w, b)
<1>1. ASSUME NEW x \in SourceOperand, NEW from, NEW to, OperandSpans(a, w, x, from, to)
      PROVE  OperandSpans(b, w, x, from, to)
  <2>1. x \in Operand
    BY SourceOperandType
  <2> QED
    BY <1>1, <2>1, OperandKinds DEF OperandSpans
<1>2. ASSUME NEW rule \in Seq(SourceOperand), NEW from, NEW to, RuleSpans(a, w, rule, from, to)
      PROVE  RuleSpans(b, w, rule, from, to)
  <2>1. CASE rule = <<>>
    BY <1>2, <2>1 DEF RuleSpans
  <2>2. CASE rule # <<>>
    <3> DEFINE cut(inner, p) ==
                 IF p = 0 THEN from ELSE IF p = Len(rule) THEN to ELSE inner[p]
    <3>1. PICK inner \in [1..(Len(rule) - 1) -> from..to] :
            \A p \in DOMAIN rule :
              OperandSpans(a, w, rule[p], cut(inner, p - 1), cut(inner, p))
      BY <1>2, <2>2 DEF RuleSpans
    <3>2. \A p \in DOMAIN rule : rule[p] \in SourceOperand
      OBVIOUS
    <3>3. \A p \in DOMAIN rule :
            OperandSpans(b, w, rule[p], cut(inner, p - 1), cut(inner, p))
      <4> HIDE DEF cut
      <4> QED
        BY <1>1, <3>1, <3>2
    <3> QED
      BY <2>2, <3>3 DEF RuleSpans
  <2> QED
    BY <2>1, <2>2
<1>3. \A name \in DOMAIN g : \A rule \in Alternatives(g, name) : rule \in Seq(SourceOperand)
  BY DEF IsSource, Alternatives
<1>4. \A f \in Facts(g, w) : f[1] \in DOMAIN g
  BY DEF Facts
<1> QED
  BY <1>2, <1>3, <1>4 DEF Following

\* What the equation of Derivations says of a function.
Saturates(g, w, h) ==
  h = [facts \in SUBSET Facts(g, w) |->
         LET more == Following(g, w, facts)
         IN  IF more \subseteq facts THEN facts ELSE h[facts \cup more]]

\* Derivations takes one that solves it; the least closed sets do.
LEMMA DerivationsAre ==
  ASSUME NEW g, IsSource(g), NEW w
  PROVE  \E h : Saturates(g, w, h) /\ Derivations(g, w) = h[{}]
<1> DEFINE F == Facts(g, w)
           Closes(c, facts) == facts \subseteq c /\ Following(g, w, c) \subseteq c
           h == [facts \in SUBSET F |->
                   {x \in F : \A c \in SUBSET F : Closes(c, facts) => x \in c}]
<1>1. ASSUME NEW facts \in SUBSET F
      PROVE  h[facts] = IF Following(g, w, facts) \subseteq facts THEN facts
                        ELSE h[facts \cup Following(g, w, facts)]
  <2> DEFINE more == Following(g, w, facts)
  <2>1. more \subseteq F
    BY DEF Following
  <2>2. CASE more \subseteq facts
    BY <2>2
  <2>3. CASE ~ (more \subseteq facts)
    <3>1. \A c \in SUBSET F : Closes(c, facts) <=> Closes(c, facts \cup more)
      <4>1. ASSUME NEW c \in SUBSET F, Closes(c, facts)
            PROVE  more \subseteq c
        BY <4>1, FollowingGrows
      <4> HIDE DEF more
      <4> QED
        BY <4>1
    <3>2. facts \cup more \in SUBSET F
      BY <2>1
    <3> HIDE DEF Closes, more, F
    <3>3. h[facts] = h[facts \cup more]
      BY <3>1, <3>2
    <3> QED
      BY <2>3, <3>3 DEF more
  <2> QED
    BY <2>2, <2>3
<1>2. h = [facts \in SUBSET F |-> h[facts]]
  OBVIOUS
<1> HIDE DEF h
<1>3. Saturates(g, w, h)
  BY <1>1, <1>2, Zenon DEF Saturates
<1> DEFINE k == CHOOSE f : Saturates(g, w, f)
<1>4. Saturates(g, w, k)
  BY <1>3
<1>5. Derivations(g, w) = k[{}]
  BY DEF Derivations, Saturates
<1> QED
  BY <1>4, <1>5

\* The rules of a grammar add nothing to what it derives, and everything that
\* they add nothing to has all of it.
LEMMA DerivationsClosed ==
  ASSUME NEW g, IsSource(g), IsFiniteSet(DOMAIN g), NEW w \in Seq(Terminal)
  PROVE  /\ Closed(g, w, Derivations(g, w))
         /\ \A facts : Closed(g, w, facts) => Derivations(g, w) \subseteq facts
<1> DEFINE F == Facts(g, w)
           More(facts) == Following(g, w, facts)
<1>1. PICK h : Saturates(g, w, h) /\ Derivations(g, w) = h[{}]
  BY DerivationsAre
<1>2. IsFiniteSet(F)
  <2>1. IsFiniteSet(0..Len(w))
    BY FS_Interval
  <2>2. IsFiniteSet((DOMAIN g) \X (0..Len(w)) \X (0..Len(w)))
    <3>1. IsFiniteSet((DOMAIN g) \X (0..Len(w)))
      BY <2>1, FS_Product
    <3>2. IsFiniteSet(((DOMAIN g) \X (0..Len(w))) \X (0..Len(w)))
      BY <2>1, <3>1, FS_Product
    <3> DEFINE T3 == (DOMAIN g) \X (0..Len(w)) \X (0..Len(w))
               D2 == ((DOMAIN g) \X (0..Len(w))) \X (0..Len(w))
               flat == [d \in D2 |-> <<d[1][1], d[1][2], d[2]>>]
    <3>3. flat \in Surjection(D2, T3)
      <4>1. flat \in [D2 -> T3]
        OBVIOUS
      <4>2. ASSUME NEW x \in T3 PROVE \E d \in D2 : flat[d] = x
        <5>1. <<<<x[1], x[2]>>, x[3]>> \in D2 /\ x = <<x[1], x[2], x[3]>>
          OBVIOUS
        <5> QED
          BY <5>1
      <4> QED
        BY <4>1, <4>2 DEF Surjection
    <3> HIDE DEF flat, D2, T3
    <3>4. IsFiniteSet(T3)
      BY <3>2, <3>3, FS_Surjection DEF D2
    <3> QED
      BY <3>4 DEF T3
  <2> QED
    BY <2>2, FS_Subset DEF Facts
<1>3. \A facts \in SUBSET F :
        h[facts] = IF More(facts) \subseteq facts THEN facts ELSE h[facts \cup More(facts)]
  BY <1>1 DEF Saturates
<1> DEFINE Sets == SUBSET F
           left == [facts \in Sets |-> Cardinality(F \ facts)]
           Within(facts) ==
             \A c \in SUBSET F : facts \subseteq c /\ More(c) \subseteq c => h[facts] \subseteq c
           Good(facts) == /\ h[facts] \in SUBSET F /\ More(h[facts]) \subseteq h[facts]
                          /\ Within(facts)
           S == {n \in Nat : \A facts \in Sets : left[facts] < n => Good(facts)}
<1>4. \A facts \in Sets : /\ IsFiniteSet(F \ facts)
                              /\ left[facts] = Cardinality(F \ facts)
                              /\ left[facts] \in Nat
  <2> HIDE DEF F
  <2> QED
    BY <1>2, FS_Difference, FS_CardinalityType
<1> HIDE DEF left, F, Sets
<1>4a. \A facts \in Sets : left[facts] \in Nat
  BY <1>4
<1>5. 0 \in S
  <2> HIDE DEF Good
  <2> QED
    BY <1>4a
<1>6. ASSUME NEW n \in Nat, n \in S PROVE n + 1 \in S
  <2> SUFFICES ASSUME NEW facts \in Sets, left[facts] < n + 1
               PROVE  Good(facts)
    OBVIOUS
  <2>1. CASE More(facts) \subseteq facts
    BY <1>3, <2>1 DEF Sets
  <2>2. CASE ~ (More(facts) \subseteq facts)
    <3> DEFINE more == facts \cup More(facts)
    <3>1. more \in Sets
      BY DEF Following, F, Sets
    <3>2. F \ more \subseteq F \ facts /\ F \ more # F \ facts
      BY <2>2 DEF Following, F, Sets
    <3>3. h[facts] = h[more]
      BY <1>3, <2>2 DEF Sets
    <3>7. \A c \in SUBSET F : facts \subseteq c /\ More(c) \subseteq c => more \subseteq c
      <4> SUFFICES ASSUME NEW c \in SUBSET F, facts \subseteq c, More(c) \subseteq c
                   PROVE  More(facts) \subseteq c
        OBVIOUS
      <4> QED
        BY FollowingGrows
    <3> HIDE DEF more, More
    <3>4. left[more] < left[facts]
      <4>1. /\ Cardinality(F \ more) <= Cardinality(F \ facts)
            /\ Cardinality(F \ facts) # Cardinality(F \ more)
        BY <1>4, <3>2, FS_Subset
      <4> QED
        BY <1>4, <3>1, <4>1
    <3>5. left[more] < n
      BY <1>4a, <3>1, <3>4
    <3>6. Good(more)
      BY <1>6, <3>1, <3>5 DEF More
    <3>8. Within(facts)
      BY <3>3, <3>6, <3>7
    <3> QED
      BY <3>3, <3>6, <3>8
  <2> QED
    BY <2>1, <2>2
<1> HIDE DEF S
<1>7. Nat \subseteq S
  BY <1>5, <1>6, AllNat
<1>8. Good({})
  <2>1. {} \in Sets
    BY DEF Sets
  <2>2. left[{}] + 1 \in Nat /\ left[{}] < left[{}] + 1
    BY <1>4a, <2>1
  <2> QED
    BY <1>7, <2>1, <2>2 DEF S
<1>9. Closed(g, w, Derivations(g, w))
  BY <1>1, <1>8 DEF Closed, F, Following
<1>10. ASSUME NEW facts, Closed(g, w, facts)
       PROVE  Derivations(g, w) \subseteq facts
  <2>1. facts \in SUBSET F /\ {} \subseteq facts /\ More(facts) \subseteq facts
    BY <1>10 DEF Closed, F
  <2> QED
    BY <1>1, <1>8, <2>1
<1> QED
  BY <1>9, <1>10

-----------------------------------------------------------------------------
(* What the parser reads of a normal form.                                  *)

\* A token's rule gives its name the token.
LEMMA TokenMeans ==
  ASSUME ExpansionInv, stage = "DONE", NEW w \in Seq(Terminal), NEW facts, Closed(raw, w, facts),
         NEW name \in DOMAIN rules, NEW y \in 0..(Len(w) - 1),
         <<TerminalOperand(w[y + 1])>> \in Alternatives(rules, name)
  PROVE  Spans(w, facts, name, y, y + 1)
<1> DEFINE rule == <<TerminalOperand(w[y + 1])>>
<1>1. MadeRule(rule) /\ StandsFor(name, rule)
  BY DEF ExpansionInv, Shape, MadeRules, ExpansionSound, ExpandsToSource
<1>2. Len(rule) = 1 /\ rule[1] = TerminalOperand(w[y + 1])
  OBVIOUS
<1> HIDE DEF rule
<1>3. Expand(rule) = <<TerminalOperand(w[y + 1])>>
  <2>1. Expand(rule) = ExpandOperand(TerminalOperand(w[y + 1]))
    BY <1>1, <1>2, ExpandShort
  <2>2. TerminalOperand(w[y + 1]).type # "NONTERMINAL"
    BY DEF TerminalOperand
  <2> QED
    BY <2>1, <2>2 DEF ExpandOperand
<1>4. OperandSpans(facts, w, TerminalOperand(w[y + 1]), y, y + 1)
  BY DEF OperandSpans, TerminalOperand
<1>5. y \in Nat /\ y + 1 \in Nat /\ y <= y + 1 /\ y \in 0..Len(w) /\ y + 1 \in 0..Len(w)
  OBVIOUS
<1>6. RuleSpans(facts, w, Expand(rule), y, y + 1)
  BY <1>3, <1>4, <1>5, SpansOne
<1> QED
  BY <1>1, <1>5, <1>6, RuleMeans

\* A pair gives its name what its two operands span side by side.
LEMMA PairMeans ==
  ASSUME ExpansionInv, stage = "DONE", NEW w \in Seq(Terminal), NEW facts, Closed(raw, w, facts),
         NEW name \in DOMAIN rules, NEW rule \in Alternatives(rules, name), Len(rule) > 1,
         NEW from \in 0..Len(w), NEW mid \in 0..Len(w), NEW to \in 0..Len(w),
         from <= mid, mid <= to,
         Spans(w, facts, rule[1].value, from, mid), Spans(w, facts, rule[2].value, mid, to)
  PROVE  Spans(w, facts, name, from, to)
<1>1. MadeRule(rule) /\ StandsFor(name, rule)
  BY DEF ExpansionInv, Shape, MadeRules, ExpansionSound, ExpandsToSource
<1>2. /\ rule \in Rule /\ DOMAIN rule = 1..Len(rule) /\ Len(rule) \in Nat
      /\ \A p \in DOMAIN rule : rule[p] \in Operand
  BY <1>1, RuleShape DEF MadeRule
<1>3. /\ Len(rule) <= 2
      /\ Len(rule) = 2 => \A p \in DOMAIN rule : rule[p].type # "TERMINAL"
  BY BinaryNow DEF BinaryForm, AfterBin, Done
<1>4. Len(rule) = 2 /\ 1 \in DOMAIN rule /\ 2 \in DOMAIN rule
  BY <1>2, <1>3
<1>5. \A p \in {1, 2} : /\ ExpandOperand(rule[p]) = SpellName(rule[p].value)
                        /\ SpellName(rule[p].value) \in Seq(SourceOperand)
  BY <1>2, <1>3, <1>4, OperandSpelled
<1>6. Expand(rule) = SpellName(rule[1].value) \o SpellName(rule[2].value)
  BY <1>1, <1>4, <1>5, ExpandShort
<1>7. RuleSpans(facts, w, Expand(rule), from, to)
  BY <1>5, <1>6, SpansConcat DEF Spans
<1>8. from <= to
  OBVIOUS
<1> QED
  BY <1>1, <1>7, <1>8, RuleMeans

\* A rule that stands for a single name has that name as its only operand.
LEMMA SingleName ==
  ASSUME NEW rule, MadeRule(rule), rule # <<>>, Len(rule) <= 2,
         Expand(rule) \in Seq(SourceOperand), Len(Expand(rule)) = 1,
         Expand(rule)[1].type = "NONTERMINAL"
  PROVE  /\ rule[1].value \in SourceName /\ Expand(rule) = <<NameOperand(rule[1].value)>>
         /\ Len(rule) = 1 /\ rule[1].type = "NONTERMINAL"
<1>1. /\ rule \in Rule /\ DOMAIN rule = 1..Len(rule) /\ Len(rule) \in Nat
      /\ \A p \in DOMAIN rule : rule[p] \in Operand
  BY RuleShape DEF MadeRule
<1>2. Len(rule) \in {1, 2}
  BY <1>1
<1>3. ASSUME NEW p \in DOMAIN rule
      PROVE  \E n \in Nat \ {0} : DOMAIN ExpandOperand(rule[p]) = 1..n
                                  /\ ExpandOperand(rule[p]) \in Seq(Range(ExpandOperand(rule[p])))
  <2>1. CASE rule[p].type = "NONTERMINAL"
    <3>1. rule[p].value \in Seq(Atom) /\ rule[p].value # <<>>
      BY <1>1, <2>1, OperandKinds DEF Name
    <3>2. Len(rule[p].value) \in Nat \ {0} /\ DOMAIN rule[p].value = 1..Len(rule[p].value)
      BY <3>1
    <3>3. ExpandOperand(rule[p]) = [q \in 1..Len(rule[p].value) |-> Spell(rule[p].value[q])]
      BY <2>1, <3>2 DEF ExpandOperand, SpellName
    <3> DEFINE e == ExpandOperand(rule[p])
               n == Len(rule[p].value)
    <3>4. n \in Nat \ {0} /\ DOMAIN e = 1..n /\ e = [q \in 1..n |-> e[q]]
      BY <3>2, <3>3
    <3> HIDE DEF e, n
    <3>5. e \in Seq(Range(e))
      BY <3>4 DEF Range
    <3> QED
      BY <3>4, <3>5 DEF e
  <2>2. CASE rule[p].type # "NONTERMINAL"
    BY <2>2 DEF ExpandOperand, Range
  <2> QED
    BY <2>1, <2>2
<1>4. Len(rule) = 1
  <2> SUFFICES ASSUME Len(rule) = 2 PROVE FALSE
    BY <1>2
  <2> DEFINE a == ExpandOperand(rule[1])
             b == ExpandOperand(rule[2])
  <2>1. Expand(rule) = a \o b
    BY ExpandShort
  <2>2. 1 \in DOMAIN rule /\ 2 \in DOMAIN rule
    BY <1>1
  <2>3. \E n \in Nat \ {0} : DOMAIN a = 1..n /\ a \in Seq(Range(a))
    BY <1>3, <2>2
  <2>4. \E n \in Nat \ {0} : DOMAIN b = 1..n /\ b \in Seq(Range(b))
    BY <1>3, <2>2
  <2> HIDE DEF a, b
  <2>5. Len(a) \in Nat /\ Len(a) > 0 /\ Len(b) \in Nat /\ Len(b) > 0 /\ Len(a \o b) = Len(a) + Len(b)
    BY <2>3, <2>4
  <2> QED
    BY <2>1, <2>5
<1>5. 1 \in DOMAIN rule /\ rule[1] \in Operand /\ Simple(rule[1].value)
  BY <1>1, <1>4 DEF MadeRule
<1>6. Expand(rule) = ExpandOperand(rule[1])
  BY <1>4, ExpandShort
<1>7. rule[1].type = "NONTERMINAL"
  BY <1>6 DEF ExpandOperand
<1>8. PICK a \in Atom : rule[1].value = <<a>>
  <2>1. rule[1].value \in Seq(Atom) /\ Len(rule[1].value) = 1
    BY <1>5, <1>7, OperandKinds DEF Name, Simple
  <2>2. rule[1].value[1] \in Atom /\ rule[1].value = <<rule[1].value[1]>>
    BY <2>1
  <2> QED
    BY <2>2
<1>9. Expand(rule) = <<Spell(a)>>
  <2>1. SpellName(<<a>>) = <<Spell(a)>>
    BY DEF SpellName
  <2> QED
    BY <1>6, <1>7, <1>8, <2>1 DEF ExpandOperand
<1>10. a \in NonTerminal
  <2>1. Spell(a).type = "NONTERMINAL"
    BY <1>9
  <2> QED
    BY <2>1 DEF Spell, EmptyOperand, TerminalOperand
<1> QED
  BY <1>4, <1>7, <1>8, <1>9, <1>10, SpellNonTerminal DEF SourceName

-----------------------------------------------------------------------------
(* What the normal form and the unit relation have of each other.           *)

\* A token's own key has the rule of that token and no other.
TokensAlone(g) ==
  \A name \in DOMAIN g : \A rule \in Alternatives(g, name) :
    name \in TokenName => rule = SpellName(name)

\* Only such a rule has a token.
TokensNamed(g) ==
  \A name \in DOMAIN g : \A rule \in Alternatives(g, name) :
    \A p \in DOMAIN rule : rule[p].type = "TERMINAL" => name \in TokenName

\* A rule that is one name only is in the unit relation.
IsUnit(name, rule) ==
  (Len(rule) = 1 /\ rule[1].type = "NONTERMINAL") =>
    name \in DOMAIN unit /\ rule[1].value \in unit[name]

UnitsKept(g) == \A name \in DOMAIN g : \A rule \in Alternatives(g, name) : IsUnit(name, rule)

\* What is in it comes from a rule of the name, that one operand or a pair.
UnitsOfRules ==
  \A name \in DOMAIN unit : \A m \in unit[name] :
    \E rule : /\ MadeRule(rule) /\ StandsFor(name, rule)
              /\ Len(rule) = 2 \/ rule = <<NameOperand(m)>>

LinksInv ==
  /\ TokensAlone(rules) /\ TokensAlone(nf)
  /\ stage # "TERM" => TokensNamed(rules)
  /\ TokensNamed(nf)
  /\ AfterNullables => UnitsKept(rules) /\ UnitsKept(nf)
  /\ UnitsOfRules

LEMMA LinksInit == ASSUME Init PROVE LinksInv
<1>1. IsSource(raw)
  BY SourceAssumption DEF Init
<1>2. \A name \in DOMAIN raw : name \notin TokenName
  BY <1>1, NamesAssumption DEF IsSource, TokenName
<1> QED
  BY <1>2, NoRulesType
     DEF Init, LinksInv, TokensAlone, TokensNamed, UnitsOfRules, NoUnits, AfterNullables, Done

\* What a pass may put in the new map.
LinkedItem(x) ==
  /\ x.name \in TokenName => x.rule = SpellName(x.name)
  /\ \A p \in DOMAIN x.rule : x.rule[p].type = "TERMINAL" => x.name \in TokenName
  /\ AfterNullables => IsUnit(x.name, x.rule)

LEMMA LinksAdd ==
  ASSUME LinksInv, NEW new, Adds(nf, nf', new), \A x \in new : LinkedItem(x),
         UNCHANGED <<raw, rules, stage, unit>>
  PROVE  LinksInv'
<1>1. ASSUME NEW name \in DOMAIN nf', NEW rule \in Alternatives(nf', name)
      PROVE  \/ name \in DOMAIN nf /\ rule \in Alternatives(nf, name)
             \/ \E x \in new : x.name = name /\ x.rule = rule
  BY DEF Adds, Item
<1>2. TokensAlone(nf')
  BY <1>1 DEF LinksInv, TokensAlone, LinkedItem
<1>3. AfterNullables => UnitsKept(nf')
  BY <1>1 DEF LinksInv, UnitsKept, LinkedItem
<1>4. (TokensAlone(nf))' /\ (TokensAlone(rules))'
  BY <1>2 DEF LinksInv, TokensAlone
<1>5. AfterNullables' => AfterNullables
  BY DEF AfterNullables, Done
<1>6. ASSUME AfterNullables PROVE (UnitsKept(nf))' /\ (UnitsKept(rules))'
  BY <1>3, <1>6 DEF LinksInv, UnitsKept, IsUnit
<1>7. UnitsOfRules'
  BY DEF LinksInv, UnitsOfRules, StandsFor
<1>8. TokensNamed(nf')
  BY <1>1 DEF LinksInv, TokensNamed, LinkedItem
<1>9. (TokensNamed(nf))' /\ (stage # "TERM" => TokensNamed(rules))'
  BY <1>8 DEF LinksInv, TokensNamed
<1> QED
  BY <1>4, <1>5, <1>6, <1>7, <1>9 DEF LinksInv

\* A rule of a pass brings tokens' rules, tails, or the rule itself.
LEMMA LinksRuleStep ==
  ASSUME ExpansionInv, LinksInv, TermRule \/ BinRule \/ UniqueRule \/ NonEmptyRule
  PROVE  LinksInv'
<1> DEFINE rule == Head(pending)
<1>1. /\ pending # <<>> /\ stage \in Passes
      /\ UNCHANGED <<raw, rules, stage, unit>>
  BY DEF TermRule, BinRule, UniqueRule, NonEmptyRule, NextRule, Passes
<1>2. /\ rule \in Rule /\ key \in Name /\ key \in DOMAIN rules /\ rule \in Alternatives(rules, key)
      /\ IsProductionRules(nf) /\ Len(rule) \in Nat
  BY <1>1, PendingType, RuleShape DEF ExpansionInv, TypeOK
<1>3. key \in TokenName => rule = SpellName(key)
  BY <1>2 DEF LinksInv, TokensAlone
<1>4. AfterNullables => IsUnit(key, rule)
  BY <1>2 DEF LinksInv, UnitsKept
<1>5. stage # "TERM" => LinkedItem(Item(key, rule))
  <2>1. stage # "TERM" => \A p \in DOMAIN rule : rule[p].type = "TERMINAL" => key \in TokenName
    BY <1>2 DEF LinksInv, TokensNamed
  <2> HIDE DEF rule
  <2> QED
    BY <1>3, <1>4, <2>1 DEF LinkedItem, Item
<1> HIDE DEF rule
<1>6. CASE TermRule
  <2>1. stage = "TERM" /\ nf' = CheckRuleForTerminals(nf, key, rule)
    BY <1>6 DEF TermRule, NextRule, rule
  <2>2. Adds(nf, nf', TermItems(key, rule))
    BY <1>2, <2>1, TermAdds
  <2>3. ~ AfterNullables
    BY <2>1 DEF AfterNullables, Done
  <2>4. key \notin TokenName
    BY <1>2, <2>1, NamesAssumption DEF ExpansionInv, Shape, TypeOK, IsSource, TokenName
  <2>5. ASSUME NEW p \in DOMAIN rule, rule[p].type = "TERMINAL"
        PROVE  <<rule[p]>> = SpellName(DottedName(rule[p]))
    <3>1. rule[p] \in Operand
      BY <1>2, RuleShape
    <3> QED
      BY <2>5, <3>1, DottedNameType, SpellTokenName
  <2>6. LinkedItem(Item(key, WithoutTerminals(rule)))
    BY <2>3, <2>4 DEF LinkedItem, Item, WithoutTerminals, NameOperand
  <2>7. ASSUME NEW p \in DOMAIN rule, rule[p].type = "TERMINAL"
        PROVE  LinkedItem(Item(DottedName(rule[p]), <<rule[p]>>))
    <3>1. rule[p] \in Operand
      BY <1>2, RuleShape
    <3>2. DottedName(rule[p]) \in TokenName
      BY <2>7, <3>1, DottedNameType DEF TokenName
    <3> QED
      BY <2>3, <2>5, <2>7, <3>2 DEF LinkedItem, Item
  <2>8. \A x \in TermItems(key, rule) : LinkedItem(x)
    BY <2>6, <2>7 DEF TermItems
  <2> QED
    BY <1>1, <2>2, <2>8, LinksAdd
<1>7. CASE BinRule
  <2>1. stage = "BIN" /\ nf' = BinarizeRule(nf, key, rule)
    BY <1>7 DEF BinRule, NextRule, rule
  <2>2. MadeRule(rule)
    BY <1>2, <2>1 DEF ExpansionInv, Shape, MadeRules
  <2>3. Adds(nf, nf', BinItems(key, rule))
    BY <1>2, <2>1, <2>2, BinAdds
  <2>4. ~ AfterNullables
    BY <2>1 DEF AfterNullables, Done
  <2>5. ASSUME Len(rule) > 2
        PROVE  key \notin TokenName /\ Join(Tail(rule)) \notin TokenName
    <3>1. Len(Join(Tail(rule))) = Len(rule) - 1
      BY <2>2, <2>5, CutTail
    <3>2. \A t \in Terminal : Len(<<Dotted[t]>>) = 1 /\ Len(SpellName(<<Dotted[t]>>)) = 1
      BY SpellTokenName
    <3>3. \A name \in TokenName : Len(name) = 1 /\ Len(SpellName(name)) = 1
      BY <3>2 DEF TokenName
    <3> DEFINE n == Len(rule)
               tail == Join(Tail(rule))
    <3>4. key \in TokenName => n = 1
      BY <1>3, <3>3, Zenon
    <3>5. n \in Nat /\ n > 2 /\ Len(tail) = n - 1
      BY <1>2, <2>5, <3>1
    <3> HIDE DEF TokenName, n, tail
    <3>6. Len(tail) # 1
      BY <3>5
    <3>7. tail \notin TokenName
      BY <3>3, <3>6, Zenon
    <3> QED
      BY <3>4, <3>5, <3>7 DEF tail
  <2>6. ASSUME Len(rule) > 2
        PROVE  /\ LinkedItem(Item(key, <<rule[1], NameOperand(Join(Tail(rule)))>>))
               /\ LinkedItem(Item(Join(Tail(rule)), Tail(rule)))
    <3>1. rule[1].type # "TERMINAL"
      BY <1>2, <2>2, <2>6, RuleShape DEF MadeRule
    <3>2. \A p \in DOMAIN Tail(rule) : Tail(rule)[p].type # "TERMINAL"
      <4>1. MadeRule(Tail(rule)) /\ Len(Tail(rule)) # 1
        BY <1>2, <2>2, <2>6, CutTail
      <4> QED
        BY <4>1 DEF MadeRule
    <3> QED
      BY <2>4, <2>5, <2>6, <3>1, <3>2 DEF LinkedItem, Item, NameOperand
  <2>7. \A x \in BinItems(key, rule) : LinkedItem(x)
    BY <1>2, <1>5, <2>1, <2>6 DEF BinItems
  <2> QED
    BY <1>1, <2>3, <2>7, LinksAdd
<1>8. CASE UniqueRule \/ NonEmptyRule
  <2>1. nf' = nf \/ nf' = PushRule(nf, key, rule)
    BY <1>8 DEF UniqueRule, NonEmptyRule, KeepUnique, KeepNonEmpty, rule
  <2>2. Adds(nf, nf', {}) \/ Adds(nf, nf', {Item(key, rule)})
    BY <1>2, <2>1, AddsNothing, PushRuleAdds
  <2>3. stage # "TERM"
    BY <1>8 DEF UniqueRule, NonEmptyRule, NextRule
  <2> QED
    BY <1>1, <1>5, <2>2, <2>3, LinksAdd
<1> QED
  BY <1>6, <1>7, <1>8

\* getunitrelation takes the rules of one name, and halves of pairs.
LEMMA UnitLinks ==
  ASSUME ExpansionInv, stage = "PROPAGATE", NEW name \in DOMAIN UnitRelation(rules, nullables)
  PROVE  \A m \in UnitRelation(rules, nullables)[name] :
           \E rule : /\ MadeRule(rule) /\ StandsFor(name, rule)
                     /\ Len(rule) = 2 \/ rule = <<NameOperand(m)>>
<1>1. name \in DOMAIN rules
      /\ UnitRelation(rules, nullables)[name] = UnitsOf(rules, nullables, name)
  BY DEF UnitRelation
<1> SUFFICES ASSUME NEW m \in UnitsOf(rules, nullables, name)
             PROVE  \E rule : /\ MadeRule(rule) /\ StandsFor(name, rule)
                              /\ Len(rule) = 2 \/ rule = <<NameOperand(m)>>
  BY <1>1
<1>2. PICK rule \in Alternatives(rules, name) :
        \/ Len(rule) = 1 /\ rule[1].type = "NONTERMINAL" /\ m = rule[1].value
        \/ Len(rule) = 2
  BY DEF UnitsOf
<1>3. MadeRule(rule) /\ StandsFor(name, rule)
  BY <1>1 DEF ExpansionInv, Shape, MadeRules, ExpansionSound, ExpandsToSource
<1>4. CASE Len(rule) = 1 /\ rule[1].type = "NONTERMINAL" /\ m = rule[1].value
  <2>1. rule \in Seq(Operand) /\ rule[1] \in Operand
    BY <1>3, <1>4, RuleShape DEF MadeRule
  <2>2. rule[1] = NameOperand(m)
    BY <1>4, <2>1, OperandKinds DEF NameOperand
  <2>3. rule = <<rule[1]>>
    BY <1>4, <2>1
  <2> QED
    BY <1>3, <2>2, <2>3
<1> QED
  BY <1>2, <1>3, <1>4

LEMMA LinksStep ==
  ASSUME ExpansionInv, LinksInv, [Next]_vars
  PROVE  LinksInv'
<1>1. CASE \E name \in keys : VisitKey(name)
  <2>1. PICK name \in keys : VisitKey(name)
    BY <1>1
  <2>2. /\ name \in DOMAIN rules /\ UNCHANGED <<raw, rules, stage, unit>>
        /\ nf' = nf \/ nf' = Declare(nf, name)
        /\ IsProductionRules(nf)
    BY <2>1 DEF VisitKey, ExpansionInv, TypeOK
  <2>3. \A m \in DOMAIN nf' : \A r \in Alternatives(nf', m) :
          m \in DOMAIN nf /\ r \in Alternatives(nf, m)
    BY <2>2 DEF Declare, RulesAt, Alternatives
  <2>4. TokensAlone(nf')
    BY <2>3 DEF LinksInv, TokensAlone
  <2>5. AfterNullables => UnitsKept(nf')
    BY <2>3 DEF LinksInv, UnitsKept
  <2>6. (TokensAlone(nf))' /\ (TokensAlone(rules))'
    BY <2>2, <2>4 DEF LinksInv, TokensAlone
  <2>7. AfterNullables' => AfterNullables
    BY <2>2 DEF AfterNullables, Done
  <2>8. ASSUME AfterNullables PROVE (UnitsKept(nf))' /\ (UnitsKept(rules))'
    BY <2>2, <2>5, <2>8 DEF LinksInv, UnitsKept, IsUnit
  <2>9. UnitsOfRules'
    BY <2>2 DEF LinksInv, UnitsOfRules, StandsFor
  <2>10. TokensNamed(nf')
    BY <2>3 DEF LinksInv, TokensNamed
  <2>11. (TokensNamed(nf))' /\ (stage # "TERM" => TokensNamed(rules))'
    BY <2>2, <2>10 DEF LinksInv, TokensNamed
  <2> QED
    BY <2>6, <2>7, <2>8, <2>9, <2>11 DEF LinksInv
<1>2. CASE TermRule \/ BinRule \/ UniqueRule \/ NonEmptyRule
  BY <1>2, LinksRuleStep
<1>3. CASE EndPass
  <2>1. /\ rules' = nf /\ nf' = NoRules /\ UNCHANGED <<raw, unit>>
        /\ stage \in Passes /\ stage' = StageAfter
    BY <1>3 DEF EndPass
  <2>2. AfterNullables' => AfterNullables
    BY <2>1 DEF AfterNullables, Done, StageAfter, Passes
  <2> QED
    BY <2>1, <2>2, NoRulesType
       DEF LinksInv, TokensAlone, TokensNamed, UnitsKept, IsUnit, UnitsOfRules, StandsFor
<1>4. CASE SeedNullables \/ (\E name \in todo : PopNullable(name)) \/ \E o \in occ : Propagate(o)
  <2>1. UNCHANGED <<raw, rules, nf, unit>> /\ stage' = "PROPAGATE" /\ stage # "TERM"
    BY <1>4 DEF SeedNullables, PopNullable, Propagate
  <2> QED
    BY <2>1 DEF LinksInv, TokensAlone, TokensNamed, UnitsOfRules, StandsFor, AfterNullables, Done
<1>5. CASE GetUnitRelation
  <2>1. /\ UNCHANGED <<raw, rules, nf>> /\ unit' = UnitRelation(rules, nullables)
        /\ stage = "PROPAGATE"
    BY <1>5 DEF GetUnitRelation
  <2>2. DOMAIN nf' = {}
    BY <2>1, NoRulesType DEF ExpansionInv, BetweenPasses, Passes
  <2>3. (TokensAlone(nf))' /\ (TokensAlone(rules))'
    BY <2>1 DEF LinksInv, TokensAlone
  <2>4. (UnitsKept(nf))'
    BY <2>2 DEF UnitsKept
  <2>5. (UnitsKept(rules))'
    <3> SUFFICES ASSUME NEW name \in DOMAIN rules, NEW rule \in Alternatives(rules, name),
                        Len(rule) = 1, rule[1].type = "NONTERMINAL"
                 PROVE  name \in DOMAIN unit' /\ rule[1].value \in unit'[name]
      BY <2>1 DEF UnitsKept, IsUnit
    <3>1. rule[1].value \in UnitsOf(rules, nullables, name)
      BY DEF UnitsOf
    <3> QED
      BY <2>1, <3>1 DEF UnitRelation
  <2>6. UnitsOfRules'
    BY <2>1, UnitLinks DEF UnitsOfRules, StandsFor
  <2>7. (TokensNamed(nf))' /\ (stage # "TERM" => TokensNamed(rules))'
    BY <2>1 DEF LinksInv, TokensNamed
  <2> QED
    BY <2>3, <2>4, <2>5, <2>6, <2>7 DEF LinksInv
<1>6. CASE UNCHANGED vars
  BY <1>6 DEF vars, LinksInv, TokensAlone, TokensNamed, UnitsKept, IsUnit, UnitsOfRules, StandsFor, AfterNullables, Done
<1> QED
  BY <1>1, <1>2, <1>3, <1>4, <1>5, <1>6 DEF Next

-----------------------------------------------------------------------------
(* The axiom as an operand.                                                 *)

\* No rule has the axiom as an operand.
AxiomApart(g) ==
  \A name \in DOMAIN g : \A rule \in Alternatives(g, name) :
    \A p \in DOMAIN rule : rule[p].value # <<Axiom>>

\* get2nf puts it into no rule and into no edge of the unit relation.
AxiomInv ==
  AxiomApart(raw) =>
    /\ AxiomApart(rules) /\ AxiomApart(nf)
    /\ \A name \in DOMAIN unit : <<Axiom>> \notin unit[name]

LEMMA AxiomInit == ASSUME Init PROVE AxiomInv
BY NoRulesType DEF Init, AxiomInv, AxiomApart, NoUnits

LEMMA AxiomAdd ==
  ASSUME AxiomInv, NEW new, Adds(nf, nf', new), UNCHANGED <<raw, rules, unit>>,
         AxiomApart(raw) =>
           \A x \in new : \A p \in DOMAIN x.rule : x.rule[p].value # <<Axiom>>
  PROVE  AxiomInv'
<1> SUFFICES ASSUME AxiomApart(raw)
             PROVE  /\ AxiomApart(rules) /\ AxiomApart(nf')
                    /\ \A name \in DOMAIN unit : <<Axiom>> \notin unit[name]
  BY DEF AxiomInv, AxiomApart
<1>1. ASSUME NEW name \in DOMAIN nf', NEW rule \in Alternatives(nf', name)
      PROVE  \/ name \in DOMAIN nf /\ rule \in Alternatives(nf, name)
             \/ \E x \in new : x.rule = rule
  BY DEF Adds, Item
<1> QED
  BY <1>1 DEF AxiomInv, AxiomApart

LEMMA AxiomRuleStep ==
  ASSUME ExpansionInv, AxiomInv, TermRule \/ BinRule \/ UniqueRule \/ NonEmptyRule
  PROVE  AxiomInv'
<1> DEFINE rule == Head(pending)
           Apart(r) == \A p \in DOMAIN r : r[p].value # <<Axiom>>
<1>1. /\ pending # <<>> /\ stage \in Passes
      /\ UNCHANGED <<raw, rules, stage, unit>>
  BY DEF TermRule, BinRule, UniqueRule, NonEmptyRule, NextRule, Passes
<1>2. /\ rule \in Rule /\ key \in Name /\ key \in DOMAIN rules /\ rule \in Alternatives(rules, key)
      /\ IsProductionRules(nf) /\ Len(rule) \in Nat
      /\ DOMAIN rule = 1..Len(rule)
  BY <1>1, PendingType, RuleShape DEF ExpansionInv, TypeOK
<1>3. AxiomApart(raw) => Apart(rule)
  BY <1>2 DEF AxiomInv, AxiomApart
<1>4. \A name : Item(name, rule).rule = rule
  BY DEF Item
<1> HIDE DEF rule
<1>5. CASE TermRule
  <2>1. nf' = CheckRuleForTerminals(nf, key, rule)
    BY <1>5 DEF TermRule, NextRule, rule
  <2>2. Adds(nf, nf', TermItems(key, rule))
    BY <1>2, <2>1, TermAdds
  <2>3. ASSUME NEW p \in DOMAIN rule, rule[p].type = "TERMINAL"
        PROVE  DottedName(rule[p]) # <<Axiom>>
    <3>1. rule[p] \in Operand
      BY <1>2, RuleShape
    <3> QED
      BY <2>3, <3>1, DottedNameType, NamesAssumption DEF TokenName
  <2>4. AxiomApart(raw) => Apart(WithoutTerminals(rule))
    BY <1>3, <2>3 DEF WithoutTerminals, NameOperand
  <2>5. AxiomApart(raw) => \A x \in TermItems(key, rule) : Apart(x.rule)
    BY <1>3, <2>4 DEF TermItems, Item
  <2> QED
    BY <1>1, <2>2, <2>5, AxiomAdd
<1>6. CASE BinRule
  <2>1. stage = "BIN" /\ nf' = BinarizeRule(nf, key, rule)
    BY <1>6 DEF BinRule, NextRule, rule
  <2>2. MadeRule(rule)
    BY <1>2, <2>1 DEF ExpansionInv, Shape, MadeRules
  <2>3. Adds(nf, nf', BinItems(key, rule))
    BY <1>2, <2>1, <2>2, BinAdds
  <2>4. ASSUME Len(rule) > 2, AxiomApart(raw)
        PROVE  /\ Apart(<<rule[1], NameOperand(Join(Tail(rule)))>>)
               /\ Apart(Tail(rule))
    <3>1. Len(Join(Tail(rule))) = Len(rule) - 1
      BY <2>2, <2>4, CutTail
    <3> DEFINE n == Len(rule)
               tail == Join(Tail(rule))
    <3>2. n \in Nat /\ n > 2 /\ DOMAIN rule = 1..n
      BY <1>2, <2>4
    <3>3. Len(tail) = n - 1
      BY <3>1
    <3> HIDE DEF n, tail
    <3>4. tail # <<Axiom>>
      <4>1. Len(tail) # 1 /\ Len(<<Axiom>>) = 1
        BY <3>2, <3>3
      <4> QED
        BY <4>1
    <3>5. rule[1].value # <<Axiom>>
      BY <1>3, <2>4, <3>2
    <3>6. Apart(<<rule[1], NameOperand(tail)>>)
      BY <3>4, <3>5 DEF NameOperand
    <3>7. Apart(Tail(rule))
      <4>1. rule \in Seq(Operand)
        BY <1>2, RuleShape
      <4>2. rule # <<>>
        BY <3>2
      <4>3. ASSUME NEW p \in DOMAIN Tail(rule)
            PROVE  p + 1 \in DOMAIN rule /\ Tail(rule)[p] = rule[p + 1]
        BY <4>1, <4>2
      <4> QED
        BY <1>3, <2>4, <4>3
    <3> QED
      BY <3>6, <3>7 DEF tail
  <2>5. AxiomApart(raw) => \A x \in BinItems(key, rule) : Apart(x.rule)
    BY <1>2, <1>3, <2>4 DEF BinItems, Item
  <2> QED
    BY <1>1, <2>3, <2>5, AxiomAdd
<1>7. CASE UniqueRule \/ NonEmptyRule
  <2>1. nf' = nf \/ nf' = PushRule(nf, key, rule)
    BY <1>7 DEF UniqueRule, NonEmptyRule, KeepUnique, KeepNonEmpty, rule
  <2>2. Adds(nf, nf', {}) \/ Adds(nf, nf', {Item(key, rule)})
    BY <1>2, <2>1, AddsNothing, PushRuleAdds
  <2> QED
    BY <1>1, <1>3, <1>4, <2>2, AxiomAdd
<1> QED
  BY <1>5, <1>6, <1>7

LEMMA AxiomStep ==
  ASSUME ExpansionInv, AxiomInv, [Next]_vars
  PROVE  AxiomInv'
<1>1. CASE \E name \in keys : VisitKey(name)
  <2>1. PICK name \in keys : VisitKey(name)
    BY <1>1
  <2>2. /\ UNCHANGED <<raw, rules, unit>>
        /\ nf' = nf \/ nf' = Declare(nf, name)
    BY <2>1 DEF VisitKey
  <2>3. \A m \in DOMAIN nf' : \A r \in Alternatives(nf', m) :
          m \in DOMAIN nf /\ r \in Alternatives(nf, m)
    BY <2>2 DEF Declare, RulesAt, Alternatives
  <2>4. AxiomApart(nf) => AxiomApart(nf')
    BY <2>3 DEF AxiomApart
  <2>5. (AxiomApart(raw))' = AxiomApart(raw) /\ (AxiomApart(rules))' = AxiomApart(rules)
        /\ (AxiomApart(nf))' = AxiomApart(nf')
    BY <2>2 DEF AxiomApart
  <2> QED
    BY <2>2, <2>4, <2>5 DEF AxiomInv
<1>2. CASE TermRule \/ BinRule \/ UniqueRule \/ NonEmptyRule
  BY <1>2, AxiomRuleStep
<1>3. CASE EndPass
  <2>1. rules' = nf /\ nf' = NoRules /\ UNCHANGED <<raw, unit>>
    BY <1>3 DEF EndPass
  <2> QED
    BY <2>1, NoRulesType DEF AxiomInv, AxiomApart
<1>4. CASE \/ SeedNullables \/ (\E name \in todo : PopNullable(name))
           \/ (\E o \in occ : Propagate(o)) \/ UNCHANGED vars
  <2>1. UNCHANGED <<raw, rules, nf, unit>>
    BY <1>4 DEF SeedNullables, PopNullable, Propagate, vars
  <2> QED
    BY <2>1 DEF AxiomInv, AxiomApart
<1>5. CASE GetUnitRelation
  <2>1. UNCHANGED <<raw, rules, nf>> /\ unit' = UnitRelation(rules, nullables)
    BY <1>5 DEF GetUnitRelation
  <2>2. ASSUME AxiomApart(rules), NEW name \in DOMAIN unit'
        PROVE  <<Axiom>> \notin unit'[name]
    <3>1. name \in DOMAIN rules /\ unit'[name] = UnitsOf(rules, nullables, name)
      BY <2>1, <2>2 DEF UnitRelation
    <3>2. rules[name] \in Seq(Rule)
      BY <3>1 DEF ExpansionInv, TypeOK, IsProductionRules
    <3>3. ASSUME NEW rule \in Alternatives(rules, name)
          PROVE  /\ Len(rule) = 1 => rule[1].value # <<Axiom>>
                 /\ Len(rule) = 2 => rule[1].value # <<Axiom>> /\ rule[2].value # <<Axiom>>
      <4>1. rule \in Rule
        BY <3>2 DEF Alternatives
      <4>2. DOMAIN rule = 1..Len(rule)
        BY <4>1, RuleShape
      <4>3. \A p \in DOMAIN rule : rule[p].value # <<Axiom>>
        BY <2>2, <3>1 DEF AxiomApart
      <4> QED
        BY <4>2, <4>3
    <3> QED
      BY <3>1, <3>3 DEF UnitsOf
  <2> QED
    BY <2>1, <2>2 DEF AxiomInv, AxiomApart
<1> QED
  BY <1>1, <1>2, <1>3, <1>4, <1>5 DEF Next

-----------------------------------------------------------------------------
(* A chart of a normal form has what a proper grammar derives.              *)

\* The operands of a proper grammar.
PlainOperand == {x \in SourceOperand : x.type # "EMPTY" /\ x.value # <<Axiom>>}

\* Names at places of a word, the way the parser finds them: tokens and pairs of
\* what was found are in B, and one step of the unit relation over B is in H.
Fills(w, H, B) ==
  /\ B \subseteq H
  /\ \A name \in DOMAIN rules : \A y \in 0..(Len(w) - 1) :
       <<TerminalOperand(w[y + 1])>> \in Alternatives(rules, name) => <<name, y, y + 1>> \in B
  /\ \A name \in DOMAIN rules : \A rule \in Alternatives(rules, name) :
       \A from, mid, to \in 0..Len(w) :
         (/\ Len(rule) > 1 /\ from < mid /\ mid < to
          /\ <<rule[1].value, from, mid>> \in H /\ <<rule[2].value, mid, to>> \in H)
            => <<name, from, to>> \in B
  /\ \A name \in DOMAIN unit : \A m \in unit[name] : \A from, to \in 0..Len(w) :
       from < to /\ <<m, from, to>> \in B => <<name, from, to>> \in H

\* What is a fact about an author's name was found.
Held(facts, H) ==
  \A name \in SourceName : \A from, to :
    name # <<Axiom>> /\ <<name, from, to>> \in facts => from < to /\ <<name, from, to>> \in H

\* What a name stands for is found as soon as it is a fact.
Known(w, facts, H, name) ==
  \A from, to \in 0..Len(w) :
    from <= to /\ Spans(w, facts, name, from, to) => from < to /\ <<name, from, to>> \in H

\* A name that a rule may mention.
Mentioned(name) ==
  /\ name \in Name /\ SpellName(name) \in Seq(PlainOperand)
  /\ name \in SourceName \/ (name \in DOMAIN rules /\ Alternatives(rules, name) # {})

\* A part of a sequence has the elements of the whole.
LEMMA PartsOfSeq ==
  ASSUME NEW S, NEW T, NEW r \in Seq(T), NEW s \in Seq(T), r \o s \in Seq(S)
  PROVE  r \in Seq(S) /\ s \in Seq(S)
<1> DEFINE m == Len(r)
           n == Len(s)
           t == r \o s
<1>1. /\ m \in Nat /\ n \in Nat /\ Len(t) = m + n
      /\ \A p \in 1..m : t[p] = r[p]
      /\ \A p \in 1..n : t[m + p] = s[p]
      /\ r = [p \in 1..m |-> r[p]] /\ s = [p \in 1..n |-> s[p]]
      /\ t \in Seq(S)
  OBVIOUS
<1> HIDE DEF m, n, t
<1>2. \A p \in 1..(m + n) : t[p] \in S
  BY <1>1
<1>3. \A p \in 1..m : r[p] \in S
  <2> TAKE p \in 1..m
  <2>1. p \in 1..(m + n)
    BY <1>1
  <2> QED
    BY <1>1, <1>2, <2>1
<1>4. \A p \in 1..n : s[p] \in S
  <2> TAKE p \in 1..n
  <2>1. m + p \in 1..(m + n)
    BY <1>1
  <2> QED
    BY <1>1, <1>2, <2>1
<1>5. r \in Seq(S)
  <2>1. r \in [1..m -> S]
    BY <1>1, <1>3
  <2> QED
    BY <1>1, <2>1, FunctionIsSeq
<1>6. s \in Seq(S)
  <2>1. s \in [1..n -> S]
    BY <1>1, <1>4
  <2> QED
    BY <1>1, <2>1, FunctionIsSeq
<1> QED
  BY <1>5, <1>6

LEMMA SpelledLength ==
  ASSUME NEW name \in Name
  PROVE  /\ name \in Seq(Atom) /\ Len(name) \in Nat \ {0}
         /\ DOMAIN SpellName(name) = 1..Len(name)
         /\ \A T : SpellName(name) \in Seq(T) => Len(SpellName(name)) = Len(name)
<1>1. name \in Seq(Atom) /\ name # <<>>
  BY DEF Name
<1>2. Len(name) \in Nat \ {0} /\ DOMAIN name = 1..Len(name)
  BY <1>1
<1>3. DOMAIN SpellName(name) = 1..Len(name)
  BY <1>2 DEF SpellName
<1>4. ASSUME NEW T, SpellName(name) \in Seq(T) PROVE Len(SpellName(name)) = Len(name)
  <2> DEFINE s == SpellName(name)
             n == Len(name)
  <2>1. s \in Seq(T) /\ DOMAIN s = 1..n /\ n \in Nat
    BY <1>2, <1>3, <1>4
  <2> HIDE DEF s, n
  <2>2. Len(s) = n
    BY <2>1
  <2> QED
    BY <2>2 DEF s, n
<1> QED
  BY <1>1, <1>2, <1>3, <1>4

\* Facts about plain operands are about a token or more.
LEMMA PlainTakes ==
  ASSUME NEW w, NEW H, NEW facts, Held(facts, H), NEW x \in PlainOperand,
         NEW from \in Nat, NEW to \in Nat, OperandSpans(facts, w, x, from, to)
  PROVE  from < to
<1>1. x \in SourceOperand /\ x.type # "EMPTY" /\ x.value # <<Axiom>>
  BY DEF PlainOperand
<1>2. CASE x.type = "TERMINAL"
  BY <1>2 DEF OperandSpans
<1>3. CASE x.type = "NONTERMINAL"
  <2>1. x.value \in SourceName
    BY <1>1, <1>3 DEF SourceOperand, TerminalOperands, EmptyOperand, SourceName
  <2>2. <<x.value, from, to>> \in facts
    BY <1>3 DEF OperandSpans
  <2> QED
    BY <1>1, <2>1, <2>2 DEF Held
<1> QED
  BY <1>1, <1>2, <1>3, SourceOperandType, OperandKinds

\* The two operands of a pair are names that may be mentioned.
LEMMA PairParts ==
  ASSUME ExpansionInv, stage = "DONE", NEW name \in DOMAIN rules,
         NEW rule \in Alternatives(rules, name), Len(rule) = 2,
         Expand(rule) \in Seq(PlainOperand)
  PROVE  /\ Mentioned(rule[1].value) /\ Mentioned(rule[2].value)
         /\ Expand(rule) = SpellName(rule[1].value) \o SpellName(rule[2].value)
         /\ Len(Expand(rule)) = Len(rule[1].value) + Len(rule[2].value)
<1>1. MadeRule(rule)
  BY DEF ExpansionInv, Shape, MadeRules
<1>2. /\ rule \in Rule /\ DOMAIN rule = 1..2 /\ rule[1] \in Operand /\ rule[2] \in Operand
      /\ rule[1].type # "TERMINAL" /\ rule[2].type # "TERMINAL"
  <2>1. rule \in Rule /\ DOMAIN rule = 1..Len(rule) /\ \A p \in DOMAIN rule : rule[p] \in Operand
    BY <1>1, RuleShape DEF MadeRule
  <2>2. 1 \in DOMAIN rule /\ 2 \in DOMAIN rule
    BY <2>1
  <2> QED
    BY <1>1, <2>1, <2>2 DEF MadeRule
<1>3. /\ ExpandOperand(rule[1]) = SpellName(rule[1].value)
      /\ ExpandOperand(rule[2]) = SpellName(rule[2].value)
      /\ SpellName(rule[1].value) \in Seq(SourceOperand)
      /\ SpellName(rule[2].value) \in Seq(SourceOperand)
  BY <1>2, OperandSpelled
<1>4. Expand(rule) = SpellName(rule[1].value) \o SpellName(rule[2].value)
  BY <1>1, <1>3, ExpandShort
<1>5. SpellName(rule[1].value) \in Seq(PlainOperand) /\ SpellName(rule[2].value) \in Seq(PlainOperand)
  BY <1>3, <1>4, PartsOfSeq
<1>6. ASSUME NEW p \in {1, 2} PROVE rule[p].type = "NONTERMINAL"
  <2> SUFFICES ASSUME rule[p].type = "EMPTY" PROVE FALSE
    BY <1>2, OperandKinds
  <2>1. ExpandOperand(rule[p]) = <<rule[p]>> /\ rule[p].type = "EMPTY"
    BY DEF ExpandOperand
  <2>2. <<rule[p]>> \in Seq(PlainOperand)
    BY <1>3, <1>5, <2>1
  <2>3. rule[p] \in PlainOperand
    <3> DEFINE x == rule[p]
    <3>1. <<x>> \in Seq(PlainOperand)
      BY <2>2
    <3> HIDE DEF x
    <3>2. <<x>>[1] \in PlainOperand
      BY <3>1
    <3> QED
      BY <3>2 DEF x
  <2> QED
    BY <2>1, <2>3 DEF PlainOperand
<1>7. ASSUME NEW p \in {1, 2} PROVE Mentioned(rule[p].value)
  <2>1. rule[p].type = "NONTERMINAL" /\ p \in DOMAIN rule
    BY <1>2, <1>6
  <2>2. rule[p].value \in Name
    BY <1>2, <2>1, OperandKinds
  <2>3. rule[p].value \in SourceName
        \/ (rule[p].value \in DOMAIN rules /\ Alternatives(rules, rule[p].value) # {})
    BY <2>1 DEF ExpansionInv, NoDanglingName
  <2> QED
    BY <1>5, <2>2, <2>3 DEF Mentioned
<1>8. Len(Expand(rule)) = Len(rule[1].value) + Len(rule[2].value)
  <2>1. /\ Len(SpellName(rule[1].value)) = Len(rule[1].value)
        /\ Len(SpellName(rule[2].value)) = Len(rule[2].value)
    BY <1>5, <1>7, SpelledLength DEF Mentioned
  <2> DEFINE a == SpellName(rule[1].value)
             b == SpellName(rule[2].value)
  <2>2. a \in Seq(PlainOperand) /\ b \in Seq(PlainOperand)
    BY <1>5
  <2> HIDE DEF a, b
  <2>3. Len(a \o b) = Len(a) + Len(b)
    BY <2>2
  <2> QED
    BY <1>4, <2>1, <2>3 DEF a, b
<1> QED
  BY <1>4, <1>7, <1>8

\* Where both names of a pair are found, the pair is.
LEMMA PairFound ==
  ASSUME ExpansionInv, stage = "DONE", NEW w \in Seq(Terminal), NEW H, NEW B, Fills(w, H, B),
         NEW facts, Held(facts, H),
         NEW name \in DOMAIN rules, NEW rule \in Alternatives(rules, name), Len(rule) = 2,
         Expand(rule) \in Seq(PlainOperand),
         Known(w, facts, H, rule[1].value), Known(w, facts, H, rule[2].value),
         NEW from \in 0..Len(w), NEW to \in 0..Len(w), from <= to,
         RuleSpans(facts, w, Expand(rule), from, to)
  PROVE  from < to /\ <<name, from, to>> \in B
<1> DEFINE r == SpellName(rule[1].value)
           s == SpellName(rule[2].value)
<1>1. /\ Mentioned(rule[1].value) /\ Mentioned(rule[2].value)
      /\ Expand(rule) = r \o s
  BY PairParts
<1>2. r \in Seq(PlainOperand) /\ s \in Seq(PlainOperand) /\ r # <<>> /\ s # <<>>
  <2>1. ASSUME NEW v, Mentioned(v)
        PROVE  SpellName(v) \in Seq(PlainOperand) /\ SpellName(v) # <<>>
    <3>1. v \in Name /\ SpellName(v) \in Seq(PlainOperand)
      BY <2>1 DEF Mentioned
    <3>2. Len(SpellName(v)) # 0
      BY <3>1, SpelledLength
    <3> QED
      BY <3>1, <3>2
  <2> QED
    BY <1>1, <2>1
<1>3. Len(w) \in Nat /\ from \in Nat /\ to \in Nat
  OBVIOUS
<1>4. \A x \in PlainOperand : \A i, j \in from..to : OperandSpans(facts, w, x, i, j) => i < j
  <2> TAKE x \in PlainOperand
  <2> TAKE i, j \in from..to
  <2>1. i \in Nat /\ j \in Nat
    BY <1>3
  <2> QED
    BY <2>1, PlainTakes
<1> HIDE DEF r, s
<1>5. PICK mid \in from..to : /\ from < mid /\ mid < to
                              /\ RuleSpans(facts, w, r, from, mid)
                              /\ RuleSpans(facts, w, s, mid, to)
  BY <1>1, <1>2, <1>3, <1>4, SpansSplit
<1>6. mid \in 0..Len(w) /\ from <= mid /\ mid <= to /\ from < to
  BY <1>3, <1>5
<1>7. <<rule[1].value, from, mid>> \in H /\ <<rule[2].value, mid, to>> \in H
  BY <1>5, <1>6 DEF Known, Spans, r, s
<1>8. Len(rule) > 1
  OBVIOUS
<1> QED
  BY <1>5, <1>6, <1>7, <1>8 DEF Fills

\* A token's key is found where the token is.
LEMMA TokenFound ==
  ASSUME ExpansionInv, LinksInv, stage = "DONE", NEW w \in Seq(Terminal), NEW H, NEW B,
         Fills(w, H, B), NEW facts,
         NEW name \in TokenName, name \in DOMAIN rules, Alternatives(rules, name) # {},
         NEW from \in 0..Len(w), NEW to \in 0..Len(w), from <= to,
         Spans(w, facts, name, from, to)
  PROVE  from < to /\ <<name, from, to>> \in B
<1>1. PICK t \in Terminal : name = <<Dotted[t]>>
  BY DEF TokenName
<1>2. SpellName(name) = <<TerminalOperand(t)>>
  BY <1>1, SpellTokenName
<1>3. OperandSpans(facts, w, TerminalOperand(t), from, to)
  BY <1>2, SpansOne DEF Spans
<1>4. to = from + 1 /\ t = w[from + 1]
  BY <1>3 DEF OperandSpans, TerminalOperand
<1>5. <<TerminalOperand(t)>> \in Alternatives(rules, name)
  BY <1>2 DEF LinksInv, TokensAlone
<1>6. from \in 0..(Len(w) - 1) /\ from < to
  BY <1>4
<1> QED
  BY <1>4, <1>5, <1>6 DEF Fills

\* A rule that stands for several operands, or for one.
LEMMA StandsForLong ==
  ASSUME ExpansionInv, stage = "DONE", NEW name \in DOMAIN rules,
         NEW rule \in Alternatives(rules, name), Expand(rule) \in Seq(PlainOperand)
  PROVE  /\ Len(Expand(rule)) > 1 => Len(rule) = 2
         /\ Len(Expand(rule)) = 1 => Len(rule) = 1
         /\ MadeRule(rule) /\ StandsFor(name, rule)
<1>1. MadeRule(rule) /\ StandsFor(name, rule) /\ Len(rule) <= 2
  BY BinaryNow DEF ExpansionInv, Shape, MadeRules, ExpansionSound, ExpandsToSource, BinaryForm,
     AfterBin, Done
<1>2. rule \in Rule /\ Len(rule) \in Nat /\ DOMAIN rule = 1..Len(rule)
  BY <1>1, RuleShape DEF MadeRule
<1>3. Len(rule) \in {0, 1, 2}
  BY <1>1, <1>2
<1>4. ASSUME Len(rule) # 2 PROVE Len(Expand(rule)) = Len(rule)
  <2> DEFINE e == Expand(rule)
             n == Len(rule)
  <2>1. DOMAIN e = 1..n /\ n \in Nat /\ e \in Seq(PlainOperand)
    BY <1>2, <1>4 DEF Expand
  <2> HIDE DEF e, n
  <2>2. Len(e) = n
    BY <2>1
  <2> QED
    BY <2>2 DEF e, n
<1>5. ASSUME Len(rule) = 2 PROVE Len(Expand(rule)) \in Nat /\ Len(Expand(rule)) > 1
  <2>1. /\ rule[1].value \in Name /\ rule[2].value \in Name
        /\ Len(Expand(rule)) = Len(rule[1].value) + Len(rule[2].value)
    BY <1>5, PairParts DEF Mentioned
  <2>2. Len(rule[1].value) \in Nat \ {0} /\ Len(rule[2].value) \in Nat \ {0}
    BY <2>1, SpelledLength
  <2> DEFINE a == Len(rule[1].value)
             b == Len(rule[2].value)
             e == Len(Expand(rule))
  <2>3. a \in Nat \ {0} /\ b \in Nat \ {0} /\ e = a + b
    BY <2>1, <2>2
  <2> HIDE DEF a, b, e
  <2>4. e \in Nat /\ e > 1
    BY <2>3
  <2> QED
    BY <2>4 DEF e
<1>6. Len(Expand(rule)) > 1 => Len(rule) = 2
  <2> DEFINE e == Len(Expand(rule))
             n == Len(rule)
  <2>1. n \in {0, 1, 2} /\ (n # 2 => e = n)
    BY <1>3, <1>4
  <2> HIDE DEF e, n
  <2>2. e > 1 => n = 2
    BY <2>1
  <2> QED
    BY <2>2 DEF e, n
<1>7. Len(Expand(rule)) = 1 => Len(rule) = 1
  <2> DEFINE e == Len(Expand(rule))
             n == Len(rule)
  <2>1. n \in {0, 1, 2} /\ (n # 2 => e = n) /\ (n = 2 => e \in Nat /\ e > 1)
    BY <1>3, <1>4, <1>5
  <2> HIDE DEF e, n
  <2>2. e = 1 => n = 1
    BY <2>1
  <2> QED
    BY <2>2 DEF e, n
<1> QED
  BY <1>1, <1>6, <1>7

\* No rule of a proper grammar mentions the axiom.
LEMMA AxiomNotMentioned == ~ Mentioned(<<Axiom>>)
<1> SUFFICES ASSUME Mentioned(<<Axiom>>) PROVE FALSE
  OBVIOUS
<1> DEFINE x == NameOperand(<<Axiom>>)
<1>1. SpellName(<<Axiom>>) = <<x>>
  <2>1. SpellName(<<Axiom>>) = <<Spell(Axiom)>>
    BY DEF SpellName
  <2> QED
    BY <2>1, SpellNonTerminal, NamesAssumption
<1>2. <<x>> \in Seq(PlainOperand)
  BY <1>1 DEF Mentioned
<1> HIDE DEF x
<1>3. x \in PlainOperand
  <2>1. <<x>>[1] \in PlainOperand
    BY <1>2
  <2> QED
    BY <2>1
<1> QED
  BY <1>3 DEF x, PlainOperand, NameOperand

\* Every name that a rule may mention is found: by induction on its length.
LEMMA NamesKnown ==
  ASSUME ExpansionInv, LinksInv, stage = "DONE", NEW w \in Seq(Terminal), NEW H, NEW B,
         Fills(w, H, B), NEW facts, Held(facts, H)
  PROVE  \A name : Mentioned(name) => Known(w, facts, H, name)
<1> DEFINE S == {n \in Nat :
                   \A name : Mentioned(name) /\ Len(name) <= n => Known(w, facts, H, name)}
<1>1. 0 \in S
  <2> SUFFICES ASSUME NEW name, Mentioned(name), Len(name) <= 0 PROVE FALSE
    OBVIOUS
  <2>1. Len(name) \in Nat \ {0}
    BY SpelledLength DEF Mentioned
  <2> QED
    BY <2>1
<1>2. ASSUME NEW n \in Nat, n \in S PROVE n + 1 \in S
  <2> SUFFICES ASSUME NEW name, Mentioned(name), Len(name) <= n + 1,
                      NEW from \in 0..Len(w), NEW to \in 0..Len(w), from <= to,
                      Spans(w, facts, name, from, to)
               PROVE  from < to /\ <<name, from, to>> \in H
    BY DEF Known
  <2>1. B \subseteq H
    BY DEF Fills
  <2>2. CASE name \in SourceName
    <3>1. from \in Nat /\ to \in Nat
      OBVIOUS
    <3>2. <<name, from, to>> \in facts
      BY <2>2, <3>1, SourceSpans
    <3> QED
      BY <2>2, <3>2, AxiomNotMentioned DEF Held
  <2>3. CASE name \in TokenName
    <3>1. name \notin SourceName
      BY <2>3, SpellTokenName DEF TokenName
    <3>2. name \in DOMAIN rules /\ Alternatives(rules, name) # {}
      BY <3>1 DEF Mentioned
    <3> QED
      BY <2>1, <2>3, <3>2, TokenFound
  <2>4. CASE name \notin SourceName /\ name \notin TokenName
    <3>1. /\ name \in DOMAIN rules /\ Alternatives(rules, name) # {}
          /\ name \in Name /\ SpellName(name) \in Seq(PlainOperand)
      BY <2>4 DEF Mentioned
    <3>2. Len(name) > 1
      BY <2>4, <3>1 DEF ExpansionInv, Shape, Keys
    <3>3. PICK rule \in Alternatives(rules, name) : TRUE
      BY <3>1
    <3>4. Expand(rule) = SpellName(name)
      BY <2>4, <3>1 DEF ExpansionInv, ExpansionSound, ExpandsToSource, StandsFor
    <3>5. Len(Expand(rule)) = Len(name) /\ Expand(rule) \in Seq(PlainOperand)
      BY <3>1, <3>4, SpelledLength
    <3>6. Len(rule) = 2
      BY <3>1, <3>2, <3>5, StandsForLong
    <3>7. /\ Mentioned(rule[1].value) /\ Mentioned(rule[2].value)
          /\ Expand(rule) = SpellName(rule[1].value) \o SpellName(rule[2].value)
          /\ Len(name) = Len(rule[1].value) + Len(rule[2].value)
      BY <3>1, <3>5, <3>6, PairParts
    <3>8. Len(rule[1].value) <= n /\ Len(rule[2].value) <= n
      <4>1. Len(rule[1].value) \in Nat \ {0} /\ Len(rule[2].value) \in Nat \ {0}
        BY <3>7, SpelledLength DEF Mentioned
      <4> DEFINE a == Len(rule[1].value)
                 b == Len(rule[2].value)
      <4>2. a \in Nat \ {0} /\ b \in Nat \ {0} /\ a + b <= n + 1
        BY <3>7, <4>1
      <4> HIDE DEF a, b
      <4>3. a <= n /\ b <= n
        BY <4>2
      <4> QED
        BY <4>3 DEF a, b
    <3>9. Known(w, facts, H, rule[1].value) /\ Known(w, facts, H, rule[2].value)
      BY <1>2, <3>7, <3>8
    <3>10. RuleSpans(facts, w, Expand(rule), from, to)
      BY <3>4 DEF Spans
    <3>11. from < to /\ <<name, from, to>> \in B
      BY <3>1, <3>5, <3>6, <3>9, <3>10, PairFound
    <3> QED
      BY <2>1, <3>11
  <2> QED
    BY <2>2, <2>3, <2>4
<1> HIDE DEF S
<1>3. Nat \subseteq S
  BY <1>1, <1>2, AllNat
<1> SUFFICES ASSUME NEW name, Mentioned(name) PROVE Known(w, facts, H, name)
  OBVIOUS
<1>4. Len(name) \in Nat
  BY SpelledLength DEF Mentioned
<1>5. Len(name) \in S /\ Len(name) <= Len(name)
  BY <1>3, <1>4
<1> QED
  BY <1>5 DEF S

\* What an author's rule derives is found for its name.
LEMMA RuleFound ==
  ASSUME ExpansionInv, LinksInv, stage = "DONE", NEW w \in Seq(Terminal), NEW H, NEW B,
         Fills(w, H, B), NEW facts, Held(facts, H),
         NEW name \in DOMAIN raw, NEW rule \in Alternatives(raw, name),
         rule \in Seq(PlainOperand), rule # <<>>,
         NEW from \in 0..Len(w), NEW to \in 0..Len(w), from <= to,
         RuleSpans(facts, w, rule, from, to),
         Len(rule) = 1 /\ rule[1].type = "NONTERMINAL" => <<rule[1].value, from, to>> \in B
  PROVE  /\ from < to /\ <<name, from, to>> \in H
         /\ Len(rule) # 1 => <<name, from, to>> \in B
<1>0. B \subseteq H /\ Len(rule) \in Nat \ {0}
  BY DEF Fills
<1>1. PICK r \in Alternatives(rules, name) : name \in DOMAIN rules /\ Expand(r) = rule
  <2>1. ~ IsEmptyRule(rule)
    <3> SUFFICES ASSUME Len(rule) = 1, rule[1].type = "EMPTY" PROVE FALSE
      BY DEF IsEmptyRule
    <3>1. rule[1] \in PlainOperand
      OBVIOUS
    <3> QED
      BY <3>1 DEF PlainOperand
  <2> QED
    BY <2>1 DEF ExpansionInv, ExpansionComplete
<1>2. /\ MadeRule(r) /\ (Len(rule) > 1 => Len(r) = 2) /\ (Len(rule) = 1 => Len(r) = 1)
  BY <1>1, StandsForLong
<1>3. CASE Len(rule) > 1
  <2>1. Len(r) = 2 /\ Expand(r) \in Seq(PlainOperand)
    BY <1>1, <1>2, <1>3
  <2>2. Mentioned(r[1].value) /\ Mentioned(r[2].value)
    BY <1>1, <2>1, PairParts
  <2>3. Known(w, facts, H, r[1].value) /\ Known(w, facts, H, r[2].value)
    BY <2>2, NamesKnown
  <2>4. from < to /\ <<name, from, to>> \in B
    BY <1>1, <2>1, <2>3, PairFound
  <2> QED
    BY <1>0, <2>4
<1>4. CASE Len(rule) = 1
  <2>1. Len(r) = 1 /\ r \in Rule /\ r[1] \in Operand /\ r = <<r[1]>>
    <3>1. Len(r) = 1 /\ r \in Rule /\ DOMAIN r = 1..Len(r) /\ \A p \in DOMAIN r : r[p] \in Operand
      BY <1>2, <1>4, RuleShape DEF MadeRule
    <3>2. r \in Seq(Operand)
      BY <3>1 DEF Rule
    <3>3. r[1] \in Operand /\ r = <<r[1]>>
      BY <3>1, <3>2
    <3> QED
      BY <3>1, <3>3
  <2>2. rule = ExpandOperand(r[1]) /\ rule = <<rule[1]>> /\ rule[1] \in PlainOperand
    <3>1. rule = ExpandOperand(r[1])
      BY <1>1, <1>2, <2>1, ExpandShort
    <3>2. rule = <<rule[1]>> /\ rule[1] \in PlainOperand
      BY <1>4
    <3> QED
      BY <3>1, <3>2
  <2>3. OperandSpans(facts, w, rule[1], from, to) /\ from < to
    <3>1. from \in Nat /\ to \in Nat
      OBVIOUS
    <3>2. RuleSpans(facts, w, <<rule[1]>>, from, to)
      BY <2>2
    <3>3. OperandSpans(facts, w, rule[1], from, to)
      BY <3>1, <3>2, SpansOne
    <3> QED
      BY <2>2, <3>1, <3>3, PlainTakes
  <2>4. CASE r[1].type # "NONTERMINAL"
    <3>1. rule[1] = r[1]
      BY <2>2, <2>4 DEF ExpandOperand
    <3>2. PICK t \in Terminal : r[1] = TerminalOperand(t)
      BY <2>1, <2>2, <2>4, <3>1, OperandKinds DEF PlainOperand
    <3>3. to = from + 1 /\ t = w[from + 1]
      BY <2>3, <3>1, <3>2 DEF OperandSpans, TerminalOperand
    <3>4. <<TerminalOperand(t)>> \in Alternatives(rules, name)
      BY <1>1, <2>1, <3>2
    <3>5. from \in 0..(Len(w) - 1)
      BY <3>3
    <3>6. <<name, from, to>> \in B
      BY <1>1, <3>3, <3>4, <3>5 DEF Fills
    <3> QED
      BY <1>0, <1>4, <2>3, <3>6
  <2>5. CASE r[1].type = "NONTERMINAL"
    <3> DEFINE m == r[1].value
    <3>1. name \in DOMAIN unit /\ m \in unit[name]
      BY <1>1, <2>1, <2>5 DEF LinksInv, UnitsKept, IsUnit, AfterNullables, Done
    <3>2. m \in Name /\ rule = SpellName(m) /\ Len(m) = 1
      <4>1. m \in Name /\ rule = SpellName(m)
        BY <2>1, <2>2, <2>5, OperandKinds DEF ExpandOperand
      <4>2. Len(SpellName(m)) = Len(m)
        BY <4>1, SpelledLength
      <4> QED
        BY <1>4, <4>1, <4>2
    <3>3. m \in SourceName \/ (m \in DOMAIN rules /\ Alternatives(rules, m) # {})
      <4>1. 1 \in DOMAIN r
        BY <2>1, RuleShape
      <4> QED
        BY <1>1, <2>5, <4>1 DEF ExpansionInv, NoDanglingName
    <3>4. <<m, from, to>> \in B
      <4>1. CASE m \in SourceName
        <5>1. PICK A \in NonTerminal : m = <<A>>
          BY <4>1 DEF SourceName
        <5>2. SpellName(m) = <<NameOperand(m)>>
          <6>1. SpellName(<<A>>) = <<Spell(A)>>
            BY DEF SpellName
          <6> QED
            BY <5>1, <6>1, SpellNonTerminal
        <5>3. rule[1].type = "NONTERMINAL" /\ rule[1].value = m
          <6> HIDE DEF m
          <6>1. rule[1] = NameOperand(m)
            BY <3>2, <5>2
          <6> QED
            BY <6>1 DEF NameOperand
        <5> QED
          BY <1>4, <5>3
      <4>2. CASE m \notin SourceName
        <5> HIDE DEF m
        <5>1. m \in DOMAIN rules /\ Alternatives(rules, m) # {}
          BY <3>3, <4>2
        <5>2. m \in TokenName
          <6>1. m \in TokenName \/ Len(m) > 1
            BY <4>2, <5>1 DEF ExpansionInv, Shape, Keys
          <6> QED
            BY <3>2, <6>1
        <5>3. Spans(w, facts, m, from, to)
          BY <3>2 DEF Spans
        <5> QED
          BY <5>1, <5>2, <5>3, TokenFound
      <4> QED
        BY <4>1, <4>2
    <3> HIDE DEF m
    <3>5. <<name, from, to>> \in H
      BY <2>3, <3>1, <3>4 DEF Fills
    <3> QED
      BY <1>4, <2>3, <3>5
  <2> QED
    BY <2>4, <2>5
<1>5. Len(rule) = 1 \/ Len(rule) > 1
  <2> DEFINE n == Len(rule)
  <2>1. n \in Nat \ {0}
    BY <1>0
  <2> HIDE DEF n
  <2>2. n = 1 \/ n > 1
    BY <2>1
  <2> QED
    BY <2>2 DEF n
<1> QED
  BY <1>3, <1>4, <1>5

\* What was found of a fact: of the axiom the name that it has as alternative, of
\* another name the name itself, and without the unit relation if none of its alternatives
\* is a single operand.
Found(f, H, B) ==
  IF f[1] = <<Axiom>>
  THEN \E rule \in Alternatives(raw, f[1]) : <<rule[1].value, f[2], f[3]>> \in H
  ELSE /\ f \in H
       /\ (\A rule \in Alternatives(raw, f[1]) : Len(rule) # 1) => f \in B

\* All that a proper grammar derives is found.
LEMMA DerivedIsFound ==
  ASSUME ExpansionInv, LinksInv, stage = "DONE", IsFiniteSet(DOMAIN raw), Proper(raw),
         <<Axiom>> \in DOMAIN raw =>
           \A rule \in Alternatives(raw, <<Axiom>>) :
             Len(rule) = 1 /\ rule[1].type = "NONTERMINAL",
         NEW w \in Seq(Terminal), NEW H, NEW B, Fills(w, H, B)
  PROVE  \A f \in Derivations(raw, w) : f[2] < f[3] /\ Found(f, H, B)
<1> DEFINE S == {f \in Facts(raw, w) : f[2] < f[3] /\ Found(f, H, B)}
<1>1. IsSource(raw) /\ B \subseteq H /\ Len(w) \in Nat
  BY DEF ExpansionInv, TypeOK, Fills
<1>2. Held(S, H)
  <2> SUFFICES ASSUME NEW name \in SourceName, NEW from, NEW to, name # <<Axiom>>,
                      <<name, from, to>> \in S
               PROVE  from < to /\ <<name, from, to>> \in H
    BY DEF Held
  <2> DEFINE f == <<name, from, to>>
  <2>1. f[1] = name /\ f[2] = from /\ f[3] = to /\ f \in S
    OBVIOUS
  <2> HIDE DEF f
  <2>2. f[2] < f[3] /\ f \in H
    BY <2>1 DEF Found
  <2> QED
    BY <2>1, <2>2 DEF f
<1>3. ASSUME NEW name \in DOMAIN raw, NEW rule \in Alternatives(raw, name)
      PROVE  /\ rule \in Seq(PlainOperand) /\ rule # <<>>
             /\ \A r \in Alternatives(raw, name) : name = <<Axiom>> => r = rule
             /\ (Len(rule) = 1 /\ rule[1].type = "NONTERMINAL" /\ name # <<Axiom>>) =>
                  \A r \in Alternatives(raw, rule[1].value) : Len(r) # 1
  <2>1. rule \in Seq(SourceOperand)
    BY <1>1 DEF IsSource, Alternatives
  <2>2. /\ rule # <<>> /\ \A p \in DOMAIN rule : rule[p].type # "EMPTY" /\ rule[p].value # <<Axiom>>
        /\ \A r \in Alternatives(raw, name) : name = <<Axiom>> => r = rule
        /\ (Len(rule) = 1 /\ rule[1].type = "NONTERMINAL" /\ name # <<Axiom>>) =>
             \A r \in Alternatives(raw, rule[1].value) : Len(r) # 1
    BY DEF Proper
  <2>3. \A p \in 1..Len(rule) : rule[p] \in PlainOperand
    BY <2>1, <2>2 DEF PlainOperand
  <2>4. rule \in Seq(PlainOperand)
    <3>1. Len(rule) \in Nat /\ rule = [p \in 1..Len(rule) |-> rule[p]]
      BY <2>1
    <3>2. rule \in [1..Len(rule) -> PlainOperand]
      BY <2>3, <3>1
    <3> QED
      BY <3>1, <3>2, FunctionIsSeq
  <2> QED
    BY <2>2, <2>4
<1>4. ASSUME NEW f \in Facts(raw, w), NEW rule \in Alternatives(raw, f[1]),
             RuleSpans(S, w, rule, f[2], f[3])
      PROVE  f[2] < f[3] /\ Found(f, H, B)
  <2> DEFINE name == f[1]
             from == f[2]
             to   == f[3]
  <2>1. /\ name \in DOMAIN raw /\ from \in 0..Len(w) /\ to \in 0..Len(w) /\ from <= to
        /\ f = <<name, from, to>> /\ name \in SourceName
    <3>1. f \in (DOMAIN raw) \X (0..Len(w)) \X (0..Len(w)) /\ f[2] <= f[3]
      BY DEF Facts
    <3> QED
      BY <1>1, <3>1 DEF IsSource, SourceName
  <2>2. RuleSpans(S, w, rule, from, to) /\ rule \in Alternatives(raw, name)
    BY <1>4
  <2>3. rule \in Seq(PlainOperand) /\ rule # <<>>
    BY <1>3, <2>1
  <2>4. ASSUME Len(rule) = 1, rule[1].type = "NONTERMINAL"
        PROVE  LET sub == <<rule[1].value, from, to>>
               IN  sub \in S /\ rule[1].value # <<Axiom>>
    <3>1. rule = <<rule[1]>> /\ rule[1] \in PlainOperand
      BY <2>3, <2>4
    <3>2. from \in Nat /\ to \in Nat
      BY <2>1
    <3> HIDE DEF S, from, to, name
    <3>3. RuleSpans(S, w, <<rule[1]>>, from, to)
      BY <2>2, <3>1
    <3>4. OperandSpans(S, w, rule[1], from, to)
      BY <2>1, <3>2, <3>3, SpansOne
    <3>5. <<rule[1].value, from, to>> \in S
      BY <2>4, <3>4 DEF OperandSpans
    <3> QED
      BY <3>1, <3>5 DEF PlainOperand
  <2>5. CASE name = <<Axiom>>
    <3>1. Len(rule) = 1 /\ rule[1].type = "NONTERMINAL"
      BY <2>1, <2>2, <2>5
    <3> DEFINE sub == <<rule[1].value, from, to>>
    <3>2. sub \in S /\ sub[1] # <<Axiom>> /\ sub[1] = rule[1].value /\ sub[2] = from /\ sub[3] = to
      BY <2>4, <3>1
    <3> HIDE DEF sub
    <3>3. from < to /\ sub \in H
      BY <3>2 DEF Found
    <3> QED
      BY <2>2, <2>5, <3>3 DEF Found, sub
  <2>6. CASE name # <<Axiom>>
    <3>1. Len(rule) = 1 /\ rule[1].type = "NONTERMINAL" => <<rule[1].value, from, to>> \in B
      <4> SUFFICES ASSUME Len(rule) = 1, rule[1].type = "NONTERMINAL"
                   PROVE  <<rule[1].value, from, to>> \in B
        OBVIOUS
      <4> DEFINE sub == <<rule[1].value, from, to>>
      <4>1. sub \in S /\ sub[1] # <<Axiom>> /\ sub[1] = rule[1].value
        BY <2>4
      <4>2. \A r \in Alternatives(raw, rule[1].value) : Len(r) # 1
        BY <1>3, <2>1, <2>2, <2>6
      <4> HIDE DEF sub
      <4>3. sub \in B
        BY <4>1, <4>2 DEF Found
      <4> QED
        BY <4>3 DEF sub
    <3> HIDE DEF S, name, from, to
    <3>2. /\ from < to /\ <<name, from, to>> \in H
          /\ Len(rule) # 1 => <<name, from, to>> \in B
      BY <1>2, <2>1, <2>2, <2>3, <3>1, RuleFound
    <3>3. (\A r \in Alternatives(raw, name) : Len(r) # 1) => f \in B
      BY <2>1, <2>2, <3>2
    <3> QED
      BY <2>1, <2>6, <3>2, <3>3 DEF Found, name, from, to
  <2> QED
    BY <2>5, <2>6
<1>5. Closed(raw, w, S)
  <2>1. S \subseteq Facts(raw, w)
    OBVIOUS
  <2>2. Following(raw, w, S) \subseteq S
    <3> SUFFICES ASSUME NEW f \in Following(raw, w, S) PROVE f \in S
      OBVIOUS
    <3>1. f \in Facts(raw, w) /\ \E rule \in Alternatives(raw, f[1]) : RuleSpans(S, w, rule, f[2], f[3])
      BY DEF Following
    <3> QED
      BY <1>4, <3>1
  <2> HIDE DEF S
  <2> QED
    BY <2>1, <2>2 DEF Closed
<1>6. Derivations(raw, w) \subseteq S
  BY <1>1, <1>5, DerivationsClosed
<1> QED
  BY <1>6

-----------------------------------------------------------------------------
(* The tokens of the grammar as written are those of its normal form.       *)

\* A name of the grammar has a rule; a name spells a token.
HasRule(name) == name \in DOMAIN rules /\ Alternatives(rules, name) # {}

SpellsToken(name, t) == \E z \in DOMAIN SpellName(name) : SpellName(name)[z] = TerminalOperand(t)

\* Only a token's name spells a token.
LEMMA SpelledToken ==
  ASSUME NEW name \in Name, NEW t \in Terminal, SpellsToken(name, t)
  PROVE  \E p \in DOMAIN name : name[p] = Dotted[t]
<1>1. PICK p \in DOMAIN SpellName(name) : SpellName(name)[p] = TerminalOperand(t)
  BY DEF SpellsToken
<1>2. p \in DOMAIN name /\ name[p] \in Atom /\ Spell(name[p]) = TerminalOperand(t)
  <2>1. DOMAIN name = DOMAIN SpellName(name) /\ SpellName(name)[p] = Spell(name[p])
    BY <1>1 DEF SpellName
  <2>2. name \in Seq(Atom)
    BY DEF Name
  <2> QED
    BY <1>1, <2>1, <2>2
<1>3. name[p] \notin NonTerminal /\ name[p] # Empty
  BY <1>2, SpellNonTerminal, SpellEmpty DEF TerminalOperand, NameOperand, EmptyOperand
<1>4. PICK u \in Terminal : name[p] = Dotted[u]
  BY <1>2, <1>3 DEF Atom
<1>5. u = t
  <2>1. TerminalOperand(u) = TerminalOperand(t)
    BY <1>2, <1>4, SpellDotted
  <2>2. <<u>> = <<t>>
    BY <2>1 DEF TerminalOperand
  <2> QED
    BY <2>2
<1> QED
  BY <1>2, <1>4, <1>5

LEMMA SpelledIsMade ==
  ASSUME NEW name \in Name, NEW t \in Terminal, SpellsToken(name, t)
  PROVE  name \notin SourceName
<1> SUFFICES ASSUME NEW A \in NonTerminal, name = <<A>> PROVE FALSE
  BY DEF SourceName
<1>1. A = Dotted[t]
  BY SpelledToken
<1> QED
  BY <1>1, NamesAssumption

\* A token that a rule stands for is the rule, or is spelled by a name of the rule
\* that has a rule.
LEMMA TokenInRule ==
  ASSUME ExpansionInv, stage = "DONE", NEW name \in DOMAIN rules,
         NEW rule \in Alternatives(rules, name), NEW t \in Terminal,
         NEW q \in DOMAIN Expand(rule), Expand(rule)[q] = TerminalOperand(t)
  PROVE  \/ rule = <<TerminalOperand(t)>>
         \/ \E p \in DOMAIN rule :
              /\ rule[p].value \in Name /\ HasRule(rule[p].value)
              /\ SpellsToken(rule[p].value, t)
              /\ \/ Len(rule) = 1 /\ Len(rule[p].value) = 1
                 \/ Len(rule[p].value) < Len(Expand(rule))
<1>1. MadeRule(rule) /\ Len(rule) <= 2
  BY BinaryNow DEF ExpansionInv, Shape, MadeRules, BinaryForm, AfterBin, Done
<1>2. rule \in Seq(Operand) /\ Len(rule) \in Nat /\ DOMAIN rule = 1..Len(rule)
      /\ \A p \in DOMAIN rule : rule[p] \in Operand
  BY <1>1, RuleShape DEF MadeRule
<1>3. ASSUME NEW p \in DOMAIN rule, rule[p].type # "TERMINAL", NEW z \in DOMAIN ExpandOperand(rule[p]),
             ExpandOperand(rule[p])[z] = TerminalOperand(t)
      PROVE  /\ rule[p].value \in Name /\ HasRule(rule[p].value)
             /\ SpellsToken(rule[p].value, t)
  <2>1. ExpandOperand(rule[p]) = SpellName(rule[p].value)
    BY <1>2, <1>3, OperandSpelled
  <2>2. rule[p].value \in Name
    <3>1. rule[p].type = "EMPTY" => rule[p].value = <<Empty>>
      BY <1>2, OperandKinds
    <3>2. <<Empty>> \in Name
      BY SpellEmpty DEF Name
    <3> QED
      BY <1>2, <1>3, <3>1, <3>2, OperandKinds
  <2>3. SpellsToken(rule[p].value, t)
    BY <1>3, <2>1 DEF SpellsToken
  <2>4. rule[p].value \notin SourceName
    BY <2>2, <2>3, SpelledIsMade
  <2>5. rule[p].type = "NONTERMINAL"
    <3> SUFFICES ASSUME rule[p].type = "EMPTY" PROVE FALSE
      BY <1>2, <1>3, OperandKinds
    <3>1. rule[p].value = <<Empty>>
      BY <1>2, OperandKinds
    <3>2. Empty = Dotted[t]
      BY <2>2, <2>3, <3>1, SpelledToken
    <3> QED
      BY <3>2, NamesAssumption
  <2>6. HasRule(rule[p].value)
    BY <2>4, <2>5 DEF ExpansionInv, NoDanglingName, HasRule
  <2> QED
    BY <2>2, <2>3, <2>6
<1>4. CASE Len(rule) = 1
  <2>1. Expand(rule) = ExpandOperand(rule[1]) /\ 1 \in DOMAIN rule
    BY <1>1, <1>2, <1>4, ExpandShort
  <2>2. CASE rule[1].type = "TERMINAL"
    <3>1. Expand(rule) = <<rule[1]>>
      BY <2>1, <2>2 DEF ExpandOperand
    <3>2. rule[1] = TerminalOperand(t)
      BY <3>1
    <3> QED
      BY <1>2, <1>4, <3>2
  <2>3. CASE rule[1].type # "TERMINAL"
    <3>1. Len(rule[1].value) = 1
      BY <1>1, <1>4, <2>1 DEF MadeRule, Simple
    <3> QED
      BY <1>3, <1>4, <2>1, <2>3, <3>1
  <2> QED
    BY <2>2, <2>3
<1>5. CASE Len(rule) = 2
  <2> DEFINE a == ExpandOperand(rule[1])
             b == ExpandOperand(rule[2])
  <2>1. /\ Expand(rule) = a \o b
        /\ 1 \in DOMAIN rule /\ 2 \in DOMAIN rule
        /\ rule[1].type # "TERMINAL" /\ rule[2].type # "TERMINAL"
    <3>1. Expand(rule) = a \o b
      <4> HIDE DEF a, b
      <4>1. Expand(rule) = ExpandOperand(rule[1]) \o ExpandOperand(rule[2])
        BY <1>1, <1>2, <1>5, ExpandShort
      <4> QED
        BY <4>1 DEF a, b
    <3>2. 1 \in DOMAIN rule /\ 2 \in DOMAIN rule
      BY <1>2, <1>5
    <3>3. rule[1].type # "TERMINAL" /\ rule[2].type # "TERMINAL"
      BY <1>1, <1>5, <3>2 DEF MadeRule
    <3> QED
      BY <3>1, <3>2, <3>3
  <2>2. ASSUME NEW p \in {1, 2}
        PROVE  /\ ExpandOperand(rule[p]) \in Seq(SourceOperand)
               /\ Len(ExpandOperand(rule[p])) \in Nat \ {0}
               /\ rule[p].value \in Name => Len(ExpandOperand(rule[p])) = Len(rule[p].value)
    <3>1. ExpandOperand(rule[p]) = SpellName(rule[p].value)
          /\ ExpandOperand(rule[p]) \in Seq(SourceOperand)
      BY <1>2, <2>1, OperandSpelled
    <3>2. rule[p].value \in Name
      <4>1. rule[p].type = "EMPTY" => rule[p].value = <<Empty>>
        BY <1>2, <2>1, OperandKinds
      <4>2. <<Empty>> \in Name
        BY SpellEmpty DEF Name
      <4> QED
        BY <1>2, <2>1, <4>1, <4>2, OperandKinds
    <3>3. Len(SpellName(rule[p].value)) = Len(rule[p].value) /\ Len(rule[p].value) \in Nat \ {0}
      BY <3>1, <3>2, SpelledLength
    <3> QED
      BY <3>1, <3>3
  <2>3. /\ a \in Seq(SourceOperand) /\ Len(a) \in Nat \ {0}
        /\ b \in Seq(SourceOperand) /\ Len(b) \in Nat \ {0}
    BY <2>2
  <2>4. /\ Len(a) < Len(Expand(rule)) /\ Len(b) < Len(Expand(rule))
        /\ \/ \E z \in DOMAIN a : a[z] = TerminalOperand(t)
           \/ \E z \in DOMAIN b : b[z] = TerminalOperand(t)
    <3> HIDE DEF a, b
    <3>1. /\ Len(a \o b) = Len(a) + Len(b)
          /\ \A m \in DOMAIN (a \o b) : \/ m \in DOMAIN a /\ (a \o b)[m] = a[m]
                                        \/ m - Len(a) \in DOMAIN b /\ (a \o b)[m] = b[m - Len(a)]
      BY <2>3
    <3> QED
      BY <2>1, <2>3, <3>1
  <2>5. CASE \E z \in DOMAIN a : a[z] = TerminalOperand(t)
    BY <1>3, <2>1, <2>2, <2>4, <2>5
  <2>6. CASE \E z \in DOMAIN b : b[z] = TerminalOperand(t)
    BY <1>3, <2>1, <2>2, <2>4, <2>6
  <2> QED
    BY <2>4, <2>5, <2>6
<1>6. CASE Len(rule) = 0
  <2>1. rule = <<>>
    BY <1>2, <1>6
  <2>2. Expand(rule) = <<>>
    BY <2>1 DEF Expand
  <2> QED
    BY <2>2
<1> QED
  BY <1>1, <1>2, <1>4, <1>5, <1>6

\* A token has a rule, that is, a name whose rule it is.
TokenHasRule(t) ==
  \E name \in DOMAIN rules : <<TerminalOperand(t)>> \in Alternatives(rules, name)

\* Whatever name of the normal form spells a token: by induction on its length.
LEMMA SpelledHasRule ==
  ASSUME ExpansionInv, LinksInv, stage = "DONE", NEW t \in Terminal
  PROVE  \A name \in Name : HasRule(name) /\ SpellsToken(name, t) => TokenHasRule(t)
<1> DEFINE S == {n \in Nat : \A name \in Name :
                   HasRule(name) /\ SpellsToken(name, t) /\ Len(name) <= n => TokenHasRule(t)}
<1>1. 0 \in S
  <2>1. \A name \in Name : ~ (Len(name) <= 0)
    BY SpelledLength
  <2> QED
    BY <2>1
<1>2. ASSUME NEW n \in Nat, n \in S PROVE n + 1 \in S
  <2> SUFFICES ASSUME NEW name \in Name, HasRule(name), SpellsToken(name, t), Len(name) <= n + 1
               PROVE  TokenHasRule(t)
    OBVIOUS
  <2>1. PICK rule \in Alternatives(rules, name) : name \in DOMAIN rules
    BY DEF HasRule
  <2>2. name \notin SourceName
    BY SpelledIsMade
  <2>3. Expand(rule) = SpellName(name)
    BY <2>1, <2>2 DEF ExpansionInv, ExpansionSound, ExpandsToSource, StandsFor
  <2>4. CASE name \in TokenName
    <3>1. PICK u \in Terminal : name = <<Dotted[u]>>
      BY <2>4 DEF TokenName
    <3>2. u = t
      BY <3>1, SpelledToken, NamesAssumption
    <3>3. rule = <<TerminalOperand(t)>>
      BY <2>1, <2>4, <3>1, <3>2, SpellTokenName DEF LinksInv, TokensAlone
    <3> QED
      BY <2>1, <3>3 DEF TokenHasRule
  <2>5. CASE name \notin TokenName
    <3>1. Len(name) > 1
      BY <2>1, <2>2, <2>5 DEF ExpansionInv, Shape, Keys
    <3>2. PICK q \in DOMAIN Expand(rule) : Expand(rule)[q] = TerminalOperand(t)
      BY <2>3 DEF SpellsToken
    <3>3. rule # <<TerminalOperand(t)>>
      BY <2>1, <2>5 DEF LinksInv, TokensNamed, TerminalOperand
    <3>4. PICK p \in DOMAIN rule :
            /\ rule[p].value \in Name /\ HasRule(rule[p].value)
            /\ SpellsToken(rule[p].value, t)
            /\ \/ Len(rule) = 1 /\ Len(rule[p].value) = 1
               \/ Len(rule[p].value) < Len(Expand(rule))
      BY <2>1, <3>2, <3>3, TokenInRule
    <3>5. Len(rule[p].value) <= n
      <4> DEFINE v == Len(rule[p].value)
                 e == Len(Expand(rule))
                 m == Len(name)
      <4>1. v \in Nat /\ m \in Nat /\ (v = 1 \/ v < e) /\ m > 1 /\ m <= n + 1
        BY <3>1, <3>4, SpelledLength
      <4>2. e = m
        <5>1. SpellName(name) \in Seq(Range(SpellName(name)))
          <6>1. DOMAIN SpellName(name) = 1..Len(name) /\ Len(name) \in Nat
            BY SpelledLength
          <6> DEFINE s == SpellName(name)
                     k == Len(name)
          <6>2. s = [z \in 1..k |-> s[z]]
            BY <6>1 DEF SpellName
          <6> HIDE DEF s, k
          <6>3. s \in Seq(Range(s))
            BY <6>1, <6>2 DEF Range, s, k
          <6> QED
            BY <6>3 DEF s
        <5> QED
          BY <2>3, <5>1, SpelledLength
      <4> HIDE DEF v, e, m
      <4>3. v <= n
        BY <4>1, <4>2
      <4> QED
        BY <4>3 DEF v
    <3> QED
      BY <1>2, <3>4, <3>5
  <2> QED
    BY <2>4, <2>5
<1> HIDE DEF S
<1>3. Nat \subseteq S
  BY <1>1, <1>2, AllNat
<1> SUFFICES ASSUME NEW name \in Name, HasRule(name), SpellsToken(name, t) PROVE TokenHasRule(t)
  OBVIOUS
<1>4. Len(name) \in Nat
  BY SpelledLength
<1>5. Len(name) \in S /\ Len(name) <= Len(name)
  BY <1>3, <1>4
<1> QED
  BY <1>5 DEF S

\* Every token of a rule as the author wrote it has a rule.
LEMMA TokensHaveRules ==
  ASSUME ExpansionInv, LinksInv, stage = "DONE", NEW name \in DOMAIN raw,
         NEW source \in Alternatives(raw, name), NEW t \in Terminal,
         NEW q \in DOMAIN source, source[q] = TerminalOperand(t)
  PROVE  TokenHasRule(t)
<1>1. ~ IsEmptyRule(source)
  <2> SUFFICES ASSUME Len(source) = 1, source[1].type = "EMPTY" PROVE FALSE
    BY DEF IsEmptyRule
  <2>1. q = 1
    <3>1. source \in Seq(SourceOperand)
      BY DEF ExpansionInv, TypeOK, IsSource, Alternatives
    <3> QED
      BY <3>1
  <2> QED
    BY <2>1 DEF TerminalOperand
<1>2. PICK rule \in Alternatives(rules, name) : name \in DOMAIN rules /\ Expand(rule) = source
  BY <1>1 DEF ExpansionInv, ExpansionComplete
<1>3. \/ rule = <<TerminalOperand(t)>>
      \/ \E p \in DOMAIN rule :
           /\ rule[p].value \in Name /\ HasRule(rule[p].value) /\ SpellsToken(rule[p].value, t)
  BY <1>2, TokenInRule
<1> QED
  BY <1>2, <1>3, SpelledHasRule DEF TokenHasRule

-----------------------------------------------------------------------------
(* The theorems.                                                            *)

\* The inductive invariant of get2nf.
NormalInv ==
  /\ ExpansionInv /\ NullablesInv /\ DoublesInv /\ NamesInv
  /\ UnitSound /\ LinksInv /\ AxiomInv

LEMMA NormalInit == Init => NormalInv
BY ExpansionInit, NullablesInit, DoublesInit, NamesInit, LinksInit, AxiomInit
   DEF NormalInv, UnitSound, Init, NoUnits

LEMMA NormalStep == NormalInv /\ [Next]_vars => NormalInv'
<1> SUFFICES ASSUME ExpansionInv, NullablesInv, DoublesInv, NamesInv, UnitSound, LinksInv,
                    AxiomInv, [Next]_vars
             PROVE  /\ ExpansionInv' /\ NullablesInv' /\ DoublesInv' /\ NamesInv'
                    /\ UnitSound' /\ LinksInv' /\ AxiomInv'
  BY DEF NormalInv
<1>1. TypeOK /\ BinaryForm /\ NullablesSound
  BY BinaryNow DEF ExpansionInv, NullablesInv
<1> QED
  BY <1>1, ExpansionStep, NullablesStep, DoublesStep, NamesStep, UnitSoundStep, LinksStep,
     AxiomStep

\* Before any grammar is loaded there is nothing to put in normal form.
Blank ==
  /\ raw = NoRules /\ rules = NoRules /\ unit = NoUnits
  /\ stage = "DONE"
  /\ keys = {} /\ key = NoKey /\ pending = <<>> /\ nf = NoRules
  /\ changed = FALSE /\ nullables = {} /\ todo = {} /\ occ = {}

LEMMA BlankNormal == Blank => NormalInv
<1> SUFFICES ASSUME Blank PROVE NormalInv
  OBVIOUS
<1>1. DOMAIN NoRules = {} /\ DOMAIN unit = {} /\ IsSource(raw) /\ pending \in Seq(Rule)
  BY NoRulesType DEF Blank, NoUnits, IsSource
<1>2. TypeOK
  BY <1>1, NoRulesType DEF Blank, TypeOK
<1>3. ExpansionInv
  BY <1>1, <1>2, NoRulesType
     DEF Blank, ExpansionInv, BetweenPasses, Shape, MadeRules, Keys, PendingFromKey,
       ExpansionSound, ExpandsToSource, ExpansionComplete, PassComplete, NoDanglingName,
       NoDanglingInPass, BinaryInPass, Short, AfterBin, Done, Passes
<1>4. NullablesInv
  BY DEF Blank, NullablesInv, OccurrencesOfKey, SaturatedButForWork, NullablesSound
<1>5. DoublesInv
  BY <1>1 DEF Blank, DoublesInv, DistinctRules
<1>6. NamesInv /\ UnitSound /\ LinksInv /\ AxiomInv
  BY <1>1, NoRulesType
     DEF Blank, NamesInv, UnitSound, LinksInv, TokensAlone, TokensNamed, UnitsKept, UnitsOfRules, AxiomInv,
       AxiomApart
<1> QED
  BY <1>3, <1>4, <1>5, <1>6 DEF NormalInv

\* The invariant that the theorems rest on holds in every state of get2nf.
THEOREM NormalFormInvariant == Spec => []NormalInv
BY NormalInit, NormalStep, PTL DEF Spec

\* The variables of get2nf keep their types for every grammar.
THEOREM NormalFormTypes == Spec => []TypeOK
<1>1. NormalInv => TypeOK
  BY DEF NormalInv, ExpansionInv
<1> QED
  BY <1>1, NormalFormInvariant, PTL

\* No pass of get2nf invents a rule: every rule stands for what its author wrote.
THEOREM NothingInvented == Spec => []ExpansionSound
<1>1. NormalInv => ExpansionSound
  BY DEF NormalInv, ExpansionInv
<1> QED
  BY <1>1, NormalFormInvariant, PTL

\* No pass of get2nf loses an alternative that is not the empty one.
THEOREM NothingLost == Spec => []ExpansionComplete
<1>1. NormalInv => ExpansionComplete
  BY DEF NormalInv, ExpansionInv
<1> QED
  BY <1>1, NormalFormInvariant, PTL

\* Every name that TERM or BIN made and a rule mentions has a rule.
THEOREM NothingDangles == Spec => []NoDanglingName
<1>1. NormalInv => NoDanglingName
  BY DEF NormalInv, ExpansionInv
<1> QED
  BY <1>1, NormalFormInvariant, PTL

\* The rounds of BIN end in binary form, with no token beside another operand.
THEOREM NormalFormIsBinary == Spec => []BinaryForm
<1>1. NormalInv => BinaryForm
  BY BinaryNow DEF NormalInv
<1> QED
  BY <1>1, NormalFormInvariant, PTL

\* A rule that BIN has still to cut has operands of one atom, so that the name
\* joined from its tail is unambiguous.
THEOREM CutRulesAreSimple == Spec => []LongRulesAreSimple
<1>1. NormalInv => LongRulesAreSimple
  <2> SUFFICES ASSUME ExpansionInv, NEW name \in DOMAIN rules,
                      NEW rule \in Alternatives(rules, name), NEW p \in DOMAIN rule
               PROVE  Simple(rule[p].value) \/ (Len(rule) = 2 /\ p = 2)
    BY DEF NormalInv, LongRulesAreSimple
  <2>1. CASE stage = "TERM"
    <3>1. rule \in Seq(SourceOperand)
      BY <2>1 DEF ExpansionInv, Shape, TypeOK, IsSource, Alternatives
    <3> QED
      BY <3>1, SourceRuleType
  <2>2. CASE stage # "TERM"
    BY <2>2 DEF ExpansionInv, Shape, MadeRules, MadeRule
  <2> QED
    BY <2>1, <2>2
<1> QED
  BY <1>1, NormalFormInvariant, PTL

\* getnullables marks no key that does not produce the empty word.
THEOREM NullablesAreSound == Spec => []NullablesSound
<1>1. NormalInv => NullablesSound
  BY DEF NormalInv, NullablesInv
<1> QED
  BY <1>1, NormalFormInvariant, PTL

\* getnullables misses no key with two nullable operands, in whatever order its
\* stack gives them out.
THEOREM NullablesAreSaturated == Spec => []NullablesSaturated
<1>1. NormalInv => NullablesSaturated
  BY DEF NormalInv, NullablesInv, SaturatedButForWork, NullablesSaturated
<1> QED
  BY <1>1, NormalFormInvariant, PTL

\* The grammar that eliminatedoubles leaves has no alternative twice, and
\* removenullables does not bring one back.
THEOREM NothingTwice == Spec => []NoDoubles
<1>1. NormalInv => NoDoubles
  BY DEF NormalInv, DoublesInv, DistinctRules, NoRepeat, NoDoubles
<1> QED
  BY <1>1, NormalFormInvariant, PTL

\* In a normal form the values of a pair's operands are the pair: only the empty
\* operand and a name are left, and no name is the empty operand's value.
LEMMA PairsOfValues ==
  ASSUME ExpansionInv, AfterDoubles, NEW name \in DOMAIN rules,
         NEW r \in Alternatives(rules, name), NEW s \in Alternatives(rules, name),
         Len(r) > 1, Len(s) > 1,
         r[1].value = s[1].value, r[2].value = s[2].value
  PROVE  r = s
<1>1. ASSUME NEW rule \in Alternatives(rules, name), Len(rule) > 1
      PROVE  /\ rule \in Seq(Operand) /\ Len(rule) = 2
             /\ \A p \in {1, 2} : \/ rule[p] = EmptyOperand
                                  \/ rule[p] = NameOperand(rule[p].value) /\ rule[p].value # <<Empty>>
  <2>1. MadeRule(rule) /\ Len(rule) <= 2
    BY DEF ExpansionInv, Shape, MadeRules, AfterDoubles, BinaryInPass, AfterBin, Short, Done
  <2>a. rule \in Rule
    BY <2>1 DEF MadeRule
  <2>b. rule \in Seq(Operand) /\ Len(rule) \in Nat /\ DOMAIN rule = 1..Len(rule)
    BY <2>a, RuleShape
  <2>c. Len(rule) = 2
    BY <1>1, <2>1, <2>b
  <2>d. DOMAIN rule = {1, 2}
    BY <2>b, <2>c
  <2>2. rule \in Seq(Operand) /\ Len(rule) = 2 /\ DOMAIN rule = {1, 2}
    BY <2>b, <2>c, <2>d
  <2>3. ASSUME NEW p \in {1, 2}
        PROVE  \/ rule[p] = EmptyOperand
               \/ rule[p] = NameOperand(rule[p].value) /\ rule[p].value # <<Empty>>
    <3>1. rule[p] \in Operand /\ rule[p].type # "TERMINAL"
      <4>1. Len(rule) # 1 => \A q \in DOMAIN rule : rule[q].type # "TERMINAL"
        BY <2>1, Zenon DEF MadeRule
      <4>2. \A q \in DOMAIN rule : rule[q] \in Operand
        BY <2>a, RuleShape
      <4>3. Len(rule) # 1
        BY <2>c
      <4>4. p \in DOMAIN rule
        BY <2>d
      <4> QED
        BY <4>1, <4>2, <4>3, <4>4
    <3>2. rule[p] = EmptyOperand \/ rule[p] \in [value : Name, type : {"NONTERMINAL"}]
      BY <3>1 DEF Operand, TerminalOperands
    <3>3. ASSUME rule[p] \in [value : Name, type : {"NONTERMINAL"}]
          PROVE  rule[p] = NameOperand(rule[p].value) /\ rule[p].value # <<Empty>>
      <4>1. rule[p].type = "NONTERMINAL"
        BY <3>3
      <4>2. rule[p].value \in SourceName \/ rule[p].value \in DOMAIN rules
        BY <2>2, <4>1 DEF ExpansionInv, NoDanglingName
      <4>3. \/ rule[p].value \in SourceName \/ rule[p].value \in TokenName
            \/ Len(rule[p].value) > 1
        BY <4>2 DEF ExpansionInv, Shape, Keys
      <4> DEFINE v == rule[p].value
      <4> HIDE DEF v
      <4>5. v \in SourceName \/ v \in TokenName \/ Len(v) > 1
        BY <4>3 DEF v
      <4>6. v # <<Empty>>
        <5>1. ASSUME v \in SourceName
              PROVE  v # <<Empty>>
          BY <5>1, NamesAssumption DEF SourceName
        <5>2. ASSUME v \in TokenName
              PROVE  v # <<Empty>>
          BY <5>2, NamesAssumption DEF TokenName
        <5>3. ASSUME Len(v) > 1
              PROVE  v # <<Empty>>
          <6>1. Len(<<Empty>>) = 1
            OBVIOUS
          <6>2. v = <<Empty>> => Len(v) = Len(<<Empty>>)
            BY Zenon
          <6>3. ASSUME NEW m, m = 1, m > 1
                PROVE  FALSE
            BY <6>3
          <6> QED BY <5>3, <6>1, <6>2, <6>3, Zenon
        <5> QED BY <4>5, <5>1, <5>2, <5>3
      <4>4. rule[p].value # <<Empty>>
        BY <4>6 DEF v
      <4> QED
        BY <3>3, <4>4 DEF NameOperand
    <3> QED
      BY <3>2, <3>3
  <2> QED
    BY <2>2, <2>3
<1>2. /\ r \in Seq(Operand) /\ Len(r) = 2
      /\ \A p \in {1, 2} : \/ r[p] = EmptyOperand
                           \/ r[p] = NameOperand(r[p].value) /\ r[p].value # <<Empty>>
  BY <1>1
<1>3. /\ s \in Seq(Operand) /\ Len(s) = 2
      /\ \A p \in {1, 2} : \/ s[p] = EmptyOperand
                           \/ s[p] = NameOperand(s[p].value) /\ s[p].value # <<Empty>>
  BY <1>1
<1>4. EmptyOperand.value = <<Empty>>
  BY DEF EmptyOperand
<1>5. \A p \in {1, 2} : r[p].value = s[p].value
  OBVIOUS
<1>6. r[1] = s[1] /\ r[2] = s[2]
  BY <1>2, <1>3, <1>4, <1>5
<1> QED
  BY <1>2, <1>3, <1>6

\* Neither does CYK read an alternative of the finished grammar like another,
\* though it compares the values of two operands only: what the theorem on its
\* trees asks of a grammar.
THEOREM NothingReadTwice == Spec => [](AfterDoubles => Unrepeated(rules))
<1>1. NormalInv => (AfterDoubles => Unrepeated(rules))
  <2> SUFFICES ASSUME ExpansionInv, DoublesInv, AfterDoubles, NEW name \in DOMAIN rules,
                      NEW m \in DOMAIN rules[name], NEW n \in DOMAIN rules[name],
                      \/ rules[name][m] = rules[name][n]
                      \/ /\ Len(rules[name][m]) > 1 /\ Len(rules[name][n]) > 1
                         /\ rules[name][m][1].value = rules[name][n][1].value
                         /\ rules[name][m][2].value = rules[name][n][2].value
               PROVE  m = n
    BY DEF NormalInv, Unrepeated
  <2>1. rules[name][m] = rules[name][n]
    BY PairsOfValues DEF Alternatives
  <2> QED
    BY <2>1 DEF DoublesInv, DistinctRules, NoRepeat
<1> QED
  BY <1>1, NormalFormInvariant, PTL

=============
