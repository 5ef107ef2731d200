---------------------------- MODULE LRZeroProofs ----------------------------
(***************************************************************************)
(* Theorems about LRZero and their proofs: the graph that LR_zero builds   *)
(* loses no item, the constructor refuses a grammar for an empty operand   *)
(* only, and membership keeps its two stacks in step, for every grammar    *)
(* that is loaded and every word.                                          *)
(***************************************************************************)
EXTENDS LRZero, SequenceFacts, FiniteSetTheorems

-----------------------------------------------------------------------------
(* Types.                                                                   *)

\* The loaded rules: finitely many, of operands as a grammar file can have
\* them.
RulesOK == IsSource(rules) /\ IsFiniteSet(DOMAIN rules)

\* The names that a rule can ask for.
AName == {<<A>> : A \in NonTerminal}

\* A name without rules has the empty list of alternatives.
LEMMA RulesAtType ==
  ASSUME RulesOK, NEW name
  PROVE  RulesAt(rules, name) \in Seq(Seq(SourceOperand))
BY DEF RulesOK, IsSource, RulesAt

\* One item for every alternative, at its start.
LEMMA ItemsType ==
  ASSUME NEW alternatives \in Seq(Seq(SourceOperand))
  PROVE  /\ Items(alternatives) \in Seq(AnItem)
         /\ \A it : it \in Range(Items(alternatives)) <=>
              \E rule \in Range(alternatives) : it = Item(rule)
<1>1. \A n \in DOMAIN alternatives : Item(alternatives[n]) \in AnItem
  BY DEF Item, AnItem
<1>2. Items(alternatives) \in Seq(AnItem)
  BY <1>1 DEF Items
<1>3. DOMAIN Items(alternatives) = DOMAIN alternatives
  BY DEF Items
<1> QED
  BY <1>2, <1>3 DEF Items, Range

\* An operand is a token, a name or empty, and its value is one text.
LEMMA OperandKinds ==
  ASSUME NEW operand \in SourceOperand
  PROVE  /\ operand.type \in {"TERMINAL", "NONTERMINAL", "EMPTY"}
         /\ operand.type = "NONTERMINAL" => operand.value \in AName
         /\ \E x : operand.value = <<x>>
BY DEF SourceOperand, TerminalOperands, EmptyOperand, AName

\* get_non_terminals gives the names in the alternatives that are not
\* processed.
LEMMA NamesInAre ==
  ASSUME NEW alternatives \in Seq(Seq(SourceOperand)), NEW processed
  PROVE  /\ NamesIn(alternatives, processed) \in Seq(AName)
         /\ \A x : x \in Range(NamesIn(alternatives, processed)) <=>
              /\ x \notin processed
              /\ \E rule \in Range(alternatives) : \E k \in DOMAIN rule :
                   rule[k].type = "NONTERMINAL" /\ rule[k].value = x
<1> DEFINE operands == FlattenSeq(alternatives)
           values == [m \in DOMAIN operands |-> operands[m].value]
           places == {m \in DOMAIN operands : /\ operands[m].type = "NONTERMINAL"
                                              /\ operands[m].value \notin processed}
           Values == {operand.value : operand \in SourceOperand}
<1>1. operands \in Seq(SourceOperand)
  BY FlattenType
<1>2. NamesIn(alternatives, processed) = Pick(values, places)
  BY DEF NamesIn
<1> HIDE DEF operands
<1>3. values \in Seq(Values) /\ DOMAIN values = DOMAIN operands
  BY <1>1
<1>4. ASSUME NEW x
      PROVE  x \in Range(Pick(values, places)) <=>
               /\ x \notin processed
               /\ \E o \in Range(operands) : o.type = "NONTERMINAL" /\ o.value = x
  <2>1. x \in Range(Pick(values, places)) <=>
          \E p \in DOMAIN values : p \in places /\ x = values[p]
    <3> HIDE DEF values, places, Values
    <3> QED BY <1>3, PickRange
  <2> QED BY <1>3, <2>1 DEF Range
<1>5. \A o : o \in Range(operands) <=> \E rule \in Range(alternatives) : o \in Range(rule)
  <2>1. ASSUME NEW o
        PROVE  o \in Range(operands) <=> \E m \in DOMAIN alternatives : o \in Range(alternatives[m])
    BY FlattenRange DEF operands
  <2>2. ASSUME NEW o
        PROVE  (\E m \in DOMAIN alternatives : o \in Range(alternatives[m])) <=>
                 \E rule \in Range(alternatives) : o \in Range(rule)
    BY DEF Range
  <2> QED BY <2>1, <2>2
<1>6. Pick(values, places) \in Seq(Values)
  <2> HIDE DEF values, places, Values
  <2> QED BY <1>3, PickType
<1>7. ASSUME NEW x
      PROVE  x \in Range(Pick(values, places)) <=>
               /\ x \notin processed
               /\ \E rule \in Range(alternatives) : \E k \in DOMAIN rule :
                    rule[k].type = "NONTERMINAL" /\ rule[k].value = x
  <2> HIDE DEF values, places
  <2>1. x \in Range(Pick(values, places)) <=>
               /\ x \notin processed
               /\ \E o \in Range(operands) : o.type = "NONTERMINAL" /\ o.value = x
    BY <1>4
  <2>2. (\E o \in Range(operands) : o.type = "NONTERMINAL" /\ o.value = x) <=>
          \E rule \in Range(alternatives) : \E o \in Range(rule) : o.type = "NONTERMINAL" /\ o.value = x
    BY <1>5
  <2>3. ASSUME NEW rule
        PROVE  (\E o \in Range(rule) : o.type = "NONTERMINAL" /\ o.value = x) <=>
                 \E k \in DOMAIN rule : rule[k].type = "NONTERMINAL" /\ rule[k].value = x
    BY DEF Range
  <2> QED BY <2>1, <2>2, <2>3
<1>8. Pick(values, places) \in Seq(AName)
  <2> HIDE DEF values, places
  <2>1. ASSUME NEW n \in 1..Len(Pick(values, places))
        PROVE  Pick(values, places)[n] \in AName
    <3>1. Pick(values, places)[n] \in Range(Pick(values, places))
      BY <1>6 DEF Range
    <3>2. PICK o \in Range(operands) : o.type = "NONTERMINAL" /\ o.value = Pick(values, places)[n]
      BY <1>4, <3>1
    <3>3. o \in SourceOperand
      BY <1>1 DEF Range
    <3> QED BY <3>2, <3>3, OperandKinds
  <2> QED BY <1>6, <2>1
<1> QED
  BY <1>2, <1>7, <1>8

-----------------------------------------------------------------------------
(* The worklist of make_closure.                                            *)

\* pop_back, and the element that it takes.
LEMMA FrontIs ==
  ASSUME NEW T, NEW s \in Seq(T), Len(s) > 0
  PROVE  /\ Front(s) \in Seq(T) /\ Len(Front(s)) = Len(s) - 1
         /\ \A n \in 1..(Len(s) - 1) : Front(s)[n] = s[n]
         /\ Last(s) = s[Len(s)] /\ Last(s) \in T /\ Last(s) \in Range(s)
         /\ s = Append(Front(s), Last(s))
         /\ \A x : x \in Range(s) <=> x = Last(s) \/ x \in Range(Front(s))
<1> DEFINE f == Front(s)
           x == Last(s)
<1>1. f = SubSeq(s, 1, Len(s) - 1) /\ x = s[Len(s)] /\ x \in T
  BY DEF Front, Last
<1>2. f \in Seq(T) /\ Len(f) = Len(s) - 1 /\ \A n \in 1..(Len(s) - 1) : f[n] = s[n]
  <2> DEFINE k == Len(s) - 1
  <2>1. k \in Nat /\ k <= Len(s)
    OBVIOUS
  <2>2. /\ SubSeq(s, 1, k) \in Seq(T) /\ Len(SubSeq(s, 1, k)) = k
        /\ \A n \in 1..k : SubSeq(s, 1, k)[n] = s[n]
    <3> HIDE DEF k
    <3> QED BY <2>1
  <2> HIDE DEF f
  <2> QED BY <1>1, <2>2
<1> HIDE DEF f, x
<1>3. Len(s) \in Nat /\ DOMAIN s = 1..Len(s) /\ DOMAIN f = 1..(Len(s) - 1)
  BY <1>2
<1>4. s = Append(f, x)
  BY <1>1, <1>2
<1>5. x \in Range(s)
  BY <1>1, <1>3 DEF Range
<1>6. ASSUME NEW y \in Range(s), y # x
      PROVE  y \in Range(f)
  <2>1. PICK n \in 1..Len(s) : y = s[n]
    BY <1>3, <1>6 DEF Range
  <2>2. n \in 1..(Len(s) - 1)
    BY <1>1, <1>6, <2>1
  <2> QED BY <1>2, <1>3, <2>1, <2>2 DEF Range
<1>7. ASSUME NEW y \in Range(f)
      PROVE  y \in Range(s)
  <2>1. PICK n \in 1..(Len(s) - 1) : y = f[n]
    BY <1>3, <1>7 DEF Range
  <2>2. n \in 1..Len(s)
    BY <1>3
  <2> QED BY <1>2, <1>3, <2>1, <2>2 DEF Range
<1> QED
  BY <1>1, <1>2, <1>4, <1>5, <1>6, <1>7 DEF f, x

\* One round of make_closure's loop, field by field.
LEMMA RoundIs ==
  ASSUME RulesOK, NEW w \in Work, w.q # <<>>
  PROVE  LET name == Last(w.q)
             alternatives == RulesAt(rules, name)
         IN  /\ name \in AName /\ name \in Range(w.q)
             /\ Len(Front(w.q)) = Len(w.q) - 1
             /\ Front(w.q) \in Seq(AName)
             /\ \A x : x \in Range(w.q) <=> x = name \/ x \in Range(Front(w.q))
             /\ TakeName(w) \in Work
             /\ name \in w.processed =>
                  /\ TakeName(w).q = Front(w.q)
                  /\ TakeName(w).items = w.items
                  /\ TakeName(w).processed = w.processed
             /\ name \notin w.processed =>
                  /\ TakeName(w).q = Front(w.q) \o NamesIn(alternatives, w.processed)
                  /\ TakeName(w).items = w.items \o Items(alternatives)
                  /\ TakeName(w).processed = w.processed \cup {name}
<1> DEFINE name == Last(w.q)
           alternatives == RulesAt(rules, name)
<1>1. w.q \in Seq(AName) /\ w.items \in Seq(AnItem) /\ w.processed \in SUBSET AName
      /\ w = [items |-> w.items, q |-> w.q, processed |-> w.processed]
  BY DEF Work, AName
<1>2. Len(w.q) > 0
  BY <1>1
<1>3. name = w.q[Len(w.q)] /\ name \in AName /\ name \in Range(w.q)
  BY <1>1, <1>2 DEF Last, Range
<1>4. /\ Front(w.q) \in Seq(AName) /\ Len(Front(w.q)) = Len(w.q) - 1
      /\ \A n \in 1..(Len(w.q) - 1) : Front(w.q)[n] = w.q[n]
  BY <1>1, <1>2, FrontIs
<1>5. \A x : x \in Range(w.q) <=> x = name \/ x \in Range(Front(w.q))
  BY <1>1, <1>2, FrontIs
<1>6. alternatives \in Seq(Seq(SourceOperand))
  BY RulesAtType
<1>7. Items(alternatives) \in Seq(AnItem) /\ NamesIn(alternatives, w.processed) \in Seq(AName)
  <2> HIDE DEF alternatives
  <2> QED BY <1>6, ItemsType, NamesInAre
<1> HIDE DEF name, alternatives
<1>8. TakeName(w) = IF name \in w.processed THEN [w EXCEPT !.q = Front(@)]
                    ELSE [items |-> w.items \o Items(alternatives),
                          q |-> Front(w.q) \o NamesIn(alternatives, w.processed),
                          processed |-> w.processed \cup {name}]
  BY DEF TakeName, name, alternatives
<1>9. [w EXCEPT !.q = Front(@)] = [items |-> w.items, q |-> Front(w.q), processed |-> w.processed]
  BY <1>1
<1>10. \A i \in Seq(AnItem), q \in Seq(AName), p \in SUBSET AName :
         [items |-> i, q |-> q, processed |-> p] \in Work
  BY DEF Work, AName
<1>11. CASE name \in w.processed
  BY <1>1, <1>3, <1>4, <1>5, <1>8, <1>9, <1>10, <1>11 DEF name, alternatives
<1>12. CASE name \notin w.processed
  <2>1. w.items \o Items(alternatives) \in Seq(AnItem)
        /\ Front(w.q) \o NamesIn(alternatives, w.processed) \in Seq(AName)
        /\ w.processed \cup {name} \in SUBSET AName
    BY <1>1, <1>3, <1>4, <1>7
  <2>2. TakeName(w) = [items |-> w.items \o Items(alternatives),
                       q |-> Front(w.q) \o NamesIn(alternatives, w.processed),
                       processed |-> w.processed \cup {name}]
    BY <1>8, <1>12
  <2>3. /\ TakeName(w) \in Work
        /\ TakeName(w).q = Front(w.q) \o NamesIn(alternatives, w.processed)
        /\ TakeName(w).items = w.items \o Items(alternatives)
        /\ TakeName(w).processed = w.processed \cup {name}
    <3> DEFINE i == w.items \o Items(alternatives)
               q == Front(w.q) \o NamesIn(alternatives, w.processed)
               p == w.processed \cup {name}
    <3>1. [items |-> i, q |-> q, processed |-> p] \in Work
      <4> HIDE DEF i, q, p
      <4> QED BY <1>10, <2>1 DEF i, q, p
    <3> HIDE DEF i, q, p
    <3>2. TakeName(w) = [items |-> i, q |-> q, processed |-> p]
      BY <2>2 DEF i, q, p
    <3>3. TakeName(w) \in Work /\ TakeName(w).items = i /\ TakeName(w).q = q
          /\ TakeName(w).processed = p
      BY <3>1, <3>2
    <3> QED BY <3>3 DEF i, q, p
  <2> QED BY <1>3, <1>4, <1>5, <1>12, <2>3 DEF name, alternatives
<1> QED
  BY <1>11, <1>12

\* A set of working states that a round does not leave.
RoundClosed(G) == \A v \in G : v.q # <<>> => TakeName(v) \in G

\* The states that the rounds reach, and the items with which they end.
Reach(w) == {v \in Work : \A G \in SUBSET Work : w \in G /\ RoundClosed(G) => v \in G}

\* The items of the ended states among them: at most one list.
EndsOf(w) == {v.items : v \in {x \in Reach(w) : x.q = <<>>}}

\* A round does not change what the loop ends with.
LEMMA EndsStep ==
  ASSUME RulesOK, NEW w \in Work
  PROVE  EndsOf(w) = IF w.q = <<>> THEN {w.items} ELSE EndsOf(TakeName(w))
<1>1. w \in Reach(w)
  BY DEF Reach
<1>2. CASE w.q = <<>>
  <2>1. {w} \in SUBSET Work /\ RoundClosed({w})
    BY <1>2 DEF RoundClosed
  <2>2. Reach(w) = {w}
    BY <1>1, <2>1 DEF Reach
  <2> QED BY <1>2, <2>2 DEF EndsOf
<1>3. CASE w.q # <<>>
  <2> DEFINE t == TakeName(w)
  <2>1. t \in Work
    BY <1>3, RoundIs
  <2>2. ASSUME NEW v \in Reach(t)
        PROVE  v \in Reach(w)
    <3>1. ASSUME NEW G \in SUBSET Work, w \in G, RoundClosed(G)
          PROVE  v \in G
      <4>1. t \in G
        BY <1>3, <3>1 DEF RoundClosed
      <4> QED BY <2>2, <3>1, <4>1 DEF Reach
    <3> QED BY <2>2, <3>1 DEF Reach
  <2>3. ASSUME NEW v \in Reach(w), v.q = <<>>
        PROVE  v \in Reach(t)
    <3>1. ASSUME NEW G \in SUBSET Work, t \in G, RoundClosed(G)
          PROVE  v \in G
      <4>1. G \cup {w} \in SUBSET Work /\ RoundClosed(G \cup {w})
        BY <3>1 DEF RoundClosed
      <4>2. v \in G \cup {w}
        BY <2>3, <4>1 DEF Reach
      <4> QED BY <1>3, <2>3, <4>2
    <3> QED BY <2>3, <3>1 DEF Reach
  <2> HIDE DEF t
  <2>4. {x \in Reach(w) : x.q = <<>>} = {x \in Reach(t) : x.q = <<>>}
    BY <2>2, <2>3
  <2> QED BY <1>3, <2>4 DEF EndsOf, t
<1> QED
  BY <1>2, <1>3

\* So some function solves the equation of Expand, and Expand is one that does.
LEMMA ExpandIs ==
  ASSUME RulesOK
  PROVE  \A w \in Work : Expand[w] = IF w.q = <<>> THEN w.items ELSE Expand[TakeName(w)]
<1> DEFINE F(f) == [w \in Work |-> IF w.q = <<>> THEN w.items ELSE f[TakeName(w)]]
           g == [w \in Work |-> CHOOSE r : r \in EndsOf(w)]
<1>1. g = F(g)
  <2>1. ASSUME NEW w \in Work
        PROVE  g[w] = IF w.q = <<>> THEN w.items ELSE g[TakeName(w)]
    <3>1. CASE w.q = <<>>
      <4>1. EndsOf(w) = {w.items}
        BY <3>1, EndsStep
      <4> QED BY <3>1, <4>1
    <3>2. CASE w.q # <<>>
      <4>1. EndsOf(w) = EndsOf(TakeName(w)) /\ TakeName(w) \in Work
        BY <3>2, EndsStep, RoundIs
      <4> QED BY <3>2, <4>1
    <3> QED BY <3>1, <3>2
  <2> HIDE DEF g
  <2>2. g = [w \in Work |-> g[w]]
    BY DEF g
  <2> QED BY <2>1, <2>2
<1> HIDE DEF g
<1> DEFINE h == CHOOSE f : f = F(f)
<1>2. h = F(h)
  <2> HIDE DEF F
  <2>1. \E f : f = F(f)
    BY <1>1
  <2> QED BY <2>1
<1>3. Expand = h
  BY DEF Expand
<1> HIDE DEF h
<1> QED
  BY <1>2, <1>3

\* What decreases where q does not.
Unprocessed(w) == (DOMAIN rules) \ w.processed

\* Every round takes a name off q that leads nowhere, or processes one of the
\* finitely many rules: the loop ends, within any set that its rounds do not leave.
LEMMA ExpandEnds ==
  ASSUME RulesOK, NEW G \in SUBSET Work, RoundClosed(G), NEW w \in G
  PROVE  \E v \in G : v.q = <<>> /\ Expand[w] = v.items
<1> DEFINE Ends(v) == \E x \in G : x.q = <<>> /\ Expand[v] = x.items
           S == {n \in Nat : \A v \in G : Cardinality(Unprocessed(v)) < n => Ends(v)}
<1>1. ASSUME NEW v \in G
      PROVE  IsFiniteSet(Unprocessed(v)) /\ Cardinality(Unprocessed(v)) \in Nat
  <2>1. IsFiniteSet(Unprocessed(v))
    BY FS_Difference DEF RulesOK, Unprocessed
  <2> QED BY <2>1, FS_CardinalityType
<1>2. 0 \in S
  BY <1>1
<1>3. ASSUME NEW n \in Nat, n \in S
      PROVE  n + 1 \in S
  <2> DEFINE L == {k \in Nat : \A v \in G : Cardinality(Unprocessed(v)) < n + 1 /\ Len(v.q) = k => Ends(v)}
  <2>1. 0 \in L
    <3>1. ASSUME NEW v \in G, Len(v.q) = 0
          PROVE  Ends(v)
      <4>1. v \in Work
        OBVIOUS
      <4>2. v.q = <<>>
        BY <3>1, <4>1 DEF Work
      <4>3. Expand[v] = v.items
        BY <4>1, <4>2, ExpandIs
      <4> QED BY <4>2, <4>3
    <3> QED BY <3>1
  <2>2. ASSUME NEW k \in Nat, k \in L
        PROVE  k + 1 \in L
    <3>1. ASSUME NEW v \in G, Cardinality(Unprocessed(v)) < n + 1, Len(v.q) = k + 1
          PROVE  Ends(v)
      <4> DEFINE t == TakeName(v)
                 name == Last(v.q)
      <4>1. v \in Work /\ v.q # <<>>
        BY <3>1
      <4>2. t \in G
        BY <4>1 DEF RoundClosed
      <4>3. Expand[v] = Expand[t]
        BY <4>1, ExpandIs
      <4>4. CASE name \in v.processed \/ name \notin DOMAIN rules
        <5>1. Unprocessed(t) = Unprocessed(v) /\ Len(t.q) = k
          <6>1. CASE name \in v.processed
            <7>1. /\ t.q = Front(v.q) /\ t.processed = v.processed
                  /\ Len(Front(v.q)) = Len(v.q) - 1
              BY <4>1, <6>1, RoundIs
            <7> HIDE DEF t
            <7> QED BY <3>1, <7>1 DEF Unprocessed
          <6>2. CASE name \notin v.processed
            <7>1. RulesAt(rules, name) = <<>>
              BY <4>4, <6>2 DEF RulesAt
            <7>2. NamesIn(<<>>, v.processed) = <<>>
              <8>1. <<>> \in Seq(Seq(SourceOperand)) /\ Range(<<>>) = {}
                BY DEF Range
              <8>2. Range(NamesIn(<<>>, v.processed)) = {} /\ NamesIn(<<>>, v.processed) \in Seq(AName)
                BY <8>1, NamesInAre
              <8> DEFINE s == NamesIn(<<>>, v.processed)
              <8> HIDE DEF s
              <8>3. s \in Seq(AName) /\ (Len(s) # 0 => s[1] \in Range(s))
                BY <8>2 DEF Range, s
              <8>4. Len(s) = 0
                BY <8>2, <8>3 DEF s
              <8>5. s = <<>>
                BY <8>3, <8>4
              <8> QED BY <8>5 DEF s
            <7>3. /\ t.q = Front(v.q) \o NamesIn(RulesAt(rules, name), v.processed)
                  /\ t.processed = v.processed \cup {name}
                  /\ Front(v.q) \in Seq(AName) /\ Len(Front(v.q)) = Len(v.q) - 1
              BY <4>1, <6>2, RoundIs
            <7>4. t.q = Front(v.q)
              BY <7>1, <7>2, <7>3
            <7> QED BY <3>1, <4>4, <6>2, <7>3, <7>4 DEF Unprocessed
          <6> QED BY <6>1, <6>2
        <5>2. Ends(t)
          BY <2>2, <3>1, <4>2, <5>1
        <5> QED BY <4>3, <5>2
      <4>5. CASE name \notin v.processed /\ name \in DOMAIN rules
        <5>1. t.processed = v.processed \cup {name}
          BY <4>1, <4>5, RoundIs
        <5>2. Unprocessed(t) = Unprocessed(v) \ {name} /\ name \in Unprocessed(v)
          BY <4>5, <5>1 DEF Unprocessed
        <5>3. Cardinality(Unprocessed(t)) = Cardinality(Unprocessed(v)) - 1
          <6>1. Cardinality(Unprocessed(v) \ {name}) = Cardinality(Unprocessed(v)) - 1
            <7> HIDE DEF name
            <7> QED BY <1>1, <5>2, FS_RemoveElement
          <6> QED BY <5>2, <6>1
        <5>4. Cardinality(Unprocessed(t)) < n
          BY <1>1, <3>1, <4>2, <5>3
        <5>5. Ends(t)
          BY <1>3, <4>2, <5>4
        <5> QED BY <4>3, <5>5
      <4> QED BY <4>4, <4>5
    <3> QED BY <3>1
  <2> HIDE DEF L
  <2>3. Nat \subseteq L
    BY <2>1, <2>2, AllNat
  <2>4. ASSUME NEW v \in G, Cardinality(Unprocessed(v)) < n + 1
        PROVE  Ends(v)
    <3>1. Len(v.q) \in Nat
      BY DEF Work
    <3> QED BY <2>3, <2>4, <3>1 DEF L
  <2> QED BY <2>4
<1> HIDE DEF S
<1>4. Nat \subseteq S
  BY <1>2, <1>3, AllNat
<1>5. Cardinality(Unprocessed(w)) + 1 \in S /\ Cardinality(Unprocessed(w)) < Cardinality(Unprocessed(w)) + 1
  BY <1>1, <1>4
<1> QED
  BY <1>5 DEF S

-----------------------------------------------------------------------------
(* make_closure.                                                            *)

\* The right sides of a name.
AlternativesOf(name) == Range(RulesAt(rules, name))

\* A set of right sides that has the right sides of all its names.
RuleClosed(R) ==
  \A r \in R : \A k \in DOMAIN r :
    r[k].type = "NONTERMINAL" => AlternativesOf(r[k].value) \subseteq R

\* Right sides are lists of operands.
LEMMA AlternativesType ==
  ASSUME RulesOK, NEW name
  PROVE  AlternativesOf(name) \subseteq Seq(SourceOperand)
BY RulesAtType DEF AlternativesOf, Range

\* An item at the start of a rule.
LEMMA ItemParts ==
  ASSUME NEW rule \in Seq(SourceOperand)
  PROVE  Item(rule) \in AnItem /\ Item(rule).rule = rule /\ Item(rule).position = 0
BY DEF Item, AnItem

\* What make_closure's rounds do not leave, for an item that reads a name.
Closing(item, R) ==
  {w \in Work :
    /\ item \in Range(w.items)
    /\ ReadItem(item).value \in w.processed \cup Range(w.q)
    /\ \A it \in Range(w.items) :
         it = item \/ \E name \in w.processed : \E rule \in AlternativesOf(name) : it = Item(rule)
    /\ \A name \in w.processed : \A rule \in AlternativesOf(name) :
         /\ Item(rule) \in Range(w.items)
         /\ \A k \in DOMAIN rule : rule[k].type = "NONTERMINAL" =>
              rule[k].value \in w.processed \cup Range(w.q)
    /\ \A name \in w.processed \cup Range(w.q) : AlternativesOf(name) \subseteq R}

\* A round of the loop stays in Closing.
LEMMA ClosingRound ==
  ASSUME RulesOK, NEW item, NEW R, RuleClosed(R)
  PROVE  RoundClosed(Closing(item, R))
<1>1. ASSUME NEW w \in Closing(item, R), w.q # <<>>
      PROVE  TakeName(w) \in Closing(item, R)
  <2> DEFINE t == TakeName(w)
             name == Last(w.q)
             alternatives == RulesAt(rules, name)
             names == NamesIn(alternatives, w.processed)
  <2>1. w \in Work
    BY DEF Closing
  <2>2. t \in Work /\ name \in Range(w.q)
        /\ \A x : x \in Range(w.q) <=> x = name \/ x \in Range(Front(w.q))
    BY <1>1, <2>1, RoundIs
  <2>3. CASE name \in w.processed
    <3>1. t.q = Front(w.q) /\ t.items = w.items /\ t.processed = w.processed
      BY <1>1, <2>1, <2>3, RoundIs
    <3>2. t.processed \cup Range(t.q) = w.processed \cup Range(w.q)
      BY <2>2, <2>3, <3>1
    <3> HIDE DEF t
    <3>3. t \in Closing(item, R)
      BY <2>2, <3>1, <3>2 DEF Closing
    <3> QED BY <3>3 DEF t
  <2>4. CASE name \notin w.processed
    <3>1. /\ t.q = Front(w.q) \o names
          /\ t.items = w.items \o Items(alternatives)
          /\ t.processed = w.processed \cup {name}
          /\ Front(w.q) \in Seq(AName)
      BY <1>1, <2>1, <2>4, RoundIs
    <3>2. alternatives \in Seq(Seq(SourceOperand))
      BY RulesAtType
    <3>3. /\ names \in Seq(AName)
          /\ \A x : x \in Range(names) <=>
               /\ x \notin w.processed
               /\ \E rule \in AlternativesOf(name) : \E k \in DOMAIN rule :
                    rule[k].type = "NONTERMINAL" /\ rule[k].value = x
      <4> HIDE DEF alternatives
      <4> QED BY <3>2, NamesInAre DEF AlternativesOf, alternatives
    <3>4. /\ Items(alternatives) \in Seq(AnItem)
          /\ \A it : it \in Range(Items(alternatives)) <=>
               \E rule \in AlternativesOf(name) : it = Item(rule)
      <4> HIDE DEF alternatives
      <4> QED BY <3>2, ItemsType DEF AlternativesOf, alternatives
    <3>5. \A it : it \in Range(t.items) <=>
            it \in Range(w.items) \/ \E rule \in AlternativesOf(name) : it = Item(rule)
      <4>1. w.items \in Seq(AnItem)
        BY <2>1 DEF Work
      <4> HIDE DEF t, alternatives
      <4> QED BY <3>1, <3>4, <4>1, RangeOfConcat
    <3>6. \A x : x \in Range(t.q) <=> x \in Range(Front(w.q)) \/ x \in Range(names)
      <4> HIDE DEF t, names
      <4> QED BY <3>1, <3>3, RangeOfConcat
    <3> HIDE DEF t, names, alternatives
    <3>7. \A x : x \in t.processed \cup Range(t.q) <=>
            x \in w.processed \cup Range(w.q) \/ x \in Range(names)
      BY <2>2, <3>1, <3>6
    <3>8. item \in Range(t.items) /\ ReadItem(item).value \in t.processed \cup Range(t.q)
      BY <3>5, <3>7 DEF Closing
    <3>9. ASSUME NEW it \in Range(t.items)
          PROVE  it = item \/ \E n \in t.processed : \E rule \in AlternativesOf(n) : it = Item(rule)
      BY <3>1, <3>5 DEF Closing
    <3>10. ASSUME NEW n \in t.processed, NEW rule \in AlternativesOf(n)
           PROVE  /\ Item(rule) \in Range(t.items)
                  /\ \A k \in DOMAIN rule : rule[k].type = "NONTERMINAL" =>
                       rule[k].value \in t.processed \cup Range(t.q)
      <4>1. CASE n \in w.processed
        BY <3>5, <3>7, <4>1 DEF Closing
      <4>2. CASE n = name
        BY <3>3, <3>5, <3>7, <4>2
      <4> QED BY <3>1, <4>1, <4>2
    <3>11. ASSUME NEW n \in t.processed \cup Range(t.q)
           PROVE  AlternativesOf(n) \subseteq R
      <4>1. AlternativesOf(name) \subseteq R
        BY <2>2 DEF Closing
      <4>2. CASE n \in Range(names)
        BY <3>3, <4>1, <4>2 DEF RuleClosed
      <4>3. CASE n \in w.processed \cup Range(w.q)
        BY <4>3 DEF Closing
      <4> QED BY <3>7, <4>2, <4>3
    <3>12. t \in Closing(item, R)
      BY <2>2, <3>8, <3>9, <3>10, <3>11 DEF Closing
    <3> QED BY <3>12 DEF t
  <2> QED BY <2>3, <2>4
<1> QED
  BY <1>1 DEF RoundClosed

\* Whatever name an item reads next, its right sides are there from their
\* start.
CompleteItems(items) ==
  \A item \in Range(items) :
    ~ Done(item) /\ ReadItem(item).type = "NONTERMINAL" =>
      \A rule \in AlternativesOf(ReadItem(item).value) : Item(rule) \in Range(items)

\* What make_closure gives for an item in front of a name: the item, the right
\* sides of every name that it can begin with or that they mention, and nothing
\* else.
LEMMA NameClosure ==
  ASSUME RulesOK, NEW R, RuleClosed(R),
         NEW item \in AnItem, item.rule \in R, ~ Done(item), ReadItem(item).type = "NONTERMINAL"
  PROVE  LET c == MakeClosure(item)
         IN  /\ c \in Seq(AnItem) /\ item \in Range(c) /\ CompleteItems(c)
             /\ \A it \in Range(c) : it # item => it.rule \in R /\ it = Item(it.rule)
             /\ \A it \in Range(c) : it # item => \A k \in DOMAIN it.rule :
                  it.rule[k].type = "NONTERMINAL" =>
                    \A rule \in AlternativesOf(it.rule[k].value) : Item(rule) \in Range(c)
             /\ \A rule \in AlternativesOf(ReadItem(item).value) : Item(rule) \in Range(c)
<1> DEFINE value == ReadItem(item).value
           start == [items |-> <<item>>, q |-> <<value>>, processed |-> {}]
           c == MakeClosure(item)
<1>1. item.position + 1 \in DOMAIN item.rule /\ item.rule \in Seq(SourceOperand)
  BY DEF AnItem, Done
<1>2. value \in AName
  BY <1>1, OperandKinds DEF ReadItem
<1>3. AlternativesOf(value) \subseteq R
  BY <1>1 DEF RuleClosed, ReadItem
<1>4. c = Expand[start]
  BY DEF MakeClosure
<1> HIDE DEF value
<1>5. start \in Closing(item, R)
  <2>1. start \in Work
    BY <1>2 DEF Work, AName
  <2>2. Range(<<item>>) = {item} /\ Range(<<value>>) = {value}
    BY DEF Range
  <2>3. start.items = <<item>> /\ start.q = <<value>> /\ start.processed = {}
    OBVIOUS
  <2> HIDE DEF start
  <2> QED BY <1>3, <2>1, <2>2, <2>3 DEF Closing, value
<1> HIDE DEF start, c
<1>6. Closing(item, R) \in SUBSET Work
  BY DEF Closing
<1>7. PICK w \in Closing(item, R) : w.q = <<>> /\ Expand[start] = w.items
  <2>1. RoundClosed(Closing(item, R))
    BY ClosingRound
  <2> QED BY <1>5, <1>6, <2>1, ExpandEnds
<1>8. w \in Work /\ w.items = c /\ c \in Seq(AnItem) /\ w.processed \in SUBSET AName
  BY <1>4, <1>6, <1>7 DEF Work, AName
<1>9. w.processed \cup Range(w.q) = w.processed
  BY <1>7 DEF Range
<1>10. /\ item \in Range(c)
       /\ value \in w.processed
       /\ \A it \in Range(c) :
            it = item \/ \E name \in w.processed : \E rule \in AlternativesOf(name) : it = Item(rule)
       /\ \A name \in w.processed : \A rule \in AlternativesOf(name) :
            /\ Item(rule) \in Range(c)
            /\ \A k \in DOMAIN rule : rule[k].type = "NONTERMINAL" => rule[k].value \in w.processed
       /\ \A name \in w.processed : AlternativesOf(name) \subseteq R
  BY <1>8, <1>9 DEF Closing, value
<1>11. ASSUME NEW it \in Range(c), it # item
       PROVE  /\ it.rule \in R /\ it = Item(it.rule) /\ it.rule \in Seq(SourceOperand)
              /\ \A k \in DOMAIN it.rule : it.rule[k].type = "NONTERMINAL" =>
                   \A rule \in AlternativesOf(it.rule[k].value) : Item(rule) \in Range(c)
  <2>0. PICK name \in w.processed : \E rule \in AlternativesOf(name) : it = Item(rule)
    BY <1>10, <1>11
  <2>1. PICK rule \in AlternativesOf(name) : it = Item(rule)
    BY <2>0
  <2>2. it.rule = rule /\ rule \in Seq(SourceOperand)
    BY <2>1, AlternativesType, ItemParts
  <2> QED BY <1>10, <2>1, <2>2
<1>12. ASSUME NEW it \in Range(c), ~ Done(it), ReadItem(it).type = "NONTERMINAL",
              NEW rule \in AlternativesOf(ReadItem(it).value)
       PROVE  Item(rule) \in Range(c)
  <2>1. CASE it = item
    BY <1>10, <1>12, <2>1 DEF value
  <2>2. CASE it # item
    <3>1. it.position = 0 /\ 1 \in DOMAIN it.rule
      BY <1>11, <1>12, <2>2, ItemParts DEF Done
    <3> QED BY <1>11, <1>12, <2>2, <3>1 DEF ReadItem
  <2> QED BY <2>1, <2>2
<1>13. \A rule \in AlternativesOf(value) : Item(rule) \in Range(c)
  BY <1>10
<1> QED
  BY <1>8, <1>10, <1>11, <1>12, <1>13 DEF CompleteItems, c, value

\* Every right side of the grammar.
AllRules == UNION {AlternativesOf(name) : name \in DOMAIN rules}

\* They are closed, since a name's right sides are among them.
LEMMA AllRulesClosed ==
  ASSUME RulesOK
  PROVE  RuleClosed(AllRules) /\ AllRules \subseteq Seq(SourceOperand)
<1>1. ASSUME NEW name
      PROVE  AlternativesOf(name) \subseteq AllRules
  <2>1. CASE name \in DOMAIN rules
    BY <2>1 DEF AllRules
  <2>2. CASE name \notin DOMAIN rules
    BY <2>2 DEF AlternativesOf, RulesAt, Range
  <2> QED BY <2>1, <2>2
<1>2. AllRules \subseteq Seq(SourceOperand)
  BY AlternativesType DEF AllRules
<1> QED
  BY <1>1, <1>2 DEF RuleClosed

\* The loop that moves an item stops here.
Barred(item) == ~ Done(item) /\ ReadItem(item).type = "EMPTY"

\* An item that the loops can reach: they begin behind an empty operand only if it
\* is the first.
Unbarred(item, R) ==
  /\ item \in AnItem /\ item.rule \in R /\ item.position <= Len(item.rule)
  /\ \A p \in 2..item.position : item.rule[p].type # "EMPTY"

\* An item the loop may begin with: it stands in front of an empty operand only
\* at its start.
Walkable(item, R) == Unbarred(item, R) /\ (Barred(item) => item.position = 0)

\* A closure of the graph.  One of its items can be moved or is done: only a
\* state for which this fails would be refused without reason.
GoodItems(items, R) ==
  /\ items \in Seq(AnItem)
  /\ \A item \in Range(items) : Unbarred(item, R)
  /\ CompleteItems(items)
  /\ \E item \in Range(items) : Barred(item) => item.position # 0

\* make_closure, for every item that the construction can give it.
LEMMA MadeClosure ==
  ASSUME RulesOK, NEW R, R \subseteq Seq(SourceOperand), RuleClosed(R),
         NEW item, Unbarred(item, R)
  PROVE  LET c == MakeClosure(item)
         IN  /\ Barred(item) => c = <<>>
             /\ ~ Barred(item) =>
                  /\ c # <<>> /\ GoodItems(c, R) /\ item \in Range(c)
                  /\ \A it \in Range(c) : Walkable(it, R)
<1> DEFINE c == MakeClosure(item)
<1>1. item \in AnItem /\ item.rule \in R /\ item.rule \in Seq(SourceOperand)
  BY DEF Unbarred
<1>2. CASE Barred(item)
  BY <1>2 DEF MakeClosure, Barred
<1>3. CASE Done(item) \/ (~ Done(item) /\ ReadItem(item).type = "TERMINAL")
  <2>1. c = <<item>>
    BY <1>3 DEF MakeClosure
  <2> HIDE DEF c
  <2>2. Range(c) = {item} /\ c \in Seq(AnItem) /\ c # <<>>
    BY <1>1, <2>1 DEF Range
  <2>3. ~ Barred(item)
    BY <1>3 DEF Barred
  <2>4. CompleteItems(c)
    BY <1>3, <2>2 DEF CompleteItems
  <2> QED BY <2>2, <2>3, <2>4 DEF GoodItems, Walkable, c
<1>4. CASE ~ Done(item) /\ ReadItem(item).type = "NONTERMINAL"
  <2>1. /\ c \in Seq(AnItem) /\ item \in Range(c) /\ CompleteItems(c)
        /\ \A it \in Range(c) : it # item => it.rule \in R /\ it = Item(it.rule)
    BY <1>1, <1>4, NameClosure
  <2>2. ~ Barred(item)
    BY <1>4 DEF Barred
  <2> HIDE DEF c
  <2>3. ASSUME NEW it \in Range(c)
        PROVE  Walkable(it, R)
    <3>1. CASE it = item
      BY <2>2, <3>1 DEF Walkable
    <3>2. CASE it # item
      <4>1. it.rule \in R /\ it = Item(it.rule) /\ it.rule \in Seq(SourceOperand)
        BY <2>1, <3>2
      <4>2. it \in AnItem /\ it.position = 0 /\ Len(it.rule) \in Nat
        BY <4>1, ItemParts
      <4> QED BY <4>1, <4>2 DEF Walkable, Unbarred
    <3> QED BY <3>1, <3>2
  <2>4. c # <<>>
    BY <2>1 DEF Range
  <2> QED BY <2>1, <2>2, <2>3, <2>4 DEF GoodItems, Walkable, c
<1>5. ~ Done(item) => ReadItem(item).type \in {"TERMINAL", "NONTERMINAL", "EMPTY"}
  <2>1. ~ Done(item) => item.position + 1 \in DOMAIN item.rule
    BY <1>1 DEF Done, AnItem
  <2> QED BY <1>1, <2>1, OperandKinds DEF ReadItem
<1> QED
  BY <1>2, <1>3, <1>4, <1>5 DEF Barred

\* The right sides of the items of a closure.
RulesIn(items) == {item.rule : item \in Range(items)}

\* The closure that the construction begins with.
LEMMA FirstClosure ==
  ASSUME RulesOK, NEW A \in NonTerminal,
         RulesAt(rules, <<Axiom>>) # <<>>, rules[<<Axiom>>][1] = <<NameOperand(<<A>>)>>
  PROVE  LET c == MakeClosure(Item(rules[<<Axiom>>][1]))
         IN  /\ c # <<>> /\ GoodItems(c, RulesIn(c))
             /\ \A it \in Range(c) : it.position = 0 /\ Walkable(it, RulesIn(c))
             /\ RulesIn(c) \subseteq AllRules
             /\ RuleClosed(RulesIn(c))
<1> DEFINE rule == rules[<<Axiom>>][1]
           item == Item(rule)
           c == MakeClosure(item)
<1>1. <<Axiom>> \in DOMAIN rules /\ rule \in AllRules
  <2>1. <<Axiom>> \in DOMAIN rules /\ RulesAt(rules, <<Axiom>>) = rules[<<Axiom>>]
    BY DEF RulesAt
  <2>2. rules[<<Axiom>>] \in Seq(Seq(SourceOperand)) /\ rules[<<Axiom>>] # <<>>
    BY <2>1 DEF RulesOK, IsSource
  <2>3. 1 \in DOMAIN rules[<<Axiom>>]
    BY <2>2
  <2>4. rule \in AlternativesOf(<<Axiom>>)
    BY <2>1, <2>3 DEF AlternativesOf, Range
  <2> QED BY <2>1, <2>4 DEF AllRules
<1>2. rule \in Seq(SourceOperand)
  BY <1>1, AllRulesClosed
<1>3. item \in AnItem /\ item.rule = rule /\ item.position = 0
  BY <1>2, ItemParts
<1>4. Len(rule) = 1 /\ rule[1].type = "NONTERMINAL"
  BY DEF NameOperand
<1> HIDE DEF item, rule
<1>5. ~ Done(item) /\ ReadItem(item) = rule[1]
  BY <1>3, <1>4 DEF Done, ReadItem
<1>6. item.rule \in AllRules /\ RuleClosed(AllRules) /\ AllRules \subseteq Seq(SourceOperand)
  BY <1>1, <1>3, AllRulesClosed
<1>7. /\ c \in Seq(AnItem) /\ item \in Range(c) /\ CompleteItems(c)
      /\ \A it \in Range(c) : it # item => it.rule \in AllRules /\ it = Item(it.rule)
      /\ \A it \in Range(c) : it # item => \A k \in DOMAIN it.rule :
           it.rule[k].type = "NONTERMINAL" =>
             \A r \in AlternativesOf(it.rule[k].value) : Item(r) \in Range(c)
      /\ \A r \in AlternativesOf(ReadItem(item).value) : Item(r) \in Range(c)
  BY <1>3, <1>4, <1>5, <1>6, NameClosure
<1> HIDE DEF c
<1>8. ASSUME NEW it \in Range(c)
      PROVE  /\ it \in AnItem /\ it.rule \in AllRules /\ it.position = 0
             /\ it.rule \in RulesIn(c)
             /\ \A k \in DOMAIN it.rule :
                  it.rule[k].type = "NONTERMINAL" =>
                    \A r \in AlternativesOf(it.rule[k].value) : Item(r) \in Range(c)
  <2>1. CASE it = item
    <3>1. \A k \in DOMAIN rule : k = 1
      BY <1>2, <1>4
    <3> QED BY <1>3, <1>5, <1>6, <1>7, <2>1, <3>1 DEF RulesIn
  <2>2. CASE it # item
    <3>1. it.rule \in AllRules /\ it = Item(it.rule) /\ it.rule \in Seq(SourceOperand)
      BY <1>6, <1>7, <2>2
    <3> QED BY <1>7, <2>2, <3>1, ItemParts DEF RulesIn
  <2> QED BY <2>1, <2>2
<1>9. RulesIn(c) \subseteq AllRules
  BY <1>8 DEF RulesIn
<1>10. RuleClosed(RulesIn(c))
  <2>1. ASSUME NEW r \in RulesIn(c), NEW k \in DOMAIN r, r[k].type = "NONTERMINAL",
               NEW s \in AlternativesOf(r[k].value)
        PROVE  s \in RulesIn(c)
    <3>1. PICK it \in Range(c) : r = it.rule
      BY DEF RulesIn
    <3>2. Item(s) \in Range(c)
      BY <1>8, <2>1, <3>1
    <3>3. Item(s).rule = s
      BY AlternativesType, ItemParts
    <3> QED BY <3>2, <3>3 DEF RulesIn
  <2> QED BY <2>1 DEF RuleClosed
<1>11. ASSUME NEW it \in Range(c)
       PROVE  Walkable(it, RulesIn(c))
  <2>1. it.rule \in Seq(SourceOperand) /\ Len(it.rule) \in Nat
    BY <1>6, <1>8
  <2> QED BY <1>8, <2>1 DEF Walkable, Unbarred
<1>12. GoodItems(c, RulesIn(c)) /\ c # <<>>
  <2>1. ~ Barred(item)
    BY <1>4, <1>5 DEF Barred
  <2>2. c # <<>>
    BY <1>7 DEF Range
  <2> QED BY <1>7, <1>11, <2>1, <2>2 DEF GoodItems, Walkable
<1> QED
  BY <1>8, <1>9, <1>10, <1>11, <1>12 DEF c, item, rule

-----------------------------------------------------------------------------
(* The invariant of the construction.                                       *)

\* The right sides of the closure the construction begins with.
Reached == RulesIn(graph[1].items)

\* Some state has the item.
InGraph(item) == \E m \in DOMAIN graph : item \in Range(graph[m].items)

\* The items of a rule up to a place are in the graph, as far as the loop goes.
WalkedTo(rule, k) ==
  \A q \in 1..k : (\A p \in 2..q : rule[p].type # "EMPTY") =>
    InGraph([rule |-> rule, position |-> q])

\* All items of a rule are in the graph, up to its first empty operand behind
\* another.
Walked(rule) == WalkedTo(rule, Len(rule))

\* The construction has nothing left to find.
AllWalked == \A rule \in Reached : Walked(rule)

\* The first closure has yet to be walked.
NotBegun ==
  /\ pc = "graph" /\ worklist = <<graph[1].items>>
  /\ \A item \in Range(graph[1].items) : item.position = 0

\* The first closure is being walked: its rules up to current are walked.
FirstWalk ==
  /\ pc \in {"walk", "last"}
  /\ Len(clos) = Len(graph[1].items)
  /\ \A n \in DOMAIN clos :
       /\ clos[n].rule = graph[1].items[n].rule
       /\ n < current => Walked(clos[n].rule)
       /\ n = current => WalkedTo(clos[n].rule, clos[n].position - (IF pc = "walk" THEN 0 ELSE 1))
       /\ n > current => clos[n].position = 0

\* The types while the graph is built.
BuildTyped ==
  /\ graph \in Seq([label : Nat, items : Seq(AnItem), transitions : {NoTransitions}])
  /\ worklist \in Seq(Seq(AnItem))
  /\ clos \in Seq(AnItem)
  /\ current \in Nat \ {0}
  /\ j \in Nat

\* Every state is a closure over the first one's right sides.
GraphGood ==
  /\ Reached \subseteq AllRules /\ RuleClosed(Reached)
  /\ \A m \in DOMAIN graph : GoodItems(graph[m].items, Reached)

\* What waits on the worklist can be walked from its first operand.
WorkGood == \A n \in DOMAIN worklist : \A item \in Range(worklist[n]) : Walkable(item, Reached)

\* So can what is left of the closure that is being walked.
ClosureGood ==
  pc \in {"walk", "last"} =>
    /\ \A n \in DOMAIN clos : n > current => Walkable(clos[n], Reached)
    /\ current \in DOMAIN clos =>
         /\ Unbarred(clos[current], Reached)
         /\ pc = "walk" => Walkable(clos[current], Reached)
    /\ pc = "last" => /\ current \in DOMAIN clos
                      /\ Barred(clos[current]) /\ clos[current].position # 0

\* The first closure holds every right side there is, so its walk alone finds
\* every state: what is dropped from the worklist later has nothing new.
Progress == AllWalked \/ NotBegun \/ FirstWalk

\* Without rules there is no graph; else it is as above.
Building ==
  IF graph = <<>> THEN pc = "graph" /\ worklist = <<>>
  ELSE GraphGood /\ WorkGood /\ ClosureGood /\ Progress

\* The invariant of the construction.
BuildInv == pc \in {"graph", "walk", "last"} => BuildTyped /\ Building

\* The keys of the cells are tokens and names, those of nodes made by
\* reductions are not.
SimpleKey(key) == Len(key) = 1

\* The transitions have the value of every operand that an item can be moved
\* over.
Transitions ==
  \A m \in DOMAIN graph :
    /\ \A value \in DOMAIN graph[m].transitions : SimpleKey(value)
    /\ \A item \in Range(graph[m].items) :
         ~ Done(item) /\ InGraph(Moved(item)) =>
           ReadItem(item).value \in DOMAIN graph[m].transitions

\* The finished graph.
GraphInv ==
  pc = "table" =>
    /\ \A m \in DOMAIN graph : GoodItems(graph[m].items, AllRules)
    /\ \A m \in DOMAIN graph : \A item \in Range(graph[m].items) :
         ~ Done(item) /\ ~ Barred(item) => InGraph(Moved(item))
    /\ Transitions

\* The reasons for which the constructor may refuse.
InnerEmpty ==
  \/ RulesAt(rules, <<Axiom>>) = <<>>
  \/ \E name \in DOMAIN rules : \E rule \in Alternatives(rules, name) :
       \E p \in 2..Len(rule) : rule[p].type = "EMPTY"

\* What is loaded.
InputOK == RulesOK /\ tokens \in Seq(Terminal)

\* The parts of the program.
PCInv == pc \in {"graph", "walk", "last", "table", "built", "throws",
                 "membership", "returned", "undefined"}

-----------------------------------------------------------------------------
(* Each step of the construction keeps it.                                  *)

\* What rests on the rules alone stays with them.
LEMMA SameRules ==
  ASSUME rules' = rules
  PROVE  /\ AllRules' = AllRules
         /\ \A R : RuleClosed(R)' <=> RuleClosed(R)
         /\ \A items, R : GoodItems(items, R)' <=> GoodItems(items, R)
BY DEF AllRules, AlternativesOf, RuleClosed, GoodItems, CompleteItems

\* Adding a closure that is not known yet, and its items are in the graph.
LEMMA GraphStep ==
  ASSUME rules' = rules, BuildTyped, graph # <<>>, GraphGood,
         NEW items, GoodItems(items, Reached),
         graph' = IF Known(items) THEN graph ELSE Append(graph, State(j, items))
  PROVE  /\ graph' \in Seq([label : Nat, items : Seq(AnItem), transitions : {NoTransitions}])
         /\ graph' # <<>> /\ Reached' = Reached /\ graph'[1] = graph[1]
         /\ GraphGood'
         /\ \A it \in Range(items) : InGraph(it)'
         /\ \A rule, k : WalkedTo(rule, k) => WalkedTo(rule, k)'
<1> DEFINE States == [label : Nat, items : Seq(AnItem), transitions : {NoTransitions}]
<1>1. graph \in Seq(States) /\ j \in Nat /\ items \in Seq(AnItem)
  BY DEF BuildTyped, GoodItems
<1>2. State(j, items) \in States /\ State(j, items).items = items
  BY <1>1 DEF State
<1>3. /\ graph' \in Seq(States) /\ graph' # <<>> /\ graph'[1] = graph[1]
      /\ \A m \in DOMAIN graph : m \in DOMAIN graph' /\ graph'[m] = graph[m]
      /\ \A m \in DOMAIN graph' : m \in DOMAIN graph \/ graph'[m].items = items
      /\ \E m \in DOMAIN graph' : graph'[m].items = items
  <2>1. CASE Known(items)
    <3>1. graph' = graph
      BY <2>1
    <3> QED BY <1>1, <2>1, <3>1 DEF Known
  <2>2. CASE ~ Known(items)
    <3> DEFINE x == State(j, items)
    <3>1. graph' = Append(graph, x) /\ x \in States /\ x.items = items
      BY <1>2, <2>2
    <3> HIDE DEF x, States
    <3>2. /\ graph' \in Seq(States) /\ Len(graph') = Len(graph) + 1 /\ Len(graph) \in Nat
          /\ graph'[Len(graph) + 1] = x
          /\ \A m \in 1..Len(graph) : graph'[m] = graph[m]
      BY <1>1, <3>1
    <3>3. DOMAIN graph = 1..Len(graph) /\ DOMAIN graph' = 1..(Len(graph) + 1) /\ Len(graph) # 0
      BY <1>1, <3>2
    <3> QED BY <3>1, <3>2, <3>3
  <2> QED BY <2>1, <2>2
<1>4. Reached' = Reached
  BY <1>3 DEF Reached, RulesIn
<1>5. \A m \in DOMAIN graph' : GoodItems(graph'[m].items, Reached)
  BY <1>3 DEF GraphGood
<1>6. GraphGood'
  <2>1. Reached' \subseteq AllRules'
    BY <1>4, SameRules DEF GraphGood
  <2>2. RuleClosed(Reached)'
    BY <1>4 DEF GraphGood, RuleClosed, AlternativesOf
  <2>3. ASSUME NEW m \in DOMAIN graph'
        PROVE  GoodItems(graph[m].items, Reached)'
    BY <1>4, <1>5 DEF GoodItems, CompleteItems, AlternativesOf
  <2> QED BY <2>1, <2>2, <2>3 DEF GraphGood
<1>7. \A it \in Range(items) : InGraph(it)'
  BY <1>3 DEF InGraph
<1>8. \A it : InGraph(it) => InGraph(it)'
  BY <1>3 DEF InGraph
<1>9. \A rule, k : WalkedTo(rule, k) => WalkedTo(rule, k)'
  BY <1>8 DEF WalkedTo
<1> QED
  BY <1>3, <1>4, <1>6, <1>7, <1>9

\* The copy that is walked is the newest closure; on the first round it is the
\* first closure, from its start.
LEMMA TakeClosureStep ==
  ASSUME RulesOK, BuildInv, TakeClosure
  PROVE  BuildInv'
<1> DEFINE R == Reached
<1>1. BuildTyped /\ graph # <<>> /\ GraphGood /\ WorkGood /\ (AllWalked \/ NotBegun)
  BY DEF BuildInv, Building, TakeClosure, Progress, FirstWalk
<1>2. /\ rules' = rules /\ graph' = graph /\ worklist' = worklist /\ j' = j
      /\ clos' = Last(worklist) /\ current' = 1 /\ pc' = "walk" /\ worklist # <<>>
  BY DEF TakeClosure, input
<1>3. worklist \in Seq(Seq(AnItem)) /\ Len(worklist) > 0
  BY <1>1, <1>2 DEF BuildTyped
<1>4. clos' \in Seq(AnItem) /\ \E n \in DOMAIN worklist : clos' = worklist[n]
  <2>1. Last(worklist) = worklist[Len(worklist)] /\ Len(worklist) \in DOMAIN worklist
    BY <1>3 DEF Last
  <2> QED BY <1>2, <1>3, <2>1
<1>5. BuildTyped'
  BY <1>1, <1>2, <1>4 DEF BuildTyped
<1>6. Reached' = R
  BY <1>2 DEF Reached
<1>7. GraphGood'
  BY <1>1, <1>2, <1>6 DEF GraphGood, AllRules, RuleClosed, AlternativesOf, GoodItems, CompleteItems
<1>8. WorkGood'
  BY <1>1, <1>2, <1>6 DEF WorkGood
<1>9. \A n \in DOMAIN clos' : Walkable(clos'[n], R)
  BY <1>1, <1>4 DEF WorkGood, Range
<1>10. ClosureGood'
  BY <1>2, <1>6, <1>9 DEF ClosureGood, Walkable
<1>11. Progress'
  <2>1. CASE AllWalked
    BY <1>2, <1>6, <2>1 DEF Progress, AllWalked, Walked, WalkedTo, InGraph
  <2>2. CASE NotBegun
    <3>1. clos' = graph[1].items
      BY <1>2, <2>2 DEF NotBegun, Last
    <3>2. \A n \in DOMAIN clos' : clos'[n] = graph'[1].items[n] /\ n >= 1
      BY <1>2, <1>4, <3>1
    <3>3. \A n \in DOMAIN clos' : clos'[n].position = 0
      BY <2>2, <3>1 DEF NotBegun, Range
    <3>4. \A rule : WalkedTo(rule, 0)'
      BY DEF WalkedTo
    <3>5. ASSUME NEW n \in DOMAIN clos'
          PROVE  WalkedTo(clos[n].rule, clos[n].position - (IF pc = "walk" THEN 0 ELSE 1))'
      <4>1. clos'[n].position - (IF pc' = "walk" THEN 0 ELSE 1) = 0
        BY <1>2, <3>3
      <4> QED BY <3>4, <4>1
    <3>6. \A n \in DOMAIN clos' : n \in Nat
      BY <1>4
    <3>7. Len(clos') = Len(graph'[1].items)
      BY <1>2, <3>1
    <3>8. FirstWalk'
      BY <1>2, <3>2, <3>3, <3>5, <3>6, <3>7 DEF FirstWalk
    <3> QED BY <3>8 DEF Progress
  <2> QED BY <1>1, <2>1, <2>2
<1> QED
  BY <1>1, <1>2, <1>5, <1>7, <1>8, <1>10, <1>11 DEF BuildInv, Building

\* An item moved by one operand.
LEMMA MovedIs ==
  ASSUME NEW R, R \subseteq Seq(SourceOperand), NEW item, Unbarred(item, R), ~ Done(item)
  PROVE  /\ Moved(item).rule = item.rule /\ Moved(item).position = item.position + 1
         /\ Moved(item) = [rule |-> item.rule, position |-> item.position + 1]
         /\ Walkable(item, R) => Unbarred(Moved(item), R)
<1>1. /\ item.rule \in Seq(SourceOperand) /\ item.position \in Nat /\ item.rule \in R
      /\ item = [rule |-> item.rule, position |-> item.position]
      /\ Len(item.rule) \in Nat
  BY DEF Unbarred, AnItem
<1>2. Moved(item) = [rule |-> item.rule, position |-> item.position + 1]
  BY <1>1 DEF Moved
<1>3. Moved(item) \in AnItem
  BY <1>1, <1>2 DEF AnItem
<1>4. item.position + 1 <= Len(item.rule)
  BY <1>1 DEF Done
<1>5. ASSUME Walkable(item, R), NEW p \in 2..(item.position + 1)
      PROVE  item.rule[p].type # "EMPTY"
  <2>1. CASE p \in 2..item.position
    BY <2>1 DEF Unbarred
  <2>2. CASE p = item.position + 1
    BY <1>1, <1>5, <2>2 DEF Walkable, Barred, ReadItem
  <2> QED BY <1>1, <2>1, <2>2
<1> QED
  BY <1>1, <1>2, <1>3, <1>4, <1>5 DEF Unbarred

\* A moved item is in the closure that make_closure gives for it, so it is in
\* the graph whether that closure is new or known.
LEMMA WalkItemStep ==
  ASSUME RulesOK, BuildInv, WalkItem
  PROVE  BuildInv'
<1>1. /\ BuildTyped /\ graph # <<>> /\ GraphGood /\ WorkGood /\ ClosureGood
      /\ (AllWalked \/ FirstWalk)
  BY DEF BuildInv, Building, WalkItem, Progress, NotBegun
<1>2. PICK R : R = Reached
  OBVIOUS
<1>3. PICK old : old = clos[current]
  OBVIOUS
<1>4. PICK item : item = Moved(old)
  OBVIOUS
<1>5. PICK newest : newest = MakeClosure(item)
  OBVIOUS
<1>6. /\ pc = "walk" /\ current <= Len(clos) /\ ~ Done(old)
      /\ clos' = [clos EXCEPT ![current] = item]
      /\ pc' = (IF newest = <<>> THEN "last" ELSE "walk")
      /\ IF newest = <<>> \/ Known(newest)
         THEN graph' = graph /\ worklist' = worklist
         ELSE graph' = Append(graph, State(j, newest)) /\ worklist' = Append(worklist, newest)
      /\ j' = j + 1 /\ rules' = rules /\ current' = current
  BY <1>3, <1>4, <1>5 DEF WalkItem, input
<1>7. current \in DOMAIN clos /\ clos \in Seq(AnItem) /\ current \in Nat /\ j \in Nat
  BY <1>1, <1>6 DEF BuildTyped
<1>8. Walkable(old, R) /\ Unbarred(old, R)
  BY <1>1, <1>2, <1>3, <1>6, <1>7 DEF ClosureGood, Walkable
<1>9. R \subseteq Seq(SourceOperand) /\ RuleClosed(R)
  BY <1>1, <1>2, AllRulesClosed DEF GraphGood
<1>10. /\ item.rule = old.rule /\ item.position = old.position + 1
       /\ item = [rule |-> item.rule, position |-> item.position]
       /\ Unbarred(item, R) /\ old.position \in Nat /\ item \in AnItem
  <2>1. /\ item.rule = old.rule /\ item.position = old.position + 1
        /\ item = [rule |-> old.rule, position |-> old.position + 1]
        /\ Unbarred(item, R)
    BY <1>4, <1>6, <1>8, <1>9, MovedIs
  <2>2. old \in AnItem /\ item \in AnItem
    BY <1>8, <2>1 DEF Unbarred
  <2>3. old.position \in Nat
    BY <2>2 DEF AnItem
  <2> QED BY <2>1, <2>2, <2>3
<1>11. /\ Barred(item) => newest = <<>>
       /\ ~ Barred(item) => /\ newest # <<>> /\ GoodItems(newest, R) /\ item \in Range(newest)
                            /\ \A it \in Range(newest) : Walkable(it, R)
  BY <1>5, <1>9, <1>10, MadeClosure
<1>12. /\ clos' \in Seq(AnItem) /\ DOMAIN clos' = DOMAIN clos /\ Len(clos') = Len(clos)
       /\ clos'[current] = item /\ \A n \in DOMAIN clos : n # current => clos'[n] = clos[n]
  BY <1>6, <1>7, <1>10
<1>13. /\ graph' \in Seq([label : Nat, items : Seq(AnItem), transitions : {NoTransitions}])
       /\ graph' # <<>> /\ Reached' = R /\ graph'[1] = graph[1]
       /\ GraphGood'
       /\ \A rule, k : WalkedTo(rule, k) => WalkedTo(rule, k)'
       /\ ~ Barred(item) => InGraph(item)'
  <2>1. CASE Barred(item)
    <3>1. graph' = graph
      BY <1>6, <1>11, <2>1
    <3>2. Reached' = R
      BY <1>2, <3>1 DEF Reached
    <3>3. GraphGood'
      BY <1>1, <1>2, <1>6, <3>1, <3>2
         DEF GraphGood, AllRules, RuleClosed, AlternativesOf, GoodItems, CompleteItems
    <3>4. \A rule, k : WalkedTo(rule, k) => WalkedTo(rule, k)'
      BY <3>1 DEF WalkedTo, InGraph
    <3> QED BY <1>1, <2>1, <3>1, <3>2, <3>3, <3>4 DEF BuildTyped
  <2>2. CASE ~ Barred(item)
    <3>1. graph' = IF Known(newest) THEN graph ELSE Append(graph, State(j, newest))
      BY <1>6, <1>11, <2>2
    <3>2. GoodItems(newest, Reached)
      BY <1>2, <1>11, <2>2
    <3> QED BY <1>1, <1>2, <1>6, <1>11, <2>2, <3>1, <3>2, GraphStep
  <2> QED BY <2>1, <2>2
<1>14. worklist' \in Seq(Seq(AnItem)) /\ WorkGood'
  <2>1. worklist \in Seq(Seq(AnItem)) /\ \A n \in DOMAIN worklist : \A it \in Range(worklist[n]) : Walkable(it, R)
    BY <1>1, <1>2 DEF BuildTyped, WorkGood
  <2>2. CASE worklist' = worklist
    BY <1>13, <2>1, <2>2 DEF WorkGood
  <2>3. CASE worklist' = Append(worklist, newest) /\ newest # <<>>
    <3>1. newest \in Seq(AnItem) /\ \A it \in Range(newest) : Walkable(it, R)
      BY <1>11, <2>3 DEF GoodItems
    <3>2. /\ worklist' \in Seq(Seq(AnItem))
          /\ \A n \in DOMAIN worklist' : worklist'[n] = newest \/ (n \in DOMAIN worklist /\ worklist'[n] = worklist[n])
      BY <2>1, <2>3, <3>1
    <3> QED BY <1>13, <2>1, <3>1, <3>2 DEF WorkGood
  <2> QED BY <1>6, <2>2, <2>3
<1>15. BuildTyped'
  BY <1>1, <1>6, <1>7, <1>12, <1>13, <1>14 DEF BuildTyped
<1>16. ClosureGood'
  <2>1. ASSUME NEW n \in DOMAIN clos', n > current'
        PROVE  Walkable(clos'[n], R)
    BY <1>1, <1>2, <1>6, <1>7, <1>12, <2>1 DEF ClosureGood
  <2>2. pc' = "walk" => Walkable(item, R)
    BY <1>6, <1>10, <1>11 DEF Walkable
  <2>3. pc' = "last" => Barred(item) /\ item.position # 0
    BY <1>6, <1>10, <1>11
  <2> QED BY <1>6, <1>7, <1>10, <1>12, <1>13, <2>1, <2>2, <2>3 DEF ClosureGood
<1>17. Progress'
  <2>1. CASE AllWalked
    BY <1>2, <1>13, <2>1 DEF Progress, AllWalked, Walked
  <2>2. CASE FirstWalk
    <3>1. WalkedTo(item.rule, old.position)
      BY <1>3, <1>6, <1>7, <1>10, <2>2 DEF FirstWalk
    <3>2. WalkedTo(item.rule, old.position)'
      BY <1>13, <3>1
    <3>3. ~ Barred(item) => WalkedTo(item.rule, item.position)'
      <4>1. ASSUME ~ Barred(item), NEW q \in 1..item.position,
                   \A p \in 2..q : item.rule[p].type # "EMPTY"
            PROVE  InGraph([rule |-> item.rule, position |-> q])'
        <5>1. CASE q = item.position
          BY <1>10, <1>13, <4>1, <5>1
        <5>2. CASE q \in 1..old.position
          BY <3>2, <4>1, <5>2 DEF WalkedTo
        <5> QED BY <1>10, <5>1, <5>2
      <4> QED BY <4>1 DEF WalkedTo
    <3>4. ASSUME NEW n \in DOMAIN clos', n = current'
          PROVE  WalkedTo(clos[n].rule, clos[n].position - (IF pc = "walk" THEN 0 ELSE 1))'
      <4>1. CASE Barred(item)
        <5>1. clos'[n].position - (IF pc' = "walk" THEN 0 ELSE 1) = old.position /\ clos'[n].rule = item.rule
          BY <1>6, <1>10, <1>11, <1>12, <3>4, <4>1
        <5> QED BY <3>2, <5>1
      <4>2. CASE ~ Barred(item)
        <5>1. clos'[n].position - (IF pc' = "walk" THEN 0 ELSE 1) = item.position /\ clos'[n].rule = item.rule
          BY <1>6, <1>10, <1>11, <1>12, <3>4, <4>2
        <5> QED BY <3>3, <4>2, <5>1
      <4> QED BY <4>1, <4>2
    <3>5. ASSUME NEW n \in DOMAIN clos'
          PROVE  /\ clos'[n].rule = graph'[1].items[n].rule
                 /\ n < current' => Walked(clos[n].rule)'
                 /\ n > current' => clos'[n].position = 0
      <4>1. n \in DOMAIN clos /\ clos'[n].rule = clos[n].rule
        BY <1>3, <1>10, <1>12
      <4>2. clos[n].rule = graph[1].items[n].rule
        BY <2>2, <4>1 DEF FirstWalk
      <4>3. ASSUME n < current
            PROVE  Walked(clos[n].rule)'
        <5>1. Walked(clos[n].rule)
          BY <2>2, <4>1, <4>3 DEF FirstWalk
        <5> QED BY <1>13, <4>1, <5>1 DEF Walked
      <4>4. n > current => clos'[n].position = 0
        BY <1>6, <1>7, <1>12, <2>2, <4>1 DEF FirstWalk
      <4> QED BY <1>6, <1>13, <4>1, <4>2, <4>3, <4>4
    <3>6. Len(clos') = Len(graph'[1].items) /\ pc' \in {"walk", "last"}
      BY <1>6, <1>12, <1>13, <2>2 DEF FirstWalk
    <3>7. FirstWalk'
      BY <3>4, <3>5, <3>6 DEF FirstWalk
    <3> QED BY <3>7 DEF Progress
  <2> QED BY <1>1, <2>1, <2>2
<1> QED
  BY <1>13, <1>14, <1>15, <1>16, <1>17 DEF BuildInv, Building

\* The state of an item that is done, or stopped in front of an empty operand,
\* adds what the walk of the item still lacks.
LEMMA AddLastStateStep ==
  ASSUME RulesOK, BuildInv, AddLastState
  PROVE  BuildInv'
<1>1. /\ BuildTyped /\ graph # <<>> /\ GraphGood /\ WorkGood /\ ClosureGood
      /\ (AllWalked \/ FirstWalk)
  BY DEF BuildInv, Building, AddLastState, Progress, NotBegun
<1>2. PICK R : R = Reached
  OBVIOUS
<1>3. PICK item : item = clos[current]
  OBVIOUS
<1>4. PICK items : items = <<item>>
  OBVIOUS
<1>5. /\ pc = "last" \/ (pc = "walk" /\ current <= Len(clos) /\ Done(item))
      /\ graph' = (IF Known(items) THEN graph ELSE Append(graph, State(j, items)))
      /\ current' = current + 1 /\ j' = j + 1 /\ pc' = "walk"
      /\ rules' = rules /\ worklist' = worklist /\ clos' = clos
  BY <1>3, <1>4 DEF AddLastState, input
<1>6. /\ current \in DOMAIN clos /\ clos \in Seq(AnItem) /\ current \in Nat /\ j \in Nat
      /\ Unbarred(item, R)
      /\ pc = "last" => Barred(item) /\ item.position # 0
  BY <1>1, <1>2, <1>3, <1>5 DEF BuildTyped, ClosureGood
<1>7. item \in AnItem /\ item.rule \in Seq(SourceOperand) /\ item.position \in Nat
      /\ item = [rule |-> item.rule, position |-> item.position]
      /\ item.position <= Len(item.rule) /\ Len(item.rule) \in Nat
  BY <1>6 DEF Unbarred, AnItem
<1>8. GoodItems(items, Reached)
  <2>1. Range(items) = {item} /\ items \in Seq(AnItem)
    BY <1>4, <1>7 DEF Range
  <2>2. Barred(item) => item.position # 0
    BY <1>5, <1>6 DEF Barred
  <2>3. CompleteItems(items)
    BY <1>5, <1>6, <2>1 DEF CompleteItems, Barred
  <2> QED BY <1>2, <1>6, <2>1, <2>2, <2>3 DEF GoodItems
<1>9. /\ graph' \in Seq([label : Nat, items : Seq(AnItem), transitions : {NoTransitions}])
      /\ graph' # <<>> /\ Reached' = R /\ graph'[1] = graph[1]
      /\ GraphGood'
      /\ \A it \in Range(items) : InGraph(it)'
      /\ \A rule, k : WalkedTo(rule, k) => WalkedTo(rule, k)'
  BY <1>1, <1>2, <1>5, <1>8, GraphStep
<1>10. InGraph(item)'
  BY <1>4, <1>9 DEF Range
<1>11. BuildTyped'
  BY <1>1, <1>5, <1>6, <1>9 DEF BuildTyped
<1>12. WorkGood'
  BY <1>1, <1>2, <1>5, <1>9 DEF WorkGood
<1>13. ClosureGood'
  <2>1. ASSUME NEW n \in DOMAIN clos, n >= current'
        PROVE  Walkable(clos[n], R)
    BY <1>1, <1>2, <1>5, <1>6, <2>1 DEF ClosureGood
  <2>2. \A n \in DOMAIN clos' : n > current' => Walkable(clos'[n], R)
    BY <1>5, <1>6, <2>1
  <2>3. current' \in DOMAIN clos' => Walkable(clos'[current'], R)
    BY <1>5, <1>6, <2>1
  <2> QED BY <1>5, <1>9, <2>2, <2>3 DEF ClosureGood, Walkable
<1>14. Progress'
  <2>1. CASE AllWalked
    BY <1>2, <1>9, <2>1 DEF Progress, AllWalked, Walked
  <2>2. CASE FirstWalk
    <3>1. Walked(item.rule)'
      <4>1. ASSUME NEW q \in 1..Len(item.rule), \A p \in 2..q : item.rule[p].type # "EMPTY"
            PROVE  InGraph([rule |-> item.rule, position |-> q])'
        <5>1. CASE q = item.position
          BY <1>7, <1>10, <5>1
        <5>2. CASE q < item.position
          <6>1. PICK k : k = item.position - (IF pc = "walk" THEN 0 ELSE 1)
            OBVIOUS
          <6>2. WalkedTo(item.rule, k)
            BY <1>3, <1>6, <2>2, <6>1 DEF FirstWalk
          <6>3. q \in 1..k
            BY <1>7, <5>2, <6>1
          <6>4. WalkedTo(item.rule, k)'
            BY <1>9, <6>2
          <6> QED BY <4>1, <6>3, <6>4 DEF WalkedTo
        <5>3. CASE q > item.position
          <6>1. pc = "last"
            BY <1>5, <1>7, <5>3 DEF Done
          <6>2. item.rule[item.position + 1].type = "EMPTY" /\ item.position + 1 \in 2..q
            BY <1>6, <1>7, <5>3, <6>1 DEF Barred, ReadItem
          <6> QED BY <4>1, <6>2
        <5> QED BY <1>7, <5>1, <5>2, <5>3
      <4> QED BY <4>1 DEF Walked, WalkedTo
    <3>2. ASSUME NEW n \in DOMAIN clos'
          PROVE  /\ clos'[n].rule = graph'[1].items[n].rule
                 /\ n < current' => Walked(clos[n].rule)'
                 /\ n > current' => clos'[n].position = 0
                 /\ n = current' => WalkedTo(clos[n].rule, clos[n].position - (IF pc = "walk" THEN 0 ELSE 1))'
      <4>1. n \in DOMAIN clos /\ clos'[n] = clos[n] /\ n \in Nat
        BY <1>5, <1>6
      <4>2. clos[n].rule = graph[1].items[n].rule
        BY <2>2, <4>1 DEF FirstWalk
      <4>3. ASSUME n < current
            PROVE  Walked(clos[n].rule)'
        <5>1. PICK r : r = clos[n].rule
          OBVIOUS
        <5>2. Walked(r)
          BY <2>2, <4>1, <4>3, <5>1 DEF FirstWalk
        <5>3. Walked(r)'
          BY <1>9, <5>2 DEF Walked
        <5> QED BY <4>1, <5>1, <5>3
      <4>4. ASSUME n = current
            PROVE  Walked(clos[n].rule)'
        BY <1>3, <3>1, <4>1, <4>4
      <4>5. n > current => clos'[n].position = 0
        BY <2>2, <4>1 DEF FirstWalk
      <4>6. ASSUME n = current'
            PROVE  WalkedTo(clos[n].rule, clos[n].position - (IF pc = "walk" THEN 0 ELSE 1))'
        <5>1. clos'[n].position - (IF pc' = "walk" THEN 0 ELSE 1) = 0
          BY <1>5, <1>6, <4>5, <4>6
        <5>2. \A rule : WalkedTo(rule, 0)'
          BY DEF WalkedTo
        <5> QED BY <5>1, <5>2
      <4> QED BY <1>5, <1>6, <1>9, <4>1, <4>2, <4>3, <4>4, <4>5, <4>6
    <3>3. Len(clos') = Len(graph'[1].items) /\ pc' \in {"walk", "last"}
      BY <1>5, <1>9, <2>2 DEF FirstWalk
    <3>4. FirstWalk'
      BY <3>2, <3>3 DEF FirstWalk
    <3> QED BY <3>4 DEF Progress
  <2> QED BY <1>1, <2>1, <2>2
<1> QED
  BY <1>5, <1>9, <1>11, <1>12, <1>13, <1>14 DEF BuildInv, Building

\* Dropping a closure loses nothing: at the end of the first walk everything is
\* found.
LEMMA DropNewestStep ==
  ASSUME RulesOK, BuildInv, DropNewest
  PROVE  BuildInv'
<1>1. /\ BuildTyped /\ graph # <<>> /\ GraphGood /\ WorkGood /\ (AllWalked \/ FirstWalk)
  BY DEF BuildInv, Building, DropNewest, Progress, NotBegun
<1>2. /\ pc = "walk" /\ current > Len(clos) /\ worklist' = Front(worklist) /\ pc' = "graph"
      /\ rules' = rules /\ graph' = graph /\ clos' = clos /\ current' = current /\ j' = j
  BY DEF DropNewest, input
<1>3. Reached' = Reached
  BY <1>2 DEF Reached
<1>4. GraphGood'
  BY <1>1, <1>2, <1>3 DEF GraphGood, AllRules, RuleClosed, AlternativesOf, GoodItems, CompleteItems
<1>5. worklist' \in Seq(Seq(AnItem)) /\ \A x \in Range(worklist') : x \in Range(worklist)
  <2>1. worklist \in Seq(Seq(AnItem))
    BY <1>1 DEF BuildTyped
  <2>2. CASE Len(worklist) > 0
    BY <1>2, <2>1, <2>2, FrontIs
  <2>3. CASE ~ (Len(worklist) > 0)
    <3>1. worklist = <<>>
      BY <2>1, <2>3
    <3>2. Front(<<>>) = <<>>
      BY DEF Front
    <3> QED BY <1>2, <2>1, <3>1, <3>2 DEF Range
  <2> QED BY <2>2, <2>3
<1>6. BuildTyped'
  BY <1>1, <1>2, <1>5 DEF BuildTyped
<1>7. WorkGood'
  <2>1. ASSUME NEW n \in DOMAIN worklist'
        PROVE  \E m \in DOMAIN worklist : worklist'[n] = worklist[m]
    BY <1>5 DEF Range
  <2> QED BY <1>1, <1>3, <2>1 DEF WorkGood
<1>8. ClosureGood'
  BY <1>2 DEF ClosureGood
<1>9. AllWalked
  <2>1. CASE FirstWalk
    <3>1. clos \in Seq(AnItem) /\ graph[1].items \in Seq(AnItem) /\ current \in Nat
      <4>1. 1 \in DOMAIN graph
        BY <1>1 DEF BuildTyped
      <4> QED BY <1>1, <4>1 DEF BuildTyped, GraphGood, GoodItems
    <3>2. ASSUME NEW n \in DOMAIN graph[1].items
          PROVE  Walked(graph[1].items[n].rule)
      <4>1. n \in DOMAIN clos /\ n < current
        BY <1>2, <2>1, <3>1 DEF FirstWalk
      <4> QED BY <2>1, <4>1 DEF FirstWalk
    <3> QED BY <3>2 DEF AllWalked, Reached, RulesIn, Range
  <2> QED BY <1>1, <2>1
<1>10. Progress'
  BY <1>2, <1>3, <1>9 DEF Progress, AllWalked, Walked, WalkedTo, InGraph
<1> QED
  BY <1>1, <1>2, <1>4, <1>6, <1>7, <1>8, <1>10 DEF BuildInv, Building

\* The first closure is closed, and no item of it has moved.
LEMMA BuildStart == Init => BuildInv /\ InputOK /\ PCInv
<1> SUFFICES ASSUME Init
             PROVE  BuildInv /\ InputOK /\ PCInv
  OBVIOUS
<1>1. PICK g \in Grammars : rules = g.rules /\ tokens = g.tokens
  BY DEF Init
<1>2. /\ InputOK
      /\ RulesAt(rules, <<Axiom>>) # <<>> =>
           \E A \in NonTerminal : rules[<<Axiom>>][1] = <<NameOperand(<<A>>)>>
  BY <1>1, GrammarsAssumption DEF InputOK, RulesOK
<1>3. StartGraph /\ clos = <<>> /\ current = 1
  BY DEF Init
<1>4. PCInv
  BY <1>3 DEF StartGraph, PCInv
<1>5. BuildInv
  <2>1. CASE graph = <<>> /\ worklist = <<>> /\ j = 0 /\ pc \in {"graph", "throws"}
    BY <1>3, <2>1 DEF BuildInv, BuildTyped, Building
  <2>2. CASE RulesAt(rules, <<Axiom>>) # <<>> /\ pc = "graph" /\ j = 1
             /\ LET i0 == MakeClosure(Item(rules[<<Axiom>>][1]))
                IN  graph = <<State(0, i0)>> /\ worklist = <<i0>>
    <3>1. PICK i0 : i0 = MakeClosure(Item(rules[<<Axiom>>][1]))
      OBVIOUS
    <3>2. PICK A \in NonTerminal : rules[<<Axiom>>][1] = <<NameOperand(<<A>>)>>
      BY <1>2, <2>2
    <3>3. /\ i0 # <<>> /\ GoodItems(i0, RulesIn(i0))
          /\ \A it \in Range(i0) : it.position = 0 /\ Walkable(it, RulesIn(i0))
          /\ RulesIn(i0) \subseteq AllRules
          /\ RuleClosed(RulesIn(i0))
      BY <1>2, <2>2, <3>1, <3>2, FirstClosure DEF InputOK
    <3>4. graph = <<State(0, i0)>> /\ worklist = <<i0>> /\ i0 \in Seq(AnItem)
      BY <2>2, <3>1, <3>3 DEF GoodItems
    <3>5. graph[1].items = i0 /\ Reached = RulesIn(i0) /\ graph # <<>> /\ DOMAIN graph = {1}
      BY <3>4 DEF State, Reached
    <3>6. BuildTyped
      BY <1>3, <2>2, <3>4 DEF BuildTyped, State
    <3>7. GraphGood /\ WorkGood
      BY <3>3, <3>4, <3>5 DEF GraphGood, WorkGood
    <3>8. NotBegun
      BY <2>2, <3>3, <3>4, <3>5 DEF NotBegun
    <3> QED BY <2>2, <3>5, <3>6, <3>7, <3>8 DEF BuildInv, Building, ClosureGood, Progress
  <2> QED BY <1>3, <2>1, <2>2 DEF StartGraph
<1> QED
  BY <1>2, <1>4, <1>5

\* From the construction to the finished graph.
LEMMA GetTransitionsStep ==
  ASSUME RulesOK, BuildInv, GetTransitions
  PROVE  GraphInv'
<1>1. /\ rules' = rules /\ pc' = "table" /\ pc = "graph" /\ worklist = <<>>
      /\ graph' = [m \in DOMAIN graph |->
                     [graph[m] EXCEPT !.transitions = TransitionsOf(graph[m].items)]]
  BY DEF GetTransitions, input
<1>2. CASE graph = <<>>
  <2>1. DOMAIN graph' = {}
    BY <1>1, <1>2
  <2> QED BY <2>1 DEF GraphInv, Transitions
<1>3. CASE graph # <<>>
  <2>1. BuildTyped /\ GraphGood /\ AllWalked
    BY <1>1, <1>3 DEF BuildInv, Building, Progress, NotBegun, FirstWalk
  <2>2. /\ DOMAIN graph' = DOMAIN graph
        /\ \A m \in DOMAIN graph : /\ graph'[m].items = graph[m].items
                                   /\ graph'[m].transitions = TransitionsOf(graph[m].items)
    <3>1. ASSUME NEW m \in DOMAIN graph
          PROVE  /\ graph'[m].items = graph[m].items
                 /\ graph'[m].transitions = TransitionsOf(graph[m].items)
      <4>1. PICK c \in [label : Nat, items : Seq(AnItem), transitions : {NoTransitions}] : c = graph[m]
        <5> DEFINE States == [label : Nat, items : Seq(AnItem), transitions : {NoTransitions}]
        <5>1. graph \in Seq(States)
          BY <2>1 DEF BuildTyped
        <5> HIDE DEF States
        <5>2. graph[m] \in States
          BY <5>1
        <5> QED BY <5>2 DEF States
      <4>2. graph'[m] = [c EXCEPT !.transitions = TransitionsOf(c.items)]
        BY <1>1, <4>1
      <4>3. /\ [c EXCEPT !.transitions = TransitionsOf(c.items)].items = c.items
            /\ [c EXCEPT !.transitions = TransitionsOf(c.items)].transitions = TransitionsOf(c.items)
        OBVIOUS
      <4> QED BY <4>1, <4>2, <4>3
    <3> QED BY <1>1, <3>1
  <2>3. \A it : InGraph(it)' <=> InGraph(it)
    BY <2>2 DEF InGraph
  <2>4. Reached \subseteq AllRules /\ AllRules \subseteq Seq(SourceOperand)
    BY <2>1, AllRulesClosed DEF GraphGood
  <2>5. ASSUME NEW m \in DOMAIN graph
        PROVE  GoodItems(graph[m].items, AllRules) /\ GoodItems(graph[m].items, Reached)
    BY <2>1, <2>4 DEF GraphGood, GoodItems, Unbarred
  <2>6. ASSUME NEW m \in DOMAIN graph'
        PROVE  GoodItems(graph[m].items, AllRules)'
    <3>1. GoodItems(graph'[m].items, AllRules)
      BY <2>2, <2>5
    <3> QED BY <1>1, <3>1 DEF GoodItems, CompleteItems, AlternativesOf, AllRules
  <2>7. ASSUME NEW m \in DOMAIN graph, NEW item \in Range(graph[m].items),
               ~ Done(item), ~ Barred(item)
        PROVE  InGraph(Moved(item))
    <3>1. Unbarred(item, Reached)
      BY <2>5 DEF GoodItems
    <3>2. /\ item.rule \in Reached /\ item.rule \in Seq(SourceOperand) /\ item.position \in Nat
          /\ item.position <= Len(item.rule) /\ Len(item.rule) \in Nat
      BY <2>4, <3>1 DEF Unbarred, AnItem
    <3>3. Moved(item) = [rule |-> item.rule, position |-> item.position + 1]
      <4>1. PICK R : R = Reached
        OBVIOUS
      <4> QED BY <2>4, <2>7, <3>1, <4>1, MovedIs
    <3>4. item.position + 1 \in 1..Len(item.rule)
      BY <2>7, <3>2 DEF Done
    <3>5. ASSUME NEW p \in 2..(item.position + 1)
          PROVE  item.rule[p].type # "EMPTY"
      <4>1. CASE p = item.position + 1
        BY <2>7, <4>1 DEF Barred, ReadItem
      <4>2. CASE p \in 2..item.position
        BY <3>1, <4>2 DEF Unbarred
      <4> QED BY <3>2, <4>1, <4>2
    <3>6. WalkedTo(item.rule, Len(item.rule))
      BY <2>1, <3>2 DEF AllWalked, Walked
    <3> QED BY <3>3, <3>4, <3>5, <3>6 DEF WalkedTo
  <2>8. ASSUME NEW m \in DOMAIN graph
        PROVE  /\ \A value \in DOMAIN graph'[m].transitions : SimpleKey(value)
               /\ \A item \in Range(graph[m].items) :
                    ~ Done(item) /\ InGraph(Moved(item)) =>
                      ReadItem(item).value \in DOMAIN graph'[m].transitions
    <3> DEFINE items == graph[m].items
               values == {v \in {ReadItem(i).value : i \in {x \in Range(items) : ~ Done(x)}} :
                            Leads(items, v) # {}}
    <3>1. DOMAIN graph'[m].transitions = values
      BY <2>2 DEF TransitionsOf
    <3>2. ASSUME NEW value \in values
          PROVE  SimpleKey(value)
      <4>1. PICK i \in Range(items) : ~ Done(i) /\ value = ReadItem(i).value
        OBVIOUS
      <4>2. Unbarred(i, Reached) /\ i.rule \in Seq(SourceOperand)
        BY <2>4, <2>5, <4>1 DEF GoodItems, Unbarred
      <4>3. i.position + 1 \in DOMAIN i.rule
        BY <4>1, <4>2 DEF Done, Unbarred, AnItem
      <4>4. ReadItem(i) \in SourceOperand
        BY <4>2, <4>3 DEF ReadItem
      <4>5. PICK x : value = <<x>>
        BY <4>1, <4>4, OperandKinds
      <4> QED BY <4>5 DEF SimpleKey
    <3>3. ASSUME NEW item \in Range(items), ~ Done(item), InGraph(Moved(item))
          PROVE  ReadItem(item).value \in values
      <4>1. PICK n \in DOMAIN items : items[n] = item
        BY DEF Range
      <4>2. PICK o \in DOMAIN graph : Moved(item) \in Range(graph[o].items)
        BY <3>3 DEF InGraph
      <4>3. <<n, o>> \in Leads(items, ReadItem(item).value)
        BY <3>3, <4>1, <4>2 DEF Leads
      <4> QED BY <3>3, <4>3
    <3> QED BY <3>1, <3>2, <3>3
  <2>9. Transitions'
    BY <2>2, <2>3, <2>8 DEF Transitions
  <2> QED BY <2>2, <2>3, <2>6, <2>7, <2>9 DEF GraphInv
<1> QED
  BY <1>2, <1>3

\* The constructor ends with a table unless a rule has an empty operand inside.
LEMMA TableRefuses ==
  ASSUME RulesOK, GraphInv, pc = "table",
         NEW m \in DOMAIN graph, IsReduceAction(graph[m]), Reductions(graph[m]) = {}
  PROVE  InnerEmpty
<1> DEFINE items == graph[m].items
<1>1. GoodItems(items, AllRules)
  BY DEF GraphInv
<1>2. PICK item \in Range(items) : Barred(item) => item.position # 0
  BY <1>1 DEF GoodItems
<1>3. Unbarred(item, AllRules)
  BY <1>1 DEF GoodItems
<1>4. /\ item.rule \in AllRules /\ item.rule \in Seq(SourceOperand) /\ item.position \in Nat
      /\ Len(item.rule) \in Nat
  BY <1>3, AllRulesClosed DEF Unbarred, AnItem
<1>5. PICK name \in DOMAIN rules : item.rule \in AlternativesOf(name)
  BY <1>4 DEF AllRules
<1>6. PICK n \in DOMAIN rules[name] : item.rule = rules[name][n]
  BY <1>5 DEF AlternativesOf, RulesAt, Range
<1>7. ~ Done(item)
  <2>1. SUFFICES ASSUME Done(item) PROVE FALSE
    OBVIOUS
  <2>2. PICK k \in DOMAIN items : items[k] = item
    BY DEF Range
  <2>3. <<name, n>> \in Reductions(graph[m])
    BY <1>6, <2>1, <2>2 DEF Reductions
  <2> QED BY <2>3
<1>8. Barred(item)
  <2>1. SUFFICES ASSUME ~ Barred(item) PROVE FALSE
    OBVIOUS
  <2>2. InGraph(Moved(item))
    BY <1>7, <2>1 DEF GraphInv
  <2>3. ReadItem(item).value \in DOMAIN graph[m].transitions
    BY <1>7, <2>2 DEF GraphInv, Transitions
  <2> QED BY <2>3 DEF IsReduceAction
<1>9. item.position + 1 \in 2..Len(item.rule) /\ item.rule[item.position + 1].type = "EMPTY"
  BY <1>2, <1>4, <1>8 DEF Barred, Done, ReadItem
<1> QED
  BY <1>6, <1>9 DEF InnerEmpty, Alternatives

-----------------------------------------------------------------------------
(* The table.                                                               *)

\* A cell of a reduction names a rule.
IsReduction(e) == \E name \in DOMAIN rules : \E n \in DOMAIN rules[name] : e = <<name, n>>

\* All cells of the table.
TableCells == UNION {action[label] : label \in DOMAIN action}

\* The cells of the table.
ActionInv ==
  \A cell \in TableCells :
    /\ SimpleKey(cell.key)
    /\ cell.action \in {"shift", "reduce", "accepted", "goTo"}
    /\ cell.action = "reduce" => IsReduction(cell.item)

\* The table is built with such cells or is refused for one of the reasons
\* above.
LEMMA BuildTableStep ==
  ASSUME InputOK, GraphInv, ActionInv, BuildTable
  PROVE  ActionInv' /\ (pc' = "throws" => InnerEmpty')
<1>1. pc = "table" /\ rules' = rules
  BY DEF BuildTable, input
<1>2. CASE /\ pc' = "throws" /\ UNCHANGED action
           /\ \E m \in DOMAIN graph : IsReduceAction(graph[m]) /\ Reductions(graph[m]) = {}
  <2>1. InnerEmpty
    BY <1>1, <1>2, TableRefuses DEF InputOK
  <2>2. InnerEmpty'
    BY <1>1, <2>1 DEF InnerEmpty
  <2>3. ActionInv'
    BY <1>1, <1>2 DEF ActionInv, TableCells, IsReduction
  <2> QED BY <2>2, <2>3
<1>3. CASE /\ pc' = "built"
           /\ action' = [label \in {graph[m].label : m \in DOMAIN graph} |->
                           LET c == CHOOSE x \in Range(graph) : x.label = label
                           IN  ActionCells(c) \cup GotoCells(c)]
  <2>1. ASSUME NEW cell \in TableCells'
        PROVE  /\ SimpleKey(cell.key)
               /\ cell.action \in {"shift", "reduce", "accepted", "goTo"}
               /\ cell.action = "reduce" => IsReduction(cell.item)
    <3>1. PICK label \in DOMAIN action' : cell \in action'[label]
      BY DEF TableCells
    <3>2. PICK m \in DOMAIN graph : label = graph[m].label
      BY <1>3, <3>1
    <3> DEFINE c == CHOOSE x \in Range(graph) : x.label = label
    <3>3. c \in Range(graph)
      <4>1. graph[m] \in Range(graph)
        BY DEF Range
      <4> QED BY <3>2, <4>1
    <3>4. cell \in ActionCells(c) \cup GotoCells(c)
      BY <1>3, <3>1
    <3>5. PICK n \in DOMAIN graph : c = graph[n]
      BY <3>3 DEF Range
    <3> HIDE DEF c
    <3>6. CASE cell \in GotoCells(c)
      <4>1. PICK name \in DOMAIN c.transitions : cell = Cell(name, "goTo", Target(c, name, "NONTERMINAL"), 0)
        BY <3>6 DEF GotoCells
      <4>2. SimpleKey(name)
        BY <1>1, <3>5 DEF GraphInv, Transitions
      <4> QED BY <4>1, <4>2 DEF Cell
    <3>7. CASE cell \in ActionCells(c)
      <4>1. CASE c.label = 1
        <5>1. cell = Cell(<<End>>, "accepted", NoState, 0)
          BY <3>7, <4>1 DEF ActionCells
        <5> QED BY <5>1 DEF Cell, SimpleKey
      <4>2. CASE c.label # 1 /\ IsReduceAction(c)
        <5>1. PICK k \in DOMAIN tokens, r \in Reductions(c) : cell = Cell(<<tokens[k]>>, "reduce", r, k)
          BY <3>7, <4>2 DEF ActionCells
        <5>2. IsReduction(r)
          BY DEF Reductions, IsReduction
        <5> QED BY <5>1, <5>2 DEF Cell, SimpleKey
      <4>3. CASE c.label # 1 /\ ~ IsReduceAction(c)
        <5>1. PICK k \in DOMAIN tokens : cell = Cell(<<tokens[k]>>, "shift", Target(c, <<tokens[k]>>, "TERMINAL"), k)
          BY <3>7, <4>3 DEF ActionCells
        <5> QED BY <5>1 DEF Cell, SimpleKey
      <4> QED BY <4>1, <4>2, <4>3
    <3> QED BY <3>4, <3>6, <3>7
  <2>2. ActionInv'
    BY <1>1, <2>1 DEF ActionInv, IsReduction
  <2> QED BY <1>3, <2>2
<1> QED
  BY <1>2, <1>3 DEF BuildTable

-----------------------------------------------------------------------------
(* The stacks.                                                              *)

\* The types of the nodes that reductions make.
AFlatKey == {FlatKey(name, n) : name \in AName, n \in Nat \ {0}}

\* Nodes of tokens, the end and the start.
TokenNodes == [kind : {"token"}, nodetype : {<<x>> : x \in Terminal \cup {End, "Begin"}},
               leaves : Seq(Nat)]

\* Nodes of reductions.
KNodes == [kind : {"k"}, nodetype : AFlatKey, leaves : Seq(Nat)]

\* What is on the stack.
Node == TokenNodes \cup KNodes

\* What can be on positions.
Labels == {0} \cup {cell.item : cell \in TableCells}

\* The places of the token nodes on a stack.
TokensOn(s) == {m \in DOMAIN s : s[m].kind = "token"}

\* The tokens in the nodes of a stack, in order.
LeavesOn(s) == FlattenSeq([m \in DOMAIN s |-> s[m].leaves])

\* The stacks, and the leaves of the nodes that were popped from them, hold the first
\* k tokens.
Sound(s, ps, popped, k) ==
  /\ s \in Seq(Node) /\ ps \in Seq(Labels) /\ popped \in Seq(Nat)
  /\ Len(ps) = Cardinality(TokensOn(s))
  /\ \A x : x \in 1..k <=> x \in Range(LeavesOn(s)) \/ x \in Range(popped)
  /\ Len(LeavesOn(s)) + Len(popped) = k

\* The key "A:n" has two parts, the key of a cell one.
LEMMA FlatKeyIs ==
  ASSUME NEW name \in AName, NEW n \in Nat \ {0}
  PROVE  Len(FlatKey(name, n)) = 2 /\ FlatKey(name, n) \in AFlatKey
<1>1. PICK A \in NonTerminal : name = <<A>>
  BY DEF AName
<1>2. <<A>> \in Seq({A} \cup Nat) /\ n - 1 \in {A} \cup Nat /\ Len(<<A>>) = 1
  OBVIOUS
<1>3. Len(Append(<<A>>, n - 1)) = 2
  BY <1>2
<1>4. Len(FlatKey(name, n)) = 2
  BY <1>1, <1>3 DEF FlatKey
<1> QED
  BY <1>4 DEF AFlatKey

\* The kinds of nodes are told apart by their types.
LEMMA NodeKinds ==
  ASSUME NEW node \in Node
  PROVE  /\ node.leaves \in Seq(Nat)
         /\ node.kind = "token" => Len(node.nodetype) = 1
         /\ node.kind # "token" => Len(node.nodetype) = 2
<1>1. CASE node \in TokenNodes
  <2>1. PICK x : node.nodetype = <<x>>
    BY <1>1 DEF TokenNodes
  <2> QED BY <1>1, <2>1 DEF TokenNodes
<1>2. CASE node \in KNodes
  <2>1. node.nodetype \in AFlatKey /\ node.kind = "k" /\ node.leaves \in Seq(Nat)
    BY <1>2 DEF KNodes
  <2>2. Len(node.nodetype) = 2
    BY <2>1, FlatKeyIs DEF AFlatKey
  <2> QED BY <2>1, <2>2
<1> QED
  BY <1>1, <1>2 DEF Node

\* What a push adds to the tokens and the leaves.
LEMMA PushNode ==
  ASSUME NEW s \in Seq(Node), NEW node \in Node
  PROVE  /\ LeavesOn(s) \in Seq(Nat) /\ Cardinality(TokensOn(s)) \in Nat
         /\ LeavesOn(Append(s, node)) = LeavesOn(s) \o node.leaves
         /\ Cardinality(TokensOn(Append(s, node)))
              = Cardinality(TokensOn(s)) + (IF node.kind = "token" THEN 1 ELSE 0)
<1> DEFINE f == [n \in Node |-> n.leaves]
           L(t) == [m \in DOMAIN t |-> t[m].leaves]
<1>1. f \in [Node -> Seq(Nat)]
  BY NodeKinds
<1>2. /\ [n \in DOMAIN s |-> f[s[n]]] \in Seq(Seq(Nat))
      /\ [n \in DOMAIN Append(s, node) |-> f[Append(s, node)[n]]]
           = Append([n \in DOMAIN s |-> f[s[n]]], f[node])
  <2> DEFINE T == Seq(Nat)
  <2>1. f \in [Node -> T]
    BY <1>1
  <2> HIDE DEF f, T
  <2>2. /\ [n \in DOMAIN s |-> f[s[n]]] \in Seq(T)
        /\ [n \in DOMAIN Append(s, node) |-> f[Append(s, node)[n]]]
             = Append([n \in DOMAIN s |-> f[s[n]]], f[node])
    BY <2>1, MappedAppend
  <2> QED BY <2>2 DEF T
<1>3. \A t \in Seq(Node) : L(t) = [n \in DOMAIN t |-> f[t[n]]]
  OBVIOUS
<1>4. Append(s, node) \in Seq(Node)
  OBVIOUS
<1>5. L(s) \in Seq(Seq(Nat)) /\ L(Append(s, node)) = Append(L(s), node.leaves)
  <2>1. f[node] = node.leaves
    OBVIOUS
  <2> HIDE DEF f, L
  <2> QED BY <1>2, <1>3, <1>4, <2>1
<1>6. LeavesOn(s) \in Seq(Nat) /\ LeavesOn(Append(s, node)) = LeavesOn(s) \o node.leaves
  <2>1. node.leaves \in Seq(Nat)
    BY NodeKinds
  <2>2. \A t : LeavesOn(t) = FlattenSeq(L(t))
    BY DEF LeavesOn
  <2> HIDE DEF L
  <2> QED BY <1>5, <2>1, <2>2, FlattenType, FlattenAppend
<1>7. /\ \A m \in 1..Len(s) : Append(s, node)[m] = s[m]
      /\ Append(s, node)[Len(s) + 1] = node
      /\ DOMAIN Append(s, node) = 1..(Len(s) + 1) /\ DOMAIN s = 1..Len(s) /\ Len(s) \in Nat
  OBVIOUS
<1>8. TokensOn(Append(s, node)) =
        TokensOn(s) \cup (IF node.kind = "token" THEN {Len(s) + 1} ELSE {})
      /\ Len(s) + 1 \notin TokensOn(s)
  BY <1>7 DEF TokensOn
<1>9. IsFiniteSet(TokensOn(s))
  <2>1. IsFiniteSet(1..Len(s))
    BY FS_Interval
  <2> QED BY <1>7, <2>1, FS_Subset DEF TokensOn
<1>10. CASE node.kind = "token"
  <2>1. Cardinality(TokensOn(s) \cup {Len(s) + 1}) = Cardinality(TokensOn(s)) + 1
    BY <1>8, <1>9, FS_AddElement
  <2> QED BY <1>6, <1>8, <1>9, <1>10, <2>1, FS_CardinalityType
<1>11. CASE node.kind # "token"
  <2>1. Cardinality(TokensOn(s)) \in Nat
    BY <1>9, FS_CardinalityType
  <2> QED BY <1>6, <1>8, <1>11, <2>1
<1> QED
  BY <1>10, <1>11

\* An operand that matches the top takes a token node with its label: a rule's
\* operands never match a node made by a reduction.
LEMMA PopStep ==
  ASSUME NEW acc, NEW k \in Nat, Sound(acc.stack, acc.positions, acc.leaves, k),
         Len(acc.stack) > 0, NEW operand \in SourceOperand
  PROVE  LET to == PopOperand(acc, operand)
         IN  /\ Sound(to.stack, to.positions, to.leaves, k)
             /\ Len(to.stack) >= Len(acc.stack) - 1
<1> DEFINE to == PopOperand(acc, operand)
           s == acc.stack
           f == Front(s)
           node == Last(s)
           ps == acc.positions
<1>1. s \in Seq(Node) /\ ps \in Seq(Labels) /\ acc.leaves \in Seq(Nat)
      /\ Len(ps) = Cardinality(TokensOn(s))
  BY DEF Sound
<1>2. CASE operand.value # node.nodetype
  <2>1. to = acc
    BY <1>2 DEF PopOperand
  <2> QED BY <1>1, <2>1
<1>3. CASE operand.value = node.nodetype
  <2>1. /\ f \in Seq(Node) /\ Len(f) = Len(s) - 1 /\ node \in Node /\ s = Append(f, node)
    BY <1>1, FrontIs
  <2>2. to.stack = f /\ to.positions = Front(ps) /\ to.leaves = acc.leaves \o node.leaves
    BY <1>3 DEF PopOperand
  <2> HIDE DEF f, node, s, to, ps
  <2>3. node.kind = "token" /\ node.leaves \in Seq(Nat)
    <3>1. PICK x : operand.value = <<x>>
      BY OperandKinds
    <3>2. Len(operand.value) = 1
      BY <3>1
    <3>3. /\ node.leaves \in Seq(Nat)
          /\ node.kind # "token" => Len(node.nodetype) = 2
      BY <2>1, NodeKinds
    <3>4. Len(node.nodetype) = 1
      BY <1>3, <3>2
    <3> QED BY <3>3, <3>4
  <2>4. /\ LeavesOn(f) \in Seq(Nat) /\ Cardinality(TokensOn(f)) \in Nat
        /\ LeavesOn(s) = LeavesOn(f) \o node.leaves
        /\ Cardinality(TokensOn(s)) = Cardinality(TokensOn(f)) + 1
    BY <2>1, <2>3, PushNode
  <2>5. Front(ps) \in Seq(Labels) /\ Len(Front(ps)) = Cardinality(TokensOn(f))
    <3>1. Len(ps) = Cardinality(TokensOn(f)) + 1
      BY <1>1, <2>4 DEF ps, s
    <3>2. Len(ps) > 0 /\ ps \in Seq(Labels)
      BY <1>1, <2>4, <3>1 DEF ps
    <3>3. Front(ps) \in Seq(Labels) /\ Len(Front(ps)) = Len(ps) - 1
      BY <3>2, FrontIs
    <3> QED BY <2>4, <3>1, <3>3
  <2>6. \A x : x \in Range(LeavesOn(s)) <=> x \in Range(LeavesOn(f)) \/ x \in Range(node.leaves)
    BY <2>3, <2>4, RangeOfConcat
  <2>7. \A x : x \in Range(to.leaves) <=> x \in Range(acc.leaves) \/ x \in Range(node.leaves)
    BY <1>1, <2>2, <2>3, RangeOfConcat
  <2>8. to.leaves \in Seq(Nat) /\ Len(to.leaves) = Len(acc.leaves) + Len(node.leaves)
        /\ Len(LeavesOn(s)) = Len(LeavesOn(f)) + Len(node.leaves)
        /\ Len(node.leaves) \in Nat /\ Len(LeavesOn(f)) \in Nat /\ Len(acc.leaves) \in Nat
    BY <1>1, <2>2, <2>3, <2>4
  <2>9. /\ \A x : x \in 1..k <=> x \in Range(LeavesOn(s)) \/ x \in Range(acc.leaves)
        /\ Len(LeavesOn(s)) + Len(acc.leaves) = k
    BY DEF Sound, s
  <2>10. \A x : x \in 1..k <=> x \in Range(LeavesOn(f)) \/ x \in Range(to.leaves)
    BY <2>6, <2>7, <2>9
  <2>11. Len(LeavesOn(f)) + Len(to.leaves) = k
    <3>1. \A a, b, c \in Nat : (a + b) + c = k => a + (c + b) = k
      OBVIOUS
    <3>2. (Len(LeavesOn(f)) + Len(node.leaves)) + Len(acc.leaves) = k
      BY <2>8, <2>9
    <3>3. Len(LeavesOn(f)) + (Len(acc.leaves) + Len(node.leaves)) = k
      BY <2>8, <3>1, <3>2
    <3> QED BY <2>8, <3>3
  <2>12. Sound(to.stack, to.positions, to.leaves, k)
    BY <2>1, <2>2, <2>5, <2>8, <2>10, <2>11 DEF Sound
  <2>13. Len(to.stack) >= Len(s) - 1
    BY <1>1, <2>1, <2>2
  <2> QED BY <2>12, <2>13 DEF to, s
<1> QED
  BY <1>2, <1>3

\* Nor do all operands of a rule shorter than the stack, one after the other,
\* empty the stack.
LEMMA PoppedIs ==
  ASSUME NEW rule \in Seq(SourceOperand), NEW k \in Nat, Len(rule) < Len(stack),
         Sound(stack, positions, <<>>, k)
  PROVE  Sound(Popped(rule).stack, Popped(rule).positions, Popped(rule).leaves, k)
         /\ Len(Popped(rule).stack) > 0
<1> DEFINE start == [stack |-> stack, positions |-> positions, leaves |-> <<>>]
           last == Len(rule)
           Upto(n, f) == \A m \in 0..n : m <= last =>
                           f[m] = IF m = 0 THEN start ELSE PopOperand(f[m - 1], rule[m])
           S == {n \in Nat : \E f : Upto(n, f)}
<1>1. 0 \in S
  <2>1. Upto(0, [m \in {0} |-> start])
    OBVIOUS
  <2> QED BY <2>1
<1>2. ASSUME NEW n \in Nat, n \in S
      PROVE  n + 1 \in S
  <2>1. PICK f : Upto(n, f)
    BY <1>2
  <2> DEFINE g == [m \in 0..(n + 1) |-> IF m <= n THEN f[m] ELSE PopOperand(f[n], rule[n + 1])]
  <2>2. ASSUME NEW m \in 0..(n + 1), m <= last
        PROVE  g[m] = IF m = 0 THEN start ELSE PopOperand(g[m - 1], rule[m])
    <3>1. CASE m <= n
      <4>1. m \in 0..n
        BY <3>1
      <4>2. f[m] = IF m = 0 THEN start ELSE PopOperand(f[m - 1], rule[m])
        BY <2>1, <2>2, <4>1
      <4>3. g[m] = f[m] /\ (m # 0 => g[m - 1] = f[m - 1])
        BY <3>1
      <4> HIDE DEF g, start
      <4> QED BY <4>2, <4>3
    <3>2. CASE ~ (m <= n)
      <4>1. m = n + 1 /\ m # 0 /\ m - 1 = n
        BY <3>2
      <4>2. g[m] = PopOperand(f[n], rule[n + 1]) /\ g[n] = f[n]
        BY <4>1
      <4> HIDE DEF g, start
      <4> QED BY <4>1, <4>2
    <3> QED BY <3>1, <3>2
  <2> HIDE DEF g
  <2>3. Upto(n + 1, g)
    BY <2>2
  <2> QED BY <2>3
<1>3. last \in Nat
  OBVIOUS
<1> HIDE DEF S
<1>4. last \in S
  BY <1>1, <1>2, <1>3, AllNat
<1>5. PICK f : Upto(last, f)
  BY <1>4 DEF S
<1> DEFINE F(after) == [n \in 0..last |-> IF n = 0 THEN start ELSE PopOperand(after[n - 1], rule[n])]
           h == [n \in 0..last |-> f[n]]
<1>6. h = F(h)
  <2>1. ASSUME NEW n \in 0..last
        PROVE  h[n] = IF n = 0 THEN start ELSE PopOperand(h[n - 1], rule[n])
    <3>1. f[n] = IF n = 0 THEN start ELSE PopOperand(f[n - 1], rule[n])
      BY <1>3, <1>5
    <3>2. h[n] = f[n] /\ (n # 0 => h[n - 1] = f[n - 1])
      BY <1>3
    <3> HIDE DEF h, start
    <3> QED BY <3>1, <3>2
  <2> QED BY <2>1
<1> DEFINE after == CHOOSE t : t = F(t)
<1> HIDE DEF h
<1>7. after = F(after)
  <2> HIDE DEF F
  <2>1. \E t : t = F(t)
    BY <1>6
  <2> QED BY <2>1
<1>8. Popped(rule) = after[last]
  BY DEF Popped
<1> HIDE DEF after
<1>9. \A n \in 0..last : after[n] = IF n = 0 THEN start ELSE PopOperand(after[n - 1], rule[n])
  <2>1. ASSUME NEW n \in 0..last
        PROVE  after[n] = IF n = 0 THEN start ELSE PopOperand(after[n - 1], rule[n])
    <3>1. after[n] = F(after)[n]
      BY <1>7
    <3> QED BY <3>1
  <2> QED BY <2>1
<1> DEFINE Good(acc, n) == Sound(acc.stack, acc.positions, acc.leaves, k)
                             /\ Len(acc.stack) >= Len(stack) - n
           G == {n \in Nat : n <= last => Good(after[n], n)}
<1>10. stack \in Seq(Node)
  BY DEF Sound
<1>11. 0 \in G
  <2>1. after[0] = start
    BY <1>3, <1>9
  <2>2. start.stack = stack /\ start.positions = positions /\ start.leaves = <<>>
    OBVIOUS
  <2> HIDE DEF start
  <2> QED BY <1>10, <2>1, <2>2
<1>12. ASSUME NEW n \in Nat, n \in G
       PROVE  n + 1 \in G
  <2>1. ASSUME n + 1 <= last
        PROVE  Good(after[n + 1], n + 1)
    <3>1. after[n + 1] = PopOperand(after[n], rule[n + 1])
      <4>1. n + 1 \in 0..last /\ n + 1 # 0 /\ (n + 1) - 1 = n
        BY <1>3, <2>1
      <4> QED BY <1>9, <4>1
    <3>2. Good(after[n], n)
      BY <1>3, <1>12, <2>1
    <3>3. rule[n + 1] \in SourceOperand
      BY <1>3, <2>1
    <3>4. after[n].stack \in Seq(Node) /\ Len(after[n].stack) >= Len(stack) - n
      BY <3>2 DEF Sound
    <3>5. Len(after[n].stack) > 0
      BY <1>3, <1>10, <2>1, <3>4
    <3>6. /\ Sound(after[n + 1].stack, after[n + 1].positions, after[n + 1].leaves, k)
          /\ Len(after[n + 1].stack) >= Len(after[n].stack) - 1
      BY <3>1, <3>2, <3>3, <3>5, PopStep
    <3>7. after[n + 1].stack \in Seq(Node)
      BY <3>6 DEF Sound
    <3> QED BY <1>10, <3>4, <3>6, <3>7
  <2> QED BY <2>1
<1> HIDE DEF G
<1>13. last \in G
  BY <1>3, <1>11, <1>12, AllNat
<1>14. Good(after[last], last)
  BY <1>3, <1>13 DEF G
<1>15. Len(after[last].stack) > 0
  <2>1. after[last].stack \in Seq(Node)
    BY <1>14 DEF Sound
  <2> QED BY <1>3, <1>10, <1>14, <2>1
<1> QED
  BY <1>8, <1>14, <1>15

\* Two empty stacks.
LEMMA SoundEmpty == Sound(<<>>, <<>>, <<>>, 0)
<1>1. TokensOn(<<>>) = {} /\ Cardinality({}) = 0
  BY FS_EmptySet DEF TokensOn
<1>2. LeavesOn(<<>>) = <<>>
  <2>1. [m \in DOMAIN <<>> |-> <<>>[m].leaves] = <<>>
    OBVIOUS
  <2>2. FlattenSeq(<<>>) = <<>>
    BY FlattenEmpty
  <2> QED BY <2>1, <2>2 DEF LeavesOn
<1>3. Range(<<>>) = {}
  BY DEF Range
<1>4. /\ <<>> \in Seq(Node) /\ <<>> \in Seq(Labels) /\ <<>> \in Seq(Nat)
      /\ Len(<<>>) = 0 /\ 1..0 = {}
  OBVIOUS
<1>5. Len(<<>>) = Cardinality(TokensOn(<<>>))
  BY <1>1, <1>4
<1>6. \A x : x \in 1..0 <=> x \in Range(LeavesOn(<<>>)) \/ x \in Range(<<>>)
  BY <1>2, <1>3, <1>4
<1>7. Len(LeavesOn(<<>>)) + Len(<<>>) = 0
  BY <1>2, <1>4
<1> QED
  BY <1>4, <1>5, <1>6, <1>7 DEF Sound

\* A node whose leaves were popped, or were just read.
LEMMA SoundPush ==
  ASSUME NEW s, NEW ps, NEW popped, NEW k \in Nat, Sound(s, ps, popped, k),
         NEW node \in Node, NEW qs \in Seq(Labels),
         Len(qs) = Len(ps) + (IF node.kind = "token" THEN 1 ELSE 0),
         NEW n \in Nat, Len(LeavesOn(s)) + Len(node.leaves) = n,
         \A x : x \in 1..n <=> x \in Range(LeavesOn(s)) \/ x \in Range(node.leaves)
  PROVE  Sound(Append(s, node), qs, <<>>, n)
<1>1. s \in Seq(Node) /\ Len(ps) = Cardinality(TokensOn(s))
  BY DEF Sound
<1>2. /\ LeavesOn(s) \in Seq(Nat) /\ Cardinality(TokensOn(s)) \in Nat
      /\ LeavesOn(Append(s, node)) = LeavesOn(s) \o node.leaves
      /\ Cardinality(TokensOn(Append(s, node)))
           = Cardinality(TokensOn(s)) + (IF node.kind = "token" THEN 1 ELSE 0)
      /\ node.leaves \in Seq(Nat)
  BY <1>1, PushNode, NodeKinds
<1>3. Append(s, node) \in Seq(Node)
  BY <1>1
<1>4. \A x : x \in 1..n <=> x \in Range(LeavesOn(Append(s, node))) \/ x \in Range(<<>>)
  <2>1. \A x : x \in Range(LeavesOn(s) \o node.leaves) <=>
          x \in Range(LeavesOn(s)) \/ x \in Range(node.leaves)
    BY <1>2, RangeOfConcat
  <2>2. Range(<<>>) = {}
    BY DEF Range
  <2> QED BY <1>2, <2>1, <2>2
<1>5. Len(LeavesOn(Append(s, node))) + Len(<<>>) = n
  BY <1>2
<1>6. Len(qs) = Cardinality(TokensOn(Append(s, node)))
  BY <1>1, <1>2
<1> QED
  BY <1>3, <1>4, <1>5, <1>6 DEF Sound

\* The stacks with which membership begins.
LEMMA SoundStart == 0 \in Labels /\ Sound(<<Begin>>, <<0>>, <<>>, 0)
<1>1. Begin \in Node /\ Begin.kind = "token" /\ Begin.leaves = <<>>
  BY DEF Begin, Node, TokenNodes
<1>2. 0 \in Labels
  BY DEF Labels
<1>3. PICK none : none = <<>>
  OBVIOUS
<1>4. Sound(none, none, none, 0) /\ none \in Seq(Node) /\ Len(none) = 0
  BY <1>3, SoundEmpty
<1>5. LeavesOn(none) \in Seq(Nat)
  BY <1>1, <1>4, PushNode
<1>6. PICK node : node = Begin
  OBVIOUS
<1>7. /\ Len(LeavesOn(none)) + Len(node.leaves) = 0
      /\ \A x : x \in 1..0 <=> x \in Range(LeavesOn(none)) \/ x \in Range(node.leaves)
  BY <1>1, <1>3, <1>4, <1>6 DEF Sound
<1>8. PICK start : start = <<0>>
  OBVIOUS
<1>9. start \in Seq(Labels) /\ Len(start) = 1
  BY <1>2, <1>8
<1>10. Len(start) = Len(none) + (IF node.kind = "token" THEN 1 ELSE 0)
  BY <1>1, <1>4, <1>6, <1>9
<1>11. Sound(Append(none, node), start, <<>>, 0)
  BY <1>1, <1>4, <1>6, <1>7, <1>9, <1>10, SoundPush
<1>12. Append(none, node) = <<node>>
  BY <1>3
<1> QED
  BY <1>2, <1>6, <1>8, <1>11, <1>12

\* A shift pushes the next token and a label.
LEMMA SoundShift ==
  ASSUME NEW k \in Nat, NEW s, NEW ps, Sound(s, ps, <<>>, k),
         NEW type \in Terminal \cup {End}, NEW label \in Labels
  PROVE  Sound(Append(s, TokenNode(type, k + 1)), Append(ps, label), <<>>, k + 1)
<1> DEFINE node == TokenNode(type, k + 1)
<1>1. node \in Node /\ node.kind = "token" /\ node.leaves = <<k + 1>>
  BY DEF TokenNode, Node, TokenNodes
<1>2. s \in Seq(Node) /\ ps \in Seq(Labels)
  BY DEF Sound
<1>3. LeavesOn(s) \in Seq(Nat)
  BY <1>1, <1>2, PushNode
<1> HIDE DEF node
<1>4. Len(LeavesOn(s)) + Len(node.leaves) = k + 1
  <2>1. PICK none : none = <<>>
    OBVIOUS
  <2>2. Len(none) = 0 /\ Len(LeavesOn(s)) + Len(none) = k
    BY <2>1 DEF Sound
  <2>3. PICK leaf : leaf = node.leaves
    OBVIOUS
  <2>4. Len(leaf) = 1
    BY <1>1, <2>3
  <2>5. Len(LeavesOn(s)) \in Nat
    BY <1>3
  <2> QED BY <2>2, <2>3, <2>4, <2>5
<1>5. \A x : x \in 1..(k + 1) <=> x \in Range(LeavesOn(s)) \/ x \in Range(node.leaves)
  <2>1. Range(<<k + 1>>) = {k + 1} /\ Range(<<>>) = {}
    BY DEF Range
  <2>2. Range(node.leaves) = {k + 1}
    BY <1>1, <2>1
  <2>3. \A x : x \in 1..k <=> x \in Range(LeavesOn(s)) \/ x \in Range(<<>>)
    BY DEF Sound
  <2>4. \A x : x \in 1..k <=> x \in Range(LeavesOn(s))
    BY <2>1, <2>3
  <2>5. \A x : x \in 1..(k + 1) <=> x \in 1..k \/ x = k + 1
    OBVIOUS
  <2> QED BY <2>2, <2>4, <2>5
<1>6. Append(ps, label) \in Seq(Labels) /\ Len(Append(ps, label)) = Len(ps) + 1
  BY <1>2
<1> DEFINE qs == Append(ps, label)
<1>7. qs \in Seq(Labels) /\ Len(qs) = Len(ps) + (IF node.kind = "token" THEN 1 ELSE 0)
  BY <1>1, <1>6
<1> HIDE DEF qs
<1>8. k + 1 \in Nat
  OBVIOUS
<1>9. Sound(Append(s, node), qs, <<>>, k + 1)
  BY <1>1, <1>4, <1>5, <1>7, <1>8, SoundPush
<1> QED
  BY <1>9 DEF node, qs

\* A reduction puts back what it took, in one node.
LEMMA SoundReduce ==
  ASSUME NEW k \in Nat, NEW s, NEW ps, NEW popped, Sound(s, ps, popped, k),
         NEW key \in AFlatKey
  PROVE  Sound(Append(s, KNode(key, popped)), ps, <<>>, k)
<1> DEFINE node == KNode(key, popped)
<1>1. s \in Seq(Node) /\ ps \in Seq(Labels) /\ popped \in Seq(Nat)
      /\ Len(LeavesOn(s)) + Len(popped) = k
      /\ \A x : x \in 1..k <=> x \in Range(LeavesOn(s)) \/ x \in Range(popped)
  BY DEF Sound
<1>2. node \in Node /\ node.kind = "k" /\ node.leaves = popped
  BY <1>1 DEF KNode, Node, KNodes
<1> HIDE DEF node
<1>3. Len(ps) = Len(ps) + (IF node.kind = "token" THEN 1 ELSE 0)
  BY <1>1, <1>2
<1>4. /\ Len(LeavesOn(s)) + Len(node.leaves) = k
      /\ \A x : x \in 1..k <=> x \in Range(LeavesOn(s)) \/ x \in Range(node.leaves)
  BY <1>1, <1>2
<1>5. Sound(Append(s, node), ps, <<>>, k)
  BY <1>1, <1>2, <1>3, <1>4, SoundPush
<1> QED
  BY <1>5 DEF node

\* The invariant of membership.
StackInv ==
  pc \in {"membership", "returned"} =>
    /\ word \in Seq(Terminal \cup {End}) /\ word # <<>>
    /\ word_it \in Nat \ {0}
    /\ cells \subseteq TableCells
    /\ Sound(stack, positions, <<>>, word_it - 1)

\* The stacks are judged by the table alone.
LEMMA SoundStays ==
  ASSUME action' = action
  PROVE  /\ TableCells' = TableCells
         /\ \A s, ps, popped, k : Sound(s, ps, popped, k) => Sound(s, ps, popped, k)'
BY DEF TableCells, Labels, Sound

\* membership is called.
LEMMA CallStep ==
  ASSUME Call
  PROVE  StackInv'
<1>1. PICK w \in Sentences : word' = Append(w, End)
  BY DEF Call
<1>2. word_it' = 1 /\ stack' = <<Begin>> /\ positions' = <<0>> /\ cells' = {} /\ action' = action
  BY DEF Call
<1>3. w \in Seq(Terminal \cup {End})
  BY SentencesAssumption, SeqWider
<1>4. Append(w, End) \in Seq(Terminal \cup {End}) /\ Append(w, End) # <<>>
  <2> DEFINE T == Terminal \cup {End}
  <2>1. w \in Seq(T) /\ End \in T
    BY <1>3
  <2> HIDE DEF T
  <2>2. Append(w, End) \in Seq(T) /\ Len(Append(w, End)) = Len(w) + 1 /\ Len(w) \in Nat
    BY <2>1
  <2>3. Append(w, End) # <<>>
    BY <2>2
  <2> QED BY <2>2, <2>3 DEF T
<1>5. Sound(<<Begin>>, <<0>>, <<>>, 0)'
  <2>1. PICK s : s = <<Begin>>
    OBVIOUS
  <2>2. PICK p : p = <<0>>
    OBVIOUS
  <2>3. Sound(s, p, <<>>, 0)
    BY <2>1, <2>2, SoundStart
  <2>4. Sound(s, p, <<>>, 0)'
    BY <1>2, <2>3, SoundStays
  <2> QED BY <2>1, <2>2, <2>4
<1>6. Sound(stack, positions, <<>>, word_it - 1)'
  <2>1. word_it' - 1 = 0
    BY <1>2
  <2> QED BY <1>2, <1>5, <2>1 DEF Sound
<1> QED
  BY <1>1, <1>2, <1>4, <1>6 DEF StackInv

\* The goto table holds no cell under a key of the flat map.
LEMMA NoGoto ==
  ASSUME ActionInv, NEW state, NEW key \in AFlatKey
  PROVE  CellsOf(state, key) = {}
<1>1. Len(key) = 2
  BY FlatKeyIs DEF AFlatKey
<1>2. ASSUME state \in DOMAIN action, NEW cell \in action[state]
      PROVE  cell.key # key
  BY <1>1, <1>2 DEF ActionInv, TableCells, SimpleKey
<1> QED
  BY <1>2 DEF CellsOf

\* A reduction throws or keeps the stacks in step; it finds no goto.
LEMMA ReduceStep ==
  ASSUME RulesOK, ActionInv, NEW k \in Nat, Sound(stack, positions, <<>>, k),
         NEW e, IsReduction(e), Reduce(e), action' = action
  PROVE  \/ pc' = "throws"
         \/ pc' = pc /\ word_it' = word_it /\ Sound(stack', positions', <<>>, k)
<1>1. PICK name \in DOMAIN rules : \E n \in DOMAIN rules[name] : e = <<name, n>>
  BY DEF IsReduction
<1>2. PICK n \in DOMAIN rules[name] : e = <<name, n>>
  BY <1>1
<1>3. /\ rules[name] \in Seq(Seq(SourceOperand)) /\ name \in AName
  BY DEF RulesOK, IsSource, AName
<1>4. n \in Nat \ {0} /\ rules[name][n] \in Seq(SourceOperand)
  BY <1>3
<1> DEFINE rule == rules[name][n]
           key == FlatKey(name, n)
           left == Popped(rule)
           gotos == SetToSeq(CellsOf(Last(left.positions), key))
<1>5. e[1] = name /\ e[2] = n
  BY <1>2
<1>6. CASE rule = <<>> \/ Len(rule) >= Len(stack)
  BY <1>5, <1>6 DEF Reduce
<1>7. CASE ~ (rule = <<>> \/ Len(rule) >= Len(stack))
  <2>1. /\ stack' = Append(left.stack, KNode(key, left.leaves))
        /\ positions' = left.positions \o [m \in DOMAIN gotos |-> gotos[m].item]
        /\ word_it' = word_it /\ pc' = pc
    BY <1>5, <1>7 DEF Reduce
  <2>2. key \in AFlatKey
    BY <1>3, <1>4, FlatKeyIs
  <2>3. stack \in Seq(Node)
    BY DEF Sound
  <2>4. Len(rule) < Len(stack)
    BY <1>4, <1>7, <2>3
  <2>5. Sound(left.stack, left.positions, left.leaves, k)
    BY <1>4, <2>4, PoppedIs
  <2>6. gotos = SetToSeq({})
    <3> HIDE DEF key, left
    <3> QED BY <2>2, NoGoto
  <2>7. DOMAIN SetToSeq({}) = {}
    <3>1. Cardinality({}) = 0 /\ 1..0 = {}
      BY FS_EmptySet
    <3>2. \E f \in [1..Cardinality({}) -> {}] : IsInjective(f)
      <4>1. <<>> \in [1..Cardinality({}) -> {}]
        BY <3>1
      <4>2. IsInjective(<<>>)
        BY DEF IsInjective
      <4> QED BY <4>1, <4>2
    <3>3. SetToSeq({}) \in [1..Cardinality({}) -> {}]
      BY <3>2 DEF SetToSeq
    <3> QED BY <3>1, <3>3
  <2>8. [m \in DOMAIN gotos |-> gotos[m].item] = <<>>
    <3> HIDE DEF gotos
    <3>1. DOMAIN gotos = {}
      BY <2>6, <2>7
    <3> QED BY <3>1
  <2> HIDE DEF gotos, left, key
  <2>9. left.positions \in Seq(Labels)
    BY <2>5 DEF Sound
  <2>10. positions' = left.positions
    BY <2>1, <2>8, <2>9
  <2>11. Sound(Append(left.stack, KNode(key, left.leaves)), left.positions, <<>>, k)
    BY <2>2, <2>5, SoundReduce
  <2> QED BY <2>1, <2>10, <2>11
<1> QED
  BY <1>6, <1>7

\* Any one of the cells of a range, in any order.
LEMMA TakeCellStep ==
  ASSUME RulesOK, ActionInv, StackInv, TakeCell
  PROVE  StackInv' /\ word' # <<>>
         /\ pc' \in {"membership", "throws", "returned", "undefined"}
<1>1. /\ pc = "membership" /\ word' = word /\ action' = action /\ rules' = rules
  BY DEF TakeCell, input
<1>2. PICK cell \in cells :
        /\ cells' = cells \ {cell}
        /\ CASE cell.action = "shift"    -> Shift(cell.item)
             [] cell.action = "reduce"   -> Reduce(cell.item)
             [] cell.action = "accepted" ->
                  pc' = "returned" /\ UNCHANGED <<stack, positions, word_it>>
             [] cell.action = "goTo"     ->
                  pc' = "throws" /\ UNCHANGED <<stack, positions, word_it>>
  BY DEF TakeCell
<1>3. /\ word \in Seq(Terminal \cup {End}) /\ word # <<>> /\ word_it \in Nat \ {0}
      /\ cells \subseteq TableCells /\ Sound(stack, positions, <<>>, word_it - 1)
  BY <1>1 DEF StackInv
<1>4. cell \in TableCells /\ cell.action \in {"shift", "reduce", "accepted", "goTo"}
      /\ (cell.action = "reduce" => IsReduction(cell.item)) /\ cell.item \in Labels
  BY <1>3 DEF ActionInv, Labels
<1>5. PICK k \in Nat : k = word_it - 1
  BY <1>3
<1>6. \/ pc' \in {"throws", "undefined"}
      \/ /\ pc' \in {"membership", "returned"} /\ word_it' \in Nat \ {0}
         /\ Sound(stack', positions', <<>>, word_it' - 1)
  <2>1. CASE cell.action = "shift"
    <3>1. Shift(cell.item)
      BY <1>2, <2>1
    <3>2. CASE word_it > Len(word)
      BY <3>1, <3>2 DEF Shift
    <3>3. CASE ~ (word_it > Len(word))
      <4>1. word[word_it] \in Terminal \cup {End} /\ word_it = k + 1
        BY <1>3, <1>5, <3>3
      <4>2. /\ stack' = Append(stack, TokenNode(word[word_it], k + 1))
            /\ positions' = Append(positions, cell.item)
            /\ word_it' = word_it + 1 /\ pc' = pc
        BY <3>1, <3>3, <4>1 DEF Shift
      <4>3. Sound(stack', positions', <<>>, k + 1)
        BY <1>3, <1>4, <1>5, <4>1, <4>2, SoundShift
      <4>4. word_it' - 1 = k + 1 /\ word_it' \in Nat \ {0}
        BY <1>5, <4>1, <4>2
      <4> QED BY <1>1, <4>2, <4>3, <4>4
    <3> QED BY <3>2, <3>3
  <2>2. CASE cell.action = "reduce"
    <3>1. Reduce(cell.item) /\ IsReduction(cell.item)
      BY <1>2, <1>4, <2>2
    <3>2. PICK e : e = cell.item
      OBVIOUS
    <3>3. \/ pc' = "throws"
          \/ pc' = pc /\ word_it' = word_it /\ Sound(stack', positions', <<>>, k)
      BY <1>1, <1>3, <1>5, <3>1, <3>2, ReduceStep
    <3> QED BY <1>1, <1>3, <1>5, <3>3
  <2>3. CASE cell.action = "accepted"
    BY <1>2, <1>3, <2>3
  <2>4. CASE cell.action = "goTo"
    BY <1>2, <2>4
  <2> QED BY <1>4, <2>1, <2>2, <2>3, <2>4
<1>7. Sound(stack', positions', <<>>, word_it' - 1) => Sound(stack, positions, <<>>, word_it - 1)'
  BY <1>1 DEF Sound, Labels, TableCells
<1>8. cells' \subseteq TableCells'
  BY <1>1, <1>2, <1>3, SoundStays
<1> QED
  BY <1>1, <1>3, <1>6, <1>7, <1>8 DEF StackInv

-----------------------------------------------------------------------------
(* The invariant of the module.                                             *)

\* The inductive invariant.
LRInv == /\ PCInv /\ InputOK /\ BuildInv /\ GraphInv /\ ActionInv /\ StackInv
         /\ RefusesOnlyInnerEmpty

\* It holds when the loop over the worklist begins.
LEMMA LRStart == Init => LRInv
<1> SUFFICES ASSUME Init
             PROVE  LRInv
  OBVIOUS
<1>1. PCInv /\ InputOK /\ BuildInv
  BY BuildStart
<1>2. pc \in {"graph", "throws"} /\ (pc = "throws" => RulesAt(rules, <<Axiom>>) = <<>>)
  BY DEF Init, StartGraph
<1>3. GraphInv /\ StackInv /\ RefusesOnlyInnerEmpty
  BY <1>2 DEF GraphInv, StackInv, RefusesOnlyInnerEmpty
<1>4. DOMAIN action = {}
  BY DEF Init
<1>5. ActionInv
  BY <1>4 DEF ActionInv, TableCells
<1> QED
  BY <1>1, <1>3, <1>5 DEF LRInv

\* The cells are as good as before where the rules and the table stay.
LEMMA TableStays ==
  ASSUME ActionInv, rules' = rules, action' = action
  PROVE  ActionInv'
BY DEF ActionInv, TableCells, IsReduction

\* Every step keeps it.
LEMMA LRStep ==
  ASSUME LRInv, Next
  PROVE  LRInv'
<1>1. /\ PCInv /\ InputOK /\ BuildInv /\ GraphInv /\ ActionInv /\ StackInv
      /\ RefusesOnlyInnerEmpty /\ RulesOK
  BY DEF LRInv, InputOK
<1>2. rules' = rules /\ tokens' = tokens
  BY DEF Next, TakeClosure, WalkItem, AddLastState, DropNewest, GetTransitions, BuildTable,
         Call, LookUp, Return, TakeCell, Ended, vars, input
<1>3. InputOK'
  BY <1>1, <1>2 DEF InputOK, RulesOK, IsSource
<1>4. CASE TakeClosure \/ WalkItem \/ AddLastState \/ DropNewest
  <2>1. BuildInv'
    BY <1>1, <1>4, TakeClosureStep, WalkItemStep, AddLastStateStep, DropNewestStep
  <2>2. pc' \in {"graph", "walk", "last"} /\ action' = action
    BY <1>1, <1>4 DEF TakeClosure, WalkItem, AddLastState, DropNewest
  <2>3. ActionInv'
    BY <1>1, <1>2, <2>2, TableStays
  <2> QED BY <1>3, <2>1, <2>2, <2>3
          DEF LRInv, PCInv, GraphInv, StackInv, RefusesOnlyInnerEmpty
<1>5. CASE GetTransitions
  <2>1. GraphInv'
    BY <1>1, <1>5, GetTransitionsStep
  <2>2. pc' = "table" /\ action' = action
    BY <1>5 DEF GetTransitions
  <2>3. ActionInv'
    BY <1>1, <1>2, <2>2, TableStays
  <2> QED BY <1>3, <2>1, <2>2, <2>3
          DEF LRInv, PCInv, BuildInv, StackInv, RefusesOnlyInnerEmpty
<1>6. CASE BuildTable
  <2>1. ActionInv' /\ (pc' = "throws" => InnerEmpty')
    BY <1>1, <1>6, BuildTableStep
  <2>2. pc' \in {"throws", "built"}
    BY <1>6 DEF BuildTable
  <2>3. RefusesOnlyInnerEmpty'
    BY <2>1 DEF InnerEmpty, RefusesOnlyInnerEmpty
  <2> QED BY <1>3, <2>1, <2>2, <2>3 DEF LRInv, PCInv, BuildInv, GraphInv, StackInv
<1>7. CASE Call
  <2>1. StackInv'
    BY <1>7, CallStep
  <2>2. pc' = "membership" /\ action' = action
    BY <1>7 DEF Call
  <2>3. ActionInv'
    BY <1>1, <1>2, <2>2, TableStays
  <2> QED BY <1>3, <2>1, <2>2, <2>3
          DEF LRInv, PCInv, BuildInv, GraphInv, RefusesOnlyInnerEmpty
<1>8. CASE LookUp \/ Return
  <2>1. /\ pc = "membership" /\ pc' \in {"membership", "returned"} /\ action' = action
        /\ word' = word /\ word_it' = word_it /\ stack' = stack /\ positions' = positions
    BY <1>8 DEF LookUp, Return, reading
  <2>2. cells' \subseteq TableCells
    <3>1. CASE LookUp
      BY <3>1 DEF LookUp, CellsOf, TableCells
    <3>2. CASE Return
      BY <1>1, <2>1, <3>2 DEF Return, reading, StackInv
    <3> QED BY <1>8, <3>1, <3>2
  <2>3. ActionInv'
    BY <1>1, <1>2, <2>1, TableStays
  <2>4. Sound(stack, positions, <<>>, word_it - 1)'
    BY <1>1, <2>1 DEF StackInv, Sound, Labels, TableCells
  <2>5. StackInv'
    BY <1>1, <2>1, <2>2, <2>4, SoundStays DEF StackInv
  <2> QED BY <1>3, <2>1, <2>3, <2>5
          DEF LRInv, PCInv, BuildInv, GraphInv, RefusesOnlyInnerEmpty
<1>9. CASE TakeCell
  <2>1. StackInv' /\ word' # <<>> /\ pc' \in {"membership", "throws", "returned", "undefined"}
    BY <1>1, <1>9, TakeCellStep
  <2>2. ActionInv'
    BY <1>1, <1>2, <1>9, TableStays DEF TakeCell
  <2> QED BY <1>3, <2>1, <2>2 DEF LRInv, PCInv, BuildInv, GraphInv, RefusesOnlyInnerEmpty
<1>10. CASE Ended
  <2>1. /\ pc \in {"throws", "returned", "undefined"} /\ pc' = pc /\ action' = action
        /\ word' = word /\ word_it' = word_it /\ stack' = stack /\ positions' = positions
        /\ cells' = cells
    BY <1>10 DEF Ended, vars
  <2>2. ActionInv'
    BY <1>1, <1>2, <2>1, TableStays
  <2>3. pc = "returned" => Sound(stack, positions, <<>>, word_it - 1)'
    BY <1>1, <2>1 DEF StackInv, Sound, Labels, TableCells
  <2>4. StackInv'
    BY <1>1, <2>1, <2>3, SoundStays DEF StackInv
  <2>5. RefusesOnlyInnerEmpty'
    BY <1>1, <1>2, <2>1 DEF RefusesOnlyInnerEmpty
  <2> QED BY <1>3, <2>1, <2>2, <2>4, <2>5 DEF LRInv, PCInv, BuildInv, GraphInv
<1> QED
  BY <1>4, <1>5, <1>6, <1>7, <1>8, <1>9, <1>10 DEF Next

\* So does a step that changes nothing.
LEMMA LRStutters ==
  ASSUME LRInv, UNCHANGED vars
  PROVE  LRInv'
BY DEF LRInv, vars, PCInv, InputOK, RulesOK, BuildInv, GraphInv, ActionInv, StackInv,
       RefusesOnlyInnerEmpty, BuildTyped, Building, GraphGood, WorkGood, ClosureGood, Progress,
       AllWalked, NotBegun, FirstWalk, Reached, RulesIn, AllRules, AlternativesOf, RuleClosed,
       GoodItems, CompleteItems, Walked, WalkedTo, InGraph, Transitions, TableCells, Labels,
       IsReduction, Sound

\* The invariant of the construction and of membership, for every loaded
\* grammar and every word.
THEOREM LRInvariant == Spec => []LRInv
<1>1. LRInv /\ [Next]_vars => LRInv'
  BY LRStep, LRStutters
<1> QED
  BY <1>1, LRStart, PTL DEF Spec

\* When the graph is built every item can be followed to its end or to an empty
\* operand, and every name that is read next has its alternatives, although
\* build_graph takes the wrong closure off its worklist (LR_zero::build_graph,
\* make_closure).
THEOREM GraphLosesNothing == Spec => []GraphIsComplete
<1>1. LRInv => GraphIsComplete
  <2> SUFFICES ASSUME LRInv, pc = "table", NEW m \in DOMAIN graph,
                      NEW item \in Range(graph[m].items), ~ Done(item),
                      ReadItem(item).type # "EMPTY"
               PROVE  /\ \E o \in DOMAIN graph : Moved(item) \in Range(graph[o].items)
                      /\ ReadItem(item).type = "NONTERMINAL" =>
                           \A rule \in Range(RulesAt(rules, ReadItem(item).value)) :
                             Item(rule) \in Range(graph[m].items)
    BY DEF GraphIsComplete
  <2>1. InGraph(Moved(item))
    BY DEF LRInv, GraphInv, Barred
  <2>2. CompleteItems(graph[m].items)
    BY DEF LRInv, GraphInv, GoodItems
  <2> QED BY <2>1, <2>2 DEF InGraph, CompleteItems, AlternativesOf
<1> QED
  BY <1>1, LRInvariant, PTL

\* The constructor throws only at a grammar without axiom or with an empty
\* operand behind another (LR_zero::build_table, TableBuilder::get_reduction).
THEOREM RefusalsAreOfInnerEmpties == Spec => []RefusesOnlyInnerEmpty
<1>1. LRInv => RefusesOnlyInnerEmpty
  BY DEF LRInv
<1> QED
  BY <1>1, LRInvariant, PTL

\* membership keeps a label for the start and for every token node, and every
\* token it shifted in one node of its stack (LR_zero::membership, reduce_fn).
THEOREM StacksStayInStep == Spec => []StacksInStep
<1>1. LRInv => StacksInStep
  <2> SUFFICES ASSUME LRInv, pc \in {"membership", "returned"}
               PROVE  /\ Len(positions) = Cardinality(TokensOn(stack))
                      /\ Range(LeavesOn(stack)) = 1..(word_it - 1)
                      /\ Len(LeavesOn(stack)) = word_it - 1
    BY DEF StacksInStep, TokensOn, LeavesOn
  <2>1. Sound(stack, positions, <<>>, word_it - 1)
    BY DEF LRInv, StackInv
  <2>2. Range(<<>>) = {}
    BY DEF Range
  <2>3. PICK none : none = <<>>
    OBVIOUS
  <2>4. Len(none) = 0
    BY <2>3
  <2>5. stack \in Seq(Node) /\ LeavesOn(stack) \in Seq(Nat)
    <3>1. Begin \in Node
      BY DEF Begin, Node, TokenNodes
    <3> QED BY <2>1, <3>1, PushNode DEF Sound
  <2>6. Len(LeavesOn(stack)) + Len(none) = word_it - 1
    BY <2>1, <2>3 DEF Sound
  <2>7. Len(LeavesOn(stack)) = word_it - 1
    <3>1. Len(LeavesOn(stack)) \in Nat
      BY <2>5
    <3> QED BY <2>4, <2>6, <3>1
  <2>8. \A x : x \in 1..(word_it - 1) <=> x \in Range(LeavesOn(stack))
    BY <2>1, <2>2 DEF Sound
  <2>9. Len(positions) = Cardinality(TokensOn(stack))
    BY <2>1 DEF Sound
  <2> QED BY <2>7, <2>8, <2>9
<1> QED
  BY <1>1, LRInvariant, PTL

=============================================================================
