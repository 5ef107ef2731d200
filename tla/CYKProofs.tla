----------------------------- MODULE CYKProofs -----------------------------
(***************************************************************************)
(* CYK::membership, for every grammar and every word: its loops fill the   *)
(* chart as CYKTable promises, its trees cover their spans, no tree is     *)
(* built twice, a failed parse returns a longest part, and known tokens    *)
(* are always answered.                                                    *)
(***************************************************************************)
EXTENDS CYK, SequenceFacts, FiniteSetTheorems

\* The chart with the proofs about it.
Table == INSTANCE CYKTableProofs WITH P <- CellSets, done <- TasksBehind

-----------------------------------------------------------------------------
(* Frames.                                                                  *)

\* A frame is a sequence of its own nodes.
IsFrame(f) == f \in Seq(Range(f))

\* Every sequence is a frame.
LEMMA FrameOf ==
  ASSUME NEW T, NEW f \in Seq(T)
  PROVE  IsFrame(f)
BY DEF IsFrame, Range

\* Copies: as many as there are alternatives.
LEMMA CopiesAre ==
  ASSUME NEW T, NEW node \in T, NEW alternatives, IsFiniteSet(alternatives)
  PROVE  /\ Copies(node, alternatives) \in Seq(T)
         /\ \A x : x \in Range(Copies(node, alternatives)) <=>
                     x = node /\ alternatives # {}
         /\ (\A a, b \in alternatives : a = b) => Distinct(Copies(node, alternatives))
<1> DEFINE n == Cardinality(alternatives)
<1>1. n \in Nat /\ (n = 0 <=> alternatives = {})
  BY FS_CardinalityType, FS_EmptySet
<1>2. Copies(node, alternatives) = [h \in 1..n |-> node]
  BY DEF Copies
<1>3. (\A a, b \in alternatives : a = b) => n \in {0, 1}
  <2>1. CASE alternatives = {}
    BY <1>1, <2>1
  <2>2. CASE alternatives # {}
    <3> SUFFICES ASSUME \A a, b \in alternatives : a = b PROVE n = 1
      OBVIOUS
    <3>1. PICK a : alternatives = {a}
      BY <2>2
    <3> QED
      BY <3>1, FS_Singleton
  <2> QED
    BY <2>1, <2>2
<1> HIDE DEF n
<1>4. Copies(node, alternatives) \in Seq(T)
  BY <1>1, <1>2
<1>5. \A x : x \in Range(Copies(node, alternatives)) <=> x = node /\ alternatives # {}
  <2>1. DOMAIN Copies(node, alternatives) = 1..n
    BY <1>2
  <2>2. \A h \in 1..n : Copies(node, alternatives)[h] = node
    BY <1>2
  <2>3. 1..n # {} <=> alternatives # {}
    BY <1>1
  <2> QED
    BY <2>1, <2>2, <2>3 DEF Range
<1>6. n \in {0, 1} => Distinct(Copies(node, alternatives))
  BY <1>2 DEF Distinct
<1> QED
  BY <1>3, <1>4, <1>5, <1>6

\* Copies of one node for every place of a list.
HoldsCopies(f, n, node, Alts) ==
  /\ IsFrame(f)
  /\ \A x : x \in Range(f) <=> \E m \in 1..n : x = node[m] /\ Alts[m] # {}
  /\ ((\A m \in 1..n : \A a, b \in Alts[m] : a = b)
        /\ (\A m, o \in 1..n : node[m] = node[o] => m = o))
       => Distinct(f)

\* The maps that the code walks in the order of their keys: for every key, a
\* node as often as one of its alternatives passes the test.
LEMMA CopiesInOrder ==
  ASSUME NEW T, NEW n \in Nat, NEW node, NEW Alts, NEW ss,
         node \in [1..n -> T], DOMAIN Alts = 1..n,
         DOMAIN ss = 1..n, ss = [m \in DOMAIN ss |-> ss[m]],
         \A m \in 1..n : ss[m] = Copies(node[m], Alts[m]) /\ IsFiniteSet(Alts[m])
  PROVE  HoldsCopies(FlattenSeq(ss), n, node, Alts)
<1>1. \A m \in 1..n :
        /\ ss[m] \in Seq(T)
        /\ \A x : x \in Range(ss[m]) <=> x = node[m] /\ Alts[m] # {}
        /\ (\A a, b \in Alts[m] : a = b) => Distinct(ss[m])
  BY CopiesAre
<1>2. ss \in Seq(Seq(T))
  BY <1>1
<1>3. IsFrame(FlattenSeq(ss))
  BY <1>2, FlattenType, FrameOf
<1>4. \A x : x \in Range(FlattenSeq(ss)) <=> \E m \in 1..n : x = node[m] /\ Alts[m] # {}
  <2>1. \A x : x \in Range(FlattenSeq(ss)) <=> \E m \in DOMAIN ss : x \in Range(ss[m])
    BY <1>2, FlattenRange
  <2> QED
    BY <1>1, <2>1
<1>5. ASSUME \A m \in 1..n : \A a, b \in Alts[m] : a = b,
             \A m, o \in 1..n : node[m] = node[o] => m = o
      PROVE  Distinct(FlattenSeq(ss))
  <2>1. \A m \in DOMAIN ss : Distinct(ss[m])
    BY <1>1, <1>5
  <2>2. \A m, o \in DOMAIN ss : \A x \in Range(ss[m]) : x \in Range(ss[o]) => m = o
    BY <1>1, <1>5
  <2> QED
    BY <1>2, <2>1, <2>2, FlattenDistinct
<1> QED
  BY <1>3, <1>4, <1>5 DEF HoldsCopies

-----------------------------------------------------------------------------
(* What the frames of a step hold.                                          *)

\* The parser's input is one of the calls.
CallOK ==
  /\ IsProductionRules(rules)
  /\ DOMAIN rules \cup DOMAIN unit \subseteq Range(KeyOrder)
  /\ word \in Seq(Terminal)

\* The two names of the same operators.
LEMMA SameNodes ==
  /\ \A x, y : Chart!TokenNode(x, y) = Table!TokenNode(x, y)
  /\ \A x, y : Chart!UnitNode(x, y) = Table!UnitNode(x, y)
  /\ \A x, y, z : Chart!BinNode(x, y, z) = Table!BinNode(x, y, z)
  /\ \A x, y : Chart!Produces(x, y) <=> Table!Produces(x, y)
  /\ \A x, y, z : Chart!Joins(x, y, z) <=> Table!Joins(x, y, z)
  /\ \A g, x : Alternatives(g, x) = Table!Alternatives(g, x)
BY DEF Chart!TokenNode, Table!TokenNode, Chart!UnitNode, Table!UnitNode,
   Chart!BinNode, Table!BinNode, Chart!Produces, Table!Produces, Chart!Joins,
   Table!Joins, Chart!TerminalOperand, Table!TerminalOperand, Alternatives,
   Table!Alternatives

\* The assumption of the chart about its inputs.
LEMMA TableInputs == \A x \in Inputs : x.word \in Seq(Terminal)
BY CallsAssumption

\* The places of a name's alternatives that pass a test.
LEMMA PlacesOfRules ==
  ASSUME CallOK, NEW name, NEW S, S \subseteq DOMAIN RulesAt(rules, name)
  PROVE  /\ IsFiniteSet(S)
         /\ S # {} => name \in DOMAIN rules
<1>1. RulesAt(rules, name) \in Seq(Rule)
  BY DEF CallOK, IsProductionRules, RulesAt
<1>2. DOMAIN RulesAt(rules, name) = 1..Len(RulesAt(rules, name)) /\ Len(RulesAt(rules, name)) \in Nat
  BY <1>1
<1>3. IsFiniteSet(S)
  <2>1. IsFiniteSet(1..Len(RulesAt(rules, name)))
    BY <1>2, FS_Interval
  <2> QED
    BY <1>2, <2>1, FS_Subset
<1>4. ASSUME name \notin DOMAIN rules PROVE S = {}
  <2>1. RulesAt(rules, name) = <<>>
    BY <1>4 DEF RulesAt
  <2> QED
    BY <2>1
<1> QED
  BY <1>3, <1>4

\* getterminal's test: it finds something exactly when an alternative of the
\* name is the token, and one place only when no alternative is repeated.
LEMMA ProducingRules ==
  ASSUME CallOK, NEW name, NEW tokentype
  PROVE  /\ IsFiniteSet(Producing(name, tokentype))
         /\ Producing(name, tokentype) # {} <=>
              name \in DOMAIN rules
              /\ \E rule \in Alternatives(rules, name) : Table!Produces(rule, tokentype)
         /\ Unrepeated(rules) => \A a, b \in Producing(name, tokentype) : a = b
<1> DEFINE S == Producing(name, tokentype)
<1>1. S \subseteq DOMAIN RulesAt(rules, name)
  BY DEF Producing
<1>2. IsFiniteSet(S) /\ (S # {} => name \in DOMAIN rules)
  <2> HIDE DEF S
  <2> QED
    BY <1>1, PlacesOfRules
<1>3. ASSUME name \in DOMAIN rules
      PROVE  S = {n \in DOMAIN rules[name] : Table!Produces(rules[name][n], tokentype)}
  BY <1>3, SameNodes DEF Producing, RulesAt
<1>4. S # {} <=> name \in DOMAIN rules
              /\ \E rule \in Alternatives(rules, name) : Table!Produces(rule, tokentype)
  <2> HIDE DEF S
  <2> QED
    BY <1>2, <1>3 DEF Alternatives
<1>5. ASSUME Unrepeated(rules), NEW a \in S, NEW b \in S PROVE a = b
  <2>1. name \in DOMAIN rules
    BY <1>2, <1>5
  <2>2. /\ a \in DOMAIN rules[name] /\ b \in DOMAIN rules[name]
        /\ Table!Produces(rules[name][a], tokentype)
        /\ Table!Produces(rules[name][b], tokentype)
    <3> HIDE DEF S
    <3> QED
      BY <1>3, <1>5, <2>1
  <2>3. rules[name][a] = rules[name][b]
    BY <2>2 DEF Table!Produces
  <2> QED
    BY <1>5, <2>1, <2>2, <2>3 DEF Unrepeated
<1> QED
  BY <1>2, <1>4, <1>5

\* getrulenames' test, in the same way.
LEMMA JoiningRules ==
  ASSUME CallOK, NEW name, NEW left, NEW right
  PROVE  /\ IsFiniteSet(Joining(name, left, right))
         /\ Joining(name, left, right) # {} <=>
              name \in DOMAIN rules
              /\ \E rule \in Alternatives(rules, name) : Table!Joins(rule, left, right)
         /\ Unrepeated(rules) => \A a, b \in Joining(name, left, right) : a = b
<1> DEFINE S == Joining(name, left, right)
<1>1. S \subseteq DOMAIN RulesAt(rules, name)
  BY DEF Joining
<1>2. IsFiniteSet(S) /\ (S # {} => name \in DOMAIN rules)
  <2> HIDE DEF S
  <2> QED
    BY <1>1, PlacesOfRules
<1>3. ASSUME name \in DOMAIN rules
      PROVE  S = {n \in DOMAIN rules[name] : Table!Joins(rules[name][n], left, right)}
  BY <1>3, SameNodes DEF Joining, RulesAt
<1>4. S # {} <=> name \in DOMAIN rules
              /\ \E rule \in Alternatives(rules, name) : Table!Joins(rule, left, right)
  <2> HIDE DEF S
  <2> QED
    BY <1>2, <1>3 DEF Alternatives
<1>5. ASSUME Unrepeated(rules), NEW a \in S, NEW b \in S PROVE a = b
  <2>1. name \in DOMAIN rules
    BY <1>2, <1>5
  <2>2. /\ a \in DOMAIN rules[name] /\ b \in DOMAIN rules[name]
        /\ Table!Joins(rules[name][a], left, right)
        /\ Table!Joins(rules[name][b], left, right)
    <3> HIDE DEF S
    <3> QED
      BY <1>3, <1>5, <2>1
  <2>3. /\ Len(rules[name][a]) > 1 /\ Len(rules[name][b]) > 1
        /\ rules[name][a][1].value = rules[name][b][1].value
        /\ rules[name][a][2].value = rules[name][b][2].value
    BY <2>2 DEF Table!Joins
  <2> QED
    BY <1>5, <2>1, <2>2, <2>3 DEF Unrepeated
<1> QED
  BY <1>2, <1>4, <1>5

\* The order of the keys as a list without doubles.
LEMMA KeysAre ==
  /\ Len(KeyOrder) \in Nat /\ DOMAIN KeyOrder = 1..Len(KeyOrder)
  /\ \A m \in DOMAIN KeyOrder : KeyOrder[m] \in Name
  /\ \A m, n \in DOMAIN KeyOrder : KeyOrder[m] = KeyOrder[n] => m = n
BY KeyOrderAssumption DEF IsInjective

\* getterminal finds the token nodes of the chart, each one once.
LEMMA TerminalFrame ==
  ASSUME CallOK, NEW place
  PROVE  /\ IsFrame(GetTerminal(place))
         /\ Range(GetTerminal(place)) = Table!TokenNodes(place)
         /\ Unrepeated(rules) => Distinct(GetTerminal(place))
<1> DEFINE n == Len(KeyOrder)
           node == [m \in 1..n |-> Table!TokenNode(KeyOrder[m], place)]
           Alts == [m \in 1..n |-> Producing(KeyOrder[m], word[place + 1])]
           T == {node[m] : m \in 1..n}
           ss == [m \in 1..n |-> Copies(node[m], Alts[m])]
           f == FlattenSeq(ss)
<1>1. f = GetTerminal(place)
  BY KeysAre, SameNodes DEF GetTerminal
<1>2. n \in Nat /\ node \in [1..n -> T]
  BY KeysAre
<1>3. \A m \in 1..n : IsFiniteSet(Alts[m])
  BY ProducingRules
<1>4. \A m, o \in 1..n : node[m] = node[o] => m = o
  BY KeysAre DEF Table!TokenNode
<1>5. Unrepeated(rules) => \A m \in 1..n : \A a, b \in Alts[m] : a = b
  BY ProducingRules
<1>6. \A x : (\E m \in 1..n : x = node[m] /\ Alts[m] # {}) <=> x \in Table!TokenNodes(place)
  <2>1. ASSUME NEW m \in 1..n, Alts[m] # {} PROVE node[m] \in Table!TokenNodes(place)
    <3>1. /\ KeyOrder[m] \in DOMAIN rules
          /\ \E rule \in Alternatives(rules, KeyOrder[m]) : Table!Produces(rule, word[place + 1])
      BY <2>1, ProducingRules
    <3> QED
      BY <3>1, SameNodes DEF Table!TokenNodes
  <2>2. ASSUME NEW x \in Table!TokenNodes(place)
        PROVE  \E m \in 1..n : x = node[m] /\ Alts[m] # {}
    <3>1. PICK name \in DOMAIN rules :
            /\ x = Table!TokenNode(name, place)
            /\ \E rule \in Alternatives(rules, name) : Table!Produces(rule, word[place + 1])
      BY SameNodes DEF Table!TokenNodes
    <3>2. PICK m \in 1..n : KeyOrder[m] = name
      BY KeysAre DEF CallOK, Range
    <3>3. Producing(KeyOrder[m], word[place + 1]) # {}
      BY <3>1, <3>2, ProducingRules
    <3> QED
      BY <3>1, <3>2, <3>3
  <2> QED
    BY <2>1, <2>2
<1>9. /\ DOMAIN Alts = 1..n
      /\ DOMAIN ss = 1..n /\ ss = [m \in DOMAIN ss |-> ss[m]]
      /\ \A m \in 1..n : ss[m] = Copies(node[m], Alts[m]) /\ IsFiniteSet(Alts[m])
  BY <1>3
<1> HIDE DEF node, Alts, T, n, ss
<1>7. HoldsCopies(f, n, node, Alts)
  BY <1>2, <1>9, CopiesInOrder
<1> HIDE DEF f
<1>8. Range(f) = Table!TokenNodes(place)
  BY <1>6, <1>7 DEF HoldsCopies, Range
<1> QED
  BY <1>1, <1>4, <1>5, <1>7, <1>8 DEF HoldsCopies

\* getrulenames finds the nodes that join two, each one once.
LEMMA RuleNamesFrame ==
  ASSUME CallOK, NEW left, NEW right
  PROVE  /\ IsFrame(GetRuleNames(left, right))
         /\ Range(GetRuleNames(left, right)) = Table!BinNodes({left}, {right})
         /\ Unrepeated(rules) => Distinct(GetRuleNames(left, right))
<1> DEFINE n == Len(KeyOrder)
           node == [m \in 1..n |-> Table!BinNode(KeyOrder[m], left, right)]
           Alts == [m \in 1..n |-> Joining(KeyOrder[m], left, right)]
           T == {node[m] : m \in 1..n}
           ss == [m \in 1..n |-> Copies(node[m], Alts[m])]
           f == FlattenSeq(ss)
<1>1. f = GetRuleNames(left, right)
  BY KeysAre, SameNodes DEF GetRuleNames
<1>2. n \in Nat /\ node \in [1..n -> T]
  BY KeysAre
<1>3. \A m \in 1..n : IsFiniteSet(Alts[m])
  BY JoiningRules
<1>4. \A m, o \in 1..n : node[m] = node[o] => m = o
  BY KeysAre DEF Table!BinNode
<1>5. Unrepeated(rules) => \A m \in 1..n : \A a, b \in Alts[m] : a = b
  BY JoiningRules
<1>6. \A x : (\E m \in 1..n : x = node[m] /\ Alts[m] # {}) <=> x \in Table!BinNodes({left}, {right})
  <2>1. ASSUME NEW m \in 1..n, Alts[m] # {} PROVE node[m] \in Table!BinNodes({left}, {right})
    <3>1. /\ KeyOrder[m] \in DOMAIN rules
          /\ \E rule \in Table!Alternatives(rules, KeyOrder[m]) : Table!Joins(rule, left, right)
      BY <2>1, JoiningRules, SameNodes
    <3> QED
      BY <3>1, Table!BinNodesNodes, NamesAssumption, TableInputs
  <2>2. ASSUME NEW x \in Table!BinNodes({left}, {right})
        PROVE  \E m \in 1..n : x = node[m] /\ Alts[m] # {}
    <3>1. PICK name \in DOMAIN rules :
            /\ x = Table!BinNode(name, left, right)
            /\ \E rule \in Alternatives(rules, name) : Table!Joins(rule, left, right)
      BY SameNodes, Table!BinNodesNodes, NamesAssumption, TableInputs
    <3>2. PICK m \in 1..n : KeyOrder[m] = name
      BY KeysAre DEF CallOK, Range
    <3>3. Joining(KeyOrder[m], left, right) # {}
      BY <3>1, <3>2, JoiningRules
    <3> QED
      BY <3>1, <3>2, <3>3
  <2> QED
    BY <2>1, <2>2
<1>9. /\ DOMAIN Alts = 1..n
      /\ DOMAIN ss = 1..n /\ ss = [m \in DOMAIN ss |-> ss[m]]
      /\ \A m \in 1..n : ss[m] = Copies(node[m], Alts[m]) /\ IsFiniteSet(Alts[m])
  BY <1>3
<1> HIDE DEF node, Alts, T, n, ss
<1>7. HoldsCopies(f, n, node, Alts)
  BY <1>2, <1>9, CopiesInOrder
<1> HIDE DEF f
<1>8. Range(f) = Table!BinNodes({left}, {right})
  BY <1>6, <1>7 DEF HoldsCopies, Range
<1> QED
  BY <1>1, <1>4, <1>5, <1>7, <1>8 DEF HoldsCopies

\* The nodes over two nodes, and over one and any of some others.
Over(a, b) == Table!BinNodes({a}, {b})

\* The nodes over one node and any node of a set.
OverAny(a, B) == Table!BinNodes({a}, B)

\* The nodes over two sets are those over the pairs.
LEMMA BinNodesOfPairs ==
  ASSUME NEW A, NEW B
  PROVE  \A x : x \in Table!BinNodes(A, B) <=> \E a \in A, b \in B : x \in Over(a, b)
<1>1. ASSUME NEW x \in Table!BinNodes(A, B)
      PROVE  \E a \in A, b \in B : x \in Over(a, b)
  <2>1. PICK name \in DOMAIN rules, a \in A, b \in B :
          /\ x = Table!BinNode(name, a, b)
          /\ \E rule \in Table!Alternatives(rules, name) : Table!Joins(rule, a, b)
    BY <1>1, Table!BinNodesNodes, NamesAssumption, TableInputs
  <2>2. x \in Table!BinNodes({a}, {b})
    BY <2>1, Table!BinNodesNodes, NamesAssumption, TableInputs
  <2> QED
    BY <2>2 DEF Over
<1>2. ASSUME NEW a \in A, NEW b \in B, NEW x \in Over(a, b)
      PROVE  x \in Table!BinNodes(A, B)
  <2>1. PICK name \in DOMAIN rules :
          /\ x = Table!BinNode(name, a, b)
          /\ \E rule \in Table!Alternatives(rules, name) : Table!Joins(rule, a, b)
    BY <1>2, Table!BinNodesNodes, NamesAssumption, TableInputs DEF Over
  <2> QED
    BY <2>1, Table!BinNodesNodes, NamesAssumption, TableInputs
<1> QED
  BY <1>1, <1>2

\* They are the nodes over its pairs with the others.
LEMMA OverAnyOfPairs ==
  ASSUME NEW a, NEW B
  PROVE  \A x : x \in OverAny(a, B) <=> \E b \in B : x \in Over(a, b)
<1>1. \A x : x \in Table!BinNodes({a}, B) <=> \E c \in {a}, b \in B : x \in Over(c, b)
  BY BinNodesOfPairs
<1> QED
  BY <1>1 DEF OverAny

\* The product is walked row by row.
LEMMA BinNodesOfRows ==
  ASSUME NEW A, NEW B
  PROVE  \A x : x \in Table!BinNodes(A, B) <=> \E a \in A : x \in OverAny(a, B)
BY BinNodesOfPairs, OverAnyOfPairs

\* Such a node shows the two it joins.
LEMMA BinNodeParts ==
  ASSUME NEW a, NEW b, NEW x \in Over(a, b)
  PROVE  x.kind = "bin" /\ x.parts = <<a, b>>
<1>1. PICK name \in DOMAIN rules : x = Table!BinNode(name, a, b)
  BY Table!BinNodesNodes, NamesAssumption, TableInputs DEF Over
<1> QED
  BY <1>1 DEF Table!BinNode

\* getbinproductions over the pairs of a node and the nodes of a frame.
LEMMA RowFrame ==
  ASSUME CallOK, NEW a, NEW B, IsFrame(B)
  PROVE  LET row == FlattenSeq([o \in DOMAIN B |-> GetRuleNames(a, B[o])])
         IN  /\ IsFrame(row)
             /\ Range(row) = OverAny(a, Range(B))
             /\ Unrepeated(rules) /\ Distinct(B) => Distinct(row)
<1> DEFINE ss == [o \in DOMAIN B |-> GetRuleNames(a, B[o])]
           T  == OverAny(a, Range(B))
<1>1. \A o \in DOMAIN B :
        /\ IsFrame(GetRuleNames(a, B[o]))
        /\ Range(GetRuleNames(a, B[o])) = Over(a, B[o])
        /\ Unrepeated(rules) => Distinct(GetRuleNames(a, B[o]))
  BY RuleNamesFrame DEF Over
<1>2. \A x : x \in T <=> \E o \in DOMAIN B : x \in Over(a, B[o])
  <2>1. \A b : b \in Range(B) <=> \E o \in DOMAIN B : b = B[o]
    BY DEF Range
  <2> QED
    BY <2>1, OverAnyOfPairs
<1>3. B \in Seq(Range(B))
  BY DEF IsFrame
<1> HIDE DEF T
<1>4. \A o \in DOMAIN B : GetRuleNames(a, B[o]) \in Seq(T)
  <2> SUFFICES ASSUME NEW o \in DOMAIN B PROVE GetRuleNames(a, B[o]) \in Seq(T)
    OBVIOUS
  <2>1. Range(GetRuleNames(a, B[o])) \subseteq T
    BY <1>1, <1>2
  <2>2. GetRuleNames(a, B[o]) \in Seq(Range(GetRuleNames(a, B[o])))
    BY <1>1 DEF IsFrame
  <2> QED
    BY <2>1, <2>2, SeqWider
<1>5. ss \in Seq(Seq(T)) /\ DOMAIN ss = DOMAIN B
  BY <1>3, <1>4
<1>6. \A o \in DOMAIN B : ss[o] = GetRuleNames(a, B[o])
  OBVIOUS
<1> HIDE DEF ss
<1>7. FlattenSeq(ss) \in Seq(T)
  BY <1>5, FlattenType
<1>8. \A x : x \in Range(FlattenSeq(ss)) <=> \E o \in DOMAIN ss : x \in Range(ss[o])
  BY <1>5, FlattenRange
<1>9. \A x : x \in Range(FlattenSeq(ss)) <=> x \in T
  BY <1>1, <1>2, <1>5, <1>6, <1>8
<1>10. Range(FlattenSeq(ss)) = T
  BY <1>9 DEF Range
<1>11. ASSUME Unrepeated(rules), Distinct(B) PROVE Distinct(FlattenSeq(ss))
  <2>1. \A o \in DOMAIN ss : Distinct(ss[o])
    BY <1>1, <1>5, <1>6, <1>11
  <2>2. ASSUME NEW m \in DOMAIN ss, NEW o \in DOMAIN ss, NEW x \in Range(ss[m]),
               x \in Range(ss[o])
        PROVE  m = o
    <3>1. x \in Over(a, B[m]) /\ x \in Over(a, B[o])
      BY <1>1, <1>5, <1>6, <2>2
    <3>2. x.parts = <<a, B[m]>> /\ x.parts = <<a, B[o]>>
      BY <3>1, BinNodeParts
    <3>3. B[m] = B[o]
      BY <3>2
    <3> QED
      BY <1>5, <1>11, <3>3 DEF Distinct
  <2> QED
    BY <1>5, <2>1, <2>2, FlattenDistinct
<1> QED
  BY <1>7, <1>10, <1>11, FrameOf DEF ss, T

\* getbinproductions finds the nodes that join two cells, each one once.
LEMMA BinsFrame ==
  ASSUME CallOK, NEW A, NEW B, IsFrame(A), IsFrame(B)
  PROVE  /\ IsFrame(GetBinProductions(A, B))
         /\ Range(GetBinProductions(A, B)) = Table!BinNodes(Range(A), Range(B))
         /\ Unrepeated(rules) /\ Distinct(A) /\ Distinct(B) => Distinct(GetBinProductions(A, B))
<1> DEFINE Row(m) == FlattenSeq([o \in DOMAIN B |-> GetRuleNames(A[m], B[o])])
           ss == [m \in DOMAIN A |-> Row(m)]
           T  == Table!BinNodes(Range(A), Range(B))
<1>1. \A m \in DOMAIN A :
        /\ IsFrame(Row(m))
        /\ Range(Row(m)) = OverAny(A[m], Range(B))
        /\ Unrepeated(rules) /\ Distinct(B) => Distinct(Row(m))
  BY RowFrame
<1>2. \A x : x \in T <=> \E m \in DOMAIN A : x \in OverAny(A[m], Range(B))
  <2>1. \A a : a \in Range(A) <=> \E m \in DOMAIN A : a = A[m]
    BY DEF Range
  <2>2. \A x : x \in T <=> \E a \in Range(A) : x \in OverAny(a, Range(B))
    BY BinNodesOfRows
  <2> QED
    BY <2>1, <2>2
<1>3. A \in Seq(Range(A))
  BY DEF IsFrame
<1>6. GetBinProductions(A, B) = FlattenSeq(ss)
  BY DEF GetBinProductions
<1> HIDE DEF T, Row
<1>4. \A m \in DOMAIN A : Row(m) \in Seq(T)
  <2> SUFFICES ASSUME NEW m \in DOMAIN A PROVE Row(m) \in Seq(T)
    OBVIOUS
  <2>1. Range(Row(m)) \subseteq T
    BY <1>1, <1>2
  <2>2. Row(m) \in Seq(Range(Row(m)))
    BY <1>1 DEF IsFrame
  <2> QED
    BY <2>1, <2>2, SeqWider
<1>5. ss \in Seq(Seq(T)) /\ DOMAIN ss = DOMAIN A /\ \A m \in DOMAIN A : ss[m] = Row(m)
  BY <1>3, <1>4
<1> HIDE DEF ss
<1>7. FlattenSeq(ss) \in Seq(T)
  BY <1>5, FlattenType
<1>8. \A x : x \in Range(FlattenSeq(ss)) <=> \E m \in DOMAIN ss : x \in Range(ss[m])
  BY <1>5, FlattenRange
<1>9. \A x : x \in Range(FlattenSeq(ss)) <=> x \in T
  BY <1>1, <1>2, <1>5, <1>8
<1>10. Range(FlattenSeq(ss)) = T
  BY <1>9 DEF Range
<1>11. ASSUME Unrepeated(rules), Distinct(A), Distinct(B) PROVE Distinct(FlattenSeq(ss))
  <2>1. \A m \in DOMAIN ss : Distinct(ss[m])
    BY <1>1, <1>5, <1>11
  <2>2. ASSUME NEW m \in DOMAIN ss, NEW o \in DOMAIN ss, NEW x \in Range(ss[m]),
               x \in Range(ss[o])
        PROVE  m = o
    <3>1. x \in OverAny(A[m], Range(B)) /\ x \in OverAny(A[o], Range(B))
      BY <1>1, <1>5, <2>2
    <3>2. PICK b, c : x \in Over(A[m], b) /\ x \in Over(A[o], c)
      BY <3>1, OverAnyOfPairs
    <3>3. x.parts = <<A[m], b>> /\ x.parts = <<A[o], c>>
      BY <3>2, BinNodeParts
    <3>4. A[m] = A[o]
      BY <3>3
    <3> QED
      BY <1>5, <1>11, <3>4 DEF Distinct
  <2> QED
    BY <1>5, <2>1, <2>2, FlattenDistinct
<1> QED
  BY <1>6, <1>7, <1>10, <1>11, FrameOf DEF T

-----------------------------------------------------------------------------
(* The unit relation over a frame.                                          *)

\* The unit nodes over a node.
UnitsOver(node) == {Table!UnitNode(name, node) : name \in {m \in DOMAIN unit : node.nodetype \in unit[m]}}

\* A unit node shows the node it stands on.
LEMMA UnitsOverNode ==
  ASSUME NEW node, NEW x \in UnitsOver(node)
  PROVE  x.kind = "unit" /\ x.parts = <<node>>
BY DEF UnitsOver, Table!UnitNode

\* The keys of the unit relation over one node: each gives one node.
LEMMA UnitListFrame ==
  ASSUME CallOK, NEW node
  PROVE  LET list == Pick([n \in DOMAIN KeyOrder |-> Chart!UnitNode(KeyOrder[n], node)],
                          Above(node))
         IN  /\ IsFrame(list)
             /\ Range(list) = UnitsOver(node)
             /\ Distinct(list)
<1> DEFINE n == Len(KeyOrder)
           s == [m \in DOMAIN KeyOrder |-> Chart!UnitNode(KeyOrder[m], node)]
           T == {s[m] : m \in 1..n}
<1>1. n \in Nat /\ DOMAIN KeyOrder = 1..n
  BY KeysAre
<1>2. s \in Seq(T) /\ DOMAIN s = 1..n
  BY <1>1
<1>3. \A m \in 1..n : s[m] = Table!UnitNode(KeyOrder[m], node)
  BY <1>1, SameNodes
<1>4. \A m, o \in 1..n : s[m] = s[o] => m = o
  BY <1>1, <1>3, KeysAre DEF Table!UnitNode
<1>5. Distinct(s)
  BY <1>2, <1>4 DEF Distinct
<1> HIDE DEF s, T, n
<1>6. Pick(s, Above(node)) \in Seq(T)
  BY <1>2, PickType
<1>7. Distinct(Pick(s, Above(node)))
  BY <1>2, <1>5, PickDistinct
<1>8. \A x : x \in Range(Pick(s, Above(node))) <=>
               \E p \in DOMAIN s : p \in Above(node) /\ x = s[p]
  BY <1>2, PickRange
<1>9. \A p : p \in Above(node) <=>
               p \in 1..n /\ KeyOrder[p] \in DOMAIN unit /\ node.nodetype \in unit[KeyOrder[p]]
  BY <1>1 DEF Above
<1>10. \A name \in DOMAIN unit : \E p \in 1..n : KeyOrder[p] = name
  BY <1>1 DEF CallOK, Range
<1>11. \A x : x \in Range(Pick(s, Above(node))) <=> x \in UnitsOver(node)
  <2> SUFFICES ASSUME NEW x
               PROVE  x \in Range(Pick(s, Above(node))) <=> x \in UnitsOver(node)
    OBVIOUS
  <2>1. ASSUME NEW p \in 1..n, p \in Above(node), x = s[p] PROVE x \in UnitsOver(node)
    BY <1>3, <1>9, <2>1 DEF UnitsOver
  <2>2. ASSUME x \in UnitsOver(node) PROVE \E p \in 1..n : p \in Above(node) /\ x = s[p]
    <3>1. PICK name \in DOMAIN unit :
            node.nodetype \in unit[name] /\ x = Table!UnitNode(name, node)
      BY <2>2 DEF UnitsOver
    <3>2. PICK p \in 1..n : KeyOrder[p] = name
      BY <1>10
    <3> QED
      BY <1>3, <1>9, <3>1, <3>2
  <2> QED
    BY <1>2, <1>8, <2>1, <2>2
<1>12. Range(Pick(s, Above(node))) = UnitsOver(node)
  BY <1>11 DEF Range
<1> QED
  BY <1>6, <1>7, <1>12, FrameOf DEF s

\* invUnitRelation finds the unit nodes over a frame, each one once.
LEMMA InvUnitFrame ==
  ASSUME CallOK, NEW nodes, IsFrame(nodes)
  PROVE  /\ IsFrame(InvUnitRelation(nodes))
         /\ \A x : x \in Range(InvUnitRelation(nodes)) <=>
                     \E node \in Range(nodes) : x \in UnitsOver(node)
         /\ Distinct(nodes) => Distinct(InvUnitRelation(nodes))
<1> DEFINE List(node) == Pick([n \in DOMAIN KeyOrder |-> Chart!UnitNode(KeyOrder[n], node)],
                              Above(node))
           ss == [m \in DOMAIN nodes |-> List(nodes[m])]
           T  == UNION {UnitsOver(node) : node \in Range(nodes)}
<1>1. \A node : IsFrame(List(node)) /\ Range(List(node)) = UnitsOver(node) /\ Distinct(List(node))
  BY UnitListFrame
<1>2. nodes \in Seq(Range(nodes))
  BY DEF IsFrame
<1>3. \A m \in DOMAIN nodes : nodes[m] \in Range(nodes)
  BY DEF Range
<1>4. \A x : x \in T <=> \E m \in DOMAIN nodes : x \in UnitsOver(nodes[m])
  BY DEF Range
<1>5. InvUnitRelation(nodes) = FlattenSeq(ss)
  BY DEF InvUnitRelation
<1> HIDE DEF List
<1>6. DOMAIN ss = DOMAIN nodes /\ \A m \in DOMAIN nodes : ss[m] = List(nodes[m])
  OBVIOUS
<1>14. \A x : x \in T <=> \E node \in Range(nodes) : x \in UnitsOver(node)
  OBVIOUS
<1> HIDE DEF T
<1>7. \A m \in DOMAIN nodes : List(nodes[m]) \in Seq(T)
  <2> SUFFICES ASSUME NEW m \in DOMAIN nodes PROVE List(nodes[m]) \in Seq(T)
    OBVIOUS
  <2>1. Range(List(nodes[m])) \subseteq T
    BY <1>1, <1>4
  <2>2. List(nodes[m]) \in Seq(Range(List(nodes[m])))
    BY <1>1 DEF IsFrame
  <2> QED
    BY <2>1, <2>2, SeqWider
<1>8. ss \in Seq(Seq(T))
  BY <1>2, <1>7
<1> HIDE DEF ss
<1>9. FlattenSeq(ss) \in Seq(T)
  BY <1>8, FlattenType
<1>10. \A x : x \in Range(FlattenSeq(ss)) <=> \E m \in DOMAIN ss : x \in Range(ss[m])
  BY <1>8, FlattenRange
<1>11. \A x : x \in Range(FlattenSeq(ss)) <=> x \in T
  BY <1>1, <1>4, <1>6, <1>10
<1>12. ASSUME Distinct(nodes) PROVE Distinct(FlattenSeq(ss))
  <2>1. \A m \in DOMAIN ss : Distinct(ss[m])
    BY <1>1, <1>6
  <2>2. ASSUME NEW m \in DOMAIN ss, NEW o \in DOMAIN ss, NEW x \in Range(ss[m]),
               x \in Range(ss[o])
        PROVE  m = o
    <3>1. x \in UnitsOver(nodes[m]) /\ x \in UnitsOver(nodes[o])
      BY <1>1, <1>6, <2>2
    <3>2. x.parts = <<nodes[m]>> /\ x.parts = <<nodes[o]>>
      BY <3>1, UnitsOverNode
    <3>3. nodes[m] = nodes[o]
      BY <3>2
    <3> QED
      BY <1>6, <1>12, <3>3 DEF Distinct
  <2> QED
    BY <1>8, <2>1, <2>2, FlattenDistinct
<1> QED
  BY <1>5, <1>9, <1>11, <1>12, <1>14, FrameOf

\* The two steps that fill a cell: what was made, and the unit nodes over it.
LEMMA WithUnitsFrame ==
  ASSUME CallOK, NEW nodes, IsFrame(nodes)
  PROVE  /\ IsFrame(WithUnits(nodes))
         /\ Range(WithUnits(nodes)) = Table!WithUnits(Range(nodes))
         /\ (Distinct(nodes) /\ \A node \in Range(nodes) : node.kind # "unit")
              => Distinct(WithUnits(nodes))
<1> DEFINE units == InvUnitRelation(nodes)
           T == Range(nodes) \cup Range(units)
<1>1. /\ IsFrame(units)
      /\ \A x : x \in Range(units) <=> \E node \in Range(nodes) : x \in UnitsOver(node)
      /\ Distinct(nodes) => Distinct(units)
  BY InvUnitFrame
<1>2. WithUnits(nodes) = nodes \o units
  BY DEF WithUnits
<1> HIDE DEF units
<1>3. nodes \in Seq(T) /\ units \in Seq(T)
  <2>1. nodes \in Seq(Range(nodes)) /\ units \in Seq(Range(units))
    BY <1>1 DEF IsFrame
  <2>2. Range(nodes) \subseteq T /\ Range(units) \subseteq T
    OBVIOUS
  <2> HIDE DEF T
  <2> QED
    BY <2>1, <2>2, SeqWider
<1> HIDE DEF T
<1>4. nodes \o units \in Seq(T)
  BY <1>3
<1>5. \A x : x \in Range(nodes \o units) <=> x \in Range(nodes) \/ x \in Range(units)
  BY <1>3, RangeOfConcat
<1>6. \A x : x \in Table!WithUnits(Range(nodes)) <=>
               x \in Range(nodes) \/ \E node \in Range(nodes) : x \in UnitsOver(node)
  <2>1. ASSUME NEW x \in Table!WithUnits(Range(nodes)), x \notin Range(nodes)
        PROVE  \E node \in Range(nodes) : x \in UnitsOver(node)
    <3>1. PICK name \in DOMAIN unit, base \in Range(nodes) :
            x = Table!UnitNode(name, base) /\ base.nodetype \in unit[name]
      BY <2>1, Table!WithUnitsNodes, NamesAssumption, TableInputs
    <3> QED
      BY <3>1 DEF UnitsOver
  <2>2. ASSUME NEW node \in Range(nodes), NEW x \in UnitsOver(node)
        PROVE  x \in Table!WithUnits(Range(nodes))
    <3>1. PICK name \in DOMAIN unit :
            x = Table!UnitNode(name, node) /\ node.nodetype \in unit[name]
      BY DEF UnitsOver
    <3> QED
      BY <3>1, Table!WithUnitsNodes, NamesAssumption, TableInputs
  <2>3. Range(nodes) \subseteq Table!WithUnits(Range(nodes))
    BY Table!WithUnitsNodes, NamesAssumption, TableInputs
  <2> QED
    BY <2>1, <2>2, <2>3
<1>7. \A x : x \in Range(nodes \o units) <=> x \in Table!WithUnits(Range(nodes))
  BY <1>1, <1>5, <1>6
<1>8. Range(nodes \o units) = Table!WithUnits(Range(nodes))
  <2>1. \A S, R : (\A x : x \in S <=> x \in R) => S = R
    OBVIOUS
  <2> QED
    BY <1>7, <2>1
<1>9. ASSUME Distinct(nodes), \A node \in Range(nodes) : node.kind # "unit"
      PROVE  Distinct(nodes \o units)
  <2>1. \A x \in Range(nodes) : x \notin Range(units)
    BY <1>1, <1>9, UnitsOverNode
  <2> QED
    BY <1>1, <1>3, <1>9, <2>1, DistinctConcat
<1> QED
  BY <1>2, <1>4, <1>8, <1>9, FrameOf

-----------------------------------------------------------------------------
(* The loops.                                                               *)

\* The matrix is square and holds frames.
FramesOK ==
  /\ DOMAIN P = 0..(Size - 1)
  /\ \A x \in 0..(Size - 1) :
       /\ DOMAIN P[x] = 0..(Size - 1)
       /\ \A y \in 0..(Size - 1) : IsFrame(P[x][y])

\* The counters stay inside the triangle.
LoopsOK ==
  /\ pc \in {"terminals", "table", "result", "done"}
  /\ l \in Nat /\ i \in Nat /\ k \in Nat
  /\ l <= Size /\ i <= Size /\ k <= Size
  /\ pc = "terminals" => l = 0 /\ k = 0 /\ i < Size
  /\ pc = "table" => l >= 1 /\ i + l < Size /\ k < l

\* Outside the triangle nothing is written, and neither is a cell before the
\* loops come to it.
Unwritten(x, y) ==
  \/ x + y >= Size
  \/ /\ pc \in {"terminals", "table"}
     /\ l < x \/ (x = l /\ i < y) \/ (x = l /\ y = i /\ k = 0)

\* What was not written is empty.
UnwrittenEmpty ==
  \A x, y \in 0..(Size - 1) : Unwritten(x, y) => P[x][y] = <<>>

\* What the loops keep, apart from the contents of the cells.
LoopInv == CallOK /\ FramesOK /\ LoopsOK /\ UnwrittenEmpty

\* The frame that every cell starts with.
LEMMA EmptyFrame == IsFrame(<<>>) /\ Range(<<>>) = {} /\ Distinct(<<>>)
BY DEF IsFrame, Range, Distinct

\* The length of the word.
LEMMA SizeNat == ASSUME CallOK PROVE Size \in Nat
BY DEF CallOK, Size

\* A call before its first step, and the parser of a session before its first call.
Fresh ==
  /\ CallOK
  /\ P = [x \in 0..(Size - 1) |-> [y \in 0..(Size - 1) |-> <<>>]]
  /\ l = 0 /\ i = 0 /\ k = 0
  /\ \/ pc = "terminals" /\ word # <<>>
     \/ pc \in {"result", "done"} /\ word = <<>>
  /\ frame = <<>>
  /\ outcome = "none"

LEMMA InitFresh == Init => Fresh
<1> SUFFICES ASSUME Init PROVE Fresh
  OBVIOUS
<1>1. CallOK
  BY CallsAssumption DEF Init, CallOK
<1> QED
  BY <1>1 DEF Init, Fresh

\* The loops start right.
LEMMA FreshLoop == Fresh => LoopInv
<1> SUFFICES ASSUME Fresh PROVE LoopInv
  OBVIOUS
<1>1. CallOK
  BY DEF Fresh
<1>2. Size \in Nat /\ (Size = 0 <=> word = <<>>)
  BY <1>1 DEF CallOK, Size
<1>3. FramesOK
  BY EmptyFrame DEF Fresh, FramesOK
<1>4. LoopsOK
  BY <1>2 DEF Fresh, LoopsOK
<1>5. UnwrittenEmpty
  BY DEF Fresh, UnwrittenEmpty
<1> QED
  BY <1>1, <1>3, <1>4, <1>5 DEF LoopInv

\* A step that writes one frame.
Writes(x, y, f) == P' = [P EXCEPT ![x][y] = f]

\* The matrix when one cell is written.
LEMMA OneFrameChanges ==
  ASSUME FramesOK, NEW x \in 0..(Size - 1), NEW y \in 0..(Size - 1), NEW f, IsFrame(f),
         Writes(x, y, f), word' = word
  PROVE  /\ FramesOK'
         /\ P'[x][y] = f
         /\ \A a, b \in 0..(Size - 1) : (a # x \/ b # y) => P'[a][b] = P[a][b]
<1>1. Size' = Size
  BY DEF Size
<1>2. DOMAIN P' = 0..(Size - 1)
  BY DEF FramesOK, Writes
<1>3. /\ P'[x] = [P[x] EXCEPT ![y] = f]
      /\ \A a \in 0..(Size - 1) : a # x => P'[a] = P[a]
  BY DEF FramesOK, Writes
<1>4. \A a \in 0..(Size - 1) : DOMAIN P'[a] = 0..(Size - 1)
  BY <1>3 DEF FramesOK
<1>5. /\ P'[x][y] = f
      /\ \A a, b \in 0..(Size - 1) : (a # x \/ b # y) => P'[a][b] = P[a][b]
  BY <1>3 DEF FramesOK
<1>6. \A a, b \in 0..(Size - 1) : IsFrame(P'[a][b])
  BY <1>5 DEF FramesOK
<1>7. FramesOK'
  BY <1>1, <1>2, <1>4, <1>6 DEF FramesOK, IsFrame
<1> QED
  BY <1>5, <1>7

\* So changes one cell of the chart.
LEMMA OneCellSetChanges ==
  ASSUME CallOK, FramesOK, NEW x \in 0..(Size - 1), NEW y \in 0..(Size - 1),
         <<x, y>> \in Cells, NEW f, IsFrame(f),
         Writes(x, y, f), word' = word
  PROVE  CellSets' = [CellSets EXCEPT ![<<x, y>>] = Range(f)]
<1>1. Cells' = Cells /\ Size \in Nat
  BY SizeNat DEF Cells, Size
<1>2. /\ P'[x][y] = f
      /\ \A a, b \in 0..(Size - 1) : (a # x \/ b # y) => P'[a][b] = P[a][b]
  BY OneFrameChanges
<1>3. \A c \in Cells : /\ c = <<c[1], c[2]>>
                       /\ c[1] \in 0..(Size - 1) /\ c[2] \in 0..(Size - 1)
  BY <1>1 DEF Cells
<1>4. CellSets' = [c \in Cells |-> Range(P'[c[1]][c[2]])]
  BY <1>1 DEF CellSets, Range
<1>5. DOMAIN CellSets = Cells /\ \A c \in Cells : CellSets[c] = Range(P[c[1]][c[2]])
  BY DEF CellSets
<1>6. ASSUME NEW c \in Cells
      PROVE  Range(P'[c[1]][c[2]]) = IF c = <<x, y>> THEN Range(f) ELSE CellSets[c]
  <2>1. CASE c = <<x, y>>
    BY <1>2, <2>1
  <2>2. CASE c # <<x, y>>
    <3>1. c[1] # x \/ c[2] # y
      BY <1>3, <2>2
    <3>2. P'[c[1]][c[2]] = P[c[1]][c[2]]
      BY <1>2, <1>3, <3>1
    <3> QED
      BY <1>5, <2>2, <3>2
  <2> QED
    BY <2>1, <2>2
<1> QED
  BY <1>4, <1>5, <1>6

-----------------------------------------------------------------------------
(* The tasks behind the loops.                                              *)

\* The chart has a task for cell <<x, y>> at z.
IsTask(x, y, z) == x + y < Size /\ (z < x \/ (x = 0 /\ z = 0))

\* The chart counts its cells and tasks as the loops do.
LEMMA SameSets ==
  /\ Table!Size = Size
  /\ Table!Cells = Cells
  /\ \A x, y, z : <<x, y, z>> \in Table!ShiftTasks <=>
       x \in 0..Size /\ y \in 0..Size /\ z \in 0..Size /\ x = 0 /\ y < Size /\ z = 0
  /\ \A x, y, z : <<x, y, z>> \in Table!CombineTasks <=>
       x \in 0..Size /\ y \in 0..Size /\ z \in 0..Size /\ z < x /\ x + y < Size
<1>1. Table!Size = Size
  BY DEF Table!Size, Size
<1> QED
  BY <1>1 DEF Table!Cells, Cells, Table!ShiftTasks, Table!CombineTasks

\* When one more task is behind the counters, the tasks behind grow by it.
LEMMA TaskAdded ==
  ASSUME CallOK, word' = word,
         NEW x \in 0..Size, NEW y \in 0..Size, NEW z \in 0..Size, IsTask(x, y, z),
         \A a, b, c \in 0..Size : IsTask(a, b, c) =>
           (Behind(a, b, c)' <=> Behind(a, b, c) \/ (a = x /\ b = y /\ c = z))
  PROVE  TasksBehind' = TasksBehind \cup {<<x, y, z>>}
<1>1. Size' = Size
  BY DEF Size
<1> DEFINE All3 == (0..Size) \X (0..Size) \X (0..Size)
<1>2. TasksBehind = {t \in All3 : IsTask(t[1], t[2], t[3]) /\ Behind(t[1], t[2], t[3])}
  BY DEF TasksBehind, IsTask
<1>3. TasksBehind' = {t \in All3 : IsTask(t[1], t[2], t[3]) /\ Behind(t[1], t[2], t[3])'}
  BY <1>1 DEF TasksBehind, IsTask, Behind
<1>4. \A t \in All3 : t = <<t[1], t[2], t[3]>>
                      /\ t[1] \in 0..Size /\ t[2] \in 0..Size /\ t[3] \in 0..Size
  OBVIOUS
<1>5. <<x, y, z>> \in All3
  OBVIOUS
<1> HIDE DEF All3
<1>6. ASSUME NEW t \in All3
      PROVE  t \in TasksBehind' <=> t \in TasksBehind \/ t = <<x, y, z>>
  <2>1. t = <<x, y, z>> <=> t[1] = x /\ t[2] = y /\ t[3] = z
    BY <1>4
  <2>2. IsTask(t[1], t[2], t[3]) =>
          (Behind(t[1], t[2], t[3])' <=>
             Behind(t[1], t[2], t[3]) \/ (t[1] = x /\ t[2] = y /\ t[3] = z))
    BY <1>4
  <2>3. t \in TasksBehind <=> IsTask(t[1], t[2], t[3]) /\ Behind(t[1], t[2], t[3])
    BY <1>2
  <2>4. t \in TasksBehind' <=> IsTask(t[1], t[2], t[3]) /\ Behind(t[1], t[2], t[3])'
    BY <1>3
  <2> QED
    BY <2>1, <2>2, <2>3, <2>4
<1>7. TasksBehind \subseteq All3 /\ TasksBehind' \subseteq All3
  BY <1>2, <1>3
<1> QED
  BY <1>5, <1>6, <1>7

\* A task in front of the counters has not been done.
LEMMA TaskNotBehind ==
  ASSUME NEW x, NEW y, NEW z, ~ Behind(x, y, z)
  PROVE  <<x, y, z>> \notin TasksBehind
BY DEF TasksBehind

\* One token is read: the chart's task for it.
LEMMA TerminalsStep ==
  ASSUME LoopInv, Terminals
  PROVE  /\ LoopInv'
         /\ \E t \in Table!ShiftTasks : Table!Shift(t)
<1> DEFINE tokens == GetTerminal(i)
           new    == WithUnits(tokens)
<1>1. /\ CallOK /\ FramesOK /\ LoopsOK /\ UnwrittenEmpty
      /\ Size \in Nat /\ pc = "terminals" /\ l = 0 /\ k = 0 /\ i \in Nat /\ i < Size
  BY SizeNat DEF LoopInv, LoopsOK, Terminals
<1>2. /\ P' = [P EXCEPT ![0][i] = new]
      /\ rules' = rules /\ unit' = unit /\ word' = word /\ k' = k
      /\ \/ i + 1 < Size /\ i' = i + 1 /\ l' = l /\ pc' = pc
         \/ ~ (i + 1 < Size) /\ i' = 0 /\ l' = 1
            /\ pc' = (IF 1 < Size THEN "table" ELSE "result")
  BY DEF Terminals, input
<1>3. /\ IsFrame(new)
      /\ Range(new) = Table!WithUnits(Table!TokenNodes(i))
  BY <1>1, TerminalFrame, WithUnitsFrame
<1> HIDE DEF new
<1>4. Writes(0, i, new) /\ 0 \in 0..(Size - 1) /\ i \in 0..(Size - 1)
  BY <1>1, <1>2 DEF Writes
<1>5. <<0, i>> \in Cells
  BY <1>1 DEF Cells
<1>6. /\ FramesOK'
      /\ \A a, b \in 0..(Size - 1) : (a # 0 \/ b # i) => P'[a][b] = P[a][b]
  BY <1>1, <1>2, <1>3, <1>4, OneFrameChanges
<1>7. CellSets' = [CellSets EXCEPT ![<<0, i>>] = Range(new)]
  BY <1>1, <1>2, <1>3, <1>4, <1>5, OneCellSetChanges
<1>8. Size' = Size /\ CallOK'
  BY <1>1, <1>2 DEF Size, CallOK
<1>9. LoopsOK'
  BY <1>1, <1>2, <1>8 DEF LoopsOK
<1>10. UnwrittenEmpty'
  <2> SUFFICES ASSUME NEW a \in 0..(Size - 1), NEW b \in 0..(Size - 1), Unwritten(a, b)'
               PROVE  P'[a][b] = <<>>
    BY <1>8 DEF UnwrittenEmpty
  <2>1. Unwritten(a, b) /\ (a # 0 \/ b # i)
    BY <1>1, <1>2, <1>8 DEF Unwritten
  <2> QED
    BY <1>1, <1>6, <2>1 DEF UnwrittenEmpty
<1>11. IsTask(0, i, 0) /\ ~ Behind(0, i, 0)
  BY <1>1 DEF IsTask, Behind
<1>12. ASSUME NEW a \in 0..Size, NEW b \in 0..Size, NEW c \in 0..Size, IsTask(a, b, c)
       PROVE  Behind(a, b, c)' <=> Behind(a, b, c) \/ (a = 0 /\ b = i /\ c = 0)
  BY <1>1, <1>2, <1>12 DEF IsTask, Behind
<1>13. TasksBehind' = TasksBehind \cup {<<0, i, 0>>}
  <2>1. 0 \in 0..Size /\ i \in 0..Size
    BY <1>1
  <2> QED
    BY <1>1, <1>2, <1>11, <1>12, <2>1, TaskAdded
<1>14. <<0, i, 0>> \in Table!ShiftTasks
  BY <1>1, SameSets
<1>15. <<0, i, 0>> \notin TasksBehind
  BY <1>11, TaskNotBehind
<1>16. Table!Shift(<<0, i, 0>>)
  BY <1>2, <1>3, <1>7, <1>13, <1>14, <1>15 DEF Table!Shift
<1> QED
  BY <1>6, <1>8, <1>9, <1>10, <1>14, <1>16 DEF LoopInv

\* What operator+ makes of two frames.
LEMMA FrameConcat ==
  ASSUME NEW f, NEW g, IsFrame(f), IsFrame(g)
  PROVE  /\ IsFrame(f \o g)
         /\ Range(f \o g) = Range(f) \cup Range(g)
<1> DEFINE T == Range(f) \cup Range(g)
<1>1. f \in Seq(Range(f)) /\ g \in Seq(Range(g))
  BY DEF IsFrame
<1>2. Range(f) \subseteq T /\ Range(g) \subseteq T
  OBVIOUS
<1>5. \A x : x \in T <=> x \in Range(f) \/ x \in Range(g)
  OBVIOUS
<1>6. \A S : (\A x : x \in S <=> x \in T) => S = T
  OBVIOUS
<1> HIDE DEF T
<1>3. f \in Seq(T) /\ g \in Seq(T)
  BY <1>1, <1>2, SeqWider
<1>4. f \o g \in Seq(T)
  BY <1>3
<1>7. \A x : x \in Range(f \o g) <=> x \in Range(f) \/ x \in Range(g)
  BY <1>3, RangeOfConcat
<1>8. Range(f \o g) = T
  BY <1>5, <1>6, <1>7
<1> QED
  BY <1>4, <1>8, FrameOf DEF T

\* The counters go to the next task that the loops have not done.
LEMMA NextSplitCases ==
  ASSUME NextSplit
  PROVE  \/ k + 1 < l /\ k' = k + 1 /\ l' = l /\ i' = i /\ pc' = pc
         \/ /\ ~ (k + 1 < l) /\ i + 1 < Size - l
            /\ k' = 0 /\ i' = i + 1 /\ l' = l /\ pc' = pc
         \/ /\ ~ (k + 1 < l) /\ ~ (i + 1 < Size - l)
            /\ k' = 0 /\ i' = 0 /\ l' = l + 1
            /\ pc' = (IF l + 1 < Size THEN "table" ELSE "result")
BY DEF NextSplit

\* One split is looked at: the chart's task for it.
LEMMA FillSplitStep ==
  ASSUME LoopInv, FillSplit
  PROVE  /\ LoopInv'
         /\ \E t \in Table!CombineTasks : Table!Combine(t)
<1> DEFINE A    == P[k][i]
           B    == P[l - k - 1][k + i + 1]
           bins == GetBinProductions(A, B)
           more == WithUnits(bins)
           t    == <<l, i, k>>
<1>1. /\ CallOK /\ FramesOK /\ LoopsOK /\ UnwrittenEmpty
      /\ Size \in Nat /\ pc = "table" /\ l \in Nat /\ i \in Nat /\ k \in Nat
      /\ l >= 1 /\ i + l < Size /\ k < l
  BY SizeNat DEF LoopInv, LoopsOK, FillSplit
<1>2. /\ P' = [P EXCEPT ![l][i] = @ \o more]
      /\ rules' = rules /\ unit' = unit /\ word' = word
      /\ NextSplit
  BY DEF FillSplit, input
<1>3. /\ l \in 0..(Size - 1) /\ i \in 0..(Size - 1) /\ k \in 0..(Size - 1)
      /\ (l - k - 1) \in 0..(Size - 1) /\ (k + i + 1) \in 0..(Size - 1)
  BY <1>1
<1>4. IsFrame(A) /\ IsFrame(B) /\ IsFrame(P[l][i])
  BY <1>1, <1>3 DEF FramesOK
<1>5. /\ IsFrame(bins)
      /\ Range(bins) = Table!BinNodes(Range(A), Range(B))
  BY <1>1, <1>4, BinsFrame
<1>6. /\ IsFrame(more)
      /\ Range(more) = Table!WithUnits(Table!BinNodes(Range(A), Range(B)))
  BY <1>1, <1>5, WithUnitsFrame
<1> HIDE DEF bins, more
<1> DEFINE f == P[l][i] \o more
<1>7. IsFrame(f) /\ Range(f) = Range(P[l][i]) \cup Range(more)
  BY <1>4, <1>6, FrameConcat
<1>8. Writes(l, i, f)
  BY <1>1, <1>2, <1>3 DEF Writes, FramesOK
<1> HIDE DEF f
<1>9. <<l, i>> \in Cells /\ <<k, i>> \in Cells /\ <<l - k - 1, k + i + 1>> \in Cells
  BY <1>1 DEF Cells
<1>10. /\ FramesOK'
       /\ \A a, b \in 0..(Size - 1) : (a # l \/ b # i) => P'[a][b] = P[a][b]
  BY <1>1, <1>2, <1>3, <1>7, <1>8, OneFrameChanges
<1>11. CellSets' = [CellSets EXCEPT ![<<l, i>>] = Range(f)]
  BY <1>1, <1>2, <1>3, <1>7, <1>8, <1>9, OneCellSetChanges
<1>12. Size' = Size /\ CallOK'
  BY <1>1, <1>2 DEF Size, CallOK
<1>13. \/ k + 1 < l /\ k' = k + 1 /\ l' = l /\ i' = i /\ pc' = pc
       \/ /\ ~ (k + 1 < l) /\ i + 1 < Size - l
          /\ k' = 0 /\ i' = i + 1 /\ l' = l /\ pc' = pc
       \/ /\ ~ (k + 1 < l) /\ ~ (i + 1 < Size - l)
          /\ k' = 0 /\ i' = 0 /\ l' = l + 1
          /\ pc' = (IF l + 1 < Size THEN "table" ELSE "result")
  BY <1>2, NextSplitCases
<1>14. LoopsOK'
  BY <1>1, <1>12, <1>13 DEF LoopsOK
<1>15. UnwrittenEmpty'
  <2> SUFFICES ASSUME NEW a \in 0..(Size - 1), NEW b \in 0..(Size - 1), Unwritten(a, b)'
               PROVE  P'[a][b] = <<>>
    BY <1>12 DEF UnwrittenEmpty
  <2>1. Unwritten(a, b) /\ (a # l \/ b # i)
    BY <1>1, <1>12, <1>13 DEF Unwritten
  <2> QED
    BY <1>1, <1>10, <2>1 DEF UnwrittenEmpty
<1>16. IsTask(l, i, k) /\ ~ Behind(l, i, k)
  BY <1>1 DEF IsTask, Behind
<1>17. ASSUME NEW a \in 0..Size, NEW b \in 0..Size, NEW c \in 0..Size, IsTask(a, b, c)
       PROVE  Behind(a, b, c)' <=> Behind(a, b, c) \/ (a = l /\ b = i /\ c = k)
  BY <1>1, <1>13, <1>17 DEF IsTask, Behind
<1>18. TasksBehind' = TasksBehind \cup {<<l, i, k>>}
  <2>1. l \in 0..Size /\ i \in 0..Size /\ k \in 0..Size
    BY <1>1
  <2> QED
    BY <1>1, <1>2, <1>16, <1>17, <2>1, TaskAdded
<1>19. t \in Table!CombineTasks /\ t \notin TasksBehind
  BY <1>1, <1>16, SameSets, TaskNotBehind
<1>20. Table!Left(t) = <<k, i>> /\ Table!Right(t) = <<l - k - 1, k + i + 1>>
  BY DEF Table!Left, Table!Right
<1>21. ASSUME NEW a \in Nat, NEW b, a < l PROVE Table!Finished(<<a, b>>)
  <2> SUFFICES ASSUME NEW u \in Table!TasksOf(<<a, b>>) PROVE u \in TasksBehind
    BY DEF Table!Finished
  <2>1. /\ u \in (0..Size) \X (0..Size) \X (0..Size)
        /\ u[1] + u[2] < Size
        /\ u[3] < u[1] \/ (u[1] = 0 /\ u[3] = 0)
        /\ u[1] = a /\ u[2] = b
    BY <1>1, SameSets DEF Table!TasksOf, Table!Tasks, Table!ShiftTasks, Table!CombineTasks
  <2>2. Behind(u[1], u[2], u[3])
    BY <1>1, <1>21, <2>1 DEF Behind
  <2> QED
    BY <2>1, <2>2 DEF TasksBehind
<1>22. Table!Ready(t)
  <2>1. (l - k - 1) \in Nat /\ l - k - 1 < l
    BY <1>1
  <2>2. Table!Finished(<<k, i>>) /\ Table!Finished(<<l - k - 1, k + i + 1>>)
    BY <1>1, <1>21, <2>1
  <2> QED
    BY <1>20, <2>2 DEF Table!Ready
<1>23. /\ CellSets[<<k, i>>] = Range(A)
       /\ CellSets[<<l - k - 1, k + i + 1>>] = Range(B)
       /\ CellSets[<<l, i>>] = Range(P[l][i])
  BY <1>9 DEF CellSets
<1>24. Range(f) = CellSets[<<l, i>>] \cup Table!Combined(t)
  BY <1>6, <1>7, <1>20, <1>23 DEF Table!Combined
<1>25. t[1] = l /\ t[2] = i
  OBVIOUS
<1> HIDE DEF t
<1>26. CellSets' = [CellSets EXCEPT ![<<t[1], t[2]>>] = @ \cup Table!Combined(t)]
  BY <1>11, <1>24, <1>25
<1>27. TasksBehind' = TasksBehind \cup {t}
  BY <1>18 DEF t
<1>28. Table!Combine(t)
  BY <1>2, <1>19, <1>22, <1>26, <1>27 DEF Table!Combine
<1> QED
  BY <1>10, <1>12, <1>14, <1>15, <1>19, <1>28 DEF LoopInv

\* A call that returns leaves the chart as it is.
LEMMA ReturnStep ==
  ASSUME LoopInv, ReturnAxiomNodes \/ ReturnBrokenNodes \/ ReadOutside
  PROVE  LoopInv' /\ UNCHANGED <<rules, unit, word, CellSets, TasksBehind>>
<1>1. /\ CallOK /\ FramesOK /\ LoopsOK /\ UnwrittenEmpty
      /\ pc = "result" /\ pc' = "done"
      /\ rules' = rules /\ unit' = unit /\ word' = word /\ P' = P
      /\ l' = l /\ i' = i /\ k' = k
  BY DEF LoopInv, ReturnAxiomNodes, ReturnBrokenNodes, ReadOutside, input, loop
<1>2. Size' = Size /\ Cells' = Cells
  BY <1>1 DEF Size, Cells
<1>3. CallOK'
  BY <1>1 DEF CallOK
<1>4. FramesOK'
  <2>1. P' = P /\ Size' = Size /\ FramesOK
    BY <1>1, <1>2
  <2>2. DOMAIN P' = 0..(Size' - 1)
    BY <2>1 DEF FramesOK
  <2>3. ASSUME NEW x \in 0..(Size' - 1)
        PROVE  /\ DOMAIN (P'[x]) = 0..(Size' - 1)
               /\ \A y \in 0..(Size' - 1) : IsFrame(P'[x][y])
    BY <2>1 DEF FramesOK
  <2>4. \A x, y : IsFrame(P[x][y])' <=> IsFrame(P'[x][y])
    BY <2>1 DEF IsFrame, Range
  <2> QED
    BY <2>2, <2>3, <2>4 DEF FramesOK
<1>5. LoopsOK'
  BY <1>1, <1>2 DEF LoopsOK
<1>6. UnwrittenEmpty'
  BY <1>1, <1>2 DEF UnwrittenEmpty, Unwritten
<1>7. CellSets' = CellSets
  BY <1>1, <1>2 DEF CellSets, Range
<1>8. TasksBehind' = TasksBehind
  BY <1>1, <1>2 DEF TasksBehind, Behind
<1> QED
  BY <1>1, <1>3, <1>4, <1>5, <1>6, <1>7, <1>8 DEF LoopInv

\* A step that changes nothing keeps all of it.
LEMMA LoopStutter ==
  ASSUME LoopInv, UNCHANGED vars
  PROVE  LoopInv' /\ UNCHANGED <<rules, unit, word, CellSets, TasksBehind>>
<1>1. /\ CallOK /\ FramesOK /\ LoopsOK /\ UnwrittenEmpty
      /\ pc' = pc
      /\ rules' = rules /\ unit' = unit /\ word' = word /\ P' = P
      /\ l' = l /\ i' = i /\ k' = k
  BY DEF LoopInv, vars
<1>2. Size' = Size /\ Cells' = Cells
  BY <1>1 DEF Size, Cells
<1>3. CallOK'
  BY <1>1 DEF CallOK
<1>4. FramesOK'
  BY <1>1, <1>2 DEF FramesOK, IsFrame, Range
<1>5. LoopsOK'
  BY <1>1, <1>2 DEF LoopsOK
<1>6. UnwrittenEmpty'
  BY <1>1, <1>2 DEF UnwrittenEmpty, Unwritten
<1>7. CellSets' = CellSets
  BY <1>1, <1>2 DEF CellSets, Range
<1>8. TasksBehind' = TasksBehind
  BY <1>1, <1>2 DEF TasksBehind, Behind
<1> QED
  BY <1>1, <1>3, <1>4, <1>5, <1>6, <1>7, <1>8 DEF LoopInv

\* Every step of the loops is a step of the chart or leaves it alone.
LEMMA LoopStep ==
  ASSUME LoopInv, [Next]_vars
  PROVE  LoopInv' /\ [Table!Next]_(Table!vars)
<1>1. CASE Terminals
  BY <1>1, TerminalsStep DEF Table!Next
<1>2. CASE FillSplit
  BY <1>2, FillSplitStep DEF Table!Next
<1>3. CASE ReturnAxiomNodes \/ ReturnBrokenNodes \/ ReadOutside
  BY <1>3, ReturnStep DEF Table!vars
<1>4. CASE UNCHANGED vars
  BY <1>4, LoopStutter DEF Table!vars
<1> QED
  BY <1>1, <1>2, <1>3, <1>4 DEF Next

\* The matrix of empty frames is the empty chart, with every task to do.
LEMMA FreshTable == Fresh => Table!Blank
<1> SUFFICES ASSUME Fresh PROVE Table!Blank
  OBVIOUS
<1>1. LoopInv
  BY FreshLoop
<1>2. Size \in Nat /\ LoopsOK /\ UnwrittenEmpty
  BY <1>1, SizeNat DEF LoopInv
<1>3. \A c \in Cells : Range(P[c[1]][c[2]]) = {}
  <2> SUFFICES ASSUME NEW c \in Cells PROVE Range(P[c[1]][c[2]]) = {}
    OBVIOUS
  <2>1. c[1] \in 0..(Size - 1) /\ c[2] \in 0..(Size - 1)
    BY <1>2 DEF Cells
  <2>2. P[c[1]][c[2]] = <<>>
    BY <2>1 DEF Fresh
  <2> QED
    BY <2>2, EmptyFrame
<1>4. CellSets = [c \in Table!Cells |-> {}]
  BY <1>3, SameSets DEF CellSets
<1>5. TasksBehind = {}
  <2> SUFFICES ASSUME NEW t \in TasksBehind PROVE FALSE
    OBVIOUS
  <2>1. /\ t[1] \in 0..Size /\ t[2] \in 0..Size /\ t[3] \in 0..Size
        /\ t[1] + t[2] < Size
        /\ Behind(t[1], t[2], t[3])
    BY DEF TasksBehind
  <2>2. Size # 0
    BY <1>2, <2>1
  <2>3. word # <<>>
    BY <2>2 DEF Size
  <2>4. pc = "terminals" /\ l = 0 /\ i = 0 /\ k = 0
    BY <2>3 DEF Fresh
  <2> QED
    BY <1>2, <2>1, <2>4 DEF Behind
<1>6. word \in Seq(Terminal)
  BY DEF Fresh, CallOK
<1> QED
  BY <1>4, <1>5, <1>6, SameSets DEF Table!Blank

LEMMA InitTable == Init => Table!Init
<1> SUFFICES ASSUME Init PROVE Table!Init
  OBVIOUS
<1>1. Table!Blank
  BY InitFresh, FreshTable
<1> QED
  BY <1>1 DEF Init, Table!Init, Table!Blank

\* The two instances of the chart have the same steps.
LEMMA SameChart ==
  /\ Table!Init <=> Chart!Init
  /\ [Table!Next]_(Table!vars) => [Chart!Next]_(Chart!vars)
<1>1. Table!vars = Chart!vars
  BY DEF Table!vars, Chart!vars
<1>2. /\ Table!Size = Chart!Size /\ Table!Cells = Chart!Cells
      /\ Table!ShiftTasks = Chart!ShiftTasks /\ Table!CombineTasks = Chart!CombineTasks
      /\ \A c : Table!Finished(c) <=> Chart!Finished(c)
  BY DEF Table!Size, Chart!Size, Table!Cells, Chart!Cells, Table!ShiftTasks,
     Chart!ShiftTasks, Table!CombineTasks, Chart!CombineTasks, Table!Finished,
     Chart!Finished, Table!TasksOf, Chart!TasksOf, Table!Tasks, Chart!Tasks
<1>3. Table!Init <=> Chart!Init
  BY <1>2 DEF Table!Init, Chart!Init
<1>4. \A x : Table!TokenNodes(x) = Chart!TokenNodes(x)
  BY DEF Table!TokenNodes, Chart!TokenNodes, Table!TokenNode, Chart!TokenNode,
     Table!Produces, Chart!Produces, Table!Alternatives, Chart!Alternatives,
     Table!TerminalOperand, Chart!TerminalOperand
<1>5. \A S : Table!WithUnits(S) = Chart!WithUnits(S)
  BY DEF Table!WithUnits, Chart!WithUnits, Table!UnitNode, Chart!UnitNode
<1>6. \A A, B : Table!BinNodes(A, B) = Chart!BinNodes(A, B)
  BY DEF Table!BinNodes, Chart!BinNodes, Table!BinNode, Chart!BinNode,
     Table!Joins, Chart!Joins, Table!Alternatives, Chart!Alternatives
<1>7. \A t : Table!Shift(t) => Chart!Shift(t)
  BY <1>2, <1>4, <1>5 DEF Table!Shift, Chart!Shift
<1>8. \A t : Table!Left(t) = Chart!Left(t) /\ Table!Right(t) = Chart!Right(t)
  BY DEF Table!Left, Chart!Left, Table!Right, Chart!Right
<1>9. \A t : Table!Combine(t) => Chart!Combine(t)
  BY <1>2, <1>5, <1>6, <1>8 DEF Table!Combine, Chart!Combine, Table!Ready, Chart!Ready,
     Table!Combined, Chart!Combined
<1>10. ASSUME [Table!Next]_(Table!vars) PROVE [Chart!Next]_(Chart!vars)
  <2>1. CASE UNCHANGED Table!vars
    BY <2>1 DEF Table!vars, Chart!vars
  <2>2. CASE \E t \in Table!ShiftTasks : Table!Shift(t)
    BY <1>2, <1>7, <2>2 DEF Chart!Next
  <2>3. CASE \E t \in Table!CombineTasks : Table!Combine(t)
    BY <1>2, <1>9, <2>3 DEF Chart!Next
  <2> QED
    BY <1>10, <2>1, <2>2, <2>3 DEF Table!Next
<1> QED
  BY <1>3, <1>10

-----------------------------------------------------------------------------
(* The theorems about the loops.                                            *)

\* The inductive invariant: the loops are where they should be, and the chart
\* they have filled so far keeps its promise.
CYKInv == LoopInv /\ Table!ChartInv

\* It holds before the first step of a call.
LEMMA FreshInv == Fresh => CYKInv
BY FreshLoop, FreshTable, Table!BlankChart, NamesAssumption, TableInputs DEF CYKInv

\* The invariant is inductive.
LEMMA CYKStep == CYKInv /\ [Next]_vars => CYKInv'
<1> SUFFICES ASSUME CYKInv, [Next]_vars PROVE CYKInv'
  OBVIOUS
<1>1. LoopInv' /\ [Table!Next]_(Table!vars)
  BY LoopStep DEF CYKInv
<1>2. CASE UNCHANGED Table!vars
  BY <1>1, <1>2, Table!StutterStep, NamesAssumption, TableInputs DEF CYKInv
<1>3. CASE \E t \in Table!ShiftTasks : Table!Shift(t)
  BY <1>1, <1>3, Table!ShiftStep, NamesAssumption, TableInputs DEF CYKInv
<1>4. CASE \E t \in Table!CombineTasks : Table!Combine(t)
  BY <1>1, <1>4, Table!CombineStep, NamesAssumption, TableInputs DEF CYKInv
<1> QED
  BY <1>1, <1>2, <1>3, <1>4 DEF Table!Next

\* The loops of membership keep to the triangle, and their chart is grounded,
\* saturated and closed under one step of the unit relation at every moment.
THEOREM MembershipInvariant == Spec => []CYKInv
<1>1. Init => CYKInv
  BY InitFresh, FreshInv
<1> QED
  BY <1>1, CYKStep, PTL DEF Spec

\* membership implements the chart: its loops start with the empty chart, and
\* each of their steps is one task of it whose cells are finished, or changes
\* nothing of it.
THEOREM MembershipFillsTheChart == Spec => Chart!Init /\ [][Chart!Next]_(Chart!vars)
<1>1. Init => Chart!Init
  BY InitTable, SameChart
<1>2. CYKInv /\ [Next]_vars => [Chart!Next]_(Chart!vars)
  BY LoopStep, SameChart DEF CYKInv
<1> QED
  BY <1>1, <1>2, MembershipInvariant, PTL DEF Spec

-----------------------------------------------------------------------------
(* What a node of a cell is made of.                                        *)

\* A node is a token's, or joins nodes of two neighbouring cells that are its
\* cell's span together, or stands on a node of its own cell.
LEMMA NodeParts ==
  ASSUME CYKInv, NEW c \in Cells, NEW node \in CellSets[c]
  PROVE  \/ node.kind = "token" /\ c[1] = 0 /\ node.parts = <<c[2]>>
         \/ /\ node.kind = "bin"
            /\ \E z \in Nat :
                 /\ z < c[1]
                 /\ <<z, c[2]>> \in Cells /\ <<c[1] - z - 1, z + c[2] + 1>> \in Cells
                 /\ node.parts[1] \in CellSets[<<z, c[2]>>]
                 /\ node.parts[2] \in CellSets[<<c[1] - z - 1, z + c[2] + 1>>]
            /\ node.parts = <<node.parts[1], node.parts[2]>>
         \/ /\ node.kind = "unit"
            /\ node.parts[1] \in CellSets[c]
            /\ node.parts[1].kind # "unit"
            /\ node.parts = <<node.parts[1]>>
<1>1. Table!GroundedNode(node, c)
  BY SameSets DEF CYKInv, Table!ChartInv, Table!Grounded
<1>2. CASE node.kind = "token"
  BY <1>1, <1>2 DEF Table!GroundedNode, Table!TokenNode
<1>3. CASE node.kind = "unit"
  BY <1>1, <1>3 DEF Table!GroundedNode, Table!UnitNode
<1>4. CASE node.kind = "bin"
  <2>1. PICK t \in Table!TasksOf(c) \cap Table!CombineTasks :
          \E a \in CellSets[Table!Left(t)], b \in CellSets[Table!Right(t)] :
            node = Table!BinNode(node.nodetype, a, b)
    BY <1>1, <1>4 DEF Table!GroundedNode
  <2>2. PICK a \in CellSets[Table!Left(t)], b \in CellSets[Table!Right(t)] :
          node = Table!BinNode(node.nodetype, a, b)
    BY <2>1
  <2>3. node.parts[1] = a /\ node.parts[2] = b /\ node.parts = <<a, b>>
    BY <2>2 DEF Table!BinNode
  <2>4. Table!Left(t) \in Cells /\ Table!Right(t) \in Cells
    BY Table!CombineCells, NamesAssumption, TableInputs, SameSets
       DEF CYKInv, LoopInv, CallOK
  <2>5. t[1] = c[1] /\ t[2] = c[2]
    BY DEF Table!TasksOf
  <2>6. t[3] \in Nat /\ t[3] < t[1]
    BY DEF Table!CombineTasks
  <2>7. Table!Left(t) = <<t[3], c[2]>> /\ Table!Right(t) = <<c[1] - t[3] - 1, t[3] + c[2] + 1>>
    BY <2>5 DEF Table!Left, Table!Right
  <2> QED
    BY <1>4, <2>3, <2>4, <2>5, <2>6, <2>7
<1> QED
  BY <1>1, <1>2, <1>3, <1>4 DEF Table!GroundedNode

\* The numbers of a cell.
LEMMA CellNumbers ==
  ASSUME CallOK, NEW c \in Cells
  PROVE  /\ c = <<c[1], c[2]>> /\ c[1] \in Nat /\ c[2] \in Nat
         /\ c[1] + c[2] < Size /\ Size \in Nat
         /\ c[1] \in 0..(Size - 1) /\ c[2] \in 0..(Size - 1)
BY SizeNat DEF Cells

\* The nodes are those of the cells, and each is in one cell.
LEMMA NodesOfCells ==
  ASSUME CYKInv
  PROVE  /\ \A node : node \in Nodes <=> \E c \in Cells : node \in CellSets[c]
         /\ \A c, d \in Cells : \A node : node \in CellSets[c] /\ node \in CellSets[d] => c = d
<1>1. CallOK /\ FramesOK /\ UnwrittenEmpty /\ Size \in Nat
  BY SizeNat DEF CYKInv, LoopInv
<1>2. \A node : node \in Nodes <=> \E x, y \in 0..(Size - 1) : node \in Range(P[x][y])
  BY <1>1 DEF Nodes, Frames, FramesOK
<1>3. ASSUME NEW x \in 0..(Size - 1), NEW y \in 0..(Size - 1), NEW node \in Range(P[x][y])
      PROVE  <<x, y>> \in Cells
  <2>1. P[x][y] # <<>>
    BY <1>3, EmptyFrame
  <2>2. x + y < Size
    BY <1>1, <2>1 DEF UnwrittenEmpty, Unwritten
  <2> QED
    BY <1>1, <2>2 DEF Cells
<1>4. \A c \in Cells : CellSets[c] = Range(P[c[1]][c[2]])
  BY DEF CellSets
<1>5. \A node : node \in Nodes <=> \E c \in Cells : node \in CellSets[c]
  <2>1. ASSUME NEW node \in Nodes PROVE \E c \in Cells : node \in CellSets[c]
    <3>1. PICK x \in 0..(Size - 1), y \in 0..(Size - 1) : node \in Range(P[x][y])
      BY <1>2
    <3>2. <<x, y>> \in Cells
      BY <1>3, <3>1
    <3> QED
      BY <1>4, <3>1, <3>2
  <2>2. ASSUME NEW c \in Cells, NEW node \in CellSets[c] PROVE node \in Nodes
    BY <1>1, <1>2, <1>4, CellNumbers
  <2> QED
    BY <2>1, <2>2
<1>6. Table!OneCell
  BY Table!GroundedApart, NamesAssumption, TableInputs DEF CYKInv, Table!ChartInv
<1> QED
  BY <1>5, <1>6, SameSets DEF Table!OneCell

-----------------------------------------------------------------------------
(* The leaves.                                                              *)

\* The tokens that a cell spans.
Span(c) == [p \in 1..(c[1] + 1) |-> c[2] + p - 1]

\* The span of a token is the token.
LEMMA SpanOfToken ==
  ASSUME NEW y \in Nat
  PROVE  Span(<<0, y>>) = <<y>>
BY DEF Span

\* The spans of the two parts of a split, one after the other, are the span of
\* the whole.
LEMMA SpanOfSplit ==
  ASSUME NEW x \in Nat, NEW y \in Nat, NEW z \in Nat, z < x
  PROVE  Span(<<z, y>>) \o Span(<<x - z - 1, z + y + 1>>) = Span(<<x, y>>)
<1> DEFINE A == Span(<<z, y>>)
           B == Span(<<x - z - 1, z + y + 1>>)
           C == Span(<<x, y>>)
<1>1. A = [p \in 1..(z + 1) |-> y + p - 1]
  BY DEF Span
<1>2. B = [p \in 1..(x - z) |-> z + y + p]
  BY DEF Span
<1>3. C = [p \in 1..(x + 1) |-> y + p - 1]
  BY DEF Span
<1> HIDE DEF A, B, C
<1>4. A \in Seq(Int) /\ Len(A) = z + 1 /\ B \in Seq(Int) /\ Len(B) = x - z
  BY <1>1, <1>2
<1>5. C \in Seq(Int) /\ Len(C) = x + 1
  BY <1>3
<1>6. A \o B \in Seq(Int) /\ Len(A \o B) = x + 1
  BY <1>4
<1>7. ASSUME NEW p \in 1..(x + 1) PROVE (A \o B)[p] = C[p]
  <2>1. (A \o B)[p] = IF p <= z + 1 THEN A[p] ELSE B[p - (z + 1)]
    BY <1>4, <1>7
  <2> QED
    BY <1>1, <1>2, <1>3, <2>1
<1>8. A \o B = C
  BY <1>5, <1>6, <1>7, SeqEqual
<1> QED
  BY <1>8 DEF A, B, C

\* What the equation of Leaves says of one node.
LeafRule(L, node) ==
  CASE node.kind = "token" -> node.parts
    [] node.kind = "unit"  -> L[node.parts[1]]
    [] node.kind = "bin"   -> L[node.parts[1]] \o L[node.parts[2]]

\* A solution of the equation of Leaves.
IsLeaves(L) == L = [node \in Nodes |-> LeafRule(L, node)]

\* Leaves is a solution when there is one.
LEMMA LeavesChosen == (\E L : IsLeaves(L)) => IsLeaves(Leaves)
BY DEF IsLeaves, LeafRule, Leaves

\* A function that gives the parts of a node the spans of their cells gives the
\* node the span of its own.
LEMMA LeafRuleOfSpans ==
  ASSUME CYKInv, NEW c \in Cells, NEW node \in CellSets[c], NEW L,
         \A d \in Cells : d[1] < c[1] => \A x \in CellSets[d] : L[x] = Span(d),
         node.kind = "unit" => \A x \in CellSets[c] : x.kind # "unit" => L[x] = Span(c)
  PROVE  LeafRule(L, node) = Span(c)
<1>1. CallOK
  BY DEF CYKInv, LoopInv
<1>2. c = <<c[1], c[2]>> /\ c[1] \in Nat /\ c[2] \in Nat
  BY <1>1, CellNumbers
<1>3. CASE node.kind = "token"
  <2>1. c[1] = 0 /\ node.parts = <<c[2]>>
    BY <1>3, NodeParts
  <2> QED
    BY <1>2, <1>3, <2>1, SpanOfToken DEF LeafRule
<1>4. CASE node.kind = "unit"
  <2>1. node.parts[1] \in CellSets[c] /\ node.parts[1].kind # "unit"
    BY <1>4, NodeParts
  <2> QED
    BY <1>4, <2>1 DEF LeafRule
<1>5. CASE node.kind = "bin"
  <2>1. PICK z \in Nat :
          /\ z < c[1]
          /\ <<z, c[2]>> \in Cells /\ <<c[1] - z - 1, z + c[2] + 1>> \in Cells
          /\ node.parts[1] \in CellSets[<<z, c[2]>>]
          /\ node.parts[2] \in CellSets[<<c[1] - z - 1, z + c[2] + 1>>]
    BY <1>5, NodeParts
  <2>2. L[node.parts[1]] = Span(<<z, c[2]>>)
    BY <2>1
  <2>3. c[1] - z - 1 < c[1]
    BY <1>2, <2>1
  <2>4. L[node.parts[2]] = Span(<<c[1] - z - 1, z + c[2] + 1>>)
    BY <2>1, <2>3
  <2>5. LeafRule(L, node) = L[node.parts[1]] \o L[node.parts[2]]
    BY <1>5 DEF LeafRule
  <2>6. Span(<<z, c[2]>>) \o Span(<<c[1] - z - 1, z + c[2] + 1>>) = Span(<<c[1], c[2]>>)
    BY <1>2, <2>1, SpanOfSplit
  <2> QED
    BY <1>2, <2>2, <2>4, <2>5, <2>6
<1> QED
  BY <1>3, <1>4, <1>5, NodeParts

\* The spans of the cells solve the equation.
LEMMA LeavesExist == CYKInv => IsLeaves(Leaves)
<1> SUFFICES ASSUME CYKInv PROVE IsLeaves(Leaves)
  OBVIOUS
<1> DEFINE CellOf(node) == CHOOSE c \in Cells : node \in CellSets[c]
           L == [node \in Nodes |-> Span(CellOf(node))]
<1>1. ASSUME NEW c \in Cells, NEW node \in CellSets[c]
      PROVE  node \in Nodes /\ L[node] = Span(c)
  <2>1. node \in Nodes
    BY NodesOfCells
  <2>2. CellOf(node) \in Cells /\ node \in CellSets[CellOf(node)]
    OBVIOUS
  <2>3. CellOf(node) = c
    BY <2>2, NodesOfCells
  <2> QED
    BY <2>1, <2>3
<1>2. L = [node \in Nodes |-> L[node]]
  OBVIOUS
<1> HIDE DEF L, CellOf
<1>3. ASSUME NEW node \in Nodes PROVE L[node] = LeafRule(L, node)
  <2>1. PICK c \in Cells : node \in CellSets[c]
    BY NodesOfCells
  <2>2. LeafRule(L, node) = Span(c)
    BY <1>1, <2>1, LeafRuleOfSpans
  <2> QED
    BY <1>1, <2>1, <2>2
<1>4. IsLeaves(L)
  BY <1>2, <1>3 DEF IsLeaves
<1> QED
  BY <1>4, LeavesChosen

\* And they are its only solution.
LEMMA LeavesAreSpans ==
  ASSUME CYKInv
  PROVE  \A c \in Cells : \A node \in CellSets[c] : Leaves[node] = Span(c)
<1>1. /\ \A node \in Nodes : Leaves[node] = LeafRule(Leaves, node)
  BY LeavesExist DEF IsLeaves
<1>2. \A c \in Cells : c[1] \in Nat
  BY CellNumbers DEF CYKInv, LoopInv
<1> DEFINE S == {n \in Nat : \A c \in Cells : c[1] < n => \A node \in CellSets[c] : Leaves[node] = Span(c)}
<1>3. 0 \in S
  BY <1>2
<1>4. ASSUME NEW n \in Nat, n \in S PROVE n + 1 \in S
  <2>1. ASSUME NEW c \in Cells, c[1] < n + 1, NEW node \in CellSets[c], node.kind # "unit"
        PROVE  Leaves[node] = Span(c)
    <3>1. \A d \in Cells : d[1] < c[1] => \A x \in CellSets[d] : Leaves[x] = Span(d)
      BY <1>2, <1>4, <2>1
    <3>2. LeafRule(Leaves, node) = Span(c)
      BY <2>1, <3>1, LeafRuleOfSpans
    <3>3. node \in Nodes
      BY NodesOfCells
    <3> QED
      BY <1>1, <3>2, <3>3
  <2>2. ASSUME NEW c \in Cells, c[1] < n + 1, NEW node \in CellSets[c]
        PROVE  Leaves[node] = Span(c)
    <3>1. \A d \in Cells : d[1] < c[1] => \A x \in CellSets[d] : Leaves[x] = Span(d)
      BY <1>2, <1>4, <2>2
    <3>2. LeafRule(Leaves, node) = Span(c)
      BY <2>1, <2>2, <3>1, LeafRuleOfSpans
    <3>3. node \in Nodes
      BY NodesOfCells
    <3> QED
      BY <1>1, <3>2, <3>3
  <2> QED
    BY <2>2
<1>5. Nat \subseteq S
  <2> HIDE DEF S
  <2> QED
    BY <1>3, <1>4, AllNat
<1> QED
  <2> SUFFICES ASSUME NEW c \in Cells, NEW node \in CellSets[c] PROVE Leaves[node] = Span(c)
    OBVIOUS
  <2>1. c[1] + 1 \in S /\ c[1] < c[1] + 1
    BY <1>2, <1>5
  <2> QED
    BY <2>1

\* The cell of a node, and a number that is greater than those of its parts.
CellOf(node) == CHOOSE c \in Cells : node \in CellSets[c]

NodeRank == [node \in Nodes |-> 2 * CellOf(node)[1] + (IF node.kind = "unit" THEN 1 ELSE 0)]

\* A node, its parts and the tokens below it.
LEMMA NodeShape ==
  ASSUME CYKInv
  PROVE  /\ NodeRank \in [Nodes -> Nat]
         /\ \A node \in Nodes :
              /\ Leaves[node] \in Seq(Nat) /\ Distinct(Leaves[node])
              /\ \/ /\ node.kind = "token"
                    /\ \E place \in Nat : node.parts = <<place>>
                    /\ Leaves[node] = node.parts
                 \/ /\ node.kind = "unit"
                    /\ node.parts = <<node.parts[1]>> /\ node.parts[1] \in Nodes
                    /\ NodeRank[node.parts[1]] < NodeRank[node]
                    /\ Leaves[node] = Leaves[node.parts[1]]
                 \/ /\ node.kind = "bin"
                    /\ node.parts = <<node.parts[1], node.parts[2]>>
                    /\ node.parts[1] \in Nodes /\ node.parts[2] \in Nodes
                    /\ NodeRank[node.parts[1]] < NodeRank[node]
                    /\ NodeRank[node.parts[2]] < NodeRank[node]
                    /\ Leaves[node] = Leaves[node.parts[1]] \o Leaves[node.parts[2]]
<1>1. ASSUME NEW c \in Cells, NEW node \in CellSets[c]
      PROVE  /\ node \in Nodes /\ c[1] \in Nat /\ c[2] \in Nat
             /\ NodeRank[node] = 2 * c[1] + (IF node.kind = "unit" THEN 1 ELSE 0)
             /\ Leaves[node] = Span(c)
  <2>1. node \in Nodes
    BY NodesOfCells
  <2>2. CellOf(node) \in Cells /\ node \in CellSets[CellOf(node)]
    BY DEF CellOf
  <2>3. CellOf(node) = c
    BY <2>2, NodesOfCells
  <2>4. c[1] \in Nat /\ c[2] \in Nat
    BY CellNumbers DEF CYKInv, LoopInv
  <2> QED
    BY <2>1, <2>3, <2>4, LeavesAreSpans DEF NodeRank
<1>2. \A node \in Nodes : \E c \in Cells : node \in CellSets[c]
  BY NodesOfCells
<1>3. NodeRank \in [Nodes -> Nat]
  <2>1. \A node \in Nodes : NodeRank[node] \in Nat
    BY <1>1, <1>2
  <2> QED
    BY <2>1 DEF NodeRank
<1>4. \A node \in Nodes : Leaves[node] = LeafRule(Leaves, node)
  BY LeavesExist DEF IsLeaves
<1>5. ASSUME NEW node \in Nodes
      PROVE  Leaves[node] \in Seq(Nat) /\ Distinct(Leaves[node])
  <2>1. PICK c \in Cells : node \in CellSets[c]
    BY <1>2
  <2>2. c[1] \in Nat /\ c[2] \in Nat /\ Leaves[node] = Span(c)
    BY <1>1, <2>1
  <2>3. \A p \in 1..(c[1] + 1) : c[2] + p - 1 \in Nat
    BY <2>2
  <2>4. Span(c) \in Seq(Nat)
    BY <2>2, <2>3 DEF Span
  <2>5. Distinct(Span(c))
    BY <2>2 DEF Span, Distinct
  <2> QED
    BY <2>2, <2>4, <2>5
<1>6. ASSUME NEW node \in Nodes
      PROVE  \/ /\ node.kind = "token"
                /\ \E place \in Nat : node.parts = <<place>>
                /\ Leaves[node] = node.parts
             \/ /\ node.kind = "unit"
                /\ node.parts = <<node.parts[1]>> /\ node.parts[1] \in Nodes
                /\ NodeRank[node.parts[1]] < NodeRank[node]
                /\ Leaves[node] = Leaves[node.parts[1]]
             \/ /\ node.kind = "bin"
                /\ node.parts = <<node.parts[1], node.parts[2]>>
                /\ node.parts[1] \in Nodes /\ node.parts[2] \in Nodes
                /\ NodeRank[node.parts[1]] < NodeRank[node]
                /\ NodeRank[node.parts[2]] < NodeRank[node]
                /\ Leaves[node] = Leaves[node.parts[1]] \o Leaves[node.parts[2]]
  <2>1. PICK c \in Cells : node \in CellSets[c]
    BY <1>2
  <2>2. c[1] \in Nat /\ c[2] \in Nat
        /\ NodeRank[node] = 2 * c[1] + (IF node.kind = "unit" THEN 1 ELSE 0)
    BY <1>1, <2>1
  <2>3. CASE node.kind = "token"
    <3>1. node.parts = <<c[2]>>
      BY <2>1, <2>3, NodeParts
    <3> QED
      BY <1>4, <2>2, <2>3, <3>1 DEF LeafRule
  <2>4. CASE node.kind = "unit"
    <3>1. /\ node.parts = <<node.parts[1]>> /\ node.parts[1] \in CellSets[c]
          /\ node.parts[1].kind # "unit"
      BY <2>1, <2>4, NodeParts
    <3>2. /\ node.parts[1] \in Nodes
          /\ NodeRank[node.parts[1]] = 2 * c[1]
      BY <1>1, <3>1
    <3> QED
      BY <1>4, <2>2, <2>4, <3>1, <3>2 DEF LeafRule
  <2>5. CASE node.kind = "bin"
    <3>1. PICK z \in Nat :
            /\ z < c[1]
            /\ <<z, c[2]>> \in Cells /\ <<c[1] - z - 1, z + c[2] + 1>> \in Cells
            /\ node.parts[1] \in CellSets[<<z, c[2]>>]
            /\ node.parts[2] \in CellSets[<<c[1] - z - 1, z + c[2] + 1>>]
            /\ node.parts = <<node.parts[1], node.parts[2]>>
      BY <2>1, <2>5, NodeParts
    <3>2. /\ node.parts[1] \in Nodes
          /\ NodeRank[node.parts[1]] = 2 * z + (IF node.parts[1].kind = "unit" THEN 1 ELSE 0)
      BY <1>1, <3>1
    <3>3. /\ node.parts[2] \in Nodes
          /\ NodeRank[node.parts[2]]
               = 2 * (c[1] - z - 1) + (IF node.parts[2].kind = "unit" THEN 1 ELSE 0)
      BY <1>1, <3>1
    <3>4. NodeRank[node] = 2 * c[1]
      BY <2>2, <2>5
    <3>5. NodeRank[node.parts[1]] < NodeRank[node]
      BY <2>2, <3>1, <3>2, <3>4
    <3>6. NodeRank[node.parts[2]] < NodeRank[node]
      BY <2>2, <3>1, <3>3, <3>4
    <3>7. Leaves[node] = Leaves[node.parts[1]] \o Leaves[node.parts[2]]
      BY <1>4, <2>5 DEF LeafRule
    <3> QED
      BY <2>5, <3>1, <3>2, <3>3, <3>5, <3>6, <3>7
  <2> QED
    BY <2>1, <2>3, <2>4, <2>5, NodeParts
<1> QED
  BY <1>3, <1>5, <1>6

\* The tree of a cell covers the cell's tokens.
LEMMA SpansCovered == CYKInv => TreesCoverTheirSpan
<1> SUFFICES ASSUME CYKInv PROVE TreesCoverTheirSpan
  OBVIOUS
<1>1. CallOK /\ FramesOK /\ UnwrittenEmpty /\ Size \in Nat
  BY SizeNat DEF CYKInv, LoopInv
<1>5. DOMAIN P = 0..(Size - 1)
  BY <1>1 DEF FramesOK
<1>6. ASSUME NEW x \in DOMAIN P, NEW y \in DOMAIN P, NEW m \in DOMAIN P[x][y]
      PROVE  Leaves[P[x][y][m]] = [p \in 1..(x + 1) |-> y + p - 1]
  <2>1. P[x][y] # <<>> /\ x \in 0..(Size - 1) /\ y \in 0..(Size - 1)
    BY <1>5, <1>6
  <2>2. x + y < Size
    BY <1>1, <2>1 DEF UnwrittenEmpty, Unwritten
  <2>3. <<x, y>> \in Cells
    BY <1>1, <2>1, <2>2 DEF Cells
  <2>4. P[x][y][m] \in CellSets[<<x, y>>]
    BY <2>3 DEF CellSets, Range
  <2> QED
    BY <2>3, <2>4, LeavesAreSpans DEF Span
<1> QED
  BY <1>6, Zenon DEF TreesCoverTheirSpan

\* Every tree in the matrix, at every moment of the loops, has the tokens of its
\* cell's span as its leaves, each once and from left to right.
THEOREM TreesAreOverTheirTokens == Spec => []TreesCoverTheirSpan
BY MembershipInvariant, SpansCovered, PTL

-----------------------------------------------------------------------------
(* The answer to a word that is no phrase.                                  *)

\* Numbers with a bound have a greatest one.
LEMMA GreatestNat ==
  ASSUME NEW n \in Nat, NEW T \in SUBSET (0..n), T # {}
  PROVE  \E x \in T : \A y \in T : y <= x
<1> DEFINE C == {n - x : x \in T}
<1>1. C \in SUBSET Nat /\ C # {}
  <2>1. \A x \in T : n - x \in Nat
    OBVIOUS
  <2>2. \E x \in T : n - x \in C
    OBVIOUS
  <2> QED
    BY <2>1, <2>2
<1>2. PICK z \in C : \A y \in C : z <= y
  <2> HIDE DEF C
  <2> QED
    BY <1>1, LeastNat
<1>3. PICK x \in T : z = n - x
  BY <1>2
<1>4. ASSUME NEW y \in T PROVE y <= x
  <2>1. n - y \in C
    OBVIOUS
  <2>2. n - x <= n - y /\ x \in Int /\ y \in Int
    BY <1>2, <1>3, <2>1
  <2> QED
    BY <2>2
<1> QED
  BY <1>4

\* getBrokenNodes' loops end at the last cell of the last row that holds one.
LEMMA LastParsedIsLast ==
  ASSUME CallOK, Parsed # {}
  PROVE  /\ LastParsed \in Parsed
         /\ \A d \in Parsed : \/ d[1] < LastParsed[1]
                              \/ d[1] = LastParsed[1] /\ d[2] <= LastParsed[2]
<1>1. Size \in Nat
  BY SizeNat
<1>2. \A c \in Parsed : /\ c = <<c[1], c[2]>>
                        /\ c[1] \in 0..(Size - 1) /\ c[2] \in 0..(Size - 1)
  BY DEF Parsed
<1>3. PICK e \in Parsed : TRUE
  OBVIOUS
<1>4. Size - 1 \in Nat
  BY <1>1, <1>2, <1>3
<1> DEFINE Rows == {c[1] : c \in Parsed}
<1>5. Rows \in SUBSET (0..(Size - 1)) /\ Rows # {}
  BY <1>2, <1>3
<1>6. PICK x \in Rows : \A y \in Rows : y <= x
  <2> HIDE DEF Rows
  <2> QED
    BY <1>4, <1>5, GreatestNat
<1>7. \A c \in Parsed : c[1] <= x
  BY <1>6
<1> DEFINE Places == {c[2] : c \in {d \in Parsed : d[1] = x}}
<1>8. Places \in SUBSET (0..(Size - 1)) /\ Places # {}
  BY <1>2, <1>6
<1>9. PICK z \in Places : \A y \in Places : y <= z
  <2> HIDE DEF Places
  <2> QED
    BY <1>4, <1>8, GreatestNat
<1>10. PICK c \in Parsed : c[1] = x /\ c[2] = z
  BY <1>9
<1>11. ASSUME NEW d \in Parsed PROVE d[1] < c[1] \/ (d[1] = c[1] /\ d[2] <= c[2])
  <2>1. d[1] <= x /\ d[1] \in Int /\ x \in Int
    BY <1>2, <1>7, <1>10
  <2>2. CASE d[1] = x
    BY <1>9, <1>10, <2>2
  <2> QED
    BY <1>10, <2>1, <2>2
<1> QED
  BY <1>10, <1>11 DEF LastParsed

\* What is returned is what the matrix says, and a finished call stays so.
BrokenKept == outcome = "broken" => pc = "done" /\ frame = BrokenFrame

\* No later step touches the answer or the matrix.
LEMMA BrokenStep == BrokenKept /\ [Next]_vars => BrokenKept'
<1> SUFFICES ASSUME BrokenKept, [Next]_vars, outcome' = "broken"
             PROVE  pc' = "done" /\ frame' = BrokenFrame'
  BY DEF BrokenKept
<1>1. ASSUME word' = word, P' = P PROVE BrokenFrame' = BrokenFrame
  BY <1>1 DEF BrokenFrame, LastParsed, Parsed, Size
<1>2. CASE UNCHANGED vars
  BY <1>1, <1>2 DEF vars, BrokenKept
<1>3. CASE Terminals
  BY <1>3 DEF Terminals, BrokenKept
<1>4. CASE FillSplit
  BY <1>4 DEF FillSplit, BrokenKept
<1>5. CASE ReturnAxiomNodes
  BY <1>5 DEF ReturnAxiomNodes, BrokenKept
<1>6. CASE ReadOutside
  BY <1>6 DEF ReadOutside
<1>7. CASE ReturnBrokenNodes
  BY <1>1, <1>7 DEF ReturnBrokenNodes, input
<1> QED
  BY <1>2, <1>3, <1>4, <1>5, <1>6, <1>7 DEF Next

\* So the first tree that is returned is over the longest span that was built,
\* and over the last of these.
LEMMA LongestReturned == CYKInv /\ BrokenKept => BrokenIsLastLongest
<1> SUFFICES ASSUME CYKInv, BrokenKept, outcome = "broken", frame # <<>>
             PROVE  LET leaves == Leaves[frame[1]]
                    IN  \A x, y \in DOMAIN P : P[x][y] # <<>> =>
                          \/ Len(leaves) > x + 1
                          \/ Len(leaves) = x + 1 /\ leaves[1] >= y
  BY DEF BrokenIsLastLongest
<1>1. CallOK /\ FramesOK /\ UnwrittenEmpty /\ Size \in Nat
  BY SizeNat DEF CYKInv, LoopInv
<1>2. frame = BrokenFrame /\ Parsed # {}
  BY DEF BrokenKept, BrokenFrame
<1> DEFINE a == LastParsed[1]
           b == LastParsed[2]
<1>3. LastParsed \in Parsed
  BY <1>1, <1>2, LastParsedIsLast
<1>4. a \in 0..(Size - 1) /\ b \in 0..(Size - 1) /\ P[a][b] # <<>>
  BY <1>3 DEF Parsed
<1>5. \A d \in Parsed : d[1] < a \/ (d[1] = a /\ d[2] <= b)
  BY <1>1, <1>2, LastParsedIsLast
<1>6. frame[1] = P[a][b][1] /\ 1 \in DOMAIN P[a][b]
  <2> DEFINE rest == IF b > 0 THEN <<P[0][b - 1][1]>> ELSE <<>>
  <2>1. frame = P[a][b] \o rest
    BY <1>2 DEF BrokenFrame
  <2>2. P[a][b] \in Seq(Range(P[a][b]))
    BY <1>1, <1>4 DEF FramesOK, IsFrame
  <2>3. rest = <<>> \/ rest = <<P[0][b - 1][1]>>
    OBVIOUS
  <2> HIDE DEF rest, a, b
  <2> QED
    BY <1>4, <2>1, <2>2, <2>3
<1>7. <<a, b>> \in Cells
  <2>1. a + b < Size
    BY <1>1, <1>4 DEF UnwrittenEmpty, Unwritten
  <2> QED
    BY <1>1, <1>4, <2>1 DEF Cells
<1>8. frame[1] \in CellSets[<<a, b>>]
  BY <1>6, <1>7 DEF CellSets, Range
<1>9. Leaves[frame[1]] = Span(<<a, b>>)
  BY <1>7, <1>8, LeavesAreSpans
<1>10. Len(Span(<<a, b>>)) = a + 1 /\ Span(<<a, b>>)[1] = b
  BY <1>4 DEF Span
<1>11. ASSUME NEW x \in 0..(Size - 1), NEW y \in 0..(Size - 1), P[x][y] # <<>>
       PROVE  a + 1 > x + 1 \/ (a + 1 = x + 1 /\ b >= y)
  <2>1. <<x, y>> \in Parsed
    BY <1>11 DEF Parsed
  <2>2. x < a \/ (x = a /\ y <= b)
    BY <1>5, <2>1
  <2> QED
    BY <1>1, <1>4, <2>2
<1>12. DOMAIN P = 0..(Size - 1)
  BY <1>1 DEF FramesOK
<1> HIDE DEF a, b
<1> QED
  BY <1>9, <1>10, <1>11, <1>12

\* The tree that stands first in the answer to a word that is no phrase covers
\* the longest part that was parsed, and of those the one furthest right.
THEOREM BrokenAnswerIsLongest == Spec => []BrokenIsLastLongest
<1>1. Init => BrokenKept
  BY DEF Init, BrokenKept
<1>2. Spec => []BrokenKept
  BY <1>1, BrokenStep, PTL DEF Spec
<1> QED
  BY <1>2, MembershipInvariant, LongestReturned, PTL

-----------------------------------------------------------------------------
(* No tree twice.                                                           *)

\* No frame holds a node twice.
FramesDistinct == \A x, y \in 0..(Size - 1) : Distinct(P[x][y])

\* The cell that is being filled holds what the splits before made.
EarlierSplits ==
  pc = "table" =>
    \A node \in Range(P[l][i]) : node.kind = "bin" =>
      \E j \in 0..(k - 1) : <<j, i>> \in Cells /\ node.parts[1] \in CellSets[<<j, i>>]

\* The invariant behind it.
OnceInv == Unrepeated(rules) /\ FramesDistinct /\ EarlierSplits

\* What one split makes is new in its cell.
LEMMA SplitIsNew ==
  ASSUME CYKInv, OnceInv, pc = "table", NEW bins,
         Range(bins) = Table!BinNodes(Range(P[k][i]), Range(P[l - k - 1][k + i + 1])),
         NEW node \in Table!WithUnits(Range(bins))
  PROVE  node \notin Range(P[l][i])
<1>1. /\ CallOK /\ Size \in Nat /\ l \in Nat /\ i \in Nat /\ k \in Nat
      /\ l >= 1 /\ i + l < Size /\ k < l
  BY SizeNat DEF CYKInv, LoopInv, LoopsOK
<1>2. <<l, i>> \in Cells /\ <<k, i>> \in Cells
  BY <1>1 DEF Cells
<1>3. /\ CellSets[<<l, i>>] = Range(P[l][i])
      /\ CellSets[<<k, i>>] = Range(P[k][i])
  BY <1>2 DEF CellSets
<1>4. ASSUME NEW x \in Range(bins) PROVE x.kind = "bin" /\ x \notin Range(P[l][i])
  <2>1. PICK a \in Range(P[k][i]), b \in Range(P[l - k - 1][k + i + 1]) : x \in Over(a, b)
    BY <1>4, BinNodesOfPairs
  <2>2. x.kind = "bin" /\ x.parts = <<a, b>>
    BY <2>1, BinNodeParts
  <2>3. ASSUME x \in Range(P[l][i]) PROVE FALSE
    <3>1. PICK j \in 0..(k - 1) : <<j, i>> \in Cells /\ x.parts[1] \in CellSets[<<j, i>>]
      BY <2>2, <2>3 DEF OnceInv, EarlierSplits
    <3>2. a \in CellSets[<<j, i>>] /\ a \in CellSets[<<k, i>>]
      BY <1>3, <2>1, <2>2, <3>1
    <3>3. <<j, i>> = <<k, i>>
      BY <1>2, <3>1, <3>2, NodesOfCells
    <3> QED
      BY <1>1, <3>3
  <2> QED
    BY <2>2, <2>3
<1>5. CASE node \in Range(bins)
  BY <1>4, <1>5
<1>6. CASE node \notin Range(bins)
  <2>1. PICK name \in DOMAIN unit, base \in Range(bins) :
          node = Table!UnitNode(name, base)
    BY <1>6, Table!WithUnitsNodes, NamesAssumption, TableInputs
  <2>2. node.kind = "unit" /\ node.parts[1] = base
    BY <2>1 DEF Table!UnitNode
  <2>3. ASSUME node \in Range(P[l][i]) PROVE FALSE
    <3>1. node \in CellSets[<<l, i>>]
      BY <1>3, <2>3
    <3>2. node.parts[1] \in CellSets[<<l, i>>]
      BY <1>2, <2>2, <3>1, NodeParts
    <3> QED
      BY <1>3, <1>4, <2>1, <2>2, <3>2
  <2> QED
    BY <2>3
<1> QED
  BY <1>5, <1>6

\* A loop that comes to a new cell finds it empty.
LEMMA NewCellEmpty ==
  ASSUME LoopInv, pc = "table", k = 0
  PROVE  Range(P[l][i]) = {}
<1>1. /\ Size \in Nat /\ l \in 0..(Size - 1) /\ i \in 0..(Size - 1) /\ UnwrittenEmpty
  BY SizeNat DEF LoopInv, LoopsOK
<1>2. P[l][i] = <<>>
  BY <1>1 DEF UnwrittenEmpty, Unwritten
<1> QED
  BY <1>2, EmptyFrame

\* The nodes of a token are different: one for each name.
LEMMA TerminalsOnce ==
  ASSUME CYKInv, OnceInv, Terminals, CYKInv'
  PROVE  OnceInv'
<1> DEFINE tokens == GetTerminal(i)
           new    == WithUnits(tokens)
<1>1. /\ CallOK /\ FramesOK /\ Size \in Nat /\ pc = "terminals" /\ i \in Nat /\ i < Size
  BY SizeNat DEF CYKInv, LoopInv, LoopsOK, Terminals
<1>2. /\ P' = [P EXCEPT ![0][i] = new]
      /\ rules' = rules /\ word' = word /\ k' = k
      /\ pc' = "table" => l' = 1 /\ i' = 0
  BY <1>1 DEF Terminals, input
<1>3. IsFrame(tokens) /\ Distinct(tokens) /\ Range(tokens) = Table!TokenNodes(i)
  BY <1>1, TerminalFrame DEF OnceInv
<1>4. \A node \in Table!TokenNodes(i) : node.kind # "unit"
  BY DEF Table!TokenNodes, Table!TokenNode
<1> HIDE DEF tokens
<1>5. IsFrame(new) /\ Distinct(new)
  BY <1>1, <1>3, <1>4, WithUnitsFrame
<1> HIDE DEF new
<1>6. Writes(0, i, new) /\ 0 \in 0..(Size - 1) /\ i \in 0..(Size - 1) /\ Size' = Size
  BY <1>1, <1>2 DEF Writes, Size
<1>7. /\ P'[0][i] = new
      /\ \A a, b \in 0..(Size - 1) : (a # 0 \/ b # i) => P'[a][b] = P[a][b]
  BY <1>1, <1>2, <1>5, <1>6, OneFrameChanges
<1>8. FramesDistinct'
  BY <1>5, <1>6, <1>7 DEF OnceInv, FramesDistinct, Distinct
<1>9. EarlierSplits'
  <2> SUFFICES ASSUME pc' = "table" PROVE Range(P'[l'][i']) = {}
    BY DEF EarlierSplits, Range
  <2>1. k' = 0
    BY <1>1, <1>2 DEF CYKInv, LoopInv, LoopsOK
  <2>2. LoopInv'
    BY DEF CYKInv
  <2>3. (LoopInv /\ pc = "table" /\ k = 0 => Range(P[l][i]) = {})'
    BY NewCellEmpty, PTL
  <2> QED
    BY <2>1, <2>2, <2>3 DEF Range
<1> QED
  BY <1>2, <1>8, <1>9 DEF OnceInv, Unrepeated

\* The nodes of a split differ from each other and from those of the splits
\* before, since their left parts stand in different cells.
LEMMA FillSplitOnce ==
  ASSUME CYKInv, OnceInv, FillSplit, CYKInv'
  PROVE  OnceInv'
<1> DEFINE A    == P[k][i]
           B    == P[l - k - 1][k + i + 1]
           bins == GetBinProductions(A, B)
           more == WithUnits(bins)
           f    == P[l][i] \o more
<1>1. /\ CallOK /\ FramesOK /\ Size \in Nat /\ pc = "table"
      /\ l \in Nat /\ i \in Nat /\ k \in Nat
      /\ l >= 1 /\ i + l < Size /\ k < l
  BY SizeNat DEF CYKInv, LoopInv, LoopsOK, FillSplit
<1>2. /\ P' = [P EXCEPT ![l][i] = @ \o more]
      /\ rules' = rules /\ word' = word
      /\ NextSplit
  BY DEF FillSplit, input
<1>3. /\ l \in 0..(Size - 1) /\ i \in 0..(Size - 1) /\ k \in 0..(Size - 1)
      /\ (l - k - 1) \in 0..(Size - 1) /\ (k + i + 1) \in 0..(Size - 1)
  BY <1>1
<1>4. /\ IsFrame(A) /\ IsFrame(B) /\ IsFrame(P[l][i])
      /\ Distinct(A) /\ Distinct(B) /\ Distinct(P[l][i])
  BY <1>1, <1>3 DEF FramesOK, OnceInv, FramesDistinct
<1>5. /\ IsFrame(bins) /\ Distinct(bins)
      /\ Range(bins) = Table!BinNodes(Range(A), Range(B))
  BY <1>1, <1>4, BinsFrame DEF OnceInv
<1>6. \A node \in Range(bins) : node.kind = "bin" /\ node.parts[1] \in Range(A)
  <2> SUFFICES ASSUME NEW node \in Range(bins)
               PROVE  node.kind = "bin" /\ node.parts[1] \in Range(A)
    OBVIOUS
  <2> HIDE DEF A, B, bins
  <2>1. PICK a \in Range(A), b \in Range(B) : node \in Over(a, b)
    BY <1>5, BinNodesOfPairs
  <2>2. node.kind = "bin" /\ node.parts = <<a, b>>
    BY <2>1, BinNodeParts
  <2> QED
    BY <2>2
<1>7. \A node \in Table!WithUnits(Range(bins)) : node \notin Range(P[l][i])
  BY <1>1, <1>5, SplitIsNew
<1> HIDE DEF bins
<1>8. /\ IsFrame(more) /\ Distinct(more)
      /\ Range(more) = Table!WithUnits(Range(bins))
  BY <1>1, <1>5, <1>6, WithUnitsFrame
<1> HIDE DEF more
<1>9. IsFrame(f) /\ Range(f) = Range(P[l][i]) \cup Range(more)
  BY <1>4, <1>8, FrameConcat
<1>10. Distinct(f)
  <2> DEFINE T == Range(P[l][i]) \cup Range(more)
  <2>1. P[l][i] \in Seq(Range(P[l][i])) /\ more \in Seq(Range(more))
    BY <1>4, <1>8 DEF IsFrame
  <2>2. Range(P[l][i]) \subseteq T /\ Range(more) \subseteq T
    OBVIOUS
  <2>3. \A x \in Range(P[l][i]) : x \notin Range(more)
    BY <1>7, <1>8
  <2> HIDE DEF T
  <2>4. P[l][i] \in Seq(T) /\ more \in Seq(T)
    BY <2>1, <2>2, SeqWider
  <2> QED
    BY <1>4, <1>8, <2>3, <2>4, DistinctConcat
<1>11. Writes(l, i, f)
  BY <1>1, <1>2, <1>3 DEF Writes, FramesOK
<1> HIDE DEF f
<1>12. /\ P'[l][i] = f
       /\ \A a, b \in 0..(Size - 1) : (a # l \/ b # i) => P'[a][b] = P[a][b]
  BY <1>1, <1>2, <1>3, <1>9, <1>11, OneFrameChanges
<1>13. Size' = Size /\ Cells' = Cells
  BY <1>2 DEF Size, Cells
<1>14. FramesDistinct'
  BY <1>3, <1>10, <1>12, <1>13 DEF OnceInv, FramesDistinct, Distinct
<1>15. \/ k + 1 < l /\ k' = k + 1 /\ l' = l /\ i' = i
       \/ k' = 0
  BY <1>2, NextSplitCases
<1>16. CASE k' = 0
  <2>1. (LoopInv /\ pc = "table" /\ k = 0 => Range(P[l][i]) = {})'
    BY NewCellEmpty, PTL
  <2>2. pc' = "table" => Range(P'[l'][i']) = {}
    BY <1>16, <2>1 DEF CYKInv, Range
  <2>3. EarlierSplits'
    BY <2>2 DEF EarlierSplits, Range
  <2> QED
    BY <1>2, <1>14, <2>3 DEF OnceInv, Unrepeated
<1>17. CASE k + 1 < l /\ k' = k + 1 /\ l' = l /\ i' = i
  <2>1. ASSUME NEW c \in Cells, c[1] < l PROVE CellSets'[c] = CellSets[c]
    <3>1. c[1] \in 0..(Size - 1) /\ c[2] \in 0..(Size - 1) /\ c[1] # l
      BY <1>1, <2>1, CellNumbers
    <3>2. P'[c[1]][c[2]] = P[c[1]][c[2]]
      BY <1>12, <3>1
    <3> QED
      BY <1>13, <3>2 DEF CellSets, Range
  <2>2. ASSUME NEW node \in Range(f), node.kind = "bin"
        PROVE  \E j \in 0..k : <<j, i>> \in Cells /\ node.parts[1] \in CellSets'[<<j, i>>]
    <3>1. CASE node \in Range(P[l][i])
      <4>1. PICK j \in 0..(k - 1) : <<j, i>> \in Cells /\ node.parts[1] \in CellSets[<<j, i>>]
        BY <1>1, <2>2, <3>1 DEF OnceInv, EarlierSplits
      <4>2. j < l /\ j \in 0..k
        BY <1>1
      <4>3. CellSets'[<<j, i>>] = CellSets[<<j, i>>]
        BY <2>1, <4>1, <4>2
      <4> QED
        BY <4>1, <4>2, <4>3
    <3>2. CASE node \notin Range(P[l][i])
      <4>1. node \in Table!WithUnits(Range(bins))
        BY <1>8, <1>9, <2>2, <3>2
      <4>2. node \in Range(bins)
        <5> SUFFICES ASSUME node \notin Range(bins) PROVE FALSE
          OBVIOUS
        <5>1. PICK name \in DOMAIN unit, base \in Range(bins) :
                node = Table!UnitNode(name, base)
          BY <4>1, Table!WithUnitsNodes, NamesAssumption, TableInputs
        <5> QED
          BY <2>2, <5>1 DEF Table!UnitNode
      <4>3. <<k, i>> \in Cells
        BY <1>1 DEF Cells
      <4>4. CellSets[<<k, i>>] = Range(A)
        BY <4>3 DEF CellSets
      <4>5. CellSets'[<<k, i>>] = CellSets[<<k, i>>]
        BY <1>1, <2>1, <4>3
      <4>6. node.parts[1] \in CellSets'[<<k, i>>]
        BY <1>6, <4>2, <4>4, <4>5
      <4> QED
        BY <1>1, <4>3, <4>6
    <3> QED
      BY <3>1, <3>2
  <2>3. k' - 1 = k
    BY <1>1, <1>17
  <2>4. EarlierSplits'
    BY <1>12, <1>13, <1>17, <2>2, <2>3 DEF EarlierSplits, Range
  <2> QED
    BY <1>2, <1>14, <2>4 DEF OnceInv, Unrepeated
<1> QED
  BY <1>15, <1>16, <1>17

\* The invariant is inductive.
LEMMA OnceStep == CYKInv /\ OnceInv /\ [Next]_vars => OnceInv'
<1> SUFFICES ASSUME CYKInv, OnceInv, [Next]_vars PROVE OnceInv'
  OBVIOUS
<1>1. CYKInv'
  BY CYKStep
<1>2. ASSUME rules' = rules, word' = word, P' = P, l' = l, i' = i, k' = k,
             pc' = pc \/ pc' = "done"
      PROVE  OnceInv'
  <2>1. Size' = Size /\ Cells' = Cells
    BY <1>2 DEF Size, Cells
  <2>2. CellSets' = CellSets
    BY <1>2, <2>1 DEF CellSets, Range
  <2>3. FramesDistinct' /\ Unrepeated(rules)'
    BY <1>2, <2>1 DEF OnceInv, FramesDistinct, Distinct, Unrepeated
  <2>4. EarlierSplits'
    BY <1>2, <2>1, <2>2 DEF OnceInv, EarlierSplits, Range
  <2> QED
    BY <2>3, <2>4 DEF OnceInv
<1>3. CASE UNCHANGED vars
  BY <1>2, <1>3 DEF vars
<1>4. CASE Terminals
  BY <1>1, <1>4, TerminalsOnce
<1>5. CASE FillSplit
  BY <1>1, <1>5, FillSplitOnce
<1>6. CASE ReturnAxiomNodes
  BY <1>2, <1>6 DEF ReturnAxiomNodes, input, loop
<1>7. CASE ReturnBrokenNodes
  BY <1>2, <1>7 DEF ReturnBrokenNodes, input, loop
<1>8. CASE ReadOutside
  BY <1>2, <1>8 DEF ReadOutside, input, loop
<1> QED
  BY <1>3, <1>4, <1>5, <1>6, <1>7, <1>8 DEF Next

\* Every frame of the matrix holds a tree once, when no alternative of a rule is
\* written twice: splits, rules and unit edges never build the same tree again.
\* The hypothesis is needed, since a node is pushed for every alternative.
THEOREM TreesAreBuiltOnce ==
  ASSUME \A x \in Inputs : Unrepeated(x.rules)
  PROVE  Spec => []NoTreeTwice
<1>1. Init => OnceInv
  <2> SUFFICES ASSUME Init PROVE OnceInv
    OBVIOUS
  <2>1. Unrepeated(rules)
    BY DEF Init
  <2>2. FramesDistinct
    BY EmptyFrame DEF Init, FramesDistinct
  <2>3. EarlierSplits
    BY DEF Init, EarlierSplits
  <2> QED
    BY <2>1, <2>2, <2>3 DEF OnceInv
<1>2. CYKInv /\ OnceInv => NoTreeTwice
  <2> SUFFICES ASSUME CYKInv, OnceInv PROVE \A g \in Frames : Distinct(g)
    BY DEF NoTreeTwice, Distinct
  <2>1. DOMAIN P = 0..(Size - 1)
    BY DEF CYKInv, LoopInv, FramesOK
  <2> QED
    BY <2>1 DEF Frames, OnceInv, FramesDistinct
<1>3. Spec => []OnceInv
  BY <1>1, OnceStep, MembershipInvariant, PTL DEF Spec
<1> QED
  BY <1>2, <1>3, MembershipInvariant, PTL

-----------------------------------------------------------------------------
(* What a caller reads of the chart and of the frame.                       *)

\* The rule, or the unit edge, that a node was made with.
LEMMA NodeRules ==
  ASSUME CYKInv, NEW c \in Cells, NEW node \in CellSets[c]
  PROVE  \/ /\ node.kind = "token" /\ c[1] = 0 /\ node.nodetype \in DOMAIN rules
            /\ <<TerminalOperand(word[c[2] + 1])>> \in Alternatives(rules, node.nodetype)
         \/ /\ node.kind = "bin" /\ node.nodetype \in DOMAIN rules
            /\ \E z \in Nat :
                 /\ z < c[1]
                 /\ <<z, c[2]>> \in Cells /\ <<c[1] - z - 1, z + c[2] + 1>> \in Cells
                 /\ \E a \in CellSets[<<z, c[2]>>],
                       b \in CellSets[<<c[1] - z - 1, z + c[2] + 1>>] :
                      \E rule \in Alternatives(rules, node.nodetype) :
                        /\ Len(rule) > 1
                        /\ rule[1].value = a.nodetype /\ rule[2].value = b.nodetype
         \/ /\ node.kind = "unit" /\ node.nodetype \in DOMAIN unit
            /\ \E base \in CellSets[c] :
                 base.kind # "unit" /\ base.nodetype \in unit[node.nodetype]
<1>1. Table!GroundedNode(node, c)
  BY SameSets DEF CYKInv, Table!ChartInv, Table!Grounded
<1>2. CASE node.kind = "token"
  <2>1. PICK rule \in Table!Alternatives(rules, node.nodetype) :
          Table!Produces(rule, word[c[2] + 1])
    BY <1>1, <1>2 DEF Table!GroundedNode
  <2>2. rule = <<TerminalOperand(word[c[2] + 1])>>
    BY <2>1 DEF Table!Produces, Table!TerminalOperand, TerminalOperand
  <2> QED
    BY <1>1, <1>2, <2>2, SameNodes DEF Table!GroundedNode
<1>3. CASE node.kind = "unit"
  BY <1>1, <1>3 DEF Table!GroundedNode
<1>4. CASE node.kind = "bin"
  <2>1. PICK t \in Table!TasksOf(c) \cap Table!CombineTasks :
          \E a \in CellSets[Table!Left(t)], b \in CellSets[Table!Right(t)] :
            \E rule \in Table!Alternatives(rules, node.nodetype) : Table!Joins(rule, a, b)
    BY <1>1, <1>4 DEF Table!GroundedNode
  <2>2. PICK a \in CellSets[Table!Left(t)], b \in CellSets[Table!Right(t)] :
          \E rule \in Table!Alternatives(rules, node.nodetype) : Table!Joins(rule, a, b)
    BY <2>1
  <2>3. PICK rule \in Alternatives(rules, node.nodetype) :
          Len(rule) > 1 /\ rule[1].value = a.nodetype /\ rule[2].value = b.nodetype
    BY <2>2, SameNodes DEF Table!Joins
  <2>4. Table!Left(t) \in Cells /\ Table!Right(t) \in Cells
    BY Table!CombineCells, NamesAssumption, TableInputs, SameSets
       DEF CYKInv, LoopInv, CallOK
  <2>5. t[1] = c[1] /\ t[2] = c[2]
    BY DEF Table!TasksOf
  <2>6. t[3] \in Nat /\ t[3] < t[1]
    BY DEF Table!CombineTasks
  <2>7. Table!Left(t) = <<t[3], c[2]>> /\ Table!Right(t) = <<c[1] - t[3] - 1, t[3] + c[2] + 1>>
    BY <2>5 DEF Table!Left, Table!Right
  <2>8. node.nodetype \in DOMAIN rules
    BY <1>1, <1>4 DEF Table!GroundedNode
  <2> QED
    BY <1>4, <2>2, <2>3, <2>4, <2>5, <2>6, <2>7, <2>8
<1> QED
  BY <1>1, <1>2, <1>3, <1>4 DEF Table!GroundedNode

\* The rules, or the unit edge, that the names of a node and of its parts come from.
LEMMA PartNames ==
  ASSUME CYKInv, NEW node \in Nodes
  PROVE  \/ /\ node.kind = "token" /\ node.nodetype \in DOMAIN rules
            /\ \E t \in Terminal : <<TerminalOperand(t)>> \in Alternatives(rules, node.nodetype)
         \/ /\ node.kind = "bin" /\ node.nodetype \in DOMAIN rules
            /\ \E rule \in Alternatives(rules, node.nodetype) :
                 /\ Len(rule) > 1
                 /\ rule[1].value = node.parts[1].nodetype
                 /\ rule[2].value = node.parts[2].nodetype
         \/ /\ node.kind = "unit" /\ node.nodetype \in DOMAIN unit
            /\ node.parts[1].nodetype \in unit[node.nodetype]
<1>1. PICK c \in Cells : node \in CellSets[c]
  BY NodesOfCells
<1>2. Table!GroundedNode(node, c)
  BY <1>1, SameSets DEF CYKInv, Table!ChartInv, Table!Grounded
<1>3. CASE node.kind = "token"
  <2>1. /\ node.nodetype \in DOMAIN rules /\ c[1] = 0
        /\ <<TerminalOperand(word[c[2] + 1])>> \in Alternatives(rules, node.nodetype)
    BY <1>1, <1>3, NodeRules
  <2>2. c[1] \in Nat /\ c[2] \in Nat /\ c[1] + c[2] < Size /\ Size \in Nat
        /\ word \in Seq(Terminal)
    BY CellNumbers DEF CYKInv, LoopInv, CallOK
  <2>3. word[c[2] + 1] \in Terminal
    BY <2>1, <2>2 DEF Size
  <2> QED
    BY <1>3, <2>1, <2>3
<1>4. CASE node.kind = "unit"
  BY <1>2, <1>4 DEF Table!GroundedNode, Table!UnitNode
<1>5. CASE node.kind = "bin"
  <2>1. PICK t \in Table!TasksOf(c) \cap Table!CombineTasks :
          \E a \in CellSets[Table!Left(t)], b \in CellSets[Table!Right(t)] :
            /\ node = Table!BinNode(node.nodetype, a, b)
            /\ \E rule \in Table!Alternatives(rules, node.nodetype) : Table!Joins(rule, a, b)
    BY <1>2, <1>5 DEF Table!GroundedNode
  <2>2. PICK a \in CellSets[Table!Left(t)], b \in CellSets[Table!Right(t)] :
          /\ node = Table!BinNode(node.nodetype, a, b)
          /\ \E rule \in Table!Alternatives(rules, node.nodetype) : Table!Joins(rule, a, b)
    BY <2>1
  <2>3. node.parts[1] = a /\ node.parts[2] = b
    BY <2>2 DEF Table!BinNode
  <2>4. PICK rule \in Alternatives(rules, node.nodetype) :
          Len(rule) > 1 /\ rule[1].value = a.nodetype /\ rule[2].value = b.nodetype
    BY <2>2, SameNodes DEF Table!Joins
  <2>5. node.nodetype \in DOMAIN rules
    BY <1>2, <1>5 DEF Table!GroundedNode
  <2> QED
    BY <1>5, <2>3, <2>4, <2>5
<1> QED
  BY <1>2, <1>3, <1>4, <1>5 DEF Table!GroundedNode

\* Triples of a name and the two ends of a span that no rule and no unit edge of
\* the parser leads out of.
KeptByRules(R) ==
  /\ \A name \in DOMAIN rules : \A y \in 0..(Size - 1) :
       <<TerminalOperand(word[y + 1])>> \in Alternatives(rules, name) => <<name, y, y + 1>> \in R
  /\ \A name \in DOMAIN rules : \A rule \in Alternatives(rules, name) :
       \A from, mid, to \in 0..Size :
         (/\ Len(rule) > 1 /\ from <= mid /\ mid <= to
          /\ <<rule[1].value, from, mid>> \in R /\ <<rule[2].value, mid, to>> \in R)
           => <<name, from, to>> \in R
  /\ \A name \in DOMAIN unit : \A m \in unit[name] : \A from, to \in 0..Size :
       (from <= to /\ <<m, from, to>> \in R) => <<name, from, to>> \in R

\* The triple of a node.
Fact(c, node) == <<node.nodetype, c[2], c[1] + c[2] + 1>>

\* Every node of the chart is in such a set: the chart derives only what its
\* rules and its unit relation do.
LEMMA ChartWithin ==
  ASSUME CYKInv, NEW R, KeptByRules(R)
  PROVE  \A c \in Cells : \A node \in CellSets[c] : Fact(c, node) \in R
<1>1. \A c \in Cells :
        /\ c = <<c[1], c[2]>> /\ c[1] \in Nat /\ c[2] \in Nat
        /\ c[1] + c[2] < Size /\ Size \in Nat
  BY CellNumbers DEF CYKInv, LoopInv
<1> DEFINE Below(n) == \A c \in Cells : c[1] < n => \A node \in CellSets[c] : Fact(c, node) \in R
           S == {n \in Nat : Below(n)}
<1>2. 0 \in S
  BY <1>1
<1>3. ASSUME NEW n \in Nat, n \in S PROVE n + 1 \in S
  <2>1. ASSUME NEW c \in Cells, c[1] < n + 1, NEW node \in CellSets[c], node.kind # "unit"
        PROVE  Fact(c, node) \in R
    <3>1. /\ c[1] \in Nat /\ c[2] \in Nat /\ c[1] + c[2] < Size /\ Size \in Nat
          /\ \A d \in Cells : d[1] < c[1] => \A x \in CellSets[d] : Fact(d, x) \in R
      BY <1>1, <1>3, <2>1
    <3>2. CASE node.kind = "token"
      <4>1. /\ c[1] = 0 /\ node.nodetype \in DOMAIN rules
            /\ <<TerminalOperand(word[c[2] + 1])>> \in Alternatives(rules, node.nodetype)
        BY <3>2, NodeRules
      <4>2. c[2] \in 0..(Size - 1) /\ c[1] + c[2] + 1 = c[2] + 1
        BY <3>1, <4>1
      <4> QED
        BY <4>1, <4>2 DEF KeptByRules, Fact
    <3>3. CASE node.kind = "bin"
      <4>1. PICK z \in Nat :
              /\ node.nodetype \in DOMAIN rules
              /\ z < c[1]
              /\ <<z, c[2]>> \in Cells /\ <<c[1] - z - 1, z + c[2] + 1>> \in Cells
              /\ \E a \in CellSets[<<z, c[2]>>],
                    b \in CellSets[<<c[1] - z - 1, z + c[2] + 1>>] :
                   \E rule \in Alternatives(rules, node.nodetype) :
                     /\ Len(rule) > 1
                     /\ rule[1].value = a.nodetype /\ rule[2].value = b.nodetype
        BY <3>3, NodeRules
      <4> DEFINE d == <<z, c[2]>>
                 e == <<c[1] - z - 1, z + c[2] + 1>>
      <4>2. PICK a \in CellSets[d], b \in CellSets[e] :
              \E rule \in Alternatives(rules, node.nodetype) :
                Len(rule) > 1 /\ rule[1].value = a.nodetype /\ rule[2].value = b.nodetype
        BY <4>1
      <4>3. PICK rule \in Alternatives(rules, node.nodetype) :
              Len(rule) > 1 /\ rule[1].value = a.nodetype /\ rule[2].value = b.nodetype
        BY <4>2
      <4>4. /\ d \in Cells /\ d[1] < c[1] /\ d[1] = z /\ d[2] = c[2]
            /\ e \in Cells /\ e[1] < c[1] /\ e[1] = c[1] - z - 1 /\ e[2] = z + c[2] + 1
        BY <3>1, <4>1
      <4> HIDE DEF d, e
      <4>5. Fact(d, a) \in R /\ Fact(e, b) \in R
        BY <3>1, <4>4
      <4> DEFINE mid == z + c[2] + 1
                 to == c[1] + c[2] + 1
      <4>6. /\ c[2] \in 0..Size /\ mid \in 0..Size /\ to \in 0..Size
            /\ c[2] <= mid /\ mid <= to
            /\ e[1] + e[2] + 1 = to
        BY <3>1, <4>1, <4>4
      <4>7. Fact(d, a) = <<a.nodetype, c[2], mid>> /\ Fact(e, b) = <<b.nodetype, mid, to>>
        BY <4>4, <4>6 DEF Fact
      <4> HIDE DEF mid, to
      <4>8. <<node.nodetype, c[2], to>> \in R
        BY <4>1, <4>3, <4>5, <4>6, <4>7 DEF KeptByRules
      <4> QED
        BY <4>8 DEF Fact, to
    <3> QED
      BY <2>1, <3>2, <3>3, NodeRules
  <2>2. ASSUME NEW c \in Cells, c[1] < n + 1, NEW node \in CellSets[c], node.kind = "unit"
        PROVE  Fact(c, node) \in R
    <3>1. PICK base \in CellSets[c] :
            /\ node.nodetype \in DOMAIN unit
            /\ base.kind # "unit" /\ base.nodetype \in unit[node.nodetype]
      BY <2>2, NodeRules
    <3>2. Fact(c, base) \in R
      BY <2>1, <2>2, <3>1
    <3>3. c[2] \in 0..Size /\ c[1] + c[2] + 1 \in 0..Size /\ c[2] <= c[1] + c[2] + 1
      BY <1>1
    <3> QED
      BY <3>1, <3>2, <3>3 DEF KeptByRules, Fact
  <2> QED
    BY <2>1, <2>2
<1>4. Nat \subseteq S
  <2> HIDE DEF S
  <2> QED
    BY <1>2, <1>3, AllNat
<1> QED
  <2> SUFFICES ASSUME NEW c \in Cells, NEW node \in CellSets[c] PROVE Fact(c, node) \in R
    OBVIOUS
  <2>1. c[1] + 1 \in Nat /\ c[1] < c[1] + 1
    BY <1>1
  <2>2. Below(c[1] + 1)
    BY <1>4, <2>1
  <2> HIDE DEF S
  <2> QED
    BY <2>1, <2>2

\* Every node has a name of the grammar.
LEMMA NodesAreNamed ==
  ASSUME CYKInv, NEW c \in Cells, NEW node \in CellSets[c]
  PROVE  node.nodetype \in Name
<1>1. node.nodetype \in DOMAIN rules \cup DOMAIN unit
  BY NodeRules
<1>2. Range(KeyOrder) \subseteq Name
  BY KeyOrderAssumption DEF Range
<1> QED
  BY <1>1, <1>2 DEF CYKInv, LoopInv, CallOK

\* Every node is a record.
LEMMA NodesAreRecords ==
  ASSUME CYKInv, NEW c \in Cells, NEW node \in CellSets[c]
  PROVE  DOMAIN node = {"nodetype", "kind", "parts"}
<1>1. Table!GroundedNode(node, c)
  BY SameSets DEF CYKInv, Table!ChartInv, Table!Grounded
<1>2. \E x, y, z : node \in {Table!TokenNode(x, y), Table!UnitNode(x, y), Table!BinNode(x, y, z)}
  BY <1>1 DEF Table!GroundedNode
<1> QED
  BY <1>2 DEF Table!TokenNode, Table!UnitNode, Table!BinNode

\* What is returned: nodes of the chart, those over the whole word if it says so.
\* Without an answer a token was not recognised, or there is no word or no axiom.
FrameOK ==
  /\ outcome \in {"none", "whole", "broken", "throws", "undefined"}
  /\ pc # "done" => frame = <<>> /\ outcome = "none"
  /\ IsFrame(frame)
  /\ \A node \in Range(frame) : \E c \in Cells : node \in CellSets[c]
  /\ outcome = "whole" =>
       /\ word # <<>> /\ HasAxiomSymbol
       /\ \A node \in Range(frame) :
            node \in CellSets[<<Size - 1, 0>>] /\ node.nodetype \in {<<Axiom>>, AxiomSymbol}
  /\ outcome = "throws" => \E y \in 0..(Size - 1) : P[0][y] = <<>>
  /\ outcome = "undefined" => word = <<>> \/ ~ HasAxiomSymbol

LEMMA FreshFrame == Fresh => FrameOK
BY EmptyFrame DEF Fresh, FrameOK

\* The nodes of a place in the matrix are those of its cell.
LEMMA PlaceIsCell ==
  ASSUME CYKInv, NEW x \in 0..(Size - 1), NEW y \in 0..(Size - 1), NEW node \in Range(P[x][y])
  PROVE  <<x, y>> \in Cells /\ node \in CellSets[<<x, y>>]
<1>1. CallOK /\ FramesOK /\ UnwrittenEmpty /\ Size \in Nat
  BY SizeNat DEF CYKInv, LoopInv
<1>2. x + y < Size
  BY <1>1, EmptyFrame DEF UnwrittenEmpty, Unwritten
<1>3. <<x, y>> \in Cells
  BY <1>1, <1>2 DEF Cells
<1> QED
  BY <1>3 DEF CellSets

LEMMA FrameStep == CYKInv /\ FrameOK /\ [Next]_vars => FrameOK'
<1> SUFFICES ASSUME CYKInv, FrameOK, [Next]_vars PROVE FrameOK'
  OBVIOUS
<1>1. CallOK /\ FramesOK /\ UnwrittenEmpty /\ Size \in Nat
  BY SizeNat DEF CYKInv, LoopInv
<1>2. CASE Terminals \/ FillSplit
  <2>1. frame' = <<>> /\ outcome' = "none"
    BY <1>2 DEF FrameOK, Terminals, FillSplit
  <2>2. IsFrame(frame)' /\ Range(frame') = {}
    BY <2>1, EmptyFrame DEF IsFrame, Range
  <2> QED
    BY <2>1, <2>2 DEF FrameOK
<1>3. ASSUME word' = word, P' = P, rules' = rules
      PROVE  /\ Size' = Size /\ Cells' = Cells /\ CellSets' = CellSets
             /\ HasAxiomSymbol' = HasAxiomSymbol /\ AxiomSymbol' = AxiomSymbol
  BY <1>3 DEF Size, Cells, CellSets, HasAxiomSymbol, AxiomSymbol, Range
<1>4. CASE UNCHANGED vars
  BY <1>3, <1>4 DEF vars, FrameOK, IsFrame, Range
<1>5. CASE ReadOutside
  <2>1. frame' = <<>> /\ outcome' = "undefined" /\ pc' = "done" /\ word' = <<>>
    BY <1>5 DEF FrameOK, ReadOutside, input
  <2>2. IsFrame(frame)' /\ Range(frame') = {}
    BY <2>1, EmptyFrame DEF IsFrame, Range
  <2> QED
    BY <2>1, <2>2 DEF FrameOK
<1>6. CASE ReturnAxiomNodes
  <2>1. /\ word' = word /\ P' = P /\ rules' = rules /\ pc' = "done"
        /\ word # <<>> /\ frame = <<>>
    BY <1>6 DEF ReturnAxiomNodes, input, FrameOK
  <2>2. Size - 1 \in 0..(Size - 1) /\ 0 \in 0..(Size - 1)
    BY <1>1, <2>1 DEF CallOK, Size
  <2> DEFINE f == P[Size - 1][0]
  <2>3. f \in Seq(Range(f))
    BY <1>1, <2>2 DEF FramesOK, IsFrame
  <2>4. CASE ~ HasAxiomSymbol
    <3>1. frame' = <<>> /\ outcome' = "undefined"
      BY <1>6, <2>1, <2>4 DEF ReturnAxiomNodes
    <3>2. IsFrame(frame)' /\ Range(frame') = {}
      BY <3>1, EmptyFrame DEF IsFrame, Range
    <3> QED
      BY <1>3, <2>1, <2>4, <3>1, <3>2 DEF FrameOK
  <2>5. CASE HasAxiomSymbol
    <3> DEFINE places == {p \in DOMAIN f : f[p].nodetype \in {<<Axiom>>, AxiomSymbol}}
    <3>1. frame' = Pick(f, places) /\ outcome' = "whole"
      BY <1>6, <2>5 DEF ReturnAxiomNodes, GetAxiomNodes
    <3>2. ASSUME NEW node \in Range(frame')
          PROVE  node \in Range(f) /\ node.nodetype \in {<<Axiom>>, AxiomSymbol}
      <4>1. PICK p \in DOMAIN f : p \in places /\ node = f[p]
        <5> HIDE DEF f, places
        <5> QED
          BY <2>3, <3>1, <3>2, PickRange
      <4> QED
        BY <4>1 DEF Range
    <3>3. frame' \in Seq(Range(f))
      <4> HIDE DEF f, places
      <4> QED
        BY <2>3, <3>1, PickType
    <3>4. IsFrame(frame)'
      <4>1. \A h : h \in Seq(Range(f)) => IsFrame(h)
        BY FrameOf
      <4>2. IsFrame(frame')
        BY <3>3, <4>1
      <4> QED
        BY <4>2 DEF IsFrame, Range
    <3>5. \A node \in Range(frame') :
            <<Size - 1, 0>> \in Cells /\ node \in CellSets[<<Size - 1, 0>>]
      BY <2>2, <3>2, PlaceIsCell
    <3> QED
      BY <1>3, <2>1, <2>5, <3>1, <3>2, <3>4, <3>5 DEF FrameOK, Range
  <2> QED
    BY <2>4, <2>5
<1>7. CASE ReturnBrokenNodes
  <2>1. /\ word' = word /\ P' = P /\ rules' = rules /\ pc' = "done" /\ frame = <<>>
        /\ \/ outcome' = "throws" /\ frame' = frame
              /\ ReadsCellBefore /\ P[0][LastParsed[2] - 1] = <<>>
           \/ outcome' = "broken" /\ frame' = BrokenFrame
              /\ ~ (ReadsCellBefore /\ P[0][LastParsed[2] - 1] = <<>>)
    BY <1>7 DEF ReturnBrokenNodes, input, FrameOK
  <2>2. CASE frame' = <<>>
    <3>1. IsFrame(frame)' /\ Range(frame') = {}
      BY <2>2, EmptyFrame DEF IsFrame, Range
    <3>2. ASSUME outcome' = "throws"
          PROVE  \E y \in 0..(Size' - 1) : P'[0][y] = <<>>
      <4>1. Parsed # {} /\ LastParsed[2] > 0 /\ P[0][LastParsed[2] - 1] = <<>>
        BY <2>1, <3>2 DEF ReadsCellBefore
      <4>2. LastParsed[2] \in 0..(Size - 1)
        BY <1>1, <4>1, LastParsedIsLast DEF Parsed
      <4>3. LastParsed[2] - 1 \in 0..(Size - 1)
        BY <1>1, <4>1, <4>2
      <4> QED
        BY <1>3, <2>1, <4>1, <4>3
    <3> QED
      BY <2>1, <3>1, <3>2 DEF FrameOK
  <2>3. CASE frame' # <<>>
    <3>1. /\ frame' = BrokenFrame /\ outcome' = "broken" /\ Parsed # {}
          /\ ~ (ReadsCellBefore /\ P[0][LastParsed[2] - 1] = <<>>)
      BY <2>1, <2>3 DEF BrokenFrame
    <3> DEFINE a == LastParsed[1]
               b == LastParsed[2]
               f == P[a][b]
               before == P[0][b - 1]
    <3>2. a \in 0..(Size - 1) /\ b \in 0..(Size - 1)
      BY <1>1, <3>1, LastParsedIsLast DEF Parsed
    <3>3. f \in Seq(Range(f)) /\ \A x \in Range(f) : \E c \in Cells : x \in CellSets[c]
      BY <1>1, <3>2, PlaceIsCell DEF FramesOK, IsFrame
    <3>4. ASSUME b > 0
          PROVE  before \in Seq(Range(before)) /\ before # <<>> /\ before[1] \in Range(before)
                 /\ \E c \in Cells : before[1] \in CellSets[c]
      <4>1. 0 \in 0..(Size - 1) /\ b - 1 \in 0..(Size - 1)
        BY <1>1, <3>2, <3>4
      <4>2. before \in Seq(Range(before)) /\ before # <<>>
        BY <1>1, <3>1, <3>4, <4>1 DEF FramesOK, IsFrame, ReadsCellBefore
      <4>3. before[1] \in Range(before)
        <5> HIDE DEF before
        <5> QED
          BY <4>2 DEF Range
      <4> QED
        BY <4>1, <4>2, <4>3, PlaceIsCell
    <3> DEFINE rest == IF b > 0 THEN <<before[1]>> ELSE <<>>
               T == {x \in Nodes : \E c \in Cells : x \in CellSets[c]}
    <3>5. frame' = f \o rest
      BY <3>1 DEF BrokenFrame
    <3>6. f \in Seq(T)
      <4>1. Range(f) \subseteq T
        BY <3>3, NodesOfCells
      <4> HIDE DEF f, T
      <4> QED
        BY <3>3, <4>1
    <3>7. rest \in Seq(T)
      <4>1. CASE b > 0
        <5>1. before[1] \in T
          BY <3>4, <4>1, NodesOfCells
        <5> HIDE DEF before, T
        <5> QED
          BY <4>1, <5>1
      <4>2. CASE ~ (b > 0)
        BY <4>2
      <4> QED
        BY <4>1, <4>2
    <3> HIDE DEF f, rest
    <3>8. frame' \in Seq(T)
      BY <3>5, <3>6, <3>7
    <3>9. IsFrame(frame)' /\ Range(frame') \subseteq T
      <4>1. IsFrame(frame')
        BY <3>8, FrameOf
      <4>2. Range(frame') \subseteq T
        <5> HIDE DEF T
        <5> QED
          BY <3>8 DEF Range
      <4> QED
        BY <4>1, <4>2 DEF IsFrame, Range
    <3> QED
      BY <1>3, <2>1, <3>1, <3>9 DEF FrameOK, Range
  <2> QED
    BY <2>2, <2>3
<1> QED
  BY <1>2, <1>4, <1>5, <1>6, <1>7 DEF Next

\* The variables of membership keep their types.
LEMMA TypesOfMembership == CYKInv /\ FrameOK => TypeOK
<1> SUFFICES ASSUME CYKInv, FrameOK PROVE TypeOK
  OBVIOUS
<1>1. CallOK /\ LoopsOK /\ FramesOK /\ Size \in Nat
  BY SizeNat DEF CYKInv, LoopInv
<1>2. l \in 0..Size /\ i \in 0..Size /\ k \in 0..Size
  BY <1>1 DEF LoopsOK
<1>3. ASSUME NEW f \in Frames, NEW m \in DOMAIN f PROVE f[m].nodetype \in Name
  <2>1. f[m] \in Nodes
    BY DEF Nodes, Range
  <2> QED
    BY <2>1, NodesOfCells, NodesAreNamed
<1> QED
  BY <1>1, <1>2, <1>3 DEF TypeOK, FrameOK, LoopsOK, CallOK

\* The variables of a call keep their types for every grammar and every word.
THEOREM MembershipTypes == Spec => []TypeOK
<1>1. Init => FrameOK
  BY InitFresh, FreshFrame
<1>2. Spec => []FrameOK
  BY <1>1, FrameStep, MembershipInvariant, PTL DEF Spec
<1> QED
  BY <1>2, MembershipInvariant, TypesOfMembership, PTL

-----------------------------------------------------------------------------
(* The answer to a phrase.                                                  *)

\* A unit node stands behind the node that it is over.
Ordered(f) ==
  \A q \in DOMAIN f : f[q].kind = "unit" =>
    \E p \in DOMAIN f : p < q /\ f[q].parts = <<f[p]>>

\* So it does in every frame of the matrix.
FramesOrdered == \A x, y \in 0..(Size - 1) : Ordered(P[x][y])

\* If the last cell holds a node, the nodes of the axiom in it are the answer.
WholeAnswered ==
  (pc = "done" /\ word # <<>> /\ P[Size - 1][0] # <<>> /\ HasAxiomSymbol)
    => outcome = "whole" /\ frame = GetAxiomNodes(P[Size - 1][0])

\* The invariant behind the first node of the answer.
AnswerInv == FramesOrdered /\ WholeAnswered

\* The places of two frames that are joined.
LEMMA ConcatPlaces ==
  ASSUME NEW f, NEW g, IsFrame(f), IsFrame(g)
  PROVE  /\ Len(f) \in Nat /\ Len(g) \in Nat
         /\ DOMAIN f = 1..Len(f) /\ DOMAIN g = 1..Len(g)
         /\ DOMAIN (f \o g) = 1..(Len(f) + Len(g))
         /\ \A q \in 1..Len(f) : (f \o g)[q] = f[q]
         /\ \A q \in 1..Len(g) : (f \o g)[Len(f) + q] = g[q]
<1> DEFINE T == Range(f) \cup Range(g)
<1>1. f \in Seq(T) /\ g \in Seq(T)
  <2>1. f \in Seq(Range(f)) /\ g \in Seq(Range(g))
    BY DEF IsFrame
  <2>2. Range(f) \subseteq T /\ Range(g) \subseteq T
    OBVIOUS
  <2> HIDE DEF T
  <2> QED
    BY <2>1, <2>2, SeqWider
<1> HIDE DEF T
<1> QED
  BY <1>1

\* Appending a frame keeps the order.
LEMMA OrderedConcat ==
  ASSUME NEW f, NEW g, IsFrame(f), IsFrame(g), Ordered(f), Ordered(g)
  PROVE  Ordered(f \o g)
<1> DEFINE h == f \o g
           m == Len(f)
           n == Len(g)
<1>1. /\ m \in Nat /\ n \in Nat /\ DOMAIN f = 1..m /\ DOMAIN g = 1..n
      /\ DOMAIN h = 1..(m + n)
      /\ \A q \in 1..m : h[q] = f[q]
      /\ \A q \in 1..n : h[m + q] = g[q]
  BY ConcatPlaces
<1> HIDE DEF h, m, n
<1>2. ASSUME NEW q \in DOMAIN h, h[q].kind = "unit"
      PROVE  \E p \in DOMAIN h : p < q /\ h[q].parts = <<h[p]>>
  <2>1. CASE q \in 1..m
    <3>1. PICK p \in 1..m : p < q /\ f[q].parts = <<f[p]>>
      BY <1>1, <1>2, <2>1 DEF Ordered
    <3> QED
      BY <1>1, <2>1, <3>1
  <2>2. CASE q \notin 1..m
    <3>1. PICK o \in 1..n : q = m + o
      <4>1. q - m \in 1..n /\ q = m + (q - m)
        BY <1>1, <2>2
      <4> QED
        BY <4>1
    <3>2. PICK p \in 1..n : p < o /\ g[o].parts = <<g[p]>>
      BY <1>1, <1>2, <3>1 DEF Ordered
    <3>3. m + p \in DOMAIN h /\ m + p < q /\ h[m + p] = g[p]
      BY <1>1, <3>1, <3>2
    <3> QED
      BY <1>1, <3>1, <3>2, <3>3
  <2> QED
    BY <2>1, <2>2
<1> QED
  BY <1>2 DEF Ordered, h

\* What a token or a split makes, with the unit nodes over it, is in order.
LEMMA OrderedUnits ==
  ASSUME CallOK, NEW nodes, IsFrame(nodes), \A node \in Range(nodes) : node.kind # "unit"
  PROVE  Ordered(WithUnits(nodes))
<1> DEFINE units == InvUnitRelation(nodes)
           m == Len(nodes)
           n == Len(units)
           h == WithUnits(nodes)
<1>1. /\ IsFrame(units)
      /\ \A x : x \in Range(units) <=> \E node \in Range(nodes) : x \in UnitsOver(node)
  BY InvUnitFrame
<1>2. h = nodes \o units
  BY DEF WithUnits
<1> HIDE DEF units
<1>3. /\ m \in Nat /\ n \in Nat /\ DOMAIN nodes = 1..m /\ DOMAIN units = 1..n
      /\ DOMAIN h = 1..(m + n)
      /\ \A q \in 1..m : h[q] = nodes[q]
      /\ \A q \in 1..n : h[m + q] = units[q]
  BY <1>1, <1>2, ConcatPlaces
<1> HIDE DEF h, m, n
<1>4. ASSUME NEW q \in DOMAIN h, h[q].kind = "unit"
      PROVE  \E p \in DOMAIN h : p < q /\ h[q].parts = <<h[p]>>
  <2>1. q \notin 1..m
    <3> SUFFICES ASSUME q \in 1..m PROVE FALSE
      OBVIOUS
    <3>1. nodes[q] \in Range(nodes)
      BY <1>3 DEF Range
    <3> QED
      BY <1>3, <1>4, <3>1
  <2>2. PICK o \in 1..n : q = m + o
    <3>1. q - m \in 1..n /\ q = m + (q - m)
      BY <1>3, <2>1
    <3> QED
      BY <3>1
  <2>3. units[o] \in Range(units)
    BY <1>3 DEF Range
  <2>4. PICK node \in Range(nodes) : units[o] \in UnitsOver(node)
    BY <1>1, <2>3
  <2>5. PICK p \in 1..m : node = nodes[p]
    BY <1>3 DEF Range
  <2>6. units[o].parts = <<nodes[p]>>
    BY <2>4, <2>5, UnitsOverNode
  <2>7. p \in DOMAIN h /\ p < q /\ h[p] = nodes[p] /\ h[q] = units[o]
    BY <1>3, <2>2, <2>5
  <2> QED
    BY <2>6, <2>7
<1> QED
  BY <1>4 DEF Ordered, h

\* Nothing is out of order, and nothing to answer, before the first step of a call.
LEMMA FreshAnswer == Fresh => AnswerInv
<1> SUFFICES ASSUME Fresh PROVE AnswerInv
  OBVIOUS
<1>1. FramesOrdered
  BY DEF Fresh, FramesOrdered, Ordered
<1>2. WholeAnswered
  BY DEF Fresh, WholeAnswered
<1> QED
  BY <1>1, <1>2 DEF AnswerInv

\* Every step of membership keeps the order, and the answer once it is there.
LEMMA AnswerStep == CYKInv /\ AnswerInv /\ [Next]_vars => AnswerInv'
<1> SUFFICES ASSUME CYKInv, AnswerInv, [Next]_vars PROVE AnswerInv'
  OBVIOUS
<1>0. /\ CallOK /\ FramesOK /\ LoopsOK /\ Size \in Nat
      /\ FramesOrdered /\ WholeAnswered
  BY SizeNat DEF CYKInv, LoopInv, AnswerInv
<1>1. ASSUME word' = word, P' = P, rules' = rules
      PROVE  /\ FramesOrdered'
             /\ Size' = Size /\ HasAxiomSymbol' = HasAxiomSymbol
             /\ \A nodes : GetAxiomNodes(nodes)' = GetAxiomNodes(nodes)
  <2>1. Size' = Size /\ HasAxiomSymbol' = HasAxiomSymbol /\ AxiomSymbol' = AxiomSymbol
    BY <1>1 DEF Size, HasAxiomSymbol, AxiomSymbol
  <2>2. \A nodes : GetAxiomNodes(nodes)' = GetAxiomNodes(nodes)
    BY <2>1 DEF GetAxiomNodes
  <2>3. FramesOrdered'
    BY <1>0, <1>1, <2>1 DEF FramesOrdered, Ordered
  <2> QED
    BY <2>1, <2>2, <2>3
<1>2. CASE UNCHANGED vars
  <2>1. WholeAnswered'
    BY <1>0, <1>1, <1>2 DEF vars, WholeAnswered
  <2> QED
    BY <1>1, <1>2, <2>1 DEF vars, AnswerInv
<1>3. CASE ReturnAxiomNodes
  <2>1. WholeAnswered'
    BY <1>1, <1>3 DEF ReturnAxiomNodes, input, WholeAnswered
  <2> QED
    BY <1>1, <1>3, <2>1 DEF ReturnAxiomNodes, input, AnswerInv
<1>4. CASE ReturnBrokenNodes
  <2>1. WholeAnswered'
    BY <1>1, <1>4 DEF ReturnBrokenNodes, input, WholeAnswered
  <2> QED
    BY <1>1, <1>4, <2>1 DEF ReturnBrokenNodes, input, AnswerInv
<1>5. CASE ReadOutside
  <2>1. WholeAnswered'
    BY <1>1, <1>5 DEF ReadOutside, input, WholeAnswered
  <2> QED
    BY <1>1, <1>5, <2>1 DEF ReadOutside, input, AnswerInv
<1>6. CASE Terminals
  <2> DEFINE tokens == GetTerminal(i)
             new    == WithUnits(tokens)
  <2>1. /\ P' = [P EXCEPT ![0][i] = new] /\ word' = word /\ pc = "terminals"
        /\ pc' # "done" /\ i \in Nat /\ i < Size
    BY <1>0, <1>6 DEF Terminals, input, LoopsOK
  <2>2. IsFrame(tokens) /\ Range(tokens) = Table!TokenNodes(i)
    BY <1>0, TerminalFrame
  <2>3. \A node \in Table!TokenNodes(i) : node.kind # "unit"
    BY DEF Table!TokenNodes, Table!TokenNode
  <2> HIDE DEF tokens
  <2>4. IsFrame(new) /\ Ordered(new)
    BY <1>0, <2>2, <2>3, WithUnitsFrame, OrderedUnits
  <2> HIDE DEF new
  <2>5. Writes(0, i, new) /\ 0 \in 0..(Size - 1) /\ i \in 0..(Size - 1) /\ Size' = Size
    BY <1>0, <2>1 DEF Writes, Size
  <2>6. /\ P'[0][i] = new
        /\ \A a, b \in 0..(Size - 1) : (a # 0 \/ b # i) => P'[a][b] = P[a][b]
    BY <1>0, <2>1, <2>4, <2>5, OneFrameChanges
  <2>7. FramesOrdered'
    BY <1>0, <2>4, <2>5, <2>6 DEF FramesOrdered, Ordered
  <2> QED
    BY <2>1, <2>7 DEF AnswerInv, WholeAnswered
<1>7. CASE FillSplit
  <2> DEFINE A    == P[k][i]
             B    == P[l - k - 1][k + i + 1]
             bins == GetBinProductions(A, B)
             more == WithUnits(bins)
             f    == P[l][i] \o more
  <2>1. /\ P' = [P EXCEPT ![l][i] = @ \o more] /\ word' = word /\ NextSplit
        /\ pc = "table" /\ l \in Nat /\ i \in Nat /\ k \in Nat
        /\ l >= 1 /\ i + l < Size /\ k < l
    BY <1>0, <1>7 DEF FillSplit, input, LoopsOK
  <2>2. /\ l \in 0..(Size - 1) /\ i \in 0..(Size - 1) /\ k \in 0..(Size - 1)
        /\ (l - k - 1) \in 0..(Size - 1) /\ (k + i + 1) \in 0..(Size - 1)
    BY <1>0, <2>1
  <2>3. /\ IsFrame(A) /\ IsFrame(B) /\ IsFrame(P[l][i]) /\ Ordered(P[l][i])
    BY <1>0, <2>2 DEF FramesOK, FramesOrdered
  <2>4. /\ IsFrame(bins)
        /\ Range(bins) = Table!BinNodes(Range(A), Range(B))
    BY <1>0, <2>3, BinsFrame
  <2>5. \A node \in Range(bins) : node.kind # "unit"
    BY <2>4 DEF Table!BinNodes, Table!BinNode
  <2> HIDE DEF bins
  <2>6. IsFrame(more) /\ Ordered(more)
    BY <1>0, <2>4, <2>5, WithUnitsFrame, OrderedUnits
  <2> HIDE DEF more
  <2>7. IsFrame(f) /\ Ordered(f)
    BY <2>3, <2>6, FrameConcat, OrderedConcat
  <2>8. Writes(l, i, f)
    BY <1>0, <2>1, <2>2 DEF Writes, FramesOK
  <2> HIDE DEF f
  <2>9. /\ P'[l][i] = f
        /\ \A a, b \in 0..(Size - 1) : (a # l \/ b # i) => P'[a][b] = P[a][b]
    <3>1. /\ FramesOK /\ IsFrame(f) /\ Writes(l, i, f) /\ word' = word
          /\ l \in 0..(Size - 1) /\ i \in 0..(Size - 1)
      BY <1>0, <2>1, <2>2, <2>7, <2>8
    <3> QED
      BY <3>1, OneFrameChanges
  <2>10. Size' = Size /\ pc' # "done"
    BY <2>1, NextSplitCases DEF Size
  <2>11. FramesOrdered'
    BY <1>0, <2>2, <2>7, <2>9, <2>10 DEF FramesOrdered, Ordered
  <2> QED
    BY <2>10, <2>11 DEF AnswerInv, WholeAnswered
<1> QED
  BY <1>2, <1>3, <1>4, <1>5, <1>6, <1>7 DEF Next

-----------------------------------------------------------------------------
(* Nothing is missing from a chart that is finished.                        *)

\* The names and places of all nodes, and of those that are no unit nodes.
NodeFacts == UNION {{Fact(c, node) : node \in CellSets[c]} : c \in Cells}

BaseFacts ==
  UNION {{Fact(c, node) : node \in {x \in CellSets[c] : x.kind # "unit"}} : c \in Cells}

\* A set of names at places, and a part of it, to which tokens and pairs of the
\* set add nothing to the part, nor the unit relation over the part to the set.
FilledByRules(H, B) ==
  /\ B \subseteq H
  /\ \A name \in DOMAIN rules : \A y \in 0..(Size - 1) :
       <<TerminalOperand(word[y + 1])>> \in Alternatives(rules, name) => <<name, y, y + 1>> \in B
  /\ \A name \in DOMAIN rules : \A rule \in Alternatives(rules, name) :
       \A from, mid, to \in 0..Size :
         (/\ Len(rule) > 1 /\ from < mid /\ mid < to
          /\ <<rule[1].value, from, mid>> \in H /\ <<rule[2].value, mid, to>> \in H)
           => <<name, from, to>> \in B
  /\ \A name \in DOMAIN unit : \A m \in unit[name] : \A from, to \in 0..Size :
       (from < to /\ <<m, from, to>> \in B) => <<name, from, to>> \in H

\* A fact shows the cell of its node.
LEMMA CellOfFact ==
  ASSUME CallOK, NEW name, NEW from \in 0..Size, NEW to \in 0..Size
  PROVE  /\ <<name, from, to>> \in NodeFacts <=>
              /\ <<to - from - 1, from>> \in Cells
              /\ \E node \in CellSets[<<to - from - 1, from>>] : node.nodetype = name
         /\ <<name, from, to>> \in BaseFacts <=>
              /\ <<to - from - 1, from>> \in Cells
              /\ \E node \in CellSets[<<to - from - 1, from>>] :
                   node.nodetype = name /\ node.kind # "unit"
<1> DEFINE d == <<to - from - 1, from>>
<1>1. Size \in Nat /\ from \in Int /\ to \in Int
  BY SizeNat
<1>2. ASSUME NEW c \in Cells, NEW node, <<name, from, to>> = Fact(c, node)
      PROVE  c = d /\ node.nodetype = name
  <2>1. node.nodetype = name /\ from = c[2] /\ to = c[1] + c[2] + 1
    BY <1>2 DEF Fact
  <2>2. c = <<c[1], c[2]>> /\ c[1] \in Nat /\ c[2] \in Nat
    BY CellNumbers
  <2>3. c[1] = to - from - 1
    BY <2>1, <2>2
  <2> QED
    BY <2>1, <2>2, <2>3
<1>3. ASSUME d \in Cells, NEW node, node.nodetype = name
      PROVE  <<name, from, to>> = Fact(d, node)
  <2>1. d[2] = from /\ d[1] + d[2] + 1 = to
    BY <1>1
  <2> QED
    BY <1>3, <2>1 DEF Fact
<1> HIDE DEF d
<1>4. <<name, from, to>> \in NodeFacts <=>
        d \in Cells /\ \E node \in CellSets[d] : node.nodetype = name
  BY <1>2, <1>3 DEF NodeFacts
<1>5. <<name, from, to>> \in BaseFacts <=>
        d \in Cells /\ \E node \in CellSets[d] : node.nodetype = name /\ node.kind # "unit"
  BY <1>2, <1>3 DEF BaseFacts
<1> QED
  BY <1>4, <1>5 DEF d

\* When a call has ended, every token has been read and every split looked at,
\* so that the nodes of the chart are closed under the rules and, above those
\* that are no unit nodes, under one step of the unit relation.
LEMMA FinishedChart ==
  ASSUME CYKInv, pc = "done"
  PROVE  FilledByRules(NodeFacts, BaseFacts)
<1>1. CallOK /\ Size \in Nat /\ Table!Size = Size /\ Table!Cells = Cells
  BY SizeNat, SameSets DEF CYKInv, LoopInv
<1>2. /\ Table!Shifted /\ Table!Saturated /\ Table!UnitSaturated
  BY DEF CYKInv, Table!ChartInv
<1>3. \A name : Table!Alternatives(rules, name) = Alternatives(rules, name)
  BY DEF Table!Alternatives, Alternatives
<1>4. BaseFacts \subseteq NodeFacts
  BY DEF BaseFacts, NodeFacts
<1>5. ASSUME NEW name \in DOMAIN rules, NEW y \in 0..(Size - 1),
             <<TerminalOperand(word[y + 1])>> \in Alternatives(rules, name)
      PROVE  <<name, y, y + 1>> \in BaseFacts
  <2> DEFINE t == <<0, y, 0>>
             node == Table!TokenNode(name, y)
  <2>1. t \in Table!ShiftTasks
    BY <1>1, SameSets
  <2>2. t \in TasksBehind
    BY <1>1 DEF TasksBehind, Behind
  <2>3. Table!WithUnits(Table!TokenNodes(y)) \subseteq CellSets[<<0, y>>]
    BY <1>2, <2>1, <2>2 DEF Table!Shifted
  <2>4. node \in Table!TokenNodes(y)
    BY <1>3, <1>5 DEF Table!TokenNodes, Table!Produces, Table!TerminalOperand, TerminalOperand
  <2>5. node \in CellSets[<<0, y>>]
    BY <2>3, <2>4, Table!WithUnitsNodes, NamesAssumption, TableInputs
  <2>6. node.nodetype = name /\ node.kind # "unit"
    BY DEF Table!TokenNode
  <2>7. /\ y \in 0..Size /\ y + 1 \in 0..Size /\ (y + 1) - y - 1 = 0
        /\ <<0, y>> \in Cells
    BY <1>1 DEF Cells
  <2> QED
    BY <1>1, <2>5, <2>6, <2>7, CellOfFact
<1>6. ASSUME NEW name \in DOMAIN rules, NEW rule \in Alternatives(rules, name),
             NEW from \in 0..Size, NEW mid \in 0..Size, NEW to \in 0..Size,
             Len(rule) > 1, from < mid, mid < to,
             <<rule[1].value, from, mid>> \in NodeFacts,
             <<rule[2].value, mid, to>> \in NodeFacts
      PROVE  <<name, from, to>> \in BaseFacts
  <2> DEFINE t == <<to - from - 1, from, mid - from - 1>>
             c == <<to - from - 1, from>>
  <2>1. PICK a \in CellSets[<<mid - from - 1, from>>] : a.nodetype = rule[1].value
    BY <1>1, <1>6, CellOfFact
  <2>2. PICK b \in CellSets[<<to - mid - 1, mid>>] : b.nodetype = rule[2].value
    BY <1>1, <1>6, CellOfFact
  <2>3. /\ to - from - 1 \in 0..Size /\ mid - from - 1 \in 0..Size
        /\ mid - from - 1 < to - from - 1 /\ (to - from - 1) + from < Size
        /\ (to - from - 1) - (mid - from - 1) - 1 = to - mid - 1
        /\ (mid - from - 1) + from + 1 = mid
    BY <1>1, <1>6
  <2>4. t \in Table!CombineTasks /\ t \in TasksBehind /\ c \in Cells
    BY <1>1, <2>3, SameSets DEF TasksBehind, Behind, Cells
  <2>5. /\ Table!Left(t) = <<mid - from - 1, from>> /\ Table!Right(t) = <<to - mid - 1, mid>>
        /\ <<t[1], t[2]>> = c
    BY <2>3 DEF Table!Left, Table!Right
  <2> DEFINE node == Table!BinNode(name, a, b)
  <2>6. Table!Joins(rule, a, b)
    BY <1>6, <2>1, <2>2 DEF Table!Joins
  <2> HIDE DEF t
  <2>7. node \in CellSets[c]
    BY <1>2, <1>3, <2>4, <2>5, <2>6 DEF Table!Saturated
  <2>8. node.nodetype = name /\ node.kind # "unit"
    BY DEF Table!BinNode
  <2> QED
    BY <1>1, <2>4, <2>7, <2>8, CellOfFact
<1>7. ASSUME NEW name \in DOMAIN unit, NEW m \in unit[name],
             NEW from \in 0..Size, NEW to \in 0..Size, <<m, from, to>> \in BaseFacts
      PROVE  <<name, from, to>> \in NodeFacts
  <2> DEFINE c == <<to - from - 1, from>>
  <2>1. PICK base \in CellSets[c] : c \in Cells /\ base.nodetype = m /\ base.kind # "unit"
    BY <1>1, <1>7, CellOfFact
  <2>2. Table!UnitNode(name, base) \in CellSets[c]
    BY <1>1, <1>2, <2>1 DEF Table!UnitSaturated
  <2>3. Table!UnitNode(name, base).nodetype = name
    BY DEF Table!UnitNode
  <2> QED
    BY <1>1, <2>1, <2>2, <2>3, CellOfFact
<1> QED
  BY <1>4, <1>5, <1>6, <1>7 DEF FilledByRules

\* A token that any rule is was recognised.
LEMMA TokenRecognised ==
  ASSUME CYKInv, pc = "done", NEW y \in 0..(Size - 1), NEW name \in DOMAIN rules,
         <<TerminalOperand(word[y + 1])>> \in Alternatives(rules, name)
  PROVE  P[0][y] # <<>>
<1>1. CallOK /\ Size \in Nat
  BY SizeNat DEF CYKInv, LoopInv
<1>2. <<name, y, y + 1>> \in BaseFacts
  BY FinishedChart DEF FilledByRules
<1>3. y \in 0..Size /\ y + 1 \in 0..Size /\ (y + 1) - y - 1 = 0
  BY <1>1
<1>4. <<0, y>> \in Cells /\ \E node : node \in CellSets[<<0, y>>]
  BY <1>1, <1>2, <1>3, CellOfFact
<1>5. CellSets[<<0, y>>] = Range(P[0][y])
  BY <1>4 DEF CellSets
<1> QED
  BY <1>4, <1>5, EmptyFrame

\* Without a token that no rule is, and with an axiom, a call has an answer.
LEMMA AnswerGiven ==
  ASSUME CYKInv, FrameOK, pc = "done"
  PROVE  /\ outcome = "throws" =>
              \E type \in Range(word) : \A name \in DOMAIN rules :
                <<TerminalOperand(type)>> \notin Alternatives(rules, name)
         /\ outcome = "undefined" => word = <<>> \/ ~ HasAxiomSymbol
<1>1. Size \in Nat /\ word \in Seq(Terminal) /\ Size = Len(word)
  BY SizeNat DEF CYKInv, LoopInv, CallOK, Size
<1> SUFFICES ASSUME outcome = "throws"
             PROVE  \E type \in Range(word) : \A name \in DOMAIN rules :
                      <<TerminalOperand(type)>> \notin Alternatives(rules, name)
  BY DEF FrameOK
<1>2. PICK y \in 0..(Size - 1) : P[0][y] = <<>>
  BY DEF FrameOK
<1>3. word[y + 1] \in Range(word)
  BY <1>1 DEF Range
<1> QED
  BY <1>2, <1>3, TokenRecognised

\* A call that has ended has one of the endings.
Concluded == pc = "done" => outcome # "none"

LEMMA ConcludedStep == Concluded /\ [Next]_vars => Concluded'
<1> SUFFICES ASSUME Concluded, [Next]_vars, pc' = "done" PROVE outcome' # "none"
  BY DEF Concluded
<1>1. CASE UNCHANGED vars
  BY <1>1 DEF vars, Concluded
<1>2. CASE Terminals
  BY <1>2 DEF Terminals
<1>3. CASE FillSplit
  BY <1>3 DEF FillSplit, NextSplit
<1>4. CASE ReturnAxiomNodes
  BY <1>4 DEF ReturnAxiomNodes
<1>5. CASE ReturnBrokenNodes
  BY <1>5 DEF ReturnBrokenNodes
<1>6. CASE ReadOutside
  BY <1>6 DEF ReadOutside
<1> QED
  BY <1>1, <1>2, <1>3, <1>4, <1>5, <1>6 DEF Next

\* A known token has left a node in its cell, so something was parsed and the
\* last of it is handed out; and no known token's cell makes the look-up throw.
LEMMA KnownIsAnswered ==
  CYKInv /\ FrameOK /\ BrokenKept /\ Concluded => KnownTokensAnswered
<1> SUFFICES ASSUME CYKInv, FrameOK, BrokenKept, Concluded, pc = "done", word # <<>>, TokensKnown
             PROVE  \/ outcome = "whole"
                    \/ outcome = "broken" /\ frame # <<>>
                    \/ outcome = "undefined" /\ ~ HasAxiomSymbol
  BY DEF KnownTokensAnswered
<1>1. CallOK /\ FramesOK /\ Size \in Nat /\ word \in Seq(Terminal) /\ Size = Len(word)
  BY SizeNat DEF CYKInv, LoopInv, CallOK, Size
<1>2. 0 \in 0..(Size - 1) /\ Size # 0
  BY <1>1
<1>3. ASSUME NEW y \in 0..(Size - 1) PROVE P[0][y] # <<>>
  <2>1. y + 1 \in DOMAIN word
    BY <1>1, <1>3
  <2>2. PICK name \in DOMAIN rules : Producing(name, word[y + 1]) # {}
    BY <2>1 DEF TokensKnown
  <2>3. PICK rule \in Alternatives(rules, name) : Table!Produces(rule, word[y + 1])
    BY <1>1, <2>2, ProducingRules
  <2>4. rule = <<TerminalOperand(word[y + 1])>>
    BY <2>3 DEF Table!Produces, Table!TerminalOperand, TerminalOperand
  <2> QED
    BY <1>3, <2>3, <2>4, TokenRecognised
<1>4. outcome # "throws"
  BY <1>3 DEF FrameOK
<1>5. outcome = "broken" => frame # <<>>
  <2> SUFFICES ASSUME outcome = "broken" PROVE frame # <<>>
    OBVIOUS
  <2>1. <<0, 0>> \in Parsed
    BY <1>2, <1>3 DEF Parsed
  <2>2. LastParsed \in Parsed
    BY <1>1, <2>1, LastParsedIsLast
  <2> DEFINE a == LastParsed[1]
             b == LastParsed[2]
             rest == IF b > 0 THEN <<P[0][b - 1][1]>> ELSE <<>>
  <2>3. a \in 0..(Size - 1) /\ b \in 0..(Size - 1) /\ P[a][b] # <<>>
    BY <2>2 DEF Parsed
  <2>4. frame = P[a][b] \o rest
    BY <2>1 DEF BrokenKept, BrokenFrame
  <2>5. P[a][b] \in Seq(Range(P[a][b]))
    BY <1>1, <2>3 DEF FramesOK, IsFrame
  <2>6. rest = <<>> \/ rest = <<P[0][b - 1][1]>>
    OBVIOUS
  <2> HIDE DEF rest, a, b
  <2> QED
    BY <2>3, <2>4, <2>5, <2>6
<1>6. outcome = "undefined" => ~ HasAxiomSymbol
  BY DEF FrameOK
<1>7. outcome \in {"whole", "broken", "throws", "undefined"}
  BY DEF FrameOK, Concluded
<1> QED
  BY <1>4, <1>5, <1>6, <1>7

\* Every word of known tokens is answered, for every grammar: membership throws only
\* at a token that no rule is, and never answers a failed parse with nothing.
THEOREM KnownTokensGetAnswers == Spec => []KnownTokensAnswered
<1>1. Init => FrameOK
  BY InitFresh, FreshFrame
<1>2. Spec => []FrameOK
  BY <1>1, FrameStep, MembershipInvariant, PTL DEF Spec
<1>3. Init => BrokenKept /\ Concluded
  BY DEF Init, BrokenKept, Concluded
<1>4. Spec => [](BrokenKept /\ Concluded)
  BY <1>3, BrokenStep, ConcludedStep, PTL DEF Spec
<1> QED
  BY <1>2, <1>4, MembershipInvariant, KnownIsAnswered, PTL

\* The answer to a word over which the chart has a node of the axiom's symbol:
\* such a node comes first, since the axiom's own nodes stand on it.
LEMMA FirstIsSymbol ==
  ASSUME CYKInv, AnswerInv, pc = "done", HasAxiomSymbol,
         \A rule \in Alternatives(rules, <<Axiom>>) :
           Len(rule) = 1 /\ rule[1].type = "NONTERMINAL",
         <<Axiom>> \in DOMAIN unit => unit[<<Axiom>>] \subseteq {AxiomSymbol},
         word # <<>>, <<AxiomSymbol, 0, Size>> \in NodeFacts
  PROVE  outcome = "whole" /\ frame # <<>> /\ frame[1].nodetype = AxiomSymbol
<1> DEFINE c == <<Size - 1, 0>>
           f == P[Size - 1][0]
           places == {p \in DOMAIN f : f[p].nodetype \in {<<Axiom>>, AxiomSymbol}}
<1>1. CallOK /\ FramesOK /\ Size \in Nat /\ FramesOrdered
  BY SizeNat DEF CYKInv, LoopInv, AnswerInv
<1>2. Size # 0
  BY <1>1 DEF CallOK, Size
<1>3. /\ Size - 1 \in 0..(Size - 1) /\ 0 \in 0..(Size - 1) /\ c \in Cells
      /\ 0 \in 0..Size /\ Size \in 0..Size /\ Size - 0 - 1 = Size - 1
  BY <1>1, <1>2 DEF Cells
<1>4. PICK x \in CellSets[c] : x.nodetype = AxiomSymbol
  BY <1>1, <1>3, CellOfFact
<1>5. CellSets[c] = Range(f) /\ f \in Seq(Range(f)) /\ Ordered(f)
  <2>1. c[1] = Size - 1 /\ c[2] = 0
    OBVIOUS
  <2> QED
    BY <1>1, <1>3, <2>1 DEF CellSets, FramesOK, IsFrame, FramesOrdered
<1>6. PICK r \in DOMAIN f : f[r] = x
  BY <1>4, <1>5 DEF Range
<1>7. f # <<>>
  BY <1>6
<1>8. outcome = "whole" /\ frame = Pick(f, places)
  BY <1>7 DEF AnswerInv, WholeAnswered, GetAxiomNodes
<1>9. ASSUME NEW q \in DOMAIN f, f[q].nodetype = <<Axiom>>, <<Axiom>> # AxiomSymbol
      PROVE  \E p \in DOMAIN f : p < q /\ f[p].nodetype = AxiomSymbol
  <2>1. f[q] \in CellSets[c]
    BY <1>5 DEF Range
  <2>2. Table!GroundedNode(f[q], c)
    BY <1>3, <2>1, SameSets DEF CYKInv, Table!ChartInv, Table!Grounded
  <2>3. \A rule \in Table!Alternatives(rules, <<Axiom>>) :
          Len(rule) = 1 /\ rule[1].type = "NONTERMINAL"
    BY DEF Table!Alternatives, Alternatives
  <2>4. f[q].kind = "unit"
    <3>1. f[q].kind # "token"
      BY <1>9, <2>2, <2>3 DEF Table!GroundedNode, Table!Produces, Table!TerminalOperand
    <3>2. f[q].kind # "bin"
      BY <1>9, <2>2, <2>3 DEF Table!GroundedNode, Table!Joins
    <3> QED
      BY <2>2, <3>1, <3>2 DEF Table!GroundedNode
  <2>5. PICK base \in CellSets[c] :
          /\ f[q] = Table!UnitNode(<<Axiom>>, base)
          /\ <<Axiom>> \in DOMAIN unit /\ base.nodetype \in unit[<<Axiom>>]
    BY <1>9, <2>2, <2>4 DEF Table!GroundedNode
  <2>6. f[q].parts = <<base>> /\ base.nodetype = AxiomSymbol
    BY <2>5 DEF Table!UnitNode
  <2>7. PICK p \in DOMAIN f : p < q /\ f[q].parts = <<f[p]>>
    BY <1>5, <2>4 DEF Ordered
  <2>8. f[p] = base
    BY <2>6, <2>7
  <2> QED
    BY <2>6, <2>7, <2>8
<1> DEFINE e == Enumerate(places, Len(f))
<1>10. /\ Len(f) \in Nat /\ DOMAIN f = 1..Len(f) /\ r \in places
  BY <1>4, <1>5, <1>6
<1>11. \A y : y \in places => y \in 1..Len(f) /\ f[y].nodetype \in {<<Axiom>>, AxiomSymbol}
  BY <1>10
<1>12. \A y \in DOMAIN f : f[y].nodetype = AxiomSymbol => y \in places
  OBVIOUS
<1>13. \A y \in DOMAIN f : f[y].nodetype = <<Axiom>> => y \in places
  OBVIOUS
<1> HIDE DEF f, places, c
<1>14. /\ e \in Seq(1..Len(f)) /\ Ascending(e)
       /\ \A y : y \in Range(e) <=> y \in 1..Len(f) /\ y \in places
  BY <1>10, EnumerateType, EnumerateAscending, EnumerateRange
<1>15. /\ Len(frame) = Len(e) /\ frame \in Seq(Range(f))
       /\ \A m \in 1..Len(frame) : frame[m] = f[e[m]]
  BY <1>5, <1>8, PickPlaces, PickType
<1> HIDE DEF e
<1>16. /\ Len(e) \in Nat /\ DOMAIN e = 1..Len(e) /\ \A m \in 1..Len(e) : e[m] \in 1..Len(f)
  BY <1>14
<1>17. PICK m \in DOMAIN e : e[m] = r
  BY <1>10, <1>14 DEF Range
<1>18. 1 \in DOMAIN e /\ frame # <<>> /\ frame[1] = f[e[1]]
  BY <1>15, <1>16, <1>17
<1>19. e[1] \in places
  BY <1>14, <1>18 DEF Range
<1>20. \A y \in places : e[1] <= y
  <2> SUFFICES ASSUME NEW y \in places PROVE e[1] <= y
    OBVIOUS
  <2>1. y \in Range(e)
    BY <1>11, <1>14
  <2>2. PICK o \in DOMAIN e : e[o] = y
    BY <2>1 DEF Range
  <2>3. CASE o = 1
    BY <1>16, <2>2, <2>3
  <2>4. CASE o # 1
    <3>1. 1 < o
      BY <1>16, <2>4
    <3>2. e[1] < e[o]
      BY <1>14, <1>18, <2>2, <3>1 DEF Ascending
    <3>3. e[1] \in Int /\ e[o] \in Int
      BY <1>16, <1>18, <2>2
    <3> QED
      BY <2>2, <3>2, <3>3
  <2> QED
    BY <2>3, <2>4
<1>21. f[e[1]].nodetype = AxiomSymbol
  <2> SUFFICES ASSUME f[e[1]].nodetype # AxiomSymbol PROVE FALSE
    OBVIOUS
  <2>1. f[e[1]].nodetype = <<Axiom>> /\ <<Axiom>> # AxiomSymbol /\ e[1] \in DOMAIN f
    BY <1>10, <1>11, <1>19
  <2>2. PICK p \in DOMAIN f : p < e[1] /\ f[p].nodetype = AxiomSymbol
    BY <1>9, <2>1
  <2>3. p \in places /\ p \in Int /\ e[1] \in Int
    BY <1>10, <1>12, <2>1, <2>2
  <2> QED
    BY <1>20, <2>2, <2>3
<1> QED
  BY <1>8, <1>18, <1>21

=============================================================================
