-------------------------------- MODULE CYK --------------------------------
(***************************************************************************)
(* parsers::CYK (parsers/cyk.cpp): membership fills the chart P cell by    *)
(* cell with its three nested loops and picks the frame it returns.        *)
(*                                                                         *)
(* A Frame is a sequence of nodes.  Frame::append leaves out a node that   *)
(* is in the frame already, but compares addresses, and every node that is *)
(* appended here was just made: appending is concatenation.                *)
(***************************************************************************)
EXTENDS Grammar, SubSequences

CONSTANTS
  Inputs,    \* the calls: records of production_rules, unitrelation, word
  KeyOrder   \* all names, in the order of their text (the order of std::map)

ASSUME KeyOrderAssumption ==
  /\ KeyOrder \in Seq(Name)
  /\ IsInjective(KeyOrder)

\* What get2nf and the lexer hand over.
ASSUME CallsAssumption ==
  \A x \in Inputs :
    /\ IsProductionRules(x.rules)
    /\ DOMAIN x.rules \cup DOMAIN x.unit \subseteq Range(KeyOrder)
    /\ x.word \in Seq(Terminal)

VARIABLES
  rules,    \* production_rules
  unit,     \* unitrelation
  word,     \* the types of the tokens
  P,        \* the matrix of frames
  l, i, k,  \* the loop counters: span length, start and split, from 0
  pc,       \* the part of membership that runs
  frame,    \* the Frame that is returned
  outcome   \* how the call ends

vars == <<rules, unit, word, P, l, i, k, pc, frame, outcome>>

loop == <<l, i, k>>

input == <<rules, unit, word>>

Size == Len(word)

-----------------------------------------------------------------------------
(* The chart as its promise: sets of nodes, filled in any order that reads  *)
(* finished cells.                                                          *)

Cells == {c \in (0..Size) \X (0..Size) : c[1] + c[2] < Size}

CellSets == [c \in Cells |-> Range(P[c[1]][c[2]])]

\* The loops have done the task of cell <<x, y>> at z.
Behind(x, y, z) ==
  \/ pc \in {"result", "done"}
  \/ x < l
  \/ x = l /\ y < i
  \/ x = l /\ y = i /\ z < k

TasksBehind ==
  {t \in (0..Size) \X (0..Size) \X (0..Size) :
     /\ t[1] + t[2] < Size
     /\ t[3] < t[1] \/ (t[1] = 0 /\ t[3] = 0)
     /\ Behind(t[1], t[2], t[3])}

Chart == INSTANCE CYKTable WITH
  P    <- CellSets,
  done <- TasksBehind

-----------------------------------------------------------------------------
(* Frames.  The maps are walked in the order of their keys: in KeyOrder,    *)
(* where a name that is no key gives nothing.                               *)

\* The alternatives of a name that are the token; those that join the nodes.
Producing(name, tokentype) ==
  {n \in DOMAIN RulesAt(rules, name) : Chart!Produces(rules[name][n], tokentype)}

Joining(name, left, right) ==
  {n \in DOMAIN RulesAt(rules, name) : Chart!Joins(rules[name][n], left, right)}

\* A node once for every alternative.
Copies(node, alternatives) == [h \in 1..Cardinality(alternatives) |-> node]

GetTerminal(place) ==
  FlattenSeq([m \in DOMAIN KeyOrder |->
    Copies(Chart!TokenNode(KeyOrder[m], place), Producing(KeyOrder[m], word[place + 1]))])

GetRuleNames(left, right) ==
  FlattenSeq([m \in DOMAIN KeyOrder |->
    Copies(Chart!BinNode(KeyOrder[m], left, right), Joining(KeyOrder[m], left, right))])

\* cartesianprod and getbinproductions; the limit on their number is INT_MAX.
GetBinProductions(A, B) ==
  FlattenSeq([m \in DOMAIN A |->
    FlattenSeq([o \in DOMAIN B |-> GetRuleNames(A[m], B[o])])])

\* The names that the unit relation puts above a node.
Above(node) ==
  {m \in DOMAIN KeyOrder :
     KeyOrder[m] \in DOMAIN unit /\ node.nodetype \in unit[KeyOrder[m]]}

InvUnitRelation(nodes) ==
  FlattenSeq([m \in DOMAIN nodes |->
    Pick([n \in DOMAIN KeyOrder |-> Chart!UnitNode(KeyOrder[n], nodes[m])],
         Above(nodes[m]))])

WithUnits(nodes) == nodes \o InvUnitRelation(nodes)

-----------------------------------------------------------------------------
(* The frame that is returned.                                              *)

\* The alternative that production_rules[AXIOM][0][0] names exists.
HasAxiomSymbol ==
  /\ <<Axiom>> \in DOMAIN rules
  /\ rules[<<Axiom>>] # <<>>
  /\ rules[<<Axiom>>][1] # <<>>

AxiomSymbol == rules[<<Axiom>>][1][1].value

GetAxiomNodes(nodes) ==
  Pick(nodes, {p \in DOMAIN nodes : nodes[p].nodetype \in {<<Axiom>>, AxiomSymbol}})

\* The cells that hold something, and the last of them in the order of the
\* rows.  With no such cell getBrokenNodes keeps its initial values.
Parsed == {c \in (0..(Size - 1)) \X (0..(Size - 1)) : P[c[1]][c[2]] # <<>>}

\* A fault: the first cell of the longest row.
FirstParsed ==
  CHOOSE c \in Parsed :
    \A d \in Parsed : d[1] < c[1] \/ (d[1] = c[1] /\ d[2] >= c[2])

LastParsed ==
  CHOOSE c \in Parsed :
    \A d \in Parsed : d[1] < c[1] \/ (d[1] = c[1] /\ d[2] <= c[2])

\* Where getBrokenNodes reads the first node of the cell before.
ReadsCellBefore == Parsed # {} /\ LastParsed[2] > 0

BrokenFrame ==
  IF Parsed = {} THEN <<>>
  ELSE LET last == LastParsed
       IN  P[last[1]][last[2]]
             \o (IF last[2] > 0 THEN <<P[0][last[2] - 1][1]>> ELSE <<>>)

-----------------------------------------------------------------------------

\* A call of membership by the session that owns the parser.
Call(r, u, w) ==
  /\ rules' = r
  /\ unit' = u
  /\ word' = w
  /\ P' = [x \in 0..(Len(w) - 1) |-> [y \in 0..(Len(w) - 1) |-> <<>>]]
  /\ l' = 0 /\ i' = 0 /\ k' = 0
  /\ pc' = (IF w = <<>> THEN "result" ELSE "terminals")
  /\ frame' = <<>>
  /\ outcome' = "none"

Init ==
  /\ \E x \in Inputs : rules = x.rules /\ unit = x.unit /\ word = x.word
  /\ P = [x \in 0..(Size - 1) |-> [y \in 0..(Size - 1) |-> <<>>]]
  /\ l = 0 /\ i = 0 /\ k = 0
  /\ pc = (IF word = <<>> THEN "result" ELSE "terminals")
  /\ frame = <<>>
  /\ outcome = "none"

\* The first loop: one token.
Terminals ==
  /\ pc = "terminals"
  /\ \E tokens \in {GetTerminal(i)} : P' = [P EXCEPT ![0][i] = WithUnits(tokens)]
  /\ IF i + 1 < Size
     THEN i' = i + 1 /\ UNCHANGED <<l, pc>>
     ELSE i' = 0 /\ l' = 1 /\ pc' = (IF 1 < Size THEN "table" ELSE "result")
  /\ UNCHANGED <<input, k, frame, outcome>>

\* A fault: the last split of a span is left out.
NextSplitTooShort ==
  IF k + 2 < l THEN k' = k + 1 /\ UNCHANGED <<l, i, pc>>
  ELSE /\ k' = 0
       /\ IF i + 1 < Size - l THEN i' = i + 1 /\ UNCHANGED <<l, pc>>
          ELSE /\ i' = 0
               /\ l' = l + 1
               /\ pc' = (IF l + 1 < Size THEN "table" ELSE "result")

\* The headers of the three loops over l, i and k.
NextSplit ==
  IF k + 1 < l THEN k' = k + 1 /\ UNCHANGED <<l, i, pc>>
  ELSE /\ k' = 0
       /\ IF i + 1 < Size - l THEN i' = i + 1 /\ UNCHANGED <<l, pc>>
          ELSE /\ i' = 0
               /\ l' = l + 1
               /\ pc' = (IF l + 1 < Size THEN "table" ELSE "result")

\* A fault: the unit relation is applied to what the cell held before, too.
FillSplitUnitsAgain ==
  /\ pc = "table"
  /\ \E bins \in {GetBinProductions(P[k][i], P[l - k - 1][k + i + 1])} :
       P' = [P EXCEPT ![l][i] = WithUnits(@ \o bins)]
  /\ NextSplit
  /\ UNCHANGED <<input, frame, outcome>>

\* A fault: the right part starts at the last token of the left part.
FillSplitOverlap ==
  /\ pc = "table"
  /\ \E bins \in {GetBinProductions(P[k][i], P[l - k - 1][k + i])} :
       P' = [P EXCEPT ![l][i] = @ \o WithUnits(bins)]
  /\ NextSplit
  /\ UNCHANGED <<input, frame, outcome>>

\* The body of the inner loop.  An empty product adds nothing: `continue`.
FillSplit ==
  /\ pc = "table"
  /\ \E bins \in {GetBinProductions(P[k][i], P[l - k - 1][k + i + 1])} :
       P' = [P EXCEPT ![l][i] = @ \o WithUnits(bins)]
  /\ NextSplit
  /\ UNCHANGED <<input, frame, outcome>>

\* The last cell has nodes: those of the axiom are returned.  Without a rule
\* for AXIOM the code reads the first element of an empty vector.
ReturnAxiomNodes ==
  /\ pc = "result"
  /\ word # <<>>
  /\ P[Size - 1][0] # <<>>
  /\ IF HasAxiomSymbol
     THEN outcome' = "whole" /\ frame' = GetAxiomNodes(P[Size - 1][0])
     ELSE outcome' = "undefined" /\ UNCHANGED frame
  /\ pc' = "done"
  /\ UNCHANGED <<input, P, loop>>

\* A fault: the cell before is looked for in the row of the last parsed cell.
ReturnBrokenNodesSameRow ==
  /\ pc = "result"
  /\ word # <<>>
  /\ P[Size - 1][0] = <<>>
  /\ IF ReadsCellBefore /\ P[LastParsed[1]][LastParsed[2] - 1] = <<>>
     THEN outcome' = "throws" /\ UNCHANGED frame
     ELSE outcome' = "broken" /\ frame' = BrokenFrame
  /\ pc' = "done"
  /\ UNCHANGED <<input, P, loop>>

\* The last cell is empty: getBrokenNodes.  Its `at(0)` throws when the cell
\* before the last parsed one is empty.
ReturnBrokenNodes ==
  /\ pc = "result"
  /\ word # <<>>
  /\ P[Size - 1][0] = <<>>
  /\ IF ReadsCellBefore /\ P[0][LastParsed[2] - 1] = <<>>
     THEN outcome' = "throws" /\ UNCHANGED frame
     ELSE outcome' = "broken" /\ frame' = BrokenFrame
  /\ pc' = "done"
  /\ UNCHANGED <<input, P, loop>>

\* No token at all: P[n - 1] is read outside the matrix.
ReadOutside ==
  /\ pc = "result"
  /\ word = <<>>
  /\ outcome' = "undefined"
  /\ pc' = "done"
  /\ UNCHANGED <<input, P, loop, frame>>

Next == \/ Terminals
        \/ FillSplit
        \/ ReturnAxiomNodes
        \/ ReturnBrokenNodes
        \/ ReadOutside

\* One thread, no waiting.
Spec == Init /\ [][Next]_vars /\ WF_vars(Next)

-----------------------------------------------------------------------------
(* Properties.                                                              *)

Frames == {P[x][y] : x \in DOMAIN P, y \in DOMAIN P}

TypeOK ==
  /\ word \in Seq(Terminal)
  /\ pc \in {"terminals", "table", "result", "done"}
  /\ l \in 0..Size /\ i \in 0..Size /\ k \in 0..Size
  /\ \A f \in Frames : \A m \in DOMAIN f : f[m].nodetype \in Name
  /\ outcome \in {"none", "whole", "broken", "throws", "undefined"}

\* The three loops fill the chart as it promises: they never read a cell that
\* is not finished, and never leave one out.
FillsTheChart == Chart!Spec

\* No parse is reported twice: no frame holds two equal trees, although every
\* rule, split and unit edge pushes nodes on its own and append compares only
\* addresses.
NoTreeTwice ==
  \A f \in Frames : \A m, o \in DOMAIN f : f[m] = f[o] => m = o

\* The nodes of the chart, and the places of the tokens under each, from left
\* to right.
Nodes == UNION {Range(f) : f \in Frames}

Leaves[node \in Nodes] ==
  CASE node.kind = "token" -> node.parts
    [] node.kind = "unit"  -> Leaves[node.parts[1]]
    [] node.kind = "bin"   -> Leaves[node.parts[1]] \o Leaves[node.parts[2]]

\* A tree of cell (l, i) has the tokens from i to i+l as its leaves, each one
\* once and in order.
TreesCoverTheirSpan ==
  LET leaves == Leaves
  IN  \A x, y \in DOMAIN P : \A m \in DOMAIN P[x][y] :
        leaves[P[x][y][m]] = [p \in 1..(x + 1) |-> y + p - 1]

\* The tree of a failed parse that the caller reports is one of the longest
\* that was built, and of these the one furthest right ("last well parsed
\* nodes in the CYKMatrix").
BrokenIsLastLongest ==
  (outcome = "broken" /\ frame # <<>>) =>
    LET leaves == Leaves[frame[1]]
    IN  \A x, y \in DOMAIN P : P[x][y] # <<>> =>
          \/ Len(leaves) > x + 1
          \/ Len(leaves) = x + 1 /\ leaves[1] >= y

\* Every token of the word is a rule of its own.
TokensKnown ==
  \A p \in DOMAIN word : \E name \in DOMAIN rules : Producing(name, word[p]) # {}

\* A word of known tokens is answered: getBrokenNodes' look at the cell before the
\* last parsed one finds a node whatever the grammar left unparsed, and hands out
\* something, so that its `at(0)` throws only at a token that no rule is.
KnownTokensAnswered ==
  (pc = "done" /\ word # <<>> /\ TokensKnown) =>
    \/ outcome = "whole"
    \/ outcome = "broken" /\ frame # <<>>
    \/ outcome = "undefined" /\ ~ HasAxiomSymbol

=============================================================================
