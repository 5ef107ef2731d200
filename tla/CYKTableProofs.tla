--------------------------- MODULE CYKTableProofs ---------------------------
(***************************************************************************)
(* The chart of CYK::membership keeps its promise for every grammar and    *)
(* every word: its trees are grounded, none is missing, and a finished     *)
(* cell is final.                                                          *)
(***************************************************************************)
EXTENDS CYKTable, SequenceFacts

-----------------------------------------------------------------------------
(* The inductive invariant.                                                 *)

\* A task that has run had finished cells to read.
SourcesFinished ==
  \A t \in done \cap CombineTasks : Finished(Left(t)) /\ Finished(Right(t))

\* A token that was not read has left nothing in its cell.
UnreadEmpty == \A t \in ShiftTasks \ done : P[<<0, t[2]>>] = {}

\* A token that was read has left its nodes and their unit nodes in its cell.
Shifted == \A t \in ShiftTasks \cap done : WithUnits(TokenNodes(t[2])) \subseteq P[<<0, t[2]>>]

\* What every step keeps.
ChartInv == /\ TypeOK
            /\ SourcesFinished
            /\ UnreadEmpty
            /\ Shifted
            /\ Grounded
            /\ Saturated
            /\ UnitSaturated

\* No cell loses a node.
Grows == \A c \in Cells : P[c] \subseteq P'[c]

-----------------------------------------------------------------------------

\* The cells of a task are cells, and it reads shorter spans than it fills.
LEMMA CombineCells ==
  ASSUME word \in Seq(Terminal), NEW t \in CombineTasks
  PROVE  /\ <<t[1], t[2]>> \in Cells
         /\ Left(t) \in Cells
         /\ Right(t) \in Cells
         /\ t \in TasksOf(<<t[1], t[2]>>)
         /\ t[1] # 0
<1>1. Size \in Nat
  BY DEF Size
<1>2. /\ t \in (0..Size) \X (0..Size) \X (0..Size)
      /\ t[3] < t[1] /\ t[1] + t[2] < Size
  BY DEF CombineTasks
<1>3. PICK x \in 0..Size, y \in 0..Size, z \in 0..Size : t = <<x, y, z>>
  BY <1>2
<1>4. /\ <<x, y>> \in Cells
      /\ <<z, y>> \in Cells
      /\ <<x - z - 1, z + y + 1>> \in Cells
  <2>1. /\ x \in Nat /\ y \in Nat /\ z \in Nat
        /\ z < x /\ x + y < Size
    BY <1>1, <1>2, <1>3
  <2>2. /\ x - z - 1 \in 0..Size
        /\ z + y + 1 \in 0..Size
        /\ (x - z - 1) + (z + y + 1) < Size
        /\ z + y < Size
    BY <1>1, <2>1
  <2> QED
    BY <1>3, <2>1, <2>2 DEF Cells
<1>5. t \in TasksOf(<<t[1], t[2]>>)
  BY DEF TasksOf, Tasks
<1> QED
  BY <1>1, <1>2, <1>3, <1>4, <1>5 DEF Left, Right

\* A cell with a task that has not run is not one that another task reads from
\* when its sources are finished.
LEMMA UnfinishedCell ==
  ASSUME NEW c, NEW t \in TasksOf(c), t \notin done
  PROVE  ~ Finished(c)
BY DEF Finished

\* The chart's cells, when a step changes the cell of task t only.
LEMMA OneCellChanges ==
  ASSUME TypeOK, NEW t \in Tasks, <<t[1], t[2]>> \in Cells, NEW S,
         P' = [P EXCEPT ![<<t[1], t[2]>>] = S]
  PROVE  /\ DOMAIN P' = Cells
         /\ P'[<<t[1], t[2]>>] = S
         /\ \A c \in Cells : c # <<t[1], t[2]>> => P'[c] = P[c]
BY DEF TypeOK

\* What WithUnits adds, node by node.
LEMMA WithUnitsNodes ==
  ASSUME NEW nodes
  PROVE  /\ nodes \subseteq WithUnits(nodes)
         /\ \A x \in WithUnits(nodes) : x \notin nodes =>
              \E name \in DOMAIN unit, base \in nodes :
                x = UnitNode(name, base) /\ base.nodetype \in unit[name]
         /\ \A name \in DOMAIN unit, base \in nodes :
              base.nodetype \in unit[name] => UnitNode(name, base) \in WithUnits(nodes)
<1>1. ASSUME NEW name \in DOMAIN unit, NEW base \in nodes, base.nodetype \in unit[name]
      PROVE  UnitNode(name, base) \in WithUnits(nodes)
  <2> DEFINE y == <<name, base>>
  <2>1. y \in (DOMAIN unit) \X nodes /\ y[1] = name /\ y[2] = base
    OBVIOUS
  <2>2. y \in {z \in (DOMAIN unit) \X nodes : z[2].nodetype \in unit[z[1]]}
    BY <1>1, <2>1
  <2> HIDE DEF y
  <2> QED
    BY <2>1, <2>2 DEF WithUnits
<1>2. ASSUME NEW x \in WithUnits(nodes), x \notin nodes
      PROVE  \E name \in DOMAIN unit, base \in nodes :
               x = UnitNode(name, base) /\ base.nodetype \in unit[name]
  BY <1>2 DEF WithUnits
<1> QED
  BY <1>1, <1>2 DEF WithUnits

\* The nodes of a token stay as long as the grammar and the word.
LEMMA TokenNodesStay ==
  ASSUME UNCHANGED <<rules, unit, word>>, NEW place
  PROVE  WithUnits(TokenNodes(place))' = WithUnits(TokenNodes(place))
BY DEF WithUnits, TokenNodes, Alternatives

\* What BinNodes contains.
LEMMA BinNodesNodes ==
  ASSUME NEW lefts, NEW rights
  PROVE  /\ \A x \in BinNodes(lefts, rights) :
              \E name \in DOMAIN rules, a \in lefts, b \in rights :
                /\ x = BinNode(name, a, b)
                /\ \E rule \in Alternatives(rules, name) : Joins(rule, a, b)
         /\ \A name \in DOMAIN rules, a \in lefts, b \in rights :
              (\E rule \in Alternatives(rules, name) : Joins(rule, a, b))
                => BinNode(name, a, b) \in BinNodes(lefts, rights)
<1>1. ASSUME NEW x \in BinNodes(lefts, rights)
      PROVE  \E name \in DOMAIN rules, a \in lefts, b \in rights :
               /\ x = BinNode(name, a, b)
               /\ \E rule \in Alternatives(rules, name) : Joins(rule, a, b)
  BY DEF BinNodes
<1>2. ASSUME NEW name \in DOMAIN rules, NEW a \in lefts, NEW b \in rights,
             \E rule \in Alternatives(rules, name) : Joins(rule, a, b)
      PROVE  BinNode(name, a, b) \in BinNodes(lefts, rights)
  <2> DEFINE y == <<name, a, b>>
  <2>1. /\ y \in (DOMAIN rules) \X lefts \X rights
        /\ y[1] = name /\ y[2] = a /\ y[3] = b
    OBVIOUS
  <2>2. y \in {z \in (DOMAIN rules) \X lefts \X rights :
                 \E rule \in Alternatives(rules, z[1]) : Joins(rule, z[2], z[3])}
    BY <1>2, <2>1
  <2> HIDE DEF y
  <2> QED
    BY <2>1, <2>2 DEF BinNodes
<1> QED
  BY <1>1, <1>2

-----------------------------------------------------------------------------
(* Nodes keep their ground when the chart grows.                            *)

\* A grounded node stays so when cells only grow.
LEMMA GroundedGrows ==
  ASSUME Grows, UNCHANGED <<rules, unit, word>>, word \in Seq(Terminal),
         NEW c \in Cells, NEW node, GroundedNode(node, c)
  PROVE  GroundedNode(node, c)'
<1>1. CASE node.kind = "token"
  BY <1>1 DEF GroundedNode, Alternatives, Produces, TokenNode
<1>2. CASE node.kind = "bin"
  <2>1. PICK t \in TasksOf(c) \cap CombineTasks :
          \E a \in P[Left(t)], b \in P[Right(t)] :
            /\ node = BinNode(node.nodetype, a, b)
            /\ \E rule \in Alternatives(rules, node.nodetype) : Joins(rule, a, b)
    BY <1>2 DEF GroundedNode
  <2>2. P[Left(t)] \subseteq P'[Left(t)] /\ P[Right(t)] \subseteq P'[Right(t)]
    BY CombineCells DEF Grows
  <2>3. t \in (TasksOf(c) \cap CombineTasks)'
    BY DEF TasksOf, Tasks, ShiftTasks, CombineTasks, Size
  <2>4. \E a \in P'[Left(t)], b \in P'[Right(t)] :
            /\ node = BinNode(node.nodetype, a, b)
            /\ \E rule \in Alternatives(rules, node.nodetype)' : Joins(rule, a, b)
    BY <2>1, <2>2 DEF Alternatives
  <2> QED
    BY <1>2, <2>3, <2>4 DEF GroundedNode
<1>3. CASE node.kind = "unit"
  BY <1>3 DEF GroundedNode, Grows
<1> QED
  BY <1>1, <1>2, <1>3 DEF GroundedNode

-----------------------------------------------------------------------------
(* Trees are kept apart by their spans.                                     *)

\* No tree stands in two cells.
OneCell ==
  \A c, d \in Cells : \A node : node \in P[c] /\ node \in P[d] => c = d

\* A cell is known by its two numbers, and a task by the cells it reads.
LEMMA TaskOfSources ==
  ASSUME word \in Seq(Terminal), NEW t \in CombineTasks, NEW u \in CombineTasks,
         Left(t) = Left(u), Right(t) = Right(u)
  PROVE  t[1] = u[1] /\ t[2] = u[2] /\ t[3] = u[3]
<1>1. Size \in Nat
  BY DEF Size
<1>2. /\ t[1] \in Int /\ t[2] \in Int /\ t[3] \in Int
      /\ u[1] \in Int /\ u[2] \in Int /\ u[3] \in Int
  BY <1>1 DEF CombineTasks
<1>3. t[3] = u[3] /\ t[2] = u[2] /\ t[1] - t[3] - 1 = u[1] - u[3] - 1
  BY DEF Left, Right
<1> QED
  BY <1>2, <1>3

\* In a grounded chart a tree shows the cell it is in: a token by its place, a
\* joined tree by the cells of its parts, which are shorter spans, a unit tree
\* by the cell of what is under it.
LEMMA GroundedApart == TypeOK /\ Grounded => OneCell
<1> SUFFICES ASSUME TypeOK, Grounded PROVE OneCell
  OBVIOUS
<1>1. word \in Seq(Terminal) /\ Size \in Nat
  BY DEF TypeOK, Size
<1>2. \A c \in Cells : c = <<c[1], c[2]>> /\ c[1] \in Nat /\ c[2] \in Nat
  BY <1>1 DEF Cells
<1> DEFINE Apart(c, node) == \A d \in Cells : node \in P[d] => c = d
           Lows == {n \in Nat : \A c \in Cells : c[1] < n => \A node \in P[c] : Apart(c, node)}
<1>3. 0 \in Lows
  BY <1>2
<1>4. ASSUME NEW n \in Nat, n \in Lows PROVE n + 1 \in Lows
  <2>1. ASSUME NEW c \in Cells, c[1] < n + 1, NEW node \in P[c], node.kind # "unit"
        PROVE  Apart(c, node)
    <3> SUFFICES ASSUME NEW d \in Cells, node \in P[d] PROVE c = d
      OBVIOUS
    <3>1. GroundedNode(node, c) /\ GroundedNode(node, d)
      BY <2>1 DEF Grounded
    <3>2. CASE node.kind = "token"
      <4>1. /\ c[1] = 0 /\ node = TokenNode(node.nodetype, c[2])
            /\ d[1] = 0 /\ node = TokenNode(node.nodetype, d[2])
        BY <3>1, <3>2 DEF GroundedNode
      <4>2. node.parts = <<c[2]>> /\ node.parts = <<d[2]>>
        BY <4>1 DEF TokenNode
      <4>3. c[2] = d[2]
        BY <4>2
      <4> QED
        BY <1>2, <4>1, <4>3
    <3>3. CASE node.kind = "bin"
      <4>1. PICK t \in TasksOf(c) \cap CombineTasks :
              \E a \in P[Left(t)], b \in P[Right(t)] : node = BinNode(node.nodetype, a, b)
        BY <3>1, <3>3 DEF GroundedNode
      <4>2. PICK u \in TasksOf(d) \cap CombineTasks :
              \E a \in P[Left(u)], b \in P[Right(u)] : node = BinNode(node.nodetype, a, b)
        BY <3>1, <3>3 DEF GroundedNode
      <4>3. PICK a \in P[Left(t)], b \in P[Right(t)] : node = BinNode(node.nodetype, a, b)
        BY <4>1
      <4>4. PICK aa \in P[Left(u)], bb \in P[Right(u)] : node = BinNode(node.nodetype, aa, bb)
        BY <4>2
      <4>5. node.parts = <<a, b>> /\ node.parts = <<aa, bb>>
        BY <4>3, <4>4 DEF BinNode
      <4>6. a = aa /\ b = bb
        BY <4>5
      <4>7. t[1] = c[1] /\ t[2] = c[2] /\ u[1] = d[1] /\ u[2] = d[2]
        BY DEF TasksOf
      <4>8. /\ Left(t) \in Cells /\ Right(t) \in Cells
            /\ Left(u) \in Cells /\ Right(u) \in Cells
        BY <1>1, CombineCells
      <4>9. Left(t)[1] < n /\ Right(t)[1] < n
        <5>1. /\ t[1] \in Nat /\ t[3] \in Nat /\ t[3] < t[1]
          BY <1>1 DEF CombineTasks
        <5> QED
          BY <2>1, <4>7, <5>1 DEF Left, Right
      <4>10. Left(t) = Left(u) /\ Right(t) = Right(u)
        BY <1>4, <4>6, <4>8, <4>9
      <4>11. t[1] = u[1] /\ t[2] = u[2]
        BY <1>1, <4>10, TaskOfSources
      <4> QED
        BY <1>2, <4>7, <4>11
    <3> QED
      BY <2>1, <3>1, <3>2, <3>3 DEF GroundedNode
  <2>2. ASSUME NEW c \in Cells, c[1] < n + 1, NEW node \in P[c], node.kind = "unit"
        PROVE  Apart(c, node)
    <3> SUFFICES ASSUME NEW d \in Cells, node \in P[d] PROVE c = d
      OBVIOUS
    <3>1. GroundedNode(node, c) /\ GroundedNode(node, d)
      BY <2>2 DEF Grounded
    <3>2. PICK base \in P[c] : node = UnitNode(node.nodetype, base) /\ base.kind # "unit"
      BY <2>2, <3>1 DEF GroundedNode
    <3>3. PICK other \in P[d] : node = UnitNode(node.nodetype, other)
      BY <2>2, <3>1 DEF GroundedNode
    <3>4. node.parts = <<base>> /\ node.parts = <<other>>
      BY <3>2, <3>3 DEF UnitNode
    <3>5. base = other
      BY <3>4
    <3> QED
      BY <2>1, <2>2, <3>2, <3>5
  <2>3. \A c \in Cells : c[1] < n + 1 => \A node \in P[c] : Apart(c, node)
    BY <2>1, <2>2
  <2> QED
    BY <2>3
<1>5. Nat \subseteq Lows
  <2> HIDE DEF Lows
  <2> QED
    BY <1>3, <1>4, AllNat
<1> QED
  <2> SUFFICES ASSUME NEW c \in Cells, NEW d \in Cells, NEW node, node \in P[c], node \in P[d]
               PROVE  c = d
    BY DEF OneCell
  <2>1. c[1] + 1 \in Lows /\ c[1] < c[1] + 1
    BY <1>2, <1>5
  <2> QED
    BY <2>1

-----------------------------------------------------------------------------
(* The initial chart is empty.                                              *)

\* A chart without nodes, for any grammar and word.
Blank ==
  /\ word \in Seq(Terminal)
  /\ P = [c \in Cells |-> {}]
  /\ done = {}

\* The empty chart has the invariant.
LEMMA BlankChart == Blank => ChartInv
<1> SUFFICES ASSUME Blank PROVE ChartInv
  OBVIOUS
<1>1. word \in Seq(Terminal)
  BY DEF Blank
<1>2. \A c \in Cells : P[c] = {}
  BY DEF Blank
<1>3. \A t \in ShiftTasks : <<0, t[2]>> \in Cells
  <2> SUFFICES ASSUME NEW t \in ShiftTasks PROVE <<0, t[2]>> \in Cells
    OBVIOUS
  <2>1. Size \in Nat
    BY <1>1 DEF Size
  <2> QED
    BY <2>1 DEF ShiftTasks, Cells
<1>4. TypeOK
  BY <1>1 DEF Blank, TypeOK
<1> QED
  BY <1>2, <1>3, <1>4 DEF Blank, ChartInv, SourcesFinished, UnreadEmpty, Shifted,
     Grounded, Saturated, UnitSaturated

LEMMA InitChart == Init => ChartInv
<1>1. Init => Blank
  BY InputsAssumption DEF Init, Blank
<1> QED
  BY <1>1, BlankChart

-----------------------------------------------------------------------------
(* Reading a token fills an empty cell.                                     *)

\* A token's task keeps it and leaves finished cells alone.
LEMMA ShiftStep ==
  ASSUME ChartInv, NEW t \in ShiftTasks, Shift(t)
  PROVE  ChartInv' /\ Grows /\ (\A c \in Cells : Finished(c) => P'[c] = P[c])
<1> DEFINE target == <<0, t[2]>>
           new    == WithUnits(TokenNodes(t[2]))
<1>0. /\ word \in Seq(Terminal) /\ Size \in Nat
      /\ UNCHANGED <<rules, unit, word>>
      /\ t \notin done /\ done' = done \cup {t}
  BY DEF ChartInv, TypeOK, Shift, Size
<1>1. /\ target \in Cells /\ t \in TasksOf(target) /\ t \in Tasks
      /\ <<t[1], t[2]>> = target /\ t[1] = 0 /\ t[3] = 0
  BY <1>0 DEF ShiftTasks, Cells, TasksOf, Tasks
<1>2. /\ DOMAIN P' = Cells
      /\ P'[target] = new
      /\ \A c \in Cells : c # target => P'[c] = P[c]
  BY <1>1, OneCellChanges DEF ChartInv, Shift
<1>3. P[target] = {}
  BY <1>0 DEF ChartInv, UnreadEmpty
<1>4. Grows
  BY <1>2, <1>3 DEF Grows
<1>5. /\ Cells' = Cells /\ Tasks' = Tasks /\ ShiftTasks' = ShiftTasks
      /\ CombineTasks' = CombineTasks
      /\ \A c : TasksOf(c)' = TasksOf(c)
      /\ \A c : Finished(c) => Finished(c)'
  BY <1>0 DEF Cells, Tasks, ShiftTasks, CombineTasks, TasksOf, Finished, Size
<1>6. ~ Finished(target)
  BY <1>0, <1>1, UnfinishedCell
<1>7. \A c \in Cells : Finished(c) => P'[c] = P[c]
  BY <1>2, <1>6
<1>8. TypeOK'
  BY <1>0, <1>1, <1>2, <1>5 DEF ChartInv, TypeOK
<1>9. \A s \in CombineTasks : s # t
  BY <1>0, <1>1, CombineCells
<1>10. SourcesFinished'
  BY <1>0, <1>5, <1>9 DEF ChartInv, SourcesFinished
<1>11. UnreadEmpty'
  <2> SUFFICES ASSUME NEW s \in ShiftTasks \ done' PROVE P'[<<0, s[2]>>] = {}
    BY <1>5 DEF UnreadEmpty
  <2>1. s # t /\ s \notin done
    BY <1>0
  <2>2. <<0, s[2]>> # target /\ <<0, s[2]>> \in Cells
    BY <1>0, <1>1, <2>1 DEF ShiftTasks, Cells
  <2> QED
    BY <1>2, <2>1, <2>2 DEF ChartInv, UnreadEmpty
<1>12. ASSUME NEW node \in TokenNodes(t[2])
       PROVE  node.kind = "token" /\ GroundedNode(node, target)'
  <2>1. PICK name \in DOMAIN rules :
          /\ node = TokenNode(name, t[2])
          /\ \E rule \in Alternatives(rules, name) : Produces(rule, word[t[2] + 1])
    BY DEF TokenNodes
  <2>2. node.kind = "token" /\ node.nodetype = name
    BY <2>1 DEF TokenNode
  <2> QED
    BY <1>0, <2>1, <2>2 DEF GroundedNode, Alternatives
<1>13. Grounded'
  <2> SUFFICES ASSUME NEW c \in Cells, NEW node \in P'[c] PROVE GroundedNode(node, c)'
    BY <1>5 DEF Grounded
  <2>1. CASE c # target
    BY <1>0, <1>2, <1>4, <2>1, GroundedGrows DEF ChartInv, Grounded
  <2>2. CASE c = target /\ node \in TokenNodes(t[2])
    BY <1>12, <2>2
  <2>3. CASE c = target /\ node \notin TokenNodes(t[2])
    <3>1. PICK name \in DOMAIN unit, base \in TokenNodes(t[2]) :
            node = UnitNode(name, base) /\ base.nodetype \in unit[name]
      BY <1>2, <2>3, WithUnitsNodes
    <3>2. base \in P'[c] /\ base.kind # "unit"
      BY <1>2, <1>12, <2>3, WithUnitsNodes
    <3>3. node.kind = "unit" /\ node.nodetype = name
      BY <3>1 DEF UnitNode
    <3> QED
      BY <1>0, <3>1, <3>2, <3>3 DEF GroundedNode
  <2> QED
    BY <2>1, <2>2, <2>3
<1>14. Saturated'
  <2> SUFFICES ASSUME NEW s \in done \cap CombineTasks,
                      NEW a \in P'[Left(s)], NEW b \in P'[Right(s)],
                      NEW name \in DOMAIN rules,
                      \E rule \in Alternatives(rules, name) : Joins(rule, a, b)
               PROVE  BinNode(name, a, b) \in P'[<<s[1], s[2]>>]
    BY <1>0, <1>5, <1>9 DEF Saturated, Alternatives
  <2>1. P'[Left(s)] = P[Left(s)] /\ P'[Right(s)] = P[Right(s)]
    BY <1>0, <1>7, CombineCells DEF ChartInv, SourcesFinished
  <2>2. BinNode(name, a, b) \in P[<<s[1], s[2]>>]
    BY <2>1 DEF ChartInv, Saturated
  <2> QED
    BY <1>0, <1>4, <2>2, CombineCells DEF Grows
<1>15. UnitSaturated'
  <2> SUFFICES ASSUME NEW c \in Cells, NEW node \in P'[c], NEW name \in DOMAIN unit,
                      node.kind # "unit", node.nodetype \in unit[name]
               PROVE  UnitNode(name, node) \in P'[c]
    BY <1>0, <1>5 DEF UnitSaturated
  <2>1. CASE c # target
    BY <1>2, <2>1 DEF ChartInv, UnitSaturated
  <2>2. CASE c = target
    <3>1. node \in TokenNodes(t[2])
      <4> SUFFICES ASSUME node \notin TokenNodes(t[2]) PROVE node.kind = "unit"
        OBVIOUS
      <4> QED
        BY <1>2, <2>2, WithUnitsNodes DEF UnitNode
    <3> QED
      BY <1>2, <2>2, <3>1, WithUnitsNodes
  <2> QED
    BY <2>1, <2>2
<1>16. Shifted'
  <2> SUFFICES ASSUME NEW s \in ShiftTasks \cap done'
               PROVE  WithUnits(TokenNodes(s[2])) \subseteq P'[<<0, s[2]>>]
    BY <1>0, <1>5, TokenNodesStay DEF Shifted
  <2>1. <<0, s[2]>> \in Cells
    BY <1>0 DEF ShiftTasks, Cells
  <2>2. CASE s[2] = t[2]
    BY <1>2, <2>2
  <2>3. CASE s[2] # t[2]
    <3>1. s \in ShiftTasks \cap done /\ <<0, s[2]>> # target
      BY <1>0, <2>3
    <3> QED
      BY <1>2, <2>1, <3>1 DEF ChartInv, Shifted
  <2> QED
    BY <2>2, <2>3
<1> QED
  BY <1>4, <1>7, <1>8, <1>10, <1>11, <1>13, <1>14, <1>15, <1>16 DEF ChartInv

-----------------------------------------------------------------------------
(* A split adds binary nodes and the unit nodes above them.                 *)

\* So does the task of a split.
LEMMA CombineStep ==
  ASSUME ChartInv, NEW t \in CombineTasks, Combine(t)
  PROVE  ChartInv' /\ Grows /\ (\A c \in Cells : Finished(c) => P'[c] = P[c])
<1> DEFINE target == <<t[1], t[2]>>
           bins   == BinNodes(P[Left(t)], P[Right(t)])
           new    == WithUnits(bins)
<1>0. /\ word \in Seq(Terminal) /\ Size \in Nat
      /\ UNCHANGED <<rules, unit, word>>
      /\ t \notin done /\ done' = done \cup {t}
      /\ Finished(Left(t)) /\ Finished(Right(t))
  BY DEF ChartInv, TypeOK, Combine, Ready, Combined, Size
<1>1. /\ target \in Cells /\ Left(t) \in Cells /\ Right(t) \in Cells
      /\ t \in TasksOf(target) /\ t \in Tasks /\ t[1] # 0
  BY <1>0, CombineCells DEF Tasks
<1>2. /\ DOMAIN P' = Cells
      /\ P'[target] = P[target] \cup new
      /\ \A c \in Cells : c # target => P'[c] = P[c]
  BY <1>1, OneCellChanges DEF ChartInv, Combine, Ready, Combined
<1>4. Grows
  BY <1>2 DEF Grows
<1>5. /\ Cells' = Cells /\ Tasks' = Tasks /\ ShiftTasks' = ShiftTasks
      /\ CombineTasks' = CombineTasks
      /\ \A c : TasksOf(c)' = TasksOf(c)
      /\ \A c : Finished(c) => Finished(c)'
  BY <1>0 DEF Cells, Tasks, ShiftTasks, CombineTasks, TasksOf, Finished, Size
<1>6. ~ Finished(target)
  BY <1>0, <1>1, UnfinishedCell
<1>7. \A c \in Cells : Finished(c) => P'[c] = P[c]
  BY <1>2, <1>6
<1>8. TypeOK'
  BY <1>0, <1>1, <1>2, <1>5 DEF ChartInv, TypeOK
<1>10. SourcesFinished'
  BY <1>0, <1>5 DEF ChartInv, SourcesFinished
<1>11. UnreadEmpty'
  <2> SUFFICES ASSUME NEW s \in ShiftTasks \ done' PROVE P'[<<0, s[2]>>] = {}
    BY <1>5 DEF UnreadEmpty
  <2>1. <<0, s[2]>> # target /\ <<0, s[2]>> \in Cells
    BY <1>0, <1>1 DEF ShiftTasks, Cells
  <2> QED
    BY <1>0, <1>2, <2>1 DEF ChartInv, UnreadEmpty
<1>12. ASSUME NEW node \in bins
       PROVE  node.kind = "bin" /\ GroundedNode(node, target)'
  <2>1. PICK name \in DOMAIN rules, a \in P[Left(t)], b \in P[Right(t)] :
          /\ node = BinNode(name, a, b)
          /\ \E rule \in Alternatives(rules, name) : Joins(rule, a, b)
    BY BinNodesNodes
  <2>2. node.kind = "bin" /\ node.nodetype = name
    BY <2>1 DEF BinNode
  <2>3. a \in P'[Left(t)] /\ b \in P'[Right(t)]
    BY <1>1, <1>4 DEF Grows
  <2>4. t \in (TasksOf(target) \cap CombineTasks)'
    BY <1>1, <1>5
  <2> QED
    BY <1>0, <2>1, <2>2, <2>3, <2>4 DEF GroundedNode, Alternatives
<1>13. Grounded'
  <2> SUFFICES ASSUME NEW c \in Cells, NEW node \in P'[c] PROVE GroundedNode(node, c)'
    BY <1>5 DEF Grounded
  <2>1. CASE node \in P[c]
    BY <1>0, <1>4, <2>1, GroundedGrows DEF ChartInv, Grounded
  <2>2. CASE node \notin P[c] /\ node \in bins
    BY <1>2, <1>12, <2>2
  <2>3. CASE node \notin P[c] /\ node \notin bins
    <3>1. c = target /\ node \in new
      BY <1>2, <2>3
    <3>2. PICK name \in DOMAIN unit, base \in bins :
            node = UnitNode(name, base) /\ base.nodetype \in unit[name]
      BY <2>3, <3>1, WithUnitsNodes
    <3>3. base \in P'[c] /\ base.kind # "unit"
      BY <1>2, <1>12, <3>1, WithUnitsNodes
    <3>4. node.kind = "unit" /\ node.nodetype = name
      BY <3>2 DEF UnitNode
    <3> QED
      BY <1>0, <3>2, <3>3, <3>4 DEF GroundedNode
  <2> QED
    BY <2>1, <2>2, <2>3
<1>14. Saturated'
  <2> SUFFICES ASSUME NEW s \in done' \cap CombineTasks,
                      NEW a \in P'[Left(s)], NEW b \in P'[Right(s)],
                      NEW name \in DOMAIN rules,
                      \E rule \in Alternatives(rules, name) : Joins(rule, a, b)
               PROVE  BinNode(name, a, b) \in P'[<<s[1], s[2]>>]
    BY <1>0, <1>5 DEF Saturated, Alternatives
  <2>1. Finished(Left(s)) /\ Finished(Right(s))
    BY <1>0 DEF ChartInv, SourcesFinished
  <2>2. P'[Left(s)] = P[Left(s)] /\ P'[Right(s)] = P[Right(s)]
    BY <1>0, <1>7, <2>1, CombineCells
  <2>3. CASE s = t
    BY <1>2, <2>2, <2>3, BinNodesNodes, WithUnitsNodes
  <2>4. CASE s # t
    <3>1. BinNode(name, a, b) \in P[<<s[1], s[2]>>]
      BY <1>0, <2>2, <2>4 DEF ChartInv, Saturated
    <3> QED
      BY <1>0, <1>4, <3>1, CombineCells DEF Grows
  <2> QED
    BY <2>3, <2>4
<1>15. UnitSaturated'
  <2> SUFFICES ASSUME NEW c \in Cells, NEW node \in P'[c], NEW name \in DOMAIN unit,
                      node.kind # "unit", node.nodetype \in unit[name]
               PROVE  UnitNode(name, node) \in P'[c]
    BY <1>0, <1>5 DEF UnitSaturated
  <2>1. CASE node \in P[c]
    BY <1>4, <2>1 DEF ChartInv, UnitSaturated, Grows
  <2>2. CASE node \notin P[c]
    <3>1. c = target /\ node \in new
      BY <1>2, <2>2
    <3>2. node \in bins
      <4> SUFFICES ASSUME node \notin bins PROVE node.kind = "unit"
        OBVIOUS
      <4> QED
        BY <3>1, WithUnitsNodes DEF UnitNode
    <3> QED
      BY <1>2, <3>1, <3>2, WithUnitsNodes
  <2> QED
    BY <2>1, <2>2
<1>16. Shifted'
  <2> SUFFICES ASSUME NEW s \in ShiftTasks \cap done'
               PROVE  WithUnits(TokenNodes(s[2])) \subseteq P'[<<0, s[2]>>]
    BY <1>0, <1>5, TokenNodesStay DEF Shifted
  <2>1. <<0, s[2]>> \in Cells /\ s[1] = 0
    BY <1>0 DEF ShiftTasks, Cells
  <2>2. s \in ShiftTasks \cap done
    BY <1>0, <1>1, <2>1
  <2> QED
    BY <1>4, <2>1, <2>2 DEF ChartInv, Shifted, Grows
<1> QED
  BY <1>4, <1>7, <1>8, <1>10, <1>11, <1>13, <1>14, <1>15, <1>16 DEF ChartInv

-----------------------------------------------------------------------------

\* So does a step that changes nothing.
LEMMA StutterStep == ChartInv /\ UNCHANGED vars => ChartInv'
<1> SUFFICES ASSUME ChartInv, UNCHANGED vars PROVE ChartInv'
  OBVIOUS
<1>1. /\ Cells' = Cells /\ Tasks' = Tasks /\ ShiftTasks' = ShiftTasks
      /\ CombineTasks' = CombineTasks /\ \A c : TasksOf(c)' = TasksOf(c)
      /\ \A c : Finished(c)' = Finished(c)
  BY DEF Cells, Tasks, ShiftTasks, CombineTasks, TasksOf, Finished, Size, vars
<1>2. \A node, c : GroundedNode(node, c)' = GroundedNode(node, c)
  BY <1>1 DEF GroundedNode, Alternatives, vars
<1>3. \A place : WithUnits(TokenNodes(place))' = WithUnits(TokenNodes(place))
  BY TokenNodesStay DEF vars
<1> QED
  BY <1>1, <1>2, <1>3 DEF ChartInv, TypeOK, SourcesFinished, UnreadEmpty, Shifted, Grounded,
     Saturated, UnitSaturated, Alternatives, vars

\* The parts of the invariant hold in every reachable state: types, grounded
\* trees, and no tree missing for a split or a unit edge that has been handled.
THEOREM ChartInvariant == Spec => []ChartInv
<1>1. Init => ChartInv
  BY InitChart
<1>2. ChartInv /\ [Next]_vars => ChartInv'
  BY ShiftStep, CombineStep, StutterStep DEF Next
<1> QED
  BY <1>1, <1>2, PTL DEF Spec

\* Every variable of the chart holds a value of its kind.
THEOREM ChartTypes == Spec => []TypeOK
BY ChartInvariant, PTL DEF ChartInv

\* Soundness of the chart: every node of every cell stands on a token, on two
\* nodes of neighbouring spans, or on one node of its own cell, by a rule or an
\* edge of the unit relation of the parser's grammar.
THEOREM ChartGrounded == Spec => []Grounded
BY ChartInvariant, PTL DEF ChartInv

\* Completeness of the chart for binary rules: no pair of nodes that a rule
\* joins is missed by a task that has run, nodes added later included.
THEOREM ChartSaturated == Spec => []Saturated
BY ChartInvariant, PTL DEF ChartInv

\* Completeness of the chart for one step of the unit relation.
THEOREM ChartUnitSaturated == Spec => []UnitSaturated
BY ChartInvariant, PTL DEF ChartInv

\* No tree is built in two cells: the parts of a tree keep its span.
THEOREM ChartTreesApart == Spec => []OneCell
BY ChartInvariant, GroundedApart, PTL DEF ChartInv

\* A cell whose tasks have run is never written again.
THEOREM ChartCellsAreFinal == Spec => FinishedCellsAreFinal
<1>1. ChartInv /\ [Next]_vars => [\A c \in Cells : Finished(c) => P'[c] = P[c]]_vars
  BY ShiftStep, CombineStep DEF Next
<1> QED
  BY <1>1, ChartInvariant, PTL DEF Spec, FinishedCellsAreFinal

=============================================================================
