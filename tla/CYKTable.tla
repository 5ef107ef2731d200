------------------------------ MODULE CYKTable ------------------------------
(***************************************************************************)
(* What the chart of CYK::membership promises (parsers/cyk.cpp), apart     *)
(* from the order in which the code fills it and the order of the nodes in *)
(* a cell.                                                                 *)
(*                                                                         *)
(* Cell <<l, i>> is P[l][i]: the nodes that span the l+1 tokens from the   *)
(* i-th on, both counted from 0.  A cell is filled by tasks: one that      *)
(* reads the token for l = 0, and one for each place k at which the span   *)
(* can be split in two.  A task may run as soon as the two cells it reads  *)
(* are finished.                                                           *)
(***************************************************************************)
EXTENDS Grammar

CONSTANT Inputs  \* the calls: records of production_rules, unitrelation, word

ASSUME InputsAssumption == \A x \in Inputs : x.word \in Seq(Terminal)

VARIABLES
  rules,  \* production_rules of the parser
  unit,   \* its unitrelation
  word,   \* the types of the tokens to parse
  P,      \* the chart: the set of nodes of every cell
  done    \* the tasks that have run

vars == <<rules, unit, word, P, done>>

-----------------------------------------------------------------------------
(* Parse tree nodes (datastructure/parsetree.hpp).  A token node remembers  *)
(* the place of its token, since two nodes are two objects.                 *)

TokenNode(name, place) ==
  [nodetype |-> name, kind |-> "token", parts |-> <<place>>]

UnitNode(name, node) ==
  [nodetype |-> name, kind |-> "unit", parts |-> <<node>>]

BinNode(name, left, right) ==
  [nodetype |-> name, kind |-> "bin", parts |-> <<left, right>>]

\* The rule is a single token of the given type (getterminal).
Produces(rule, tokentype) == rule = <<TerminalOperand(tokentype)>>

\* The rule joins the two nodes (getrulenames).
Joins(rule, left, right) ==
  /\ Len(rule) > 1
  /\ rule[1].value = left.nodetype
  /\ rule[2].value = right.nodetype

-----------------------------------------------------------------------------

Size == Len(word)

Cells == {c \in (0..Size) \X (0..Size) : c[1] + c[2] < Size}

ShiftTasks == {t \in (0..Size) \X (0..Size) \X (0..Size) : t[1] = 0 /\ t[2] < Size /\ t[3] = 0}

CombineTasks == {t \in (0..Size) \X (0..Size) \X (0..Size) : t[3] < t[1] /\ t[1] + t[2] < Size}

Tasks == ShiftTasks \cup CombineTasks

TasksOf(c) == {t \in Tasks : t[1] = c[1] /\ t[2] = c[2]}

Finished(c) == TasksOf(c) \subseteq done

\* The two cells that a task reads.
Left(t) == <<t[3], t[2]>>

Right(t) == <<t[1] - t[3] - 1, t[3] + t[2] + 1>>

WithUnits(nodes) ==
  nodes \cup
    {UnitNode(x[1], x[2]) :
       x \in {y \in (DOMAIN unit) \X nodes : y[2].nodetype \in unit[y[1]]}}

\* A fault: every place is given the nodes of the first token.
TokenNodesOfFirst(i) ==
  {TokenNode(name, i) :
     name \in {m \in DOMAIN rules :
                 \E rule \in Alternatives(rules, m) : Produces(rule, word[1])}}

TokenNodes(i) ==
  {TokenNode(name, i) :
     name \in {m \in DOMAIN rules :
                 \E rule \in Alternatives(rules, m) : Produces(rule, word[i + 1])}}

BinNodes(lefts, rights) ==
  {BinNode(x[1], x[2], x[3]) :
     x \in {y \in (DOMAIN rules) \X lefts \X rights :
              \E rule \in Alternatives(rules, y[1]) : Joins(rule, y[2], y[3])}}

-----------------------------------------------------------------------------

\* A fault: the chart has a row and a column too many.
InitTooLarge ==
  /\ \E x \in Inputs : rules = x.rules /\ unit = x.unit /\ word = x.word
  /\ P = [c \in (0..Size) \X (0..Size) |-> {}]
  /\ done = {}

Init ==
  /\ \E x \in Inputs : rules = x.rules /\ unit = x.unit /\ word = x.word
  /\ P = [c \in Cells |-> {}]
  /\ done = {}

Shift(t) ==
  /\ t \in ShiftTasks \ done
  /\ P' = [P EXCEPT ![<<0, t[2]>>] = WithUnits(TokenNodes(t[2]))]
  /\ done' = done \cup {t}
  /\ UNCHANGED <<rules, unit, word>>

\* A fault: the right cell is read before it is finished.
ReadyTooEarly(t) == Finished(Left(t))

Ready(t) == Finished(Left(t)) /\ Finished(Right(t))

\* A fault: the unit relation is left out above the token row.
CombinedWithoutUnits(t) == BinNodes(P[Left(t)], P[Right(t)])

Combined(t) == WithUnits(BinNodes(P[Left(t)], P[Right(t)]))

\* A fault: the nodes go to the row below.
CombineRowBelow(t) ==
  /\ t \in CombineTasks \ done
  /\ Ready(t)
  /\ P' = [P EXCEPT ![<<t[1] - 1, t[2]>>] = @ \cup Combined(t)]
  /\ done' = done \cup {t}
  /\ UNCHANGED <<rules, unit, word>>

Combine(t) ==
  /\ t \in CombineTasks \ done
  /\ Ready(t)
  /\ P' = [P EXCEPT ![<<t[1], t[2]>>] = @ \cup Combined(t)]
  /\ done' = done \cup {t}
  /\ UNCHANGED <<rules, unit, word>>

Next == \/ \E t \in ShiftTasks : Shift(t)
        \/ \E t \in CombineTasks : Combine(t)

Spec == Init /\ [][Next]_vars /\ WF_vars(Next)

-----------------------------------------------------------------------------

TypeOK ==
  /\ word \in Seq(Terminal)
  /\ done \subseteq Tasks
  /\ DOMAIN P = Cells

\* A node of a cell stands on what the chart itself holds: a token node on the
\* token at its place and a rule that is that token, a binary node on one node
\* of each of the two cells of some split and a rule that joins them, a unit
\* node on a node of the same cell that is not a unit node itself.
GroundedNode(node, c) ==
  \/ /\ node.kind = "token" /\ c[1] = 0
     /\ node = TokenNode(node.nodetype, c[2])
     /\ node.nodetype \in DOMAIN rules
     /\ \E rule \in Alternatives(rules, node.nodetype) :
          Produces(rule, word[c[2] + 1])
  \/ /\ node.kind = "bin" /\ node.nodetype \in DOMAIN rules
     /\ \E t \in TasksOf(c) \cap CombineTasks :
          \E a \in P[Left(t)], b \in P[Right(t)] :
            /\ node = BinNode(node.nodetype, a, b)
            /\ \E rule \in Alternatives(rules, node.nodetype) : Joins(rule, a, b)
  \/ /\ node.kind = "unit" /\ node.nodetype \in DOMAIN unit
     /\ \E base \in P[c] :
          /\ node = UnitNode(node.nodetype, base)
          /\ base.kind # "unit"
          /\ base.nodetype \in unit[node.nodetype]

Grounded == \A c \in Cells : \A node \in P[c] : GroundedNode(node, c)

\* Nothing is missed: once a task has run, its cell holds a node for every rule
\* that joins a node of the left cell and a node of the right cell as these
\* cells are now, hence as they are in the end.
Saturated ==
  \A t \in done \cap CombineTasks :
    \A a \in P[Left(t)], b \in P[Right(t)] : \A name \in DOMAIN rules :
      (\E rule \in Alternatives(rules, name) : Joins(rule, a, b))
        => BinNode(name, a, b) \in P[<<t[1], t[2]>>]

\* Over every token and every binary node the unit relation is applied once.
UnitSaturated ==
  \A c \in Cells : \A node \in P[c] : \A name \in DOMAIN unit :
    (node.kind # "unit" /\ node.nodetype \in unit[name])
      => UnitNode(name, node) \in P[c]

\* A finished cell never changes again, so that what a task has read is final.
FinishedCellsAreFinal ==
  [][\A c \in Cells : Finished(c) => P'[c] = P[c]]_vars

=============================================================================
