--------------------------- MODULE TreeConversion ---------------------------
(***************************************************************************)
(* What the session makes of the chosen parse tree: the nodes' unfold      *)
(* (datastructure/parsetree.cpp) turns it into a tree of named parts, and  *)
(* ParseSession::parse (parsesession.cpp) picks the parts that the grammar *)
(* file marked and puts them in a property tree.                           *)
(*                                                                         *)
(* The text of a token is its place in the source.  A part is a name and a *)
(* tree; both come from one node of the chart, so that a branch is the     *)
(* sequence of the nodes its parts come from, and a leaf is a token node.  *)
(* A property tree is the set of its texts, each with the path that leads  *)
(* to it: a step of the path is a label and a place in the list under it.  *)
(***************************************************************************)
EXTENDS ParseSession

-----------------------------------------------------------------------------
(* unfold.                                                                  *)

\* The name has a slash: BIN made it.
IsCompacted(node) == Len(node.nodetype) > 1

\* What the node adds to the branch of its parent, given the branch that is below
\* it: a part of its own, or that branch if BIN made its name or the part would
\* stand directly in a part of the same name.
Unfold(node, parent, below) ==
  IF node.kind # "token" /\ (IsCompacted(node) \/ parent = node.nodetype)
  THEN below ELSE <<node>>

\* A fault: the parts of the right child replace those of the left one.
MergeOver(left, right) == right

\* Tree::merge
MergeTrees(left, right) == left \o right

\* The branch below a node; there is none below a token.
Below[node \in Parser!Nodes] ==
  LET unfolded(m) == Unfold(node.parts[m], node.nodetype, Below[node.parts[m]])
  IN  CASE node.kind = "token" -> <<>>
        [] node.kind = "unit"  -> unfolded(1)
        [] node.kind = "bin"   -> MergeTrees(unfolded(1), unfolded(2))

\* The texts of the tokens of the node's tree.
StrUnfold[node \in Parser!Nodes] ==
  IF node.kind = "token" THEN node.parts
  ELSE FlattenSeq([m \in DOMAIN Below[node] |-> StrUnfold[Below[node][m]]])

-----------------------------------------------------------------------------
(* The look-ups of Grammar.                                                 *)

InKeeperKeys(name) ==
  \/ name \in DOMAIN notes.keeper
  \/ All \in DOMAIN notes.keeper /\ name \in notes.keeper[All]

KeyIsStr(parent, name) ==
  parent \in DOMAIN notes.strnodes /\ name \in notes.strnodes[parent]

IsTokenSavable(parent, name) ==
  \/ parent = <<Axiom>>
  \/ name = Parser!AxiomSymbol
  \/ parent \in DOMAIN notes.keeper /\ name \in notes.keeper[parent]

-----------------------------------------------------------------------------
(* parse.                                                                   *)

\* The final dot of the key of a token's rule is dropped.
ProcessNodeName(name) ==
  IF \E t \in Terminal : name = <<Dotted[t]>>
  THEN <<CHOOSE t \in Terminal : name = <<Dotted[t]>>>>
  ELSE name

NameOf(node) == ProcessNodeName(node.nodetype)

Text(places) == {<<<<>>, places>>}

Inside(step, data) == {<<<<step>> \o x[1], x[2]>> : x \in data}

NodeLabel(parent, part) ==
  IF parent \in DOMAIN notes.labels /\ NameOf(part) \in DOMAIN notes.labels[parent]
  THEN notes.labels[parent][NameOf(part)]
  ELSE NameOf(part)

\* A fault: what is stored as text is stored with its parts as well.
StoredBothWays(parent, part, below) ==
  IF ~ InKeeperKeys(NodeLabel(parent, part)) THEN {}
  ELSE (IF KeyIsStr(parent, NameOf(part)) THEN Text(StrUnfold[part]) ELSE {})
         \cup (IF IsTokenSavable(parent, NodeLabel(parent, part))
               THEN (IF part.kind = "token" THEN Text(part.parts) ELSE below)
               ELSE {})

\* What is put under the label of the part: its text, or what parse makes of the
\* branch below it, or nothing.
Stored(parent, part, below) ==
  CASE ~ InKeeperKeys(NodeLabel(parent, part)) -> {}
    [] InKeeperKeys(NodeLabel(parent, part)) /\ KeyIsStr(parent, NameOf(part)) ->
         Text(StrUnfold[part])
    [] OTHER ->
         IF ~ IsTokenSavable(parent, NodeLabel(parent, part)) THEN {}
         ELSE IF part.kind = "token" THEN Text(part.parts) ELSE below

\* parse of the branch with the given parts, parsed being what it makes of the
\* branches below them.  A part named AXIOM takes the place of all others.
ParseParts(parsed, parts, parent) ==
  LET axioms == {m \in DOMAIN parts : parts[m].nodetype = <<Axiom>>}
  IN  IF axioms # {}
      THEN parsed[parts[CHOOSE m \in axioms : \A o \in axioms : m <= o]]
      ELSE Text(<<>>) \cup
             UNION {Inside(<<NodeLabel(parent, parts[m]), m>>,
                           Stored(parent, parts[m], parsed[parts[m]])) : m \in DOMAIN parts}

Parsed[node \in Parser!Nodes] == ParseParts(Parsed, Below[node], NameOf(node))

\* The value process_source_to_ptree returns: nothing it is made of changes before
\* the next call.
Output ==
  IF answer = "tree" THEN ParseParts(Parsed, Unfold(tree, <<>>, Below[tree]), <<>>)
  ELSE Text(<<>>)

-----------------------------------------------------------------------------
(***************************************************************************)
(* What should be stored.  The children of a node are those of the rule as *)
(* the author wrote it: names that BIN made are read through.              *)
(***************************************************************************)

Children[node \in Parser!Nodes] ==
  IF node.kind = "token" THEN {}
  ELSE UNION {IF IsCompacted(child) THEN Children[child] ELSE {child} :
                child \in Range(node.parts)}

IsMarked(parent, name) ==
  \/ parent \in DOMAIN notes.keeper /\ name \in notes.keeper[parent]
  \/ parent \in DOMAIN notes.labels /\ name \in DOMAIN notes.labels[parent]

\* The tokens that are marked, in parts that are marked.
MarkedTokens[node \in Parser!Nodes] ==
  IF node.kind = "token" THEN Range(node.parts)
  ELSE UNION {MarkedTokens[child] :
                child \in {c \in Children[node] : IsMarked(NameOf(node), NameOf(c))}}

\* The places that the texts of a property tree come from.
Values(data) == UNION {Range(x[2]) : x \in data}

\* No rule has the axiom as an operand (as x=AXIOM would be).
AxiomIsNoOperand ==
  \A name \in DOMAIN raw : \A rule \in Alternatives(raw, name) :
    \A p \in DOMAIN rule : rule[p].value # <<Axiom>>

-----------------------------------------------------------------------------
(* Properties.                                                              *)

\* The property tree holds every token at most once and only tokens of the tree:
\* neither merging the parts of nested rules, nor labels that several operands
\* share, nor text kept beside structure repeats what was read.
SavedAtMostOnce ==
  answer = "tree" =>
    LET output == Output
    IN  /\ \A x \in output : IsInjective(x[2])
        /\ \A x, y \in output : x # y => Range(x[2]) \cap Range(y[2]) = {}
        /\ Values(output) \subseteq Range(Parser!Leaves[tree])

\* Whatever the author marked with !, a label or s:, inside parts that are marked,
\* is in the property tree, however get2nf has cut the rules.  (An operand AXIOM
\* would push out what stands beside it.)
MarkedIsSaved ==
  (answer = "tree" /\ AxiomIsNoOperand) => MarkedTokens[tree] \subseteq Values(Output)

=============================================================================
